-------------------------- MODULE GeoSearchProofs ---------------------------
(***************************************************************************)
(* Searches answer by geometry.  First the term scheme, for any alphabet   *)
(* and any number of levels: below the faces, a stored cell and a query    *)
(* cell have a string in common exactly when the cells meet.  A string     *)
(* says where a cell is, a prefix of it where a cell above is, and the     *)
(* star keeps the strings that mean "something below here" apart from the  *)
(* cells themselves.  Then the commands, for any coverings: they keep      *)
(* their promise about terms (GeoCommandsProofs), and two coverings      *)
(* share a term exactly when they meet.                                    *)
(***************************************************************************)
EXTENDS GeoLookup, GeoSearch, GeoCommandsProofs, SequenceTheorems

-----------------------------------------------------------------------------
(* Cells as strings.                                                       *)

Letters == Faces \cup Digits \cup {"/"}

Chars == Letters \cup {"*"}

LEMMA StarIsNoLetter == "*" \notin Letters
  BY CellAssumption DEF Letters

LEMMA PathIsString ==
  ASSUME NEW c \in CellIds
  PROVE  /\ c.face \in Faces /\ c.path \in Seq(Digits)
         /\ Level(c) \in 0..MaxLevel /\ Level(c) = Len(c.path)
<1>1. c.face \in Faces /\ c.path \in Paths
  BY DEF CellIds
<1>2. PICK level \in 0..MaxLevel : c.path \in [1..level -> Digits]
  BY <1>1 DEF Paths
<1>3. level \in Nat
  BY <1>2, CellAssumption
<1>4. c.path \in Seq(Digits) /\ Len(c.path) = level
  <2>1. c.path \in Seq(Digits)
    BY <1>2, <1>3, SeqDef
  <2> QED BY <1>2, <1>3, <2>1, LenProperties
<1> QED BY <1>1, <1>2, <1>4 DEF Level

\* The characters of a cell's string, one by one.
LEMMA CellString ==
  ASSUME NEW c \in CellIds
  PROVE  /\ ToString(c) \in Seq(Letters)
         /\ Len(ToString(c)) = Level(c) + 2
         /\ ToString(c)[1] = c.face /\ ToString(c)[2] = "/"
         /\ \A k \in 1..Level(c) : ToString(c)[k + 2] = c.path[k]
<1> DEFINE h == <<c.face, "/">>
<1>1. /\ c.face \in Letters /\ c.path \in Seq(Letters)
      /\ Level(c) \in Nat /\ Level(c) = Len(c.path)
  <2>1. Digits \subseteq Letters /\ c.face \in Letters
    BY PathIsString DEF Letters
  <2>2. Level(c) \in Nat
    BY PathIsString, CellAssumption
  <2> QED BY <2>1, <2>2, PathIsString, SeqMonotonic
<1>2. h \in Seq(Letters) /\ Len(h) = 2 /\ h[1] = c.face /\ h[2] = "/"
  BY <1>1 DEF Letters
<1> HIDE DEF h
<1>3. /\ h \o c.path \in Seq(Letters)
      /\ Len(h \o c.path) = 2 + Level(c)
      /\ \A k \in 1..2 + Level(c) :
           (h \o c.path)[k] = IF k <= 2 THEN h[k] ELSE c.path[k - 2]
  <2>1. /\ h \o c.path \in Seq(Letters)
        /\ Len(h \o c.path) = Len(h) + Len(c.path)
        /\ \A k \in 1..Len(h) + Len(c.path) :
             (h \o c.path)[k] = IF k <= Len(h) THEN h[k] ELSE c.path[k - Len(h)]
    BY <1>1, <1>2, ConcatProperties
  <2> QED BY <1>1, <1>2, <2>1
<1>4. ToString(c) = h \o c.path
  BY DEF ToString, h
<1>5. ASSUME NEW k \in 1..Level(c) PROVE ToString(c)[k + 2] = c.path[k]
  <2>1. k + 2 \in 1..2 + Level(c) /\ ~(k + 2 <= 2) /\ (k + 2) - 2 = k
    BY <1>1
  <2> QED BY <1>3, <1>4, <2>1
<1>6. 1 \in 1..2 + Level(c) /\ 2 \in 1..2 + Level(c)
  BY <1>1
<1> QED BY <1>1, <1>2, <1>3, <1>4, <1>5, <1>6

\* The first n characters of a string of letters.
LEMMA Prefix ==
  ASSUME NEW s \in Seq(Letters), NEW n \in 1..Len(s)
  PROVE  /\ SubSeq(s, 1, n) \in Seq(Letters)
         /\ Len(SubSeq(s, 1, n)) = n
         /\ \A k \in 1..n : SubSeq(s, 1, n)[k] = s[k]
<1>1. Len(s) \in Nat /\ n \in Nat /\ \A k \in 1..n : s[k] \in Letters
  BY LenProperties, ElementOfSeq
<1> QED BY <1>1, SubSeqProperties

\* A cell is above another when its string is a prefix of the other's.
LEMMA AboveIsPrefix ==
  ASSUME NEW a \in CellIds, NEW b \in CellIds
  PROVE  IsCellAbove(a, b) <=>
           /\ Level(a) <= Level(b)
           /\ ToString(a) = SubSeq(ToString(b), 1, Level(a) + 2)
<1>1. Level(a) \in Nat /\ Level(b) \in Nat
  BY PathIsString, CellAssumption
<1>2. ASSUME Level(a) <= Level(b)
      PROVE  /\ SubSeq(ToString(b), 1, Level(a) + 2) \in Seq(Letters)
             /\ Len(SubSeq(ToString(b), 1, Level(a) + 2)) = Level(a) + 2
             /\ \A k \in 1..Level(a) + 2 :
                  SubSeq(ToString(b), 1, Level(a) + 2)[k] = ToString(b)[k]
  <2>1. Level(a) + 2 \in 1..Len(ToString(b))
    BY <1>1, <1>2, CellString
  <2> QED BY <2>1, CellString, Prefix
<1>3. ASSUME IsCellAbove(a, b)
      PROVE  ToString(a) = SubSeq(ToString(b), 1, Level(a) + 2)
  <2>1. /\ a.face = b.face /\ Level(a) <= Level(b)
        /\ \A k \in 1..Level(a) : a.path[k] = b.path[k]
    BY <1>3 DEF IsCellAbove
  <2>2. ASSUME NEW k \in 1..Level(a) + 2
        PROVE  ToString(a)[k] = ToString(b)[k]
    <3>1. CASE k = 1 \/ k = 2
      BY <2>1, <3>1, CellString
    <3>2. CASE k > 2
      <4>1. k - 2 \in 1..Level(a) /\ k - 2 \in 1..Level(b) /\ (k - 2) + 2 = k
        BY <1>1, <2>1, <3>2
      <4>2. ToString(a)[(k - 2) + 2] = a.path[k - 2]
        BY <4>1, CellString
      <4>3. ToString(b)[(k - 2) + 2] = b.path[k - 2]
        BY <4>1, CellString
      <4> QED BY <2>1, <4>1, <4>2, <4>3
    <3> QED BY <1>1, <3>1, <3>2
  <2> QED BY <1>2, <2>1, <2>2, CellString, SeqEqual
<1>4. ASSUME Level(a) <= Level(b),
             ToString(a) = SubSeq(ToString(b), 1, Level(a) + 2)
      PROVE  IsCellAbove(a, b)
  <2>1. \A k \in 1..Level(a) + 2 : ToString(a)[k] = ToString(b)[k]
    BY <1>2, <1>4
  <2>2. a.face = b.face
    <3>1. 1 \in 1..Level(a) + 2
      BY <1>1
    <3> QED BY <2>1, <3>1, CellString
  <2>3. ASSUME NEW k \in 1..Level(a) PROVE a.path[k] = b.path[k]
    <3>1. k + 2 \in 1..Level(a) + 2 /\ k \in 1..Level(b)
      BY <1>1, <1>4
    <3> QED BY <2>1, <3>1, CellString
  <2> QED BY <1>4, <2>2, <2>3 DEF IsCellAbove
<1> QED BY <1>3, <1>4 DEF IsCellAbove

\* Two cells have the same string only when they are the same.
LEMMA StringTells ==
  ASSUME NEW a \in CellIds, NEW b \in CellIds, ToString(a) = ToString(b)
  PROVE  a = b
<1>1. Level(a) \in Nat /\ Level(b) \in Nat
  BY PathIsString, CellAssumption
<1>2. Level(a) = Level(b)
  BY <1>1, CellString
<1>3. a.face = b.face /\ \A k \in 1..Level(a) : a.path[k] = b.path[k]
  BY <1>2, CellString
<1>4. a.path = b.path
  BY <1>2, <1>3, PathIsString, SeqEqual
<1>5. a = [face |-> a.face, path |-> a.path] /\ b = [face |-> b.face, path |-> b.path]
  BY DEF CellIds
<1> QED BY <1>3, <1>4, <1>5

-----------------------------------------------------------------------------
(* Parents and stars.                                                      *)

\* The parent strings of a cell: that of the face, and for every level
\* between the face and the cell the string of the cell there.
LEMMA ParentString ==
  ASSUME NEW c \in CellIds, NEW u
  PROVE  u \in ParentStrings(ToString(c)) <=>
           \/ u = SubSeq(ToString(c), 1, 1)
           \/ \E level \in 1..(Level(c) - 1) : u = SubSeq(ToString(c), 1, level + 2)
<1>1. Level(c) \in Nat /\ Len(ToString(c)) = Level(c) + 2
  BY PathIsString, CellString, CellAssumption
<1>2. ASSUME NEW n \in 3..(Len(ToString(c)) - 1)
      PROVE  n - 2 \in 1..(Level(c) - 1) /\ (n - 2) + 2 = n
  BY <1>1
<1>3. ASSUME NEW level \in 1..(Level(c) - 1)
      PROVE  level + 2 \in 3..(Len(ToString(c)) - 1)
  BY <1>1
<1> QED BY <1>2, <1>3 DEF ParentStrings

LEMMA ParentsAreStrings ==
  ASSUME NEW c \in CellIds, NEW u \in ParentStrings(ToString(c))
  PROVE  u \in Seq(Letters)
<1>1. /\ ToString(c) \in Seq(Letters) /\ Level(c) \in Nat
      /\ Len(ToString(c)) = Level(c) + 2
  BY PathIsString, CellString, CellAssumption
<1>2. CASE u = SubSeq(ToString(c), 1, 1)
  <2>1. 1 \in 1..Len(ToString(c))
    BY <1>1
  <2> QED BY <1>1, <1>2, <2>1, Prefix
<1>3. ASSUME NEW level \in 1..(Level(c) - 1), u = SubSeq(ToString(c), 1, level + 2)
      PROVE  u \in Seq(Letters)
  <2>1. level + 2 \in 1..Len(ToString(c))
    BY <1>1
  <2> QED BY <1>1, <1>3, <2>1, Prefix
<1> QED BY <1>2, <1>3, ParentString

\* A starred string is none of letters, and says what was starred.
LEMMA Stars ==
  ASSUME NEW s \in Seq(Letters), NEW u \in Seq(Letters)
  PROVE  /\ Starred(s) # u
         /\ Starred(s) = Starred(u) => s = u
<1>1. s \in Seq(Chars) /\ u \in Seq(Chars) /\ "*" \in Chars
  BY SeqMonotonic DEF Chars
<1>2. Starred(s) = Starred(u) => s = u
  BY <1>1, AppendInjective DEF Starred
<1>3. ASSUME Starred(s) = u PROVE FALSE
  <2>1. Len(s) \in Nat /\ Len(Starred(s)) = Len(s) + 1 /\ Starred(s)[Len(s) + 1] = "*"
    BY <1>1, AppendProperties, LenProperties DEF Starred
  <2>2. Len(s) + 1 \in 1..Len(u)
    BY <1>3, <2>1
  <2>3. u[Len(s) + 1] \in Letters
    BY <2>2, ElementOfSeq
  <2> QED BY <1>3, <2>1, <2>3, StarIsNoLetter
<1> QED BY <1>2, <1>3

(* A cell's own string is among the parent strings of the cells below it,  *)
(* unless the cell is a face: no substring has the length of a face's      *)
(* string.                                                                 *)
LEMMA OwnAmongParents ==
  ASSUME NEW a \in CellIds, NEW b \in CellIds
  PROVE  ToString(a) \in ParentStrings(ToString(b)) <=>
           IsCellAbove(a, b) /\ 0 < Level(a) /\ Level(a) < Level(b)
<1>1. /\ Level(a) \in Nat /\ Level(b) \in Nat
      /\ Len(ToString(a)) = Level(a) + 2 /\ Len(ToString(b)) = Level(b) + 2
      /\ ToString(b) \in Seq(Letters)
  BY PathIsString, CellString, CellAssumption
<1>2. ASSUME ToString(a) = SubSeq(ToString(b), 1, 1)
      PROVE  FALSE
  <2>1. 1 \in 1..Len(ToString(b))
    BY <1>1
  <2>2. Len(SubSeq(ToString(b), 1, 1)) = 1
    BY <1>1, <2>1, Prefix
  <2> QED BY <1>1, <1>2, <2>2
<1>3. ASSUME NEW level \in 1..(Level(b) - 1),
             ToString(a) = SubSeq(ToString(b), 1, level + 2)
      PROVE  IsCellAbove(a, b) /\ 0 < Level(a) /\ Level(a) < Level(b)
  <2>1. level + 2 \in 1..Len(ToString(b))
    BY <1>1
  <2>2. Len(SubSeq(ToString(b), 1, level + 2)) = level + 2
    BY <1>1, <2>1, Prefix
  <2>3. level = Level(a) /\ Level(a) <= Level(b)
    BY <1>1, <1>3, <2>2
  <2> QED BY <1>1, <1>3, <2>3, AboveIsPrefix
<1>4. ASSUME IsCellAbove(a, b), 0 < Level(a), Level(a) < Level(b)
      PROVE  ToString(a) \in ParentStrings(ToString(b))
  <2>1. ToString(a) = SubSeq(ToString(b), 1, Level(a) + 2)
    BY <1>4, AboveIsPrefix
  <2>2. Level(a) \in 1..(Level(b) - 1)
    BY <1>1, <1>4
  <2> QED BY <2>1, <2>2, ParentString
<1> QED BY <1>2, <1>3, <1>4, ParentString

-----------------------------------------------------------------------------
(* The lookups: what two cells can have in common, and what that means.    *)

LEMMA CommonPolygonTerm ==
  ASSUME NEW a \in CellIds, NEW b \in CellIds
  PROVE  StoredTerms(a) \cap QueryTerms(b) # {} <=>
           \/ ToString(a) = ToString(b)
           \/ ToString(a) \in ParentStrings(ToString(b))
           \/ ToString(b) \in ParentStrings(ToString(a))
<1> DEFINE s == ToString(a)
           q == ToString(b)
<1>1. /\ s \in Seq(Letters) /\ q \in Seq(Letters)
      /\ \A u \in ParentStrings(s) : u \in Seq(Letters)
      /\ \A u \in ParentStrings(q) : u \in Seq(Letters)
  BY CellString, ParentsAreStrings
<1>2. \A x : x \in StoredTerms(a) <=>
        x = s \/ x = Starred(s) \/ \E u \in ParentStrings(s) : x = Starred(u)
  BY DEF StoredTerms
<1>3. \A x : x \in QueryTerms(b) <=>
        x = q \/ x = Starred(q) \/ x \in ParentStrings(q)
  BY DEF QueryTerms
<1> HIDE DEF s, q
<1>4. ASSUME s = q \/ s \in ParentStrings(q) \/ q \in ParentStrings(s)
      PROVE  StoredTerms(a) \cap QueryTerms(b) # {}
  BY <1>2, <1>3, <1>4
<1>5. ASSUME s # q, s \notin ParentStrings(q), q \notin ParentStrings(s),
             NEW x \in StoredTerms(a), x \in QueryTerms(b)
      PROVE  FALSE
  <2>1. CASE x = s
    BY <1>1, <1>3, <1>5, <2>1, Stars
  <2>2. CASE x = Starred(s)
    BY <1>1, <1>3, <1>5, <2>2, Stars
  <2>3. ASSUME NEW u \in ParentStrings(s), x = Starred(u)
        PROVE  FALSE
    BY <1>1, <1>3, <1>5, <2>3, Stars
  <2> QED BY <1>2, <1>5, <2>1, <2>2, <2>3
<1> QED BY <1>4, <1>5 DEF s, q

LEMMA CommonPointTerm ==
  ASSUME NEW a \in CellIds, NEW b \in CellIds
  PROVE  StoredTerms(a) \cap PointTerms(b) # {} <=>
           \/ ToString(a) = ToString(b)
           \/ ToString(a) \in ParentStrings(ToString(b))
<1> DEFINE s == ToString(a)
           q == ToString(b)
<1>1. /\ s \in Seq(Letters) /\ q \in Seq(Letters)
      /\ \A u \in ParentStrings(s) : u \in Seq(Letters)
      /\ \A u \in ParentStrings(q) : u \in Seq(Letters)
  BY CellString, ParentsAreStrings
<1>2. \A x : x \in StoredTerms(a) <=>
        x = s \/ x = Starred(s) \/ \E u \in ParentStrings(s) : x = Starred(u)
  BY DEF StoredTerms
<1>3. \A x : x \in PointTerms(b) <=> x = q \/ x \in ParentStrings(q)
  BY DEF PointTerms
<1> HIDE DEF s, q
<1>4. ASSUME NEW x \in StoredTerms(a), x \in PointTerms(b)
      PROVE  x = s
  BY <1>1, <1>2, <1>3, <1>4, Stars
<1> QED BY <1>2, <1>3, <1>4 DEF s, q

LEMMA AboveItself ==
  ASSUME NEW a \in CellIds, NEW b \in CellIds
  PROVE  /\ IsCellAbove(a, a) /\ Level(a) \in 0..MaxLevel /\ Level(a) \in Nat
         /\ IsCellAbove(a, b) => Level(a) <= Level(b)
         /\ IsCellAbove(a, b) /\ Level(a) = Level(b) => a = b
         /\ ToString(a) = ToString(b) <=> a = b
<1>1. Level(a) \in 0..MaxLevel /\ Level(a) \in Nat /\ Level(b) \in Nat
  BY PathIsString, CellAssumption
<1>2. IsCellAbove(a, a) /\ (IsCellAbove(a, b) => Level(a) <= Level(b))
  BY <1>1 DEF IsCellAbove
<1>3. ASSUME IsCellAbove(a, b), Level(a) = Level(b) PROVE a = b
  <2>1. ToString(a) = SubSeq(ToString(b), 1, Len(ToString(b)))
    BY <1>3, AboveIsPrefix, CellString
  <2>2. ToString(a) = ToString(b)
    BY <2>1, CellString, SubSeqFull
  <2> QED BY <2>2, StringTells
<1> QED BY <1>1, <1>2, <1>3, StringTells

\* A polygon's stored cell against a polygon query's cell.
LEMMA PolygonTermsExact ==
  ASSUME NEW a \in CellIds, NEW b \in CellIds
  PROVE  StoredTerms(a) \cap QueryTerms(b) # {} <=>
           a = b \/ (0 < Level(a) /\ 0 < Level(b) /\ CellsMeet(a, b))
<1>1. StoredTerms(a) \cap QueryTerms(b) # {} <=>
        \/ a = b
        \/ IsCellAbove(a, b) /\ 0 < Level(a) /\ Level(a) < Level(b)
        \/ IsCellAbove(b, a) /\ 0 < Level(b) /\ Level(b) < Level(a)
  BY CommonPolygonTerm, OwnAmongParents, AboveItself
<1>2. /\ Level(a) \in Nat /\ Level(b) \in Nat
      /\ IsCellAbove(a, b) => Level(a) < Level(b) \/ a = b
      /\ IsCellAbove(b, a) => Level(b) < Level(a) \/ a = b
  <2>1. Level(a) \in Nat /\ Level(b) \in Nat
    BY AboveItself
  <2>2. IsCellAbove(a, b) => Level(a) <= Level(b) /\ (Level(a) = Level(b) => a = b)
    BY AboveItself
  <2>3. IsCellAbove(b, a) => Level(b) <= Level(a) /\ (Level(b) = Level(a) => a = b)
    BY AboveItself
  <2> QED BY <2>1, <2>2, <2>3
<1> QED BY <1>1, <1>2 DEF CellsMeet

\* A polygon's stored cell against a point's leaf cell.
LEMMA PointTermsExact ==
  ASSUME NEW a \in CellIds, NEW b \in CellIds, Level(b) = MaxLevel
  PROVE  StoredTerms(a) \cap PointTerms(b) # {} <=> 0 < Level(a) /\ IsCellAbove(a, b)
<1>1. StoredTerms(a) \cap PointTerms(b) # {} <=>
        a = b \/ (IsCellAbove(a, b) /\ 0 < Level(a) /\ Level(a) < Level(b))
  BY CommonPointTerm, OwnAmongParents, AboveItself
<1>2. /\ Level(a) \in Nat /\ Level(b) \in Nat /\ Level(b) > 0
      /\ IsCellAbove(b, b)
      /\ IsCellAbove(a, b) => Level(a) < Level(b) \/ a = b
  <2>1. Level(a) \in Nat /\ Level(b) \in Nat /\ Level(b) > 0 /\ IsCellAbove(b, b)
    BY AboveItself, CellAssumption
  <2>2. IsCellAbove(a, b) => Level(a) <= Level(b) /\ (Level(a) = Level(b) => a = b)
    BY AboveItself
  <2> QED BY <2>1, <2>2
<1> QED BY <1>1, <1>2

LEMMA AlwaysCells ==
  LookupSpec => [](stored \in CellIds /\ query \in CellIds)
<1> DEFINE Inv == stored \in CellIds /\ query \in CellIds
<1>1. LookupInit => Inv
  BY DEF LookupInit
<1>2. Inv /\ [LookupNext]_<<stored, query>> => Inv'
  BY DEF LookupNext
<1> QED BY <1>1, <1>2, PTL DEF LookupSpec

(* A polygon query finds a stored cell exactly when the cells meet,        *)
(* however many levels, faces and children there are: the substring loops  *)
(* of IndexPolygon and IndexPolygonForOverlapTest have neither a length    *)
(* too many nor one too few.                                               *)
THEOREM PolygonLookupsExact == LookupSpec => []PolygonLookupExact
<1>1. stored \in CellIds /\ query \in CellIds => PolygonLookupExact
  BY PolygonTermsExact, AboveItself DEF PolygonLookupExact, Hit, CellsMeet
<1> QED BY <1>1, AlwaysCells, PTL

(* A point query finds a stored cell exactly when the point lies in it.    *)
THEOREM PointLookupsExact == LookupSpec => []PointLookupExact
<1>1. stored \in CellIds /\ query \in CellIds => PointLookupExact
  BY PointTermsExact DEF PointLookupExact, HitByPoint
<1> QED BY <1>1, AlwaysCells, PTL

(* A face is found by itself alone, as a polygon's cell and as a query's:  *)
(* this is how far what is missed at the faces goes.                       *)
THEOREM FacesMeetNoOthers == LookupSpec => []FacesMeetOnlyThemselves
<1>1. stored \in CellIds /\ query \in CellIds => FacesMeetOnlyThemselves
  <2> SUFFICES ASSUME stored \in CellIds, query \in CellIds
               PROVE  FacesMeetOnlyThemselves
    OBVIOUS
  <2>1. Level(stored) = 0 \/ Level(query) = 0 => (Hit <=> stored = query)
    BY PolygonTermsExact DEF Hit
  <2>2. Level(stored) = 0 /\ Level(query) = MaxLevel => ~HitByPoint
    BY PointTermsExact DEF HitByPoint
  <2> QED BY <2>1, <2>2 DEF FacesMeetOnlyThemselves
<1> QED BY <1>1, AlwaysCells, PTL

-----------------------------------------------------------------------------
(* The commands and the terms together.                                    *)

\* No covering holds a cube face whole.
NoWholeFaces == \A b \in ValidBodies : \A c \in Covering[b] : Level(c) > 0

-----------------------------------------------------------------------------
(* What the promise calls overlap, said of terms and said of cells.        *)

LEMMA CoveringCells ==
  ASSUME NEW b \in ValidBodies
  PROVE  /\ Covering[b] \subseteq CellIds
         /\ IndexPolygon[b] = PolygonTerms(Covering[b])
         /\ IndexPolygonForOverlapTest[b] = OverlapTestTerms(Covering[b])
  BY CoveringAssumption DEF IsCovering

LEMMA PointCell ==
  ASSUME NEW pt \in ValidPoints
  PROVE  /\ LeafOf[pt] \in CellIds /\ Level(LeafOf[pt]) = MaxLevel
         /\ IndexPoint[pt] = PointTerms(LeafOf[pt])
  BY CoveringAssumption DEF LeafIds

\* A body is refused for its terms when it is refused for its covering.
LEMMA SameBodiesAccepted == Storable = Covered /\ Queryable = Covered
<1>1. ASSUME NEW c PROVE StoredTerms(c) # {} /\ QueryTerms(c) # {}
  BY DEF StoredTerms, QueryTerms
<1>2. ASSUME NEW b \in ValidBodies
      PROVE  /\ IndexPolygon[b] # {} <=> Covering[b] # {}
             /\ IndexPolygonForOverlapTest[b] # {} <=> Covering[b] # {}
  BY <1>1, CoveringCells DEF PolygonTerms, OverlapTestTerms
<1> QED BY <1>2 DEF Storable, Queryable, Covered

LEMMA SameOverlaps ==
  ASSUME NoWholeFaces
  PROVE  TermOverlaps = CoverOverlaps
<1>1. ASSUME NEW a \in Covered, NEW b \in Covered
      PROVE  IndexPolygon[a] \cap IndexPolygonForOverlapTest[b] # {} <=>
               CoveringsMeet(Covering[a], Covering[b])
  <2>1. a \in ValidBodies /\ b \in ValidBodies
    BY DEF Covered
  <2>2. ASSUME NEW c \in Covering[a], NEW e \in Covering[b]
        PROVE  StoredTerms(c) \cap QueryTerms(e) # {} <=> CellsMeet(c, e)
    <3>1. c \in CellIds /\ e \in CellIds
      BY <2>1, CoveringCells
    <3>2. 0 < Level(c) /\ 0 < Level(e)
      <4>1. Level(c) > 0 /\ Level(e) > 0 /\ Level(c) \in Nat /\ Level(e) \in Nat
        BY <2>1, <3>1, AboveItself DEF NoWholeFaces
      <4> QED BY <4>1
    <3>3. c = e => CellsMeet(c, e)
      BY <3>1, AboveItself DEF CellsMeet
    <3> QED BY <3>1, <3>2, <3>3, PolygonTermsExact
  <2>3. IndexPolygon[a] \cap IndexPolygonForOverlapTest[b] # {} <=>
          \E c \in Covering[a], e \in Covering[b] : StoredTerms(c) \cap QueryTerms(e) # {}
    BY <2>1, CoveringCells DEF PolygonTerms, OverlapTestTerms
  <2> QED BY <2>2, <2>3 DEF CoveringsMeet
<1> QED BY <1>1, SameBodiesAccepted DEF TermOverlaps, CoverOverlaps

LEMMA SameEncloses ==
  ASSUME NoWholeFaces
  PROVE  TermEncloses = CoverEncloses
<1>1. ASSUME NEW a \in Covered, NEW pt \in ValidPoints
      PROVE  IndexPolygon[a] \cap IndexPoint[pt] # {} <=>
               \E c \in Covering[a] : IsCellAbove(c, LeafOf[pt])
  <2>1. a \in ValidBodies
    BY DEF Covered
  <2>2. ASSUME NEW c \in Covering[a]
        PROVE  StoredTerms(c) \cap PointTerms(LeafOf[pt]) # {} <=> IsCellAbove(c, LeafOf[pt])
    <3>1. c \in CellIds /\ Level(c) > 0 /\ Level(c) \in Nat
      BY <2>1, CoveringCells, AboveItself DEF NoWholeFaces
    <3>2. LeafOf[pt] \in CellIds /\ Level(LeafOf[pt]) = MaxLevel
      BY PointCell
    <3>3. 0 < Level(c)
      BY <3>1
    <3> QED BY <3>1, <3>2, <3>3, PointTermsExact
  <2>3. IndexPolygon[a] \cap IndexPoint[pt] # {} <=>
          \E c \in Covering[a] : StoredTerms(c) \cap PointTerms(LeafOf[pt]) # {}
    BY <2>1, CoveringCells, PointCell DEF PolygonTerms
  <2> QED BY <2>2, <2>3
<1> QED BY <1>1, SameBodiesAccepted DEF TermEncloses, CoverEncloses

-----------------------------------------------------------------------------
(* The promise about terms is the promise about cells.                     *)

LEMMA SameAnswers ==
  ASSUME NEW cmd, NEW args, NEW out
  PROVE  /\ Promise!Answer(cmd, args, out) => GeoPromise!Answer(cmd, args, out)
         /\ Promise!Read(cmd, args, out) => GeoPromise!Read(cmd, args, out)
  BY DEF Promise!Answer, GeoPromise!Answer, Promise!Read, GeoPromise!Read,
         Promise!Unchanged, GeoPromise!Unchanged, PromisedReply, PromisedOutcome, Existing

LEMMA SameNames ==
  /\ GeoPromise!Free = Promise!Free /\ GeoPromise!NameLists = Promise!NameLists
  /\ GeoPromise!Commands = Promise!Commands /\ GeoPromise!NoPolygons = Promise!NoPolygons
  /\ Existing = {i \in Indexes : IsIndex(db, i)}
  /\ \A i, p : GeoPromise!Lookup(i, p) = Promise!Lookup(i, p)
  BY DEF GeoPromise!Free, Promise!Free, GeoPromise!NameLists, Promise!NameLists,
         GeoPromise!Commands, Promise!Commands, GeoPromise!NoPolygons,
         Promise!NoPolygons, Existing, GeoPromise!Lookup, Promise!Lookup

LEMMA SameReads ==
  ASSUME NoWholeFaces, NEW i
  PROVE  /\ GeoPromise!GetIndexOutcome(i) = Promise!GetIndexOutcome(i)
         /\ GeoPromise!ListOutcome(i) = Promise!ListOutcome(i)
         /\ \A p : GeoPromise!GetPolygonOutcome(i, p) = Promise!GetPolygonOutcome(i, p)
         /\ \A ps : GeoPromise!GetPolygonsOutcome(i, ps) = Promise!GetPolygonsOutcome(i, ps)
         /\ \A b : GeoPromise!SearchPolygonOutcome(i, b) = Promise!SearchPolygonOutcome(i, b)
         /\ \A pt : GeoPromise!SearchPointOutcome(i, pt) = Promise!SearchPointOutcome(i, pt)
<1>1. GeoPromise!GetIndexOutcome(i) = Promise!GetIndexOutcome(i)
  BY SameNames DEF GeoPromise!GetIndexOutcome, Promise!GetIndexOutcome
<1>2. GeoPromise!ListOutcome(i) = Promise!ListOutcome(i)
  BY SameNames DEF GeoPromise!ListOutcome, Promise!ListOutcome
<1>3. \A p : GeoPromise!GetPolygonOutcome(i, p) = Promise!GetPolygonOutcome(i, p)
  BY SameNames DEF GeoPromise!GetPolygonOutcome, Promise!GetPolygonOutcome
<1>4. ASSUME NEW ps
      PROVE  GeoPromise!GetPolygonsOutcome(i, ps) = Promise!GetPolygonsOutcome(i, ps)
  BY SameNames DEF GeoPromise!GetPolygonsOutcome, Promise!GetPolygonsOutcome
<1>5. \A b : GeoPromise!SearchPolygonOutcome(i, b) = Promise!SearchPolygonOutcome(i, b)
  BY SameNames, SameBodiesAccepted, SameOverlaps
     DEF GeoPromise!SearchPolygonOutcome, Promise!SearchPolygonOutcome
<1>6. \A pt : GeoPromise!SearchPointOutcome(i, pt) = Promise!SearchPointOutcome(i, pt)
  BY SameNames, SameEncloses DEF GeoPromise!SearchPointOutcome, Promise!SearchPointOutcome
<1> QED BY <1>1, <1>2, <1>3, <1>4, <1>5, <1>6

LEMMA SameWrites ==
  ASSUME NEW i, NEW p, NEW b
  PROVE  /\ Promise!CreateIndex(i) => GeoPromise!CreateIndex(i)
         /\ Promise!DropIndex(i) => GeoPromise!DropIndex(i)
         /\ Promise!SetPolygon(i, p, b) => GeoPromise!SetPolygon(i, p, b)
         /\ Promise!DropPolygon(i, p) => GeoPromise!DropPolygon(i, p)
<1>1. Promise!Unchanged => GeoPromise!Unchanged
  BY DEF Promise!Unchanged, GeoPromise!Unchanged, Existing
<1>2. Existing' = {j \in Indexes : IsIndex(db, j)}'
  BY DEF Existing
<1>3. Promise!CreateIndex(i) => GeoPromise!CreateIndex(i)
  BY <1>1, <1>2, SameNames, SameAnswers DEF Promise!CreateIndex, GeoPromise!CreateIndex
<1>4. Promise!DropIndex(i) => GeoPromise!DropIndex(i)
  BY <1>1, <1>2, SameNames, SameAnswers DEF Promise!DropIndex, GeoPromise!DropIndex
<1>5. Promise!SetPolygon(i, p, b) => GeoPromise!SetPolygon(i, p, b)
  BY <1>1, <1>2, SameNames, SameAnswers, SameBodiesAccepted
     DEF Promise!SetPolygon, GeoPromise!SetPolygon
<1>6. Promise!DropPolygon(i, p) => GeoPromise!DropPolygon(i, p)
  BY <1>1, <1>2, SameNames, SameAnswers DEF Promise!DropPolygon, GeoPromise!DropPolygon
<1> QED BY <1>3, <1>4, <1>5, <1>6

LEMMA SameCommand ==
  ASSUME NoWholeFaces, Promise!Command
  PROVE  GeoPromise!Command
<1>1. CASE Promise!WrongArity
  BY <1>1, SameNames, SameAnswers
     DEF Promise!WrongArity, GeoPromise!WrongArity, GeoPromise!Command
<1>2. ASSUME NEW i \in Indexes \cup BadNames,
             \/ Promise!CreateIndex(i)
             \/ Promise!DropIndex(i)
             \/ Promise!Read("IGET", <<i>>, Promise!GetIndexOutcome(i))
             \/ Promise!Read("POLYLIST", <<i>>, Promise!ListOutcome(i))
      PROVE  GeoPromise!Command
  BY <1>2, SameWrites, SameReads, SameAnswers DEF GeoPromise!Command
<1>3. ASSUME NEW i \in Indexes \cup BadNames,
             \/ \E b \in Bodies :
                  Promise!Read("POLYSEARCH", <<i, b>>, Promise!SearchPolygonOutcome(i, b))
             \/ \E pt \in Points :
                  Promise!Read("POINTSEARCH", <<i, pt>>, Promise!SearchPointOutcome(i, pt))
      PROVE  GeoPromise!Command
  BY <1>3, SameReads, SameAnswers DEF GeoPromise!Command
<1>4. ASSUME NEW i \in Indexes \cup BadNames, NEW p \in Polygons \cup BadNames,
             \/ Promise!DropPolygon(i, p)
             \/ Promise!Read("POLYGET", <<i, p>>, Promise!GetPolygonOutcome(i, p))
             \/ \E b \in Bodies : Promise!SetPolygon(i, p, b)
      PROVE  GeoPromise!Command
  BY <1>4, SameWrites, SameReads, SameAnswers DEF GeoPromise!Command
<1>5. ASSUME NEW i \in Indexes \cup BadNames, NEW ps \in Promise!NameLists,
             Promise!Read("POLYMGET", <<i, ps>>, Promise!GetPolygonsOutcome(i, ps))
      PROVE  GeoPromise!Command
  BY <1>5, SameNames, SameReads, SameAnswers DEF GeoPromise!Command
<1> QED BY <1>1, <1>2, <1>3, <1>4, <1>5 DEF Promise!Command

(* As long as no covering holds a cube face whole, searches answer by the  *)
(* cells of the present bodies, whatever the coverings, names and bodies   *)
(* are and whatever was stored, replaced and deleted before.               *)
THEOREM GeometryDecides ==
  ASSUME DistinctCStrings, NoWholeFaces
  PROVE  Spec => AnswersByGeometry
<1>1. Promise!Init => GeoPromise!Init
  BY SameNames DEF Promise!Init, GeoPromise!Init, PromisedReply, PromisedOutcome
<1>2. [Promise!Next]_(Promise!vars) => [GeoPromise!Next]_(GeoPromise!vars)
  <2>1. ASSUME Promise!Next PROVE GeoPromise!Next
    BY <2>1, SameCommand DEF Promise!Next, GeoPromise!Next
  <2>2. ASSUME UNCHANGED Promise!vars PROVE UNCHANGED GeoPromise!vars
    BY <2>2 DEF Promise!vars, GeoPromise!vars, PromisedReply, PromisedOutcome, Existing
  <2> QED BY <2>1, <2>2
<1>3. Spec => Promise!Spec
  BY PromiseKept DEF KeepsPromise
<1> QED BY <1>1, <1>2, <1>3, PTL DEF AnswersByGeometry, Promise!Spec, GeoPromise!Spec
=============================================================================
