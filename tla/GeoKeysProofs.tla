--------------------------- MODULE GeoKeysProofs ----------------------------
(***************************************************************************)
(* Names of any length over any alphabet: no two meanings share a key.     *)
(* All rests on one fact about strings: what stands before the first       *)
(* delimiter of a string is determined by the string.                      *)
(***************************************************************************)
EXTENDS GeoKeys, SequenceTheorems, WellFoundedInduction, TLAPS

-----------------------------------------------------------------------------
(* C strings.                                                              *)

(* A set of numbers that has a member has a smallest one.                  *)
LEMMA SmallestExists ==
  ASSUME NEW T \in SUBSET Nat, T # {}
  PROVE  \E m \in T : \A k \in T : m <= k
<1>1. \E m \in T : \A k \in T : <<k, m>> \notin OpToRel(<, Nat)
  BY NatLessThanWellFounded, WFMin, Zenon
<1>2. PICK m \in T : \A k \in T : <<k, m>> \notin OpToRel(<, Nat)
  BY <1>1
<1>3. \A k \in T : ~(k < m)
  BY <1>2 DEF OpToRel
<1> QED
  BY <1>3

(* The C string of a name is a string over the same alphabet.              *)
LEMMA CStringIsString ==
  ASSUME NEW s \in Seq(Chars)
  PROVE  CString(s) \in Seq(Chars)
<1>1. CASE NulsIn(s) = {}
  BY <1>1 DEF CString
<1>2. CASE NulsIn(s) # {}
  <2> DEFINE First(m) == \A k \in NulsIn(s) : m <= k
  <2>1. NulsIn(s) \in SUBSET Nat
    BY DEF NulsIn
  <2>2. \E m \in NulsIn(s) : First(m)
    BY <1>2, <2>1, SmallestExists
  <2>3. PICK n \in NulsIn(s) : n = CHOOSE m \in NulsIn(s) : First(m)
    BY <2>2
  <2>4. n \in 1..Len(s)
    BY <2>3 DEF NulsIn
  <2>5. SubSeq(s, 1, n - 1) \in Seq(Chars)
    BY <2>4, SubSeqProperties, LenProperties, ElementOfSeq
  <2> QED
    BY <1>2, <2>3, <2>5 DEF CString
<1> QED
  BY <1>1, <1>2

-----------------------------------------------------------------------------
(* Strings with a delimiter.                                               *)

(* The delimiter as a string.                                              *)
LEMMA DelimIsString ==
  Delim \in Seq(Chars) /\ Len(Delim) = 1 /\ Delim[1] = ENTITY_DELIM
BY CharsAssumption DEF Delim

(* The characters of u, of the delimiter behind it, and of what follows.   *)
LEMMA CharactersOfJoin ==
  ASSUME NEW u \in Seq(Chars), NEW a \in Seq(Chars)
  PROVE  /\ (u \o Delim) \o a \in Seq(Chars)
         /\ Len((u \o Delim) \o a) = Len(u) + 1 + Len(a)
         /\ \A k \in 1..Len(u) : ((u \o Delim) \o a)[k] = u[k]
         /\ ((u \o Delim) \o a)[Len(u) + 1] = ENTITY_DELIM
         /\ \A k \in 1..Len(a) : ((u \o Delim) \o a)[Len(u) + 1 + k] = a[k]
<1>1. /\ u \o Delim \in Seq(Chars)
      /\ Len(u \o Delim) = Len(u) + 1
      /\ \A k \in 1..Len(u) + 1 :
           (u \o Delim)[k] = IF k <= Len(u) THEN u[k] ELSE Delim[k - Len(u)]
  <2>1. /\ u \o Delim \in Seq(Chars)
        /\ Len(u \o Delim) = Len(u) + Len(Delim)
        /\ \A k \in 1..Len(u) + Len(Delim) :
             (u \o Delim)[k] = IF k <= Len(u) THEN u[k] ELSE Delim[k - Len(u)]
    BY DelimIsString, ConcatProperties
  <2> QED
    BY <2>1, DelimIsString
<1>2. /\ (u \o Delim) \o a \in Seq(Chars)
      /\ Len((u \o Delim) \o a) = Len(u) + 1 + Len(a)
      /\ \A k \in 1..Len(u) + 1 + Len(a) :
           ((u \o Delim) \o a)[k] =
             IF k <= Len(u) + 1 THEN (u \o Delim)[k] ELSE a[k - (Len(u) + 1)]
  BY <1>1, ConcatProperties
<1>3. Len(u) \in Nat /\ Len(a) \in Nat
  BY LenProperties
<1>4. ASSUME NEW k \in 1..Len(u) PROVE ((u \o Delim) \o a)[k] = u[k]
  BY <1>1, <1>2, <1>3
<1>5. ((u \o Delim) \o a)[Len(u) + 1] = ENTITY_DELIM
  BY <1>1, <1>2, <1>3, DelimIsString
<1>6. ASSUME NEW k \in 1..Len(a) PROVE ((u \o Delim) \o a)[Len(u) + 1 + k] = a[k]
  <2>1. Len(u) + 1 + k \in 1..Len(u) + 1 + Len(a) /\ ~(Len(u) + 1 + k <= Len(u) + 1)
    BY <1>3
  <2>2. (Len(u) + 1 + k) - (Len(u) + 1) = k
    BY <1>3
  <2> QED
    BY <1>2, <2>1, <2>2
<1> QED
  BY <1>2, <1>4, <1>5, <1>6

(* If u and v hold no delimiter, a string that begins with v and a         *)
(* delimiter does not begin with u and a delimiter unless u is v.          *)
LEMMA FirstDelimiter ==
  ASSUME NEW u \in Seq(Chars), NEW v \in Seq(Chars), NEW a \in Seq(Chars),
         ~Holds(u, ENTITY_DELIM), ~Holds(v, ENTITY_DELIM),
         Len(v) + 1 <= Len((u \o Delim) \o a),
         \A k \in 1..Len(v) : ((u \o Delim) \o a)[k] = v[k],
         ((u \o Delim) \o a)[Len(v) + 1] = ENTITY_DELIM
  PROVE  u = v
<1> DEFINE w == (u \o Delim) \o a
<1>1. /\ \A k \in 1..Len(u) : w[k] = u[k]
      /\ w[Len(u) + 1] = ENTITY_DELIM
  BY CharactersOfJoin
<1>2. Len(u) \in Nat /\ Len(v) \in Nat
  BY LenProperties
<1>3. ~(Len(v) < Len(u))
  <2> SUFFICES ASSUME Len(v) < Len(u) PROVE FALSE
    OBVIOUS
  <2>1. Len(v) + 1 \in 1..Len(u)
    BY <1>2
  <2>2. u[Len(v) + 1] = ENTITY_DELIM
    BY <1>1, <2>1
  <2> QED
    BY <2>1, <2>2 DEF Holds
<1>4. ~(Len(u) < Len(v))
  <2> SUFFICES ASSUME Len(u) < Len(v) PROVE FALSE
    OBVIOUS
  <2>1. Len(u) + 1 \in 1..Len(v)
    BY <1>2
  <2>2. v[Len(u) + 1] = ENTITY_DELIM
    BY <1>1, <2>1
  <2> QED
    BY <2>1, <2>2 DEF Holds
<1>5. Len(u) = Len(v)
  BY <1>2, <1>3, <1>4
<1>6. \A k \in 1..Len(u) : u[k] = v[k]
  BY <1>1, <1>5
<1> QED
  BY <1>5, <1>6, SeqEqual

(* A string falls apart at its first delimiter in one way only.            *)
LEMMA SplitIsUnique ==
  ASSUME NEW u \in Seq(Chars), NEW v \in Seq(Chars),
         NEW a \in Seq(Chars), NEW b \in Seq(Chars),
         ~Holds(u, ENTITY_DELIM), ~Holds(v, ENTITY_DELIM),
         (u \o Delim) \o a = (v \o Delim) \o b
  PROVE  u = v /\ a = b
<1>0. /\ Len((v \o Delim) \o b) = Len(v) + 1 + Len(b)
      /\ \A k \in 1..Len(v) : ((v \o Delim) \o b)[k] = v[k]
      /\ ((v \o Delim) \o b)[Len(v) + 1] = ENTITY_DELIM
      /\ \A k \in 1..Len(b) : ((v \o Delim) \o b)[Len(v) + 1 + k] = b[k]
  BY CharactersOfJoin
<1>1. /\ Len((u \o Delim) \o a) = Len(v) + 1 + Len(b)
      /\ \A k \in 1..Len(v) : ((u \o Delim) \o a)[k] = v[k]
      /\ ((u \o Delim) \o a)[Len(v) + 1] = ENTITY_DELIM
      /\ \A k \in 1..Len(b) : ((u \o Delim) \o a)[Len(v) + 1 + k] = b[k]
  BY <1>0, Zenon
<1>2. Len(v) \in Nat /\ Len(a) \in Nat /\ Len(b) \in Nat
  BY LenProperties
<1>3. Len(v) + 1 <= Len((u \o Delim) \o a)
  BY <1>1, <1>2
<1>4. u = v
  BY <1>1, <1>3, FirstDelimiter
<1>5. /\ Len((u \o Delim) \o a) = Len(u) + 1 + Len(a)
      /\ \A k \in 1..Len(a) : ((u \o Delim) \o a)[Len(u) + 1 + k] = a[k]
  BY CharactersOfJoin
<1>6. Len(a) = Len(b)
  BY <1>1, <1>2, <1>4, <1>5
<1>7. \A k \in 1..Len(a) : a[k] = b[k]
  BY <1>1, <1>4, <1>5, <1>6
<1>8. a = b
  BY <1>6, <1>7, SeqEqual
<1> QED
  BY <1>4, <1>8

-----------------------------------------------------------------------------
(* Keys.                                                                   *)

(* The families and what tells them apart.                                 *)
LEMMA SuffixFacts ==
  ASSUME NEW f \in Families
  PROVE  /\ Suffix(f) \in Seq(Chars)
         /\ ~Holds(Suffix(f), ENTITY_DELIM)
         /\ \A g \in Families : Suffix(f) = Suffix(g) /\ (Named(f) <=> Named(g)) => f = g
<1>1. Suffix(f) \in Suffixes
  BY DEF Families, Suffix, Suffixes
<1>2. Suffix(f) \in Seq(Chars \ {ENTITY_DELIM, Nul})
  BY <1>1, SuffixAssumption
<1>3. Suffix(f) \in Seq(Chars)
  BY <1>2, SeqMonotonic
<1>4. ~Holds(Suffix(f), ENTITY_DELIM)
  BY <1>2, ElementOfSeq DEF Holds
<1>5. \A g \in Families : Suffix(f) = Suffix(g) /\ (Named(f) <=> Named(g)) => f = g
  BY SuffixAssumption DEF Families, Suffix, Named
<1> QED
  BY <1>3, <1>4, <1>5

\* What follows the index and its delimiter in a key.
Rest(r) ==
  IF Named(r.family) THEN (Suffix(r.family) \o Delim) \o CString(r.name) ELSE Suffix(r.family)

(* A key is the C string of its index, a delimiter and the rest.           *)
LEMMA KeyParts ==
  ASSUME NEW r \in References
  PROVE  /\ r.family \in Families
         /\ CString(r.index) \in Seq(Chars) /\ ~Holds(CString(r.index), ENTITY_DELIM)
         /\ Named(r.family) => CString(r.name) \in Seq(Chars)
         /\ Rest(r) \in Seq(Chars)
         /\ Key(r) = (CString(r.index) \o Delim) \o Rest(r)
<1>1. r.family \in Families /\ r.index \in ValidNames /\ (Named(r.family) => r.name \in ValidNames)
  BY DEF References, Families, Named
<1>2. CString(r.index) \in Seq(Chars) /\ ~Holds(CString(r.index), ENTITY_DELIM)
  BY <1>1, NamesAssumption, CStringIsString DEF ValidNames, ValidateEntityName
<1>3. Named(r.family) => CString(r.name) \in Seq(Chars)
  BY <1>1, NamesAssumption, CStringIsString DEF ValidNames
<1>4. Suffix(r.family) \in Seq(Chars)
  BY <1>1, SuffixFacts
<1>5. CString(r.index) \o Delim \in Seq(Chars) /\ Suffix(r.family) \o Delim \in Seq(Chars)
  BY <1>2, <1>4, DelimIsString, ConcatProperties
<1>6. CASE ~Named(r.family)
  BY <1>1, <1>2, <1>4, <1>6 DEF Rest, Key
<1>7. CASE Named(r.family)
  <2> DEFINE c == CString(r.index) \o Delim
             f == Suffix(r.family)
             n == CString(r.name)
  <2>1. n \in Seq(Chars) /\ c \in Seq(Chars) /\ f \in Seq(Chars) /\ Delim \in Seq(Chars)
    BY <1>3, <1>4, <1>5, <1>7, DelimIsString
  <2>2. Key(r) = ((c \o f) \o Delim) \o n /\ Rest(r) = (f \o Delim) \o n
    BY <1>7 DEF Key, Rest
  <2> HIDE DEF c, f, n
  <2>3. f \o Delim \in Seq(Chars)
    BY <2>1, ConcatProperties
  <2>4. (c \o f) \o Delim = c \o (f \o Delim)
    BY <2>1, ConcatAssociative
  <2>5. (c \o (f \o Delim)) \o n = c \o ((f \o Delim) \o n)
    <3> DEFINE g == f \o Delim
    <3>1. g \in Seq(Chars)
      BY <2>3
    <3> HIDE DEF g
    <3>2. (c \o g) \o n = c \o (g \o n)
      BY <2>1, <3>1, ConcatAssociative
    <3> QED
      BY <3>2 DEF g
  <2>6. (f \o Delim) \o n \in Seq(Chars)
    BY <2>1, <2>3, ConcatProperties
  <2>7. Rest(r) \in Seq(Chars) /\ Key(r) = c \o Rest(r)
    BY <2>2, <2>4, <2>5, <2>6
  <2> QED
    BY <1>1, <1>2, <1>3, <2>7 DEF c
<1> QED
  BY <1>6, <1>7

(* Equal keys were built from the same thing.                              *)
LEMMA EqualKeys ==
  ASSUME NEW r \in References, NEW q \in References, Key(r) = Key(q)
  PROVE  /\ r.family = q.family /\ SameC(r.index, q.index)
         /\ Named(r.family) => SameC(r.name, q.name)
<1> USE DEF SameC
<1>1. CString(r.index) = CString(q.index) /\ Rest(r) = Rest(q)
  BY KeyParts, SplitIsUnique
<1>2. /\ r.family \in Families /\ q.family \in Families
      /\ Suffix(r.family) \in Seq(Chars) /\ ~Holds(Suffix(r.family), ENTITY_DELIM)
      /\ Suffix(q.family) \in Seq(Chars) /\ ~Holds(Suffix(q.family), ENTITY_DELIM)
  BY KeyParts, SuffixFacts
<1>3. ASSUME NEW x \in References, NEW y \in References, Named(x.family), ~Named(y.family)
      PROVE  Rest(x) # Rest(y)
  <2>1. /\ Suffix(x.family) \in Seq(Chars) /\ CString(x.name) \in Seq(Chars)
        /\ ~Holds(Suffix(y.family), ENTITY_DELIM)
    BY <1>3, KeyParts, SuffixFacts
  <2>2. Rest(x) = (Suffix(x.family) \o Delim) \o CString(x.name) /\ Rest(y) = Suffix(y.family)
    BY <1>3 DEF Rest
  <2>3. /\ Rest(x)[Len(Suffix(x.family)) + 1] = ENTITY_DELIM
        /\ Len(Rest(x)) = Len(Suffix(x.family)) + 1 + Len(CString(x.name))
    BY <2>1, <2>2, CharactersOfJoin
  <2>4. Len(Suffix(x.family)) + 1 \in 1..Len(Rest(x))
    BY <2>1, <2>3, LenProperties
  <2>5. Holds(Rest(x), ENTITY_DELIM)
    BY <2>3, <2>4 DEF Holds
  <2> QED
    BY <2>1, <2>2, <2>5
<1>4. Named(r.family) <=> Named(q.family)
  BY <1>1, <1>3
<1>5. CASE ~Named(r.family)
  <2>1. Suffix(r.family) = Suffix(q.family)
    BY <1>1, <1>4, <1>5 DEF Rest
  <2> QED
    BY <1>1, <1>2, <1>4, <1>5, <2>1, SuffixFacts
<1>6. CASE Named(r.family)
  <2>1. CString(r.name) \in Seq(Chars) /\ CString(q.name) \in Seq(Chars)
    BY <1>4, <1>6, KeyParts
  <2>2. (Suffix(r.family) \o Delim) \o CString(r.name) = (Suffix(q.family) \o Delim) \o CString(q.name)
    BY <1>1, <1>4, <1>6 DEF Rest
  <2>3. Suffix(r.family) = Suffix(q.family) /\ CString(r.name) = CString(q.name)
    BY <1>2, <2>1, <2>2, SplitIsUnique
  <2> QED
    BY <1>1, <1>2, <1>4, <2>3, SuffixFacts
<1> QED
  BY <1>5, <1>6

(* A pattern finds a key by the index it was built for.                    *)
LEMMA PatternMatch ==
  ASSUME NEW r \in References, NEW q \in References
  PROVE  MatchesPattern(r.index, Key(q)) <=> SameC(r.index, q.index)
<1> DEFINE v == CString(r.index)
           u == CString(q.index)
           w == (u \o Delim) \o Rest(q)
<1>1. /\ v \in Seq(Chars) /\ ~Holds(v, ENTITY_DELIM)
      /\ u \in Seq(Chars) /\ ~Holds(u, ENTITY_DELIM)
      /\ Rest(q) \in Seq(Chars) /\ Key(q) = w
  BY KeyParts
<1>2. /\ Len(v \o Delim) = Len(v) + 1 /\ Len(v) \in Nat
      /\ \A k \in 1..Len(v) + 1 : (v \o Delim)[k] = IF k <= Len(v) THEN v[k] ELSE ENTITY_DELIM
  <2>1. /\ Len(v \o Delim) = Len(v) + Len(Delim)
        /\ \A k \in 1..Len(v) + Len(Delim) :
             (v \o Delim)[k] = IF k <= Len(v) THEN v[k] ELSE Delim[k - Len(v)]
    BY <1>1, DelimIsString, ConcatProperties
  <2>2. Len(v) \in Nat
    BY <1>1, LenProperties
  <2>3. \A k \in 1..Len(v) + 1 : ~(k <= Len(v)) => k - Len(v) = 1
    BY <2>2
  <2> HIDE DEF v
  <2> QED
    BY <2>1, <2>2, <2>3, DelimIsString
<1>3. /\ Len(w) = Len(u) + 1 + Len(Rest(q))
      /\ \A k \in 1..Len(u) : w[k] = u[k]
      /\ w[Len(u) + 1] = ENTITY_DELIM
  BY <1>1, CharactersOfJoin
<1>4. MatchesPattern(r.index, Key(q)) <=>
        Len(v) + 1 <= Len(w) /\ \A k \in 1..Len(v) + 1 : w[k] = (v \o Delim)[k]
  BY <1>1, <1>2 DEF MatchesPattern
<1> HIDE DEF u, v
<1>5. ASSUME Len(v) + 1 <= Len(w), \A k \in 1..Len(v) + 1 : w[k] = (v \o Delim)[k]
      PROVE  u = v
  <2>1. \A k \in 1..Len(v) : w[k] = v[k]
    BY <1>2, <1>5
  <2>2. w[Len(v) + 1] = ENTITY_DELIM
    BY <1>2, <1>5
  <2> QED
    BY <1>1, <1>5, <2>1, <2>2, FirstDelimiter
<1>6. ASSUME u = v
      PROVE  Len(v) + 1 <= Len(w) /\ \A k \in 1..Len(v) + 1 : w[k] = (v \o Delim)[k]
  <2>1. Len(Rest(q)) \in Nat
    BY <1>1, LenProperties
  <2>2. ASSUME NEW k \in 1..Len(v) + 1 PROVE w[k] = (v \o Delim)[k]
    BY <1>2, <1>3, <1>6
  <2> QED
    BY <1>2, <1>3, <1>6, <2>1, <2>2
<1> QED
  BY <1>4, <1>5, <1>6 DEF SameC, u, v

-----------------------------------------------------------------------------
AreReferences == mine \in References /\ theirs \in References

(* Whatever two commands build keys from are references.                   *)
LEMMA AlwaysReferences == Spec => []AreReferences
<1>1. Init => AreReferences
  BY DEF Init, AreReferences
<1>2. AreReferences /\ [Next]_<<mine, theirs>> => AreReferences'
  BY DEF Next, AreReferences
<1> QED
  BY <1>1, <1>2, PTL DEF Spec

(* No two meanings share a key: for all names that ValidateEntityName      *)
(* lets pass, of any length and with NUL bytes anywhere.  It is what lets  *)
(* GeoIndex hold the keys of an index in the fields of a record.           *)
THEOREM KeysAlwaysTellApart == Spec => []KeysTellApart
<1>1. AreReferences => KeysTellApart
  BY EqualKeys DEF KeysTellApart, AreReferences
<1> QED
  BY <1>1, AlwaysReferences, PTL

(* "<index>:*", the pattern by which S2GEO.TEST looks for stale and        *)
(* orphaned data, stands for the keys of one index and for all of them.    *)
THEOREM PatternAlwaysFindsTheIndex == Spec => []PatternFindsTheIndex
<1>1. AreReferences => PatternFindsTheIndex
  BY PatternMatch DEF PatternFindsTheIndex, AreReferences
<1> QED
  BY <1>1, AlwaysReferences, PTL
=============================================================================
