------------------------------ MODULE GeoTerms ------------------------------
(***************************************************************************)
(* How shapes become index terms, src/geo.cc.  The S2 library covers a     *)
(* polygon with cells: a cell is a face of the cube and a path of child    *)
(* positions from that face down, and the cells below it on the path's     *)
(* continuations are its subcells.  geo.cc turns cells into strings and    *)
(* substrings of strings; two shapes are taken to overlap when they have a *)
(* string in common.  A string is a sequence of characters here, because   *)
(* what the substrings are is all there is to check.                       *)
(***************************************************************************)
EXTENDS Naturals, Sequences

CONSTANTS
  Faces,     \* face characters ('0'..'5')
  Digits,    \* child positions ('0'..'3')
  MaxLevel   \* the level of leaf cells (S2CellId::kMaxLevel, 30)

ASSUME CellAssumption ==
  /\ MaxLevel \in Nat \ {0}
  /\ {"/", "*"} \cap (Faces \cup Digits) = {}

Paths == UNION {[1..level -> Digits] : level \in 0..MaxLevel}

CellIds == [face : Faces, path : Paths]

Level(c) == Len(c.path)

LeafIds == {c \in CellIds : Level(c) = MaxLevel}

\* The face, a slash, and one digit per level.
ToString(c) == <<c.face, "/">> \o c.path

\* c covers every point that s covers.
IsCellAbove(c, s) ==
  /\ c.face = s.face
  /\ Level(c) <= Level(s)
  /\ \A k \in 1..Level(c) : c.path[k] = s.path[k]

CellsMeet(a, b) == IsCellAbove(a, b) \/ IsCellAbove(b, a)

CoveringsMeet(A, B) == \E a \in A, b \in B : CellsMeet(a, b)

\* A covering as S2RegionCoverer returns it: no cell within another one, and
\* never all the children of one cell.
IsCovering(A) ==
  /\ A \subseteq CellIds
  /\ \A a, b \in A : IsCellAbove(a, b) => a = b
  /\ ~\E f \in Faces, q \in Paths :
        /\ Len(q) < MaxLevel
        /\ \A x \in Digits : [face |-> f, path |-> Append(q, x)] \in A

-----------------------------------------------------------------------------
(* The term strings.  substr(0, 1) stands for the face cell, substr(0, 3)  *)
(* for its child, and so on; a trailing '*' marks "something below here".  *)

\* A slip the runs must notice: the loop over the substrings starts at 4.
ParentStringsFrom4(s) == {SubSeq(s, 1, n) : n \in {1} \cup 4..(Len(s) - 1)}

\* substr(0, 1) and substr(0, i) for 3 <= i < length.
ParentStrings(s) == {SubSeq(s, 1, n) : n \in {1} \cup 3..(Len(s) - 1)}

Starred(s) == Append(s, "*")

StoredTerms(c) ==
  LET s == ToString(c) IN {s, Starred(s)} \cup {Starred(u) : u \in ParentStrings(s)}

\* A slip the runs must notice: the query's parents are starred as well.
QueryTermsStarred(c) ==
  LET s == ToString(c) IN {s, Starred(s)} \cup {Starred(u) : u \in ParentStrings(s)}

QueryTerms(c) ==
  LET s == ToString(c) IN {s, Starred(s)} \cup ParentStrings(s)

\* A slip the runs must notice: the point's own cell left out.
PointTermsAbove(c) == ParentStrings(ToString(c))

PointTerms(c) ==
  LET s == ToString(c) IN {s} \cup ParentStrings(s)

PolygonTerms(A) == UNION {StoredTerms(c) : c \in A}

OverlapTestTerms(A) == UNION {QueryTerms(c) : c \in A}
=============================================================================
