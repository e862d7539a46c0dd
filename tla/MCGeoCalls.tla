----------------------------- MODULE MCGeoCalls -----------------------------
(***************************************************************************)
(* One index, two polygons, two bodies that share a term, one of them      *)
(* under two terms, and a body with an empty covering.                     *)
(***************************************************************************)
EXTENDS GeoCalls

CONSTANTS p1, p2, red, green, empty, dot, t1, t2

MCTerms == {t1, t2}

MCIndexPolygon == [b \in ValidBodies |->
  CASE b = red -> {t1} [] b = green -> {t1, t2} [] b = empty -> {}]

MCIndexPoint == [pt \in {dot} |-> {t2}]

MCCStr == [p \in {p1, p2} |-> IF p = p1 THEN "c1" ELSE "c2"]
=============================================================================
