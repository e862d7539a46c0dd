----------------------------- MODULE MCGeoShared ----------------------------
(***************************************************************************)
(* One index, two polygons, two bodies that share a term, and queries that *)
(* look up one term or both.                                               *)
(***************************************************************************)
EXTENDS GeoShared

CONSTANTS p1, p2, red, green, dot, t1, t2

MCTerms == {t1, t2}

MCIndexPolygon == [b \in ValidBodies |->
  IF b = red THEN {t1} ELSE {t1, t2}]

MCOverlapTest == [b \in ValidBodies |->
  IF b = red THEN {t1} ELSE {t1, t2}]

MCIndexPoint == [pt \in {dot} |-> {t2}]

MCCStr == [p \in {p1, p2} |-> IF p = p1 THEN "c1" ELSE "c2"]
=============================================================================
