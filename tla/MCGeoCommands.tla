---------------------------- MODULE MCGeoCommands ---------------------------
(***************************************************************************)
(* A small instance of the commands: two storable bodies that share the    *)
(* term t2, one the parser rejects, one with an empty covering, a point    *)
(* under t3 and one the parser rejects.  red's query looks up less than    *)
(* red is stored under, as it is with the starred terms of geo.cc.         *)
(***************************************************************************)
EXTENDS GeoRefinement

CONSTANTS p1, p2, red, green, torn, empty, dot, smudge, t1, t2, t3

MCBodies == {red, green, torn, empty}
MCValidBodies == {red, green, empty}
MCPoints == {dot, smudge}
MCTerms == {t1, t2, t3}

MCIndexPolygon == [b \in ValidBodies |->
  CASE b = red -> {t1, t2} [] b = green -> {t2, t3} [] b = empty -> {}]

MCOverlapTest == [b \in ValidBodies |->
  CASE b = red -> {t1} [] b = green -> {t2, t3} [] b = empty -> {}]

MCIndexPoint == [pt \in {dot} |-> {t3}]

\* Distinct names, distinct C strings.
MCCStr == [p \in {p1, p2} |-> IF p = p1 THEN "c1" ELSE "c2"]

\* Two names that differ only behind a NUL byte.
MCSharedCStr == [p \in {p1, p2} |-> "c1"]
=============================================================================
