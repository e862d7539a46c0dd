--------------------------- MODULE MCGeoSelfTest ----------------------------
(***************************************************************************)
(* The test data of test_data.png: red meets green and yellow, blue lies   *)
(* apart, wide covers all; the square is in yellow inside red, the         *)
(* triangle in red alone, the circle nowhere.  Clients work on the test    *)
(* index and on another one under names and bodies of the test's own.      *)
(***************************************************************************)
EXTENDS GeoSelfTest

MCIndexPolygon == [b \in ValidBodies |->
  CASE b = "red" -> {"r", "rg", "ry"} [] b = "green" -> {"rg", "g"} [] b = "blue" -> {"b"}
    [] b = "yellow" -> {"ry"} [] b = "wide" -> {"r", "rg", "ry", "g", "b"}]

MCIndexPoint == [pt \in ValidPoints |->
  CASE pt = "circle" -> {"o"} [] pt = "triangle" -> {"r"} [] pt = "square" -> {"ry"}]

MCCStr == [p \in Polygons |-> p]

MCClientRequests ==
  {<<c, <<x>>>> : c \in {"ISET", "IDEL"}, x \in Indexes}
    \cup {<<"POLYSET", <<x, "red", "green">>>> : x \in Indexes}
    \cup {<<"POLYSET", <<"testindex", "mine", "yellow">>>>,
          <<"POLYDEL", <<"testindex", "red">>>>}
=============================================================================
