----------------------------- MODULE MCGeoKeys ------------------------------
(***************************************************************************)
(* Every pair of keys that names of at most two characters give, over two  *)
(* letters, the delimiter and the NUL byte, and some of three characters:  *)
(* "x:x" would be as long as it takes to look like a key of index "x".     *)
(* The suffixes are made of the same letters, so that names look like them.*)
(***************************************************************************)
EXTENDS GeoKeys

MCNames == UNION {[1..n -> Chars] : n \in 0..2} \cup [1..3 -> {"x", ":"}]

MCMeta == <<"x", "x">>
MCPolygons == <<"x", "y">>
MCCells == <<"x">>
MCCellinfo == <<"y">>
=============================================================================
