---------------------------- MODULE MCGeoSearch -----------------------------
(***************************************************************************)
(* Two polygon names and three coverings on two faces: a block of face 0,  *)
(* a leaf deep in the block, and two cells that meet neither.  "World"     *)
(* holds face 0 whole.                                                     *)
(***************************************************************************)
EXTENDS GeoSearch

CONSTANTS i1, i2, p1, p2

Permute == INSTANCE TLC

Cell(f, path) == [face |-> f, path |-> path]

Deep == [block   |-> {Cell("0", <<"1">>)},
         leaf    |-> {Cell("0", <<"1", "2", "3">>)},
         far     |-> {Cell("1", <<"0", "2">>), Cell("0", <<"0">>)},
         nothing |-> {}]

WithWorld == [block |-> Deep.block, leaf |-> Deep.leaf, world |-> {Cell("0", <<>>)}]

PointLeaves == [inside  |-> Cell("0", <<"1", "2", "3">>),
                beside  |-> Cell("0", <<"1", "2", "0">>),
                outside |-> Cell("1", <<"2", "2", "2">>)]

MCIndexPolygon == [b \in ValidBodies |-> PolygonTerms(Covering[b])]
MCOverlapTest == [b \in ValidBodies |-> OverlapTestTerms(Covering[b])]
MCIndexPoint == [pt \in ValidPoints |-> PointTerms(LeafOf[pt])]

MCTerms == UNION {IndexPolygon[b] : b \in ValidBodies}
             \cup UNION {IndexPolygonForOverlapTest[b] : b \in ValidBodies}
             \cup UNION {IndexPoint[pt] : pt \in ValidPoints}

MCCStr == [p \in Polygons |-> p]

\* Nothing tells one index from the other, or one polygon name.
MCSymmetry == Permute!Permutations(Indexes) \cup Permute!Permutations(Polygons)
=============================================================================
