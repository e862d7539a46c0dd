--------------------------- MODULE GeoRefinement ----------------------------
(***************************************************************************)
(* The commands of module.cc implement the promise of GeoStore: an index   *)
(* exists when its meta key says so, its dictionary is the polygons hash,  *)
(* and two shapes overlap when the terms one is stored under meet the      *)
(* terms the other looks up.  cellinfo and cells are hidden.               *)
(***************************************************************************)
EXTENDS GeoCommands

Storable == {b \in ValidBodies : IndexPolygon[b] # {}}

Queryable == {b \in ValidBodies : IndexPolygonForOverlapTest[b] # {}}

TermOverlaps ==
  {ab \in Storable \X Queryable :
     IndexPolygon[ab[1]] \cap IndexPolygonForOverlapTest[ab[2]] # {}}

TermEncloses ==
  {ab \in Storable \X ValidPoints : IndexPolygon[ab[1]] \cap IndexPoint[ab[2]] # {}}

Existing == {i \in Indexes : IsIndex(db, i)}

\* The promise does not tell one error from another.
PromisedOutcome(out) == IF out[1] = "error" THEN <<"error">> ELSE out

PromisedReply == <<reply[1], reply[2], PromisedOutcome(reply[3])>>

Promise == INSTANCE GeoStore WITH
  taken <- {i \in Indexes : InvalidIndex(db, i)},
  exists <- Existing,
  body <- db.polygons,
  reply <- PromisedReply,
  PointsOk <- ValidPoints,
  Overlaps <- TermOverlaps,
  Encloses <- TermEncloses

(* Every command does to the indexes and answers to its caller exactly     *)
(* what GeoStore promises: in particular a search, which only ever reads   *)
(* the cells sets, answers with the polygons whose present body shares a   *)
(* term with the query - none left over from a replaced body or a deleted  *)
(* polygon or index, none missing - and POLYDEL's 0 or 1, which it takes   *)
(* from the cells, says whether there was a body.                          *)
KeepsPromise == Promise!Spec
=============================================================================
