----------------------------- MODULE GeoSearch ------------------------------
(***************************************************************************)
(* The commands and the term scheme together: every body the parser        *)
(* accepts has a covering, every point a leaf cell, and the terms the      *)
(* commands store and look up are those geo.cc makes of them.  "Overlap"   *)
(* is now a matter of cells, not of terms.                                 *)
(***************************************************************************)
EXTENDS GeoCommands, GeoTerms

CONSTANTS
  Covering,     \* Covering[b]: GetPolygonCovering of the polygon parsed from b
  LeafOf        \* LeafOf[pt]: the leaf cell of the point parsed from pt

ASSUME CoveringAssumption ==
  /\ \A b \in ValidBodies : IsCovering(Covering[b])
  /\ LeafOf \in [ValidPoints -> LeafIds]
  /\ IndexPolygon = [b \in ValidBodies |-> PolygonTerms(Covering[b])]
  /\ IndexPolygonForOverlapTest = [b \in ValidBodies |-> OverlapTestTerms(Covering[b])]
  /\ IndexPoint = [pt \in ValidPoints |-> PointTerms(LeafOf[pt])]

Covered == {b \in ValidBodies : Covering[b] # {}}

CoverOverlaps ==
  {ab \in Covered \X Covered : CoveringsMeet(Covering[ab[1]], Covering[ab[2]])}

CoverEncloses ==
  {ab \in Covered \X ValidPoints :
     \E c \in Covering[ab[1]] : IsCellAbove(c, LeafOf[ab[2]])}

GeoPromise == INSTANCE GeoStore WITH
  taken <- {i \in Indexes : InvalidIndex(db, i)},
  exists <- {i \in Indexes : IsIndex(db, i)},
  body <- db.polygons,
  reply <- <<reply[1], reply[2],
             IF reply[3][1] = "error" THEN <<"error">> ELSE reply[3]>>,
  Storable <- Covered,
  Queryable <- Covered,
  PointsOk <- ValidPoints,
  Overlaps <- CoverOverlaps,
  Encloses <- CoverEncloses

(* Searches answer by geometry, whatever was stored, replaced and deleted  *)
(* before: with the polygons whose present covering meets the query's      *)
(* cells, all of them and no others - as long as no covering holds a cube  *)
(* face whole.                                                             *)
AnswersByGeometry == GeoPromise!Spec

\* The step answers the search cmd of index i for q, and not with an error.
AnswersWith(cmd, i, q) ==
  reply'[1] = cmd /\ reply'[2] = <<i, q>> /\ reply'[3][1] = "set"

(* README, POLYSEARCH and POINTSEARCH: "Returns a list of polygons in a    *)
(* given index overlapping with the provided polygon", "... point"; only   *)
(* false positives are allowed for.  The overlap test of geo.cc:42-66 says *)
(* of its terms that they find the same cell, the parent cells and the     *)
(* subcells.                                                               *)
SearchesMissNothing ==
  [][\A i \in Indexes :
       /\ \A b \in Covered : AnswersWith("POLYSEARCH", i, b) =>
            {p \in Polygons : <<db.polygons[i][p], b>> \in CoverOverlaps} \subseteq reply'[3][2]
       /\ \A pt \in ValidPoints : AnswersWith("POINTSEARCH", i, pt) =>
            {p \in Polygons : <<db.polygons[i][p], pt>> \in CoverEncloses} \subseteq reply'[3][2]
    ]_vars
=============================================================================
