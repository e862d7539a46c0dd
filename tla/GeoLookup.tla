----------------------------- MODULE GeoLookup ------------------------------
(***************************************************************************)
(* One stored cell and one query cell at a time: which pairs have a term   *)
(* string in common, src/geo.cc.                                           *)
(***************************************************************************)
EXTENDS GeoTerms

VARIABLES stored, query

LookupInit == stored \in CellIds /\ query \in CellIds

LookupNext == query' \in CellIds /\ UNCHANGED stored

LookupSpec == LookupInit /\ [][LookupNext]_<<stored, query>>

Hit == StoredTerms(stored) \cap QueryTerms(query) # {}

HitByPoint == StoredTerms(stored) \cap PointTerms(query) # {}

(* A polygon query finds a stored cell exactly when the two cells meet:    *)
(* the strings of IndexPolygon and IndexPolygonForOverlapTest have one in  *)
(* common for an equal cell, for a stored parent and for a stored subcell, *)
(* and for no other pair.                                                  *)
PolygonLookupExact ==
  Level(stored) > 0 /\ Level(query) > 0 => (Hit <=> CellsMeet(stored, query))

(* A point query finds a stored cell exactly when the point's leaf cell is *)
(* the cell or lies below it, at every depth of the stored cell.           *)
PointLookupExact ==
  Level(stored) > 0 /\ Level(query) = MaxLevel => (HitByPoint <=> IsCellAbove(stored, query))

(* At the faces the two schemes do not match: a whole face, stored or      *)
(* queried, is found by the same whole face and by nothing inside it, and  *)
(* no point finds a stored face (GeoSearch shows what that does to a       *)
(* search).  It never makes a lookup hit a cell that the query does not    *)
(* meet.                                                                   *)
FacesMeetOnlyThemselves ==
  /\ Level(stored) = 0 \/ Level(query) = 0 => (Hit <=> stored = query)
  /\ Level(stored) = 0 /\ Level(query) = MaxLevel => ~HitByPoint
=============================================================================
