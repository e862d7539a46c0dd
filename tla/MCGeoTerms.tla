----------------------------- MODULE MCGeoTerms -----------------------------
(***************************************************************************)
(* Two faces, two children per cell, five levels: every stored cell        *)
(* against every query cell, and the run walks through all pairs.          *)
(***************************************************************************)
EXTENDS GeoLookup

MCFaces == {"0", "1"}
MCDigits == {"0", "1"}
=============================================================================
