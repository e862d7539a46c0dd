------------------------------ MODULE GeoIndex ------------------------------
(***************************************************************************)
(* The storage layer, src/index.cc: how one geometry index lies in the     *)
(* Redis keyspace, and what each storage function does to it.  A keyspace  *)
(* is a record d with one field per family of keys:                        *)
(*                                                                         *)
(*   d.meta[i]         "<i>:meta", field "params"                          *)
(*   d.polygons[i]     "<i>:polygons", the hash name -> body               *)
(*   d.cellinfo[i][c]  "<i>:cellinfo:<c>", the terms a polygon is under    *)
(*   d.cells[i][t]     "<i>:cells:<t>", the names of the polygons under t  *)
(*                                                                         *)
(* Redis drops a hash or set that becomes empty, so an empty value is an   *)
(* absent key.  d.wrongHash and d.wrongSet hold the polygons and cells     *)
(* keys whose value somebody else replaced by one of another type: such a  *)
(* key holds none of our data and every hash or set call on it answers     *)
(* with an error.  Each function of index.cc is an operator on d; where    *)
(* the function also returns a code, a predicate next to it says which.    *)
(***************************************************************************)
EXTENDS Naturals

CONSTANTS
  Indexes,        \* index names, as C strings
  Polygons,       \* polygon names, as the byte strings Redis stores
  CStr,           \* CStr[p]: polygon name p up to its first NUL byte
  BadNames,       \* the empty string, and those with ':' before any NUL byte
  Bodies,         \* polygon bodies a caller may pass
  Points,         \* point bodies a caller may pass
  ValidBodies,    \* the bodies ParsePolygon accepts
  ValidPoints,    \* the bodies ParseLatLng accepts
  Terms,          \* cell terms: "f/ddd" and "f/ddd*" strings
  IndexPolygon,               \* terms a polygon is stored under
  IndexPolygonForOverlapTest, \* terms a polygon query looks up
  IndexPoint,                 \* terms a point query looks up, never none
  NoBody          \* "no such field" in a polygons hash

CNames == {CStr[p] : p \in Polygons}   \* polygon names as "%s" prints them

ASSUME NamesAssumption ==
  /\ CStr \in [Polygons -> CNames]
  /\ Indexes \cap BadNames = {} /\ Polygons \cap BadNames = {}

ASSUME GeometryAssumption ==
  /\ ValidBodies \subseteq Bodies /\ ValidPoints \subseteq Points
  /\ NoBody \notin Bodies
  /\ IndexPolygon \in [ValidBodies -> SUBSET Terms]
  /\ IndexPolygonForOverlapTest \in [ValidBodies -> SUBSET Terms]
  /\ IndexPoint \in [ValidPoints -> (SUBSET Terms) \ {{}}]

Keyspaces ==
  [meta      : [Indexes -> {"none", "index", "foreign"}],
   polygons  : [Indexes -> [Polygons -> Bodies \cup {NoBody}]],
   cellinfo  : [Indexes -> [CNames -> SUBSET Terms]],
   cells     : [Indexes -> [Terms -> SUBSET Polygons]],
   wrongHash : SUBSET Indexes,
   wrongSet  : SUBSET (Indexes \X Terms)]

NoPolygons == [p \in Polygons |-> NoBody]
NoTerms == [c \in CNames |-> {}]
NoMembers == [t \in Terms |-> {}]

EmptyKeyspace ==
  [meta      |-> [i \in Indexes |-> "none"],
   polygons  |-> [i \in Indexes |-> NoPolygons],
   cellinfo  |-> [i \in Indexes |-> NoTerms],
   cells     |-> [i \in Indexes |-> NoMembers],
   wrongHash |-> {},
   wrongSet  |-> {}]

-----------------------------------------------------------------------------
(* Validation.  ValidateIndex has three outcomes: 0, NO_SUCH_INDEX and     *)
(* INVALID_INDEX.  A meta hash without the field "params" is no index; any *)
(* reply that is not the string "<index>" is an invalid one.               *)

ValidateEntityName(n) == n \notin BadNames

IsIndex(d, i) == d.meta[i] = "index"
NoSuchIndex(d, i) == d.meta[i] = "none"
InvalidIndex(d, i) == ~IsIndex(d, i) /\ ~NoSuchIndex(d, i)

-----------------------------------------------------------------------------
(* Polygon bodies.  The replies to HSET and HDEL are ignored.              *)

ListPolygons(d, i) == {p \in Polygons : d.polygons[i][p] # NoBody}

ListFails(d, i) == i \in d.wrongHash

SetPolygonBody(d, i, p, b) ==
  IF i \in d.wrongHash THEN d ELSE [d EXCEPT !.polygons[i][p] = b]

\* HGET of a missing field and HGET of a wrong key both read as "no body".
GetPolygonBody(d, i, p) ==
  IF d.polygons[i][p] = NoBody THEN <<"null">> ELSE <<"string", d.polygons[i][p]>>

GetPolygonBodies(d, i, ps) == [k \in DOMAIN ps |-> GetPolygonBody(d, i, ps[k])]

DeletePolygonBody(d, i, D) ==
  [d EXCEPT !.polygons[i] = [p \in Polygons |-> IF p \in D THEN NoBody ELSE @[p]]]

-----------------------------------------------------------------------------
(* Polygon cells, the inverted index: cellinfo says under which terms a    *)
(* polygon was stored, cells which polygons are stored under a term.  The  *)
(* deleting functions take the set of polygons one command deletes, which  *)
(* is {p} except in DeleteIndex.                                           *)

HasCells(d, i, p) == d.cellinfo[i][CStr[p]] # {}

\* A slip the runs must notice: the arguments of the second SADD swapped.
SetPolygonCellsSwapped(d, i, p, T) ==
  [d EXCEPT
    !.cellinfo[i][CStr[p]] = @ \cup T,
    !.cells[i] = [t \in Terms |-> IF t \in T THEN @[t] \cup {t} ELSE @[t]]]

SetPolygonCells(d, i, p, T) ==
  [d EXCEPT
    !.cellinfo[i][CStr[p]] = @ \cup T,
    !.cells[i] = [t \in Terms |-> IF t \in T /\ <<i, t>> \notin d.wrongSet
                                    THEN @[t] \cup {p} ELSE @[t]]]

\* Slips the runs must notice: no SREM; a cellinfo key without the index in it.
DeletePolygonCellsKept(d, i, D) ==
  [d EXCEPT !.cellinfo[i] = [c \in CNames |->
     IF \E p \in D : CStr[p] = c THEN {} ELSE @[c]]]

DeletePolygonCellsAnyIndex(d, i, D) ==
  [d EXCEPT
    !.cellinfo = [j \in Indexes |-> [c \in CNames |->
                    IF \E p \in D : CStr[p] = c THEN {} ELSE @[j][c]]],
    !.cells[i] = [t \in Terms |->
                    @[t] \ {p \in D : t \in d.cellinfo[i][CStr[p]]}]]

\* A polygon whose cellinfo is empty (NO_SUCH_POLYGON) is left alone.
DeletePolygonCells(d, i, D) ==
  [d EXCEPT
    !.cellinfo[i] = [c \in CNames |-> IF \E p \in D : CStr[p] = c THEN {} ELSE @[c]],
    !.cells[i] = [t \in Terms |->
                    @[t] \ {p \in D : t \in d.cellinfo[i][CStr[p]]}]]

GetPolygonsInCells(d, i, T) == UNION {d.cells[i][t] : t \in T}

\* A slip the runs must notice: the type of the SUNION reply not looked at.
SearchFailsNever(d, i, T) == FALSE

SearchFails(d, i, T) == \E t \in T : <<i, t>> \in d.wrongSet

-----------------------------------------------------------------------------
(* Whole indexes.  DeleteIndex walks the polygons in the order HKEYS gives *)
(* them, deleting body then cells, and gives up at the first one without   *)
(* cells: its body is gone then, D and their cells too, the rest stays.    *)
(* Deleting the cells of a polygon takes those of every other polygon that *)
(* shares its C string.                                                    *)

CreateIndex(d, i) == [d EXCEPT !.meta[i] = "index"]

DeletePolygons(d, i, D) == DeletePolygonBody(DeletePolygonCells(d, i, D), i, D)

Deletable(d, i, D) ==
  /\ \A p \in D : HasCells(d, i, p)
  /\ \A p, q \in D : CStr[p] = CStr[q] => p = q

\* Slips the runs must notice: the cells forgotten; cells before bodies.
DeleteIndexBodies(d, i) ==
  [DeletePolygonBody(d, i, ListPolygons(d, i)) EXCEPT !.meta[i] = "none"]

DeleteIndexStoppedSooner(d, i, D, q) == DeletePolygons(d, i, D)

DeleteIndex(d, i) ==
  [DeletePolygons(d, i, ListPolygons(d, i)) EXCEPT !.meta[i] = "none"]

DeleteIndexStopped(d, i, D, q) ==
  DeletePolygonBody(DeletePolygons(d, i, D), i, {q})

StopsAt(d, i, D, q) ==
  /\ D \subseteq ListPolygons(d, i) \ {q} /\ Deletable(d, i, D)
  /\ q \in ListPolygons(d, i) /\ ~Deletable(d, i, D \cup {q})
=============================================================================
