--------------------------- MODULE GeoIndexProofs ---------------------------
(***************************************************************************)
(* The storage functions of index.cc: what each of them does to the four   *)
(* families of keys, stated once, and what the changes the commands make   *)
(* of them preserve.  All of it is about keyspaces d and e, for any number *)
(* of indexes, polygons, bodies and terms, and whoever runs the functions. *)
(***************************************************************************)
EXTENDS GeoIndex, TLAPS

-----------------------------------------------------------------------------
(* What each storage function leaves in each family of keys.               *)

\* e differs from d at most in the families named in F.
SameBut(d, e, F) ==
  /\ "meta" \in F \/ e.meta = d.meta
  /\ "polygons" \in F \/ e.polygons = d.polygons
  /\ "cellinfo" \in F \/ e.cellinfo = d.cellinfo
  /\ "cells" \in F \/ e.cells = d.cells
  /\ e.wrongHash = d.wrongHash /\ e.wrongSet = d.wrongSet

\* e is d with m for the meta key of i.
MetaSet(d, e, i, m) ==
  /\ e \in Keyspaces /\ SameBut(d, e, {"meta"})
  /\ \A j \in Indexes : e.meta[j] = IF j = i THEN m ELSE d.meta[j]

LEMMA MetaFields ==
  ASSUME NEW d \in Keyspaces, NEW i \in Indexes, NEW m \in {"none", "index", "foreign"}
  PROVE  MetaSet(d, [d EXCEPT !.meta[i] = m], i, m)
  BY DEF Keyspaces, SameBut, MetaSet

LEMMA CreateIndexFields ==
  ASSUME NEW d \in Keyspaces, NEW i \in Indexes
  PROVE  MetaSet(d, CreateIndex(d, i), i, "index")
  BY MetaFields DEF CreateIndex

\* e is d with b for the body of p, unless HSET fails.
BodySet(d, e, i, p, b) ==
  /\ e \in Keyspaces /\ SameBut(d, e, {"polygons"})
  /\ \A j \in Indexes, q \in Polygons :
       e.polygons[j][q] = IF j = i /\ q = p /\ i \notin d.wrongHash
                            THEN b ELSE d.polygons[j][q]

LEMMA SetPolygonBodyFields ==
  ASSUME NEW d \in Keyspaces, NEW i \in Indexes, NEW p \in Polygons, NEW b \in Bodies
  PROVE  BodySet(d, SetPolygonBody(d, i, p, b), i, p, b)
  BY DEF SetPolygonBody, Keyspaces, SameBut, BodySet

\* e is d without the bodies of the polygons of D.
BodiesDeleted(d, e, i, D) ==
  /\ e \in Keyspaces /\ SameBut(d, e, {"polygons"})
  /\ \A j \in Indexes, q \in Polygons :
       e.polygons[j][q] = IF j = i /\ q \in D THEN NoBody ELSE d.polygons[j][q]

LEMMA DeletePolygonBodyFields ==
  ASSUME NEW d \in Keyspaces, NEW i \in Indexes, NEW D
  PROVE  BodiesDeleted(d, DeletePolygonBody(d, i, D), i, D)
<1> DEFINE f == [p \in Polygons |-> IF p \in D THEN NoBody ELSE d.polygons[i][p]]
           e == DeletePolygonBody(d, i, D)
<1>1. f \in [Polygons -> Bodies \cup {NoBody}]
  BY DEF Keyspaces
<1>2. e = [d EXCEPT !.polygons = [d.polygons EXCEPT ![i] = f]]
  BY DEF DeletePolygonBody, Keyspaces
<1>3. /\ e \in Keyspaces /\ SameBut(d, e, {"polygons"})
      /\ e.polygons = [d.polygons EXCEPT ![i] = f]
  <2> HIDE DEF f, e
  <2> QED BY <1>1, <1>2 DEF Keyspaces, SameBut
<1>4. ASSUME NEW j \in Indexes, NEW q \in Polygons
      PROVE  e.polygons[j][q] = IF j = i /\ q \in D THEN NoBody ELSE d.polygons[j][q]
  <2> HIDE DEF e
  <2> QED BY <1>3 DEF Keyspaces
<1> QED BY <1>3, <1>4 DEF BodiesDeleted

\* e is d with p put under the terms T in cellinfo and cells.
CellsSet(d, e, i, p, T) ==
  /\ e \in Keyspaces /\ SameBut(d, e, {"cellinfo", "cells"})
  /\ \A j \in Indexes, c \in CNames :
       e.cellinfo[j][c] = IF j = i /\ c = CStr[p]
                            THEN d.cellinfo[j][c] \cup T ELSE d.cellinfo[j][c]
  /\ \A j \in Indexes, t \in Terms :
       e.cells[j][t] = IF j = i /\ t \in T /\ <<i, t>> \notin d.wrongSet
                         THEN d.cells[j][t] \cup {p} ELSE d.cells[j][t]

LEMMA SetPolygonCellsFields ==
  ASSUME NEW d \in Keyspaces, NEW i \in Indexes, NEW p \in Polygons, NEW T \in SUBSET Terms
  PROVE  CellsSet(d, SetPolygonCells(d, i, p, T), i, p, T)
<1> DEFINE f == [t \in Terms |-> IF t \in T /\ <<i, t>> \notin d.wrongSet
                                   THEN d.cells[i][t] \cup {p} ELSE d.cells[i][t]]
           g == [d.cellinfo[i] EXCEPT ![CStr[p]] = d.cellinfo[i][CStr[p]] \cup T]
           e == SetPolygonCells(d, i, p, T)
<1>1. f \in [Terms -> SUBSET Polygons]
  BY DEF Keyspaces
<1>2. CStr[p] \in CNames
  BY NamesAssumption
<1>3. g \in [CNames -> SUBSET Terms]
  BY <1>2 DEF Keyspaces
<1>4. e = [d EXCEPT !.cellinfo = [d.cellinfo EXCEPT ![i] = g],
                    !.cells = [d.cells EXCEPT ![i] = f]]
  BY DEF SetPolygonCells, Keyspaces
<1>5. /\ e \in Keyspaces /\ SameBut(d, e, {"cellinfo", "cells"})
      /\ e.cellinfo = [d.cellinfo EXCEPT ![i] = g]
      /\ e.cells = [d.cells EXCEPT ![i] = f]
  <2> HIDE DEF f, g, e
  <2> QED BY <1>1, <1>3, <1>4 DEF Keyspaces, SameBut
<1>6. ASSUME NEW j \in Indexes, NEW c \in CNames
      PROVE  e.cellinfo[j][c] = IF j = i /\ c = CStr[p]
                                  THEN d.cellinfo[j][c] \cup T ELSE d.cellinfo[j][c]
  <2>1. g[c] = IF c = CStr[p] THEN d.cellinfo[i][c] \cup T ELSE d.cellinfo[i][c]
    BY <1>2 DEF Keyspaces
  <2>2. e.cellinfo[j] = IF j = i THEN g ELSE d.cellinfo[j]
    <3> HIDE DEF e, f, g
    <3> QED BY <1>5 DEF Keyspaces
  <2> HIDE DEF e, f, g
  <2> QED BY <2>1, <2>2
<1>7. ASSUME NEW j \in Indexes, NEW t \in Terms
      PROVE  e.cells[j][t] = IF j = i /\ t \in T /\ <<i, t>> \notin d.wrongSet
                               THEN d.cells[j][t] \cup {p} ELSE d.cells[j][t]
  <2>1. f[t] = IF t \in T /\ <<i, t>> \notin d.wrongSet
                 THEN d.cells[i][t] \cup {p} ELSE d.cells[i][t]
    OBVIOUS
  <2>2. e.cells[j] = IF j = i THEN f ELSE d.cells[j]
    <3> HIDE DEF e, f, g
    <3> QED BY <1>5 DEF Keyspaces
  <2> HIDE DEF e, f, g
  <2> QED BY <2>1, <2>2
<1> QED BY <1>5, <1>6, <1>7 DEF CellsSet

\* e is d with the polygons of D taken out of cellinfo and cells.
CellsTakenOut(d, e, i, D) ==
  /\ e \in Keyspaces /\ SameBut(d, e, {"cellinfo", "cells"})
  /\ \A j \in Indexes, c \in CNames :
       e.cellinfo[j][c] = IF j = i /\ \E p \in D : CStr[p] = c
                            THEN {} ELSE d.cellinfo[j][c]
  /\ \A j \in Indexes, t \in Terms, q \in Polygons :
       q \in e.cells[j][t] <=>
         q \in d.cells[j][t] /\ ~(j = i /\ q \in D /\ t \in d.cellinfo[j][CStr[q]])

LEMMA DeletePolygonCellsFields ==
  ASSUME NEW d \in Keyspaces, NEW i \in Indexes, NEW D \in SUBSET Polygons
  PROVE  CellsTakenOut(d, DeletePolygonCells(d, i, D), i, D)
<1> DEFINE f == [t \in Terms |->
                   d.cells[i][t] \ {p \in D : t \in d.cellinfo[i][CStr[p]]}]
           g == [c \in CNames |-> IF \E p \in D : CStr[p] = c
                                    THEN {} ELSE d.cellinfo[i][c]]
           e == DeletePolygonCells(d, i, D)
<1>1. f \in [Terms -> SUBSET Polygons]
  BY DEF Keyspaces
<1>2. g \in [CNames -> SUBSET Terms]
  BY DEF Keyspaces
<1>3. e = [d EXCEPT !.cellinfo = [d.cellinfo EXCEPT ![i] = g],
                    !.cells = [d.cells EXCEPT ![i] = f]]
  BY DEF DeletePolygonCells, Keyspaces
<1>4. /\ e \in Keyspaces /\ SameBut(d, e, {"cellinfo", "cells"})
      /\ e.cellinfo = [d.cellinfo EXCEPT ![i] = g]
      /\ e.cells = [d.cells EXCEPT ![i] = f]
  <2> HIDE DEF f, g, e
  <2> QED BY <1>1, <1>2, <1>3 DEF Keyspaces, SameBut
<1>5. ASSUME NEW j \in Indexes, NEW c \in CNames
      PROVE  e.cellinfo[j][c] = IF j = i /\ \E p \in D : CStr[p] = c
                                  THEN {} ELSE d.cellinfo[j][c]
  <2> HIDE DEF e, f
  <2> QED BY <1>4 DEF Keyspaces
<1>6. ASSUME NEW j \in Indexes, NEW t \in Terms, NEW q \in Polygons
      PROVE  q \in e.cells[j][t] <=>
               q \in d.cells[j][t] /\ ~(j = i /\ q \in D /\ t \in d.cellinfo[j][CStr[q]])
  <2>1. q \in f[t] <=> q \in d.cells[i][t] /\ ~(q \in D /\ t \in d.cellinfo[i][CStr[q]])
    OBVIOUS
  <2>2. e.cells[j] = IF j = i THEN f ELSE d.cells[j]
    <3> HIDE DEF e, f, g
    <3> QED BY <1>4 DEF Keyspaces
  <2> HIDE DEF e, f, g
  <2> QED BY <2>1, <2>2
<1> QED BY <1>4, <1>5, <1>6 DEF CellsTakenOut

\* Two keyspaces with the same keys are the same.
Alike(d, e) ==
  /\ d \in Keyspaces /\ e \in Keyspaces
  /\ d.meta = e.meta /\ d.wrongHash = e.wrongHash /\ d.wrongSet = e.wrongSet
  /\ \A j \in Indexes, q \in Polygons : d.polygons[j][q] = e.polygons[j][q]
  /\ \A j \in Indexes, c \in CNames : d.cellinfo[j][c] = e.cellinfo[j][c]
  /\ \A j \in Indexes, t \in Terms, q \in Polygons :
       q \in d.cells[j][t] <=> q \in e.cells[j][t]

LEMMA AlikeIsEqual ==
  ASSUME NEW d, NEW e, Alike(d, e)
  PROVE  d = e
<1>1. d.polygons = e.polygons
  <2>1. /\ d.polygons \in [Indexes -> [Polygons -> Bodies \cup {NoBody}]]
        /\ e.polygons \in [Indexes -> [Polygons -> Bodies \cup {NoBody}]]
    BY DEF Alike, Keyspaces
  <2>2. ASSUME NEW j \in Indexes PROVE d.polygons[j] = e.polygons[j]
    <3>1. /\ d.polygons[j] \in [Polygons -> Bodies \cup {NoBody}]
          /\ e.polygons[j] \in [Polygons -> Bodies \cup {NoBody}]
      BY <2>1
    <3> QED BY <3>1 DEF Alike
  <2> QED BY <2>1, <2>2
<1>2. d.cellinfo = e.cellinfo
  <2>1. /\ d.cellinfo \in [Indexes -> [CNames -> SUBSET Terms]]
        /\ e.cellinfo \in [Indexes -> [CNames -> SUBSET Terms]]
    BY DEF Alike, Keyspaces
  <2>2. ASSUME NEW j \in Indexes PROVE d.cellinfo[j] = e.cellinfo[j]
    <3>1. d.cellinfo[j] \in [CNames -> SUBSET Terms] /\ e.cellinfo[j] \in [CNames -> SUBSET Terms]
      BY <2>1
    <3> QED BY <3>1 DEF Alike
  <2> QED BY <2>1, <2>2
<1>3. d.cells = e.cells
  <2>1. ASSUME NEW j \in Indexes, NEW t \in Terms PROVE d.cells[j][t] = e.cells[j][t]
    <3>1. d.cells[j][t] \in SUBSET Polygons /\ e.cells[j][t] \in SUBSET Polygons
      BY DEF Alike, Keyspaces
    <3> QED BY <3>1 DEF Alike
  <2>2. /\ d.cells \in [Indexes -> [Terms -> SUBSET Polygons]]
        /\ e.cells \in [Indexes -> [Terms -> SUBSET Polygons]]
    BY DEF Alike, Keyspaces
  <2>3. ASSUME NEW j \in Indexes PROVE d.cells[j] = e.cells[j]
    <3>1. d.cells[j] \in [Terms -> SUBSET Polygons] /\ e.cells[j] \in [Terms -> SUBSET Polygons]
      BY <2>2
    <3> QED BY <2>1, <3>1
  <2> QED BY <2>2, <2>3
<1> QED BY <1>1, <1>2, <1>3 DEF Alike, Keyspaces

-----------------------------------------------------------------------------
(* A keyspace is well formed whatever the names and bodies, and also when  *)
(* keys have been overwritten.                                             *)

WellFormed(d) ==
  /\ d \in Keyspaces
  /\ \A i \in d.wrongHash : d.polygons[i] = NoPolygons
  /\ \A it \in d.wrongSet : d.cells[it[1]][it[2]] = {}

\* A keyspace in which no index was ever created; some names may be taken.
Unused(m) == [EmptyKeyspace EXCEPT !.meta = m]

LEMMA UnusedWellFormed ==
  ASSUME NEW m \in [Indexes -> {"none", "foreign"}]
  PROVE  WellFormed(Unused(m))
  BY DEF WellFormed, Unused, EmptyKeyspace, Keyspaces, NoPolygons, NoTerms, NoMembers

LEMMA CreateIndexWellFormed ==
  ASSUME NEW d, WellFormed(d), NEW i \in Indexes
  PROVE  WellFormed(CreateIndex(d, i))
  BY CreateIndexFields DEF WellFormed, SameBut, MetaSet

\* The bodies of a wrong polygons key stay absent when no other body is set.
LEMMA BodiesWellFormed ==
  ASSUME NEW d, WellFormed(d), NEW e \in Keyspaces, SameBut(d, e, {"polygons"}),
         \A j \in d.wrongHash, q \in Polygons : e.polygons[j][q] = NoBody
  PROVE  WellFormed(e)
<1>1. ASSUME NEW j \in d.wrongHash
      PROVE  e.polygons[j] = NoPolygons
  <2>1. e.polygons[j] \in [Polygons -> Bodies \cup {NoBody}]
    BY DEF WellFormed, Keyspaces
  <2> QED BY <2>1 DEF NoPolygons
<1> QED BY <1>1 DEF WellFormed, SameBut

LEMMA SetPolygonBodyWellFormed ==
  ASSUME NEW d, WellFormed(d), NEW i \in Indexes, NEW p \in Polygons, NEW b \in Bodies
  PROVE  WellFormed(SetPolygonBody(d, i, p, b))
<1>1. PICK e : e = SetPolygonBody(d, i, p, b)
  OBVIOUS
<1>2. BodySet(d, e, i, p, b)
  BY <1>1, SetPolygonBodyFields DEF WellFormed
<1>3. \A j \in d.wrongHash, q \in Polygons : e.polygons[j][q] = NoBody
  <2> SUFFICES ASSUME NEW j \in d.wrongHash, NEW q \in Polygons
               PROVE  e.polygons[j][q] = NoBody
    OBVIOUS
  <2>1. j \in Indexes /\ d.polygons[j][q] = NoBody
    BY DEF WellFormed, Keyspaces, NoPolygons
  <2> QED BY <1>2, <2>1 DEF BodySet
<1> QED BY <1>1, <1>2, <1>3, BodiesWellFormed DEF BodySet

LEMMA DeletePolygonBodyWellFormed ==
  ASSUME NEW d, WellFormed(d), NEW i \in Indexes, NEW D
  PROVE  WellFormed(DeletePolygonBody(d, i, D))
<1>1. PICK e : e = DeletePolygonBody(d, i, D)
  OBVIOUS
<1>2. BodiesDeleted(d, e, i, D)
  BY <1>1, DeletePolygonBodyFields DEF WellFormed
<1>3. \A j \in d.wrongHash, q \in Polygons : e.polygons[j][q] = NoBody
  BY <1>2 DEF BodiesDeleted, WellFormed, Keyspaces, NoPolygons
<1> QED BY <1>1, <1>2, <1>3, BodiesWellFormed DEF BodiesDeleted

\* A wrong cells key stays without members when no other key gets one.
LEMMA CellsWellFormed ==
  ASSUME NEW d, WellFormed(d), NEW e \in Keyspaces, SameBut(d, e, {"cellinfo", "cells"}),
         \A j \in Indexes, t \in Terms :
           <<j, t>> \in d.wrongSet => e.cells[j][t] \subseteq d.cells[j][t]
  PROVE  WellFormed(e)
<1>1. ASSUME NEW it \in d.wrongSet
      PROVE  e.cells[it[1]][it[2]] = {}
  <2>1. PICK j \in Indexes, t \in Terms : it = <<j, t>>
    BY DEF WellFormed, Keyspaces
  <2>2. d.cells[j][t] = {}
    BY <2>1 DEF WellFormed
  <2> QED BY <2>1, <2>2
<1> QED BY <1>1 DEF WellFormed, SameBut

LEMMA SetPolygonCellsWellFormed ==
  ASSUME NEW d, WellFormed(d), NEW i \in Indexes, NEW p \in Polygons, NEW T \in SUBSET Terms
  PROVE  WellFormed(SetPolygonCells(d, i, p, T))
<1>1. PICK e : e = SetPolygonCells(d, i, p, T)
  OBVIOUS
<1>2. CellsSet(d, e, i, p, T)
  BY <1>1, SetPolygonCellsFields DEF WellFormed
<1>3. \A j \in Indexes, t \in Terms :
        <<j, t>> \in d.wrongSet => e.cells[j][t] \subseteq d.cells[j][t]
  BY <1>2 DEF CellsSet
<1> QED BY <1>1, <1>2, <1>3, CellsWellFormed DEF CellsSet

LEMMA DeletePolygonCellsWellFormed ==
  ASSUME NEW d, WellFormed(d), NEW i \in Indexes, NEW D \in SUBSET Polygons
  PROVE  WellFormed(DeletePolygonCells(d, i, D))
<1>1. PICK e : e = DeletePolygonCells(d, i, D)
  OBVIOUS
<1>2. CellsTakenOut(d, e, i, D)
  BY <1>1, DeletePolygonCellsFields DEF WellFormed
<1>3. \A j \in Indexes, t \in Terms :
        <<j, t>> \in d.wrongSet => e.cells[j][t] \subseteq d.cells[j][t]
  BY <1>2 DEF CellsTakenOut, WellFormed, Keyspaces
<1> QED BY <1>1, <1>2, <1>3, CellsWellFormed DEF CellsTakenOut

LEMMA DeletePolygonsWellFormed ==
  ASSUME NEW d, WellFormed(d), NEW i \in Indexes, NEW D \in SUBSET Polygons
  PROVE  WellFormed(DeletePolygons(d, i, D))
  BY DeletePolygonCellsWellFormed, DeletePolygonBodyWellFormed DEF DeletePolygons

LEMMA DeleteIndexWellFormed ==
  ASSUME NEW d, WellFormed(d), NEW i \in Indexes
  PROVE  WellFormed(DeleteIndex(d, i))
<1>1. WellFormed(DeletePolygons(d, i, ListPolygons(d, i)))
  BY DeletePolygonsWellFormed DEF ListPolygons
<1> QED BY <1>1 DEF DeleteIndex, WellFormed, Keyspaces

-----------------------------------------------------------------------------
(* The changes the commands make.                                          *)

\* e is d after a change that some command makes.
Changed(d, e) ==
  \E i \in Indexes :
    \/ NoSuchIndex(d, i) /\ e = CreateIndex(d, i)
    \/ /\ IsIndex(d, i)
       /\ \/ \E p \in Polygons, b \in ValidBodies :
               /\ IndexPolygon[b] # {}
               /\ e = SetPolygonCells(
                        DeletePolygonCells(SetPolygonBody(d, i, p, b), i, {p}),
                        i, p, IndexPolygon[b])
          \/ \E p \in Polygons :
               e = DeletePolygonCells(DeletePolygonBody(d, i, {p}), i, {p})
          \/ \E D \in SUBSET ListPolygons(d, i), q \in ListPolygons(d, i) :
               StopsAt(d, i, D, q) /\ e = DeleteIndexStopped(d, i, D, q)
          \/ /\ Deletable(d, i, ListPolygons(d, i))
             /\ e = DeleteIndex(d, i)

LEMMA ChangedWellFormed ==
  ASSUME NEW d, WellFormed(d), NEW e, Changed(d, e)
  PROVE  WellFormed(e)
<1>1. PICK i \in Indexes :
        \/ NoSuchIndex(d, i) /\ e = CreateIndex(d, i)
        \/ \E p \in Polygons, b \in ValidBodies :
             e = SetPolygonCells(
                   DeletePolygonCells(SetPolygonBody(d, i, p, b), i, {p}),
                   i, p, IndexPolygon[b])
        \/ \E p \in Polygons :
             e = DeletePolygonCells(DeletePolygonBody(d, i, {p}), i, {p})
        \/ \E D \in SUBSET ListPolygons(d, i), q \in ListPolygons(d, i) :
             e = DeleteIndexStopped(d, i, D, q)
        \/ e = DeleteIndex(d, i)
  BY DEF Changed
<1>2. CASE e = CreateIndex(d, i)
  BY <1>2, CreateIndexWellFormed
<1>3. ASSUME NEW p \in Polygons, NEW b \in ValidBodies,
             e = SetPolygonCells(
                   DeletePolygonCells(SetPolygonBody(d, i, p, b), i, {p}),
                   i, p, IndexPolygon[b])
      PROVE  WellFormed(e)
  <2>1. b \in Bodies /\ IndexPolygon[b] \in SUBSET Terms
    BY GeometryAssumption
  <2>2. WellFormed(SetPolygonBody(d, i, p, b))
    BY <2>1, SetPolygonBodyWellFormed
  <2>3. WellFormed(DeletePolygonCells(SetPolygonBody(d, i, p, b), i, {p}))
    BY <2>2, DeletePolygonCellsWellFormed
  <2> QED BY <1>3, <2>1, <2>3, SetPolygonCellsWellFormed
<1>4. ASSUME NEW p \in Polygons,
             e = DeletePolygonCells(DeletePolygonBody(d, i, {p}), i, {p})
      PROVE  WellFormed(e)
  BY <1>4, DeletePolygonBodyWellFormed, DeletePolygonCellsWellFormed
<1>5. ASSUME NEW D \in SUBSET ListPolygons(d, i), NEW q \in ListPolygons(d, i),
             e = DeleteIndexStopped(d, i, D, q)
      PROVE  WellFormed(e)
  <2>1. D \in SUBSET Polygons
    BY DEF ListPolygons
  <2> QED BY <1>5, <2>1, DeletePolygonsWellFormed, DeletePolygonBodyWellFormed
          DEF DeleteIndexStopped
<1>6. CASE e = DeleteIndex(d, i)
  BY <1>6, DeleteIndexWellFormed
<1> QED BY <1>1, <1>2, <1>3, <1>4, <1>5, <1>6

-----------------------------------------------------------------------------
(* Consistency, when no two polygon names share a C string.  Each of the   *)
(* three invariants needs the others: a replaced polygon leaves the cells  *)
(* because cellinfo names them all, IDEL never gives up because every body *)
(* has cellinfo, and it leaves nothing because nothing else has any.       *)

DistinctCStrings == \A p, q \in Polygons : CStr[p] = CStr[q] => p = q

Matching(d) ==
  \A i \in Indexes, p \in Polygons, t \in Terms :
    p \in d.cells[i][t] <=> t \in d.cellinfo[i][CStr[p]]

Consistent(d) ==
  /\ WellFormed(d)
  /\ d.wrongHash = {} /\ d.wrongSet = {}
  /\ Matching(d)
  /\ \A i \in Indexes, p \in Polygons :
       IF d.polygons[i][p] = NoBody
         THEN d.cellinfo[i][CStr[p]] = {}
         ELSE /\ d.polygons[i][p] \in ValidBodies
              /\ d.cellinfo[i][CStr[p]] = IndexPolygon[d.polygons[i][p]]
              /\ d.cellinfo[i][CStr[p]] # {}
  /\ \A i \in Indexes : ~IsIndex(d, i) => d.polygons[i] = NoPolygons

\* The keyspace itself tells the rest: no body, no cellinfo; no cellinfo, no cells.
LEMMA ConsistentEmpty ==
  ASSUME NEW d, Consistent(d), NEW i \in Indexes, d.polygons[i] = NoPolygons
  PROVE  d.cellinfo[i] = NoTerms /\ d.cells[i] = NoMembers
<1>1. \A p \in Polygons : d.cellinfo[i][CStr[p]] = {}
  BY DEF Consistent, NoPolygons
<1>2. d.cellinfo[i] = NoTerms
  <2>1. \A c \in CNames : d.cellinfo[i][c] = {}
    BY <1>1 DEF CNames
  <2>2. d.cellinfo[i] \in [CNames -> SUBSET Terms]
    BY DEF Consistent, WellFormed, Keyspaces
  <2> QED BY <2>1, <2>2 DEF NoTerms
<1>3. d.cells[i] = NoMembers
  <2>1. \A t \in Terms : d.cells[i][t] \in SUBSET Polygons
    BY DEF Consistent, WellFormed, Keyspaces
  <2>2. \A t \in Terms : d.cells[i][t] = {}
    BY <1>1, <2>1 DEF Consistent, Matching
  <2>3. d.cells[i] \in [Terms -> SUBSET Polygons]
    BY DEF Consistent, WellFormed, Keyspaces
  <2> QED BY <2>2, <2>3 DEF NoMembers
<1> QED BY <1>2, <1>3

LEMMA UnusedConsistent ==
  ASSUME NEW m \in [Indexes -> {"none", "foreign"}]
  PROVE  Consistent(Unused(m))
<1>1. \A p \in Polygons : CStr[p] \in CNames
  BY DEF CNames
<1> QED BY <1>1, UnusedWellFormed
        DEF Consistent, Matching, Unused, EmptyKeyspace, NoPolygons, NoTerms, NoMembers, IsIndex

LEMMA CreateIndexConsistent ==
  ASSUME NEW d, Consistent(d), NEW i \in Indexes
  PROVE  Consistent(CreateIndex(d, i))
<1>1. PICK e : e = CreateIndex(d, i)
  OBVIOUS
<1>2. MetaSet(d, e, i, "index")
  BY <1>1, CreateIndexFields DEF Consistent, WellFormed
<1>3. WellFormed(e)
  BY <1>1, CreateIndexWellFormed DEF Consistent
<1> QED BY <1>1, <1>2, <1>3 DEF Consistent, Matching, MetaSet, SameBut, IsIndex

(* The effect every writing command comes down to: in index i the polygons *)
(* of P get body b and the terms T, and nothing else changes.              *)
Rewritten(d, e, i, P, b, T) ==
  \A j \in Indexes, q \in Polygons :
    LET hit == j = i /\ q \in P IN
    /\ e.polygons[j][q] = IF hit THEN b ELSE d.polygons[j][q]
    /\ e.cellinfo[j][CStr[q]] = IF hit THEN T ELSE d.cellinfo[j][CStr[q]]
    /\ \A t \in Terms :
         q \in e.cells[j][t] <=> (hit /\ t \in T) \/ (~hit /\ q \in d.cells[j][t])

LEMMA RewrittenConsistent ==
  ASSUME NEW d, Consistent(d), NEW e, WellFormed(e),
         e.wrongHash = d.wrongHash, e.wrongSet = d.wrongSet,
         NEW i \in Indexes, NEW P \in SUBSET Polygons, NEW b, NEW T,
         Rewritten(d, e, i, P, b, T),
         \/ b = NoBody /\ T = {}
         \/ b \in ValidBodies /\ T = IndexPolygon[b] /\ T # {},
         \A j \in Indexes : ~IsIndex(e, j) => e.polygons[j] = NoPolygons
  PROVE  Consistent(e)
<1>1. Matching(e)
  BY DEF Rewritten, Consistent, Matching
<1>2. ASSUME NEW j \in Indexes, NEW q \in Polygons
      PROVE  IF e.polygons[j][q] = NoBody
               THEN e.cellinfo[j][CStr[q]] = {}
               ELSE /\ e.polygons[j][q] \in ValidBodies
                    /\ e.cellinfo[j][CStr[q]] = IndexPolygon[e.polygons[j][q]]
                    /\ e.cellinfo[j][CStr[q]] # {}
  <2>1. CASE j = i /\ q \in P
    <3>1. e.polygons[j][q] = b /\ e.cellinfo[j][CStr[q]] = T
      BY <2>1 DEF Rewritten
    <3> QED BY <3>1, GeometryAssumption
  <2>2. CASE ~(j = i /\ q \in P)
    <3>1. /\ e.polygons[j][q] = d.polygons[j][q]
          /\ e.cellinfo[j][CStr[q]] = d.cellinfo[j][CStr[q]]
      BY <2>2 DEF Rewritten
    <3> QED BY <3>1 DEF Consistent
  <2> QED BY <2>1, <2>2
<1> QED BY <1>1, <1>2 DEF Consistent

\* e is d without a trace of D in the cells of i.
Cleared(d, e, i, D) ==
  \A j \in Indexes, q \in Polygons :
    LET hit == j = i /\ q \in D IN
    /\ e.cellinfo[j][CStr[q]] = IF hit THEN {} ELSE d.cellinfo[j][CStr[q]]
    /\ \A t \in Terms : q \in e.cells[j][t] <=> q \in d.cells[j][t] /\ ~hit

LEMMA CellsCleared ==
  ASSUME DistinctCStrings, NEW d \in Keyspaces, Matching(d),
         NEW i \in Indexes, NEW D \in SUBSET Polygons,
         NEW e, CellsTakenOut(d, e, i, D)
  PROVE  Cleared(d, e, i, D)
<1> SUFFICES ASSUME NEW j \in Indexes, NEW q \in Polygons
             PROVE  /\ e.cellinfo[j][CStr[q]] =
                         IF j = i /\ q \in D THEN {} ELSE d.cellinfo[j][CStr[q]]
                    /\ \A t \in Terms : q \in e.cells[j][t] <=>
                         q \in d.cells[j][t] /\ ~(j = i /\ q \in D)
  BY DEF Cleared
<1>1. CStr[q] \in CNames
  BY DEF CNames
<1>2. (\E p \in D : CStr[p] = CStr[q]) <=> q \in D
  BY DEF DistinctCStrings
<1> QED BY <1>1, <1>2 DEF CellsTakenOut, Matching

LEMMA SetPolygonConsistent ==
  ASSUME DistinctCStrings, NEW d, Consistent(d), NEW e, WellFormed(e),
         NEW i \in Indexes, IsIndex(d, i), NEW p \in Polygons,
         NEW b \in ValidBodies, IndexPolygon[b] # {},
         e = SetPolygonCells(DeletePolygonCells(SetPolygonBody(d, i, p, b), i, {p}),
                             i, p, IndexPolygon[b])
  PROVE  Consistent(e)
<1> DEFINE T == IndexPolygon[b]
<1>1. b \in Bodies /\ T \in SUBSET Terms
  BY GeometryAssumption
<1>2. PICK d1 : d1 = SetPolygonBody(d, i, p, b) /\ BodySet(d, d1, i, p, b)
  BY <1>1, SetPolygonBodyFields DEF Consistent, WellFormed
<1>3. PICK d2 : d2 = DeletePolygonCells(d1, i, {p}) /\ CellsTakenOut(d1, d2, i, {p})
  BY <1>2, DeletePolygonCellsFields DEF BodySet
<1>4. CellsSet(d2, e, i, p, T)
  BY <1>1, <1>2, <1>3, SetPolygonCellsFields DEF CellsTakenOut
<1>5. Matching(d1) /\ d1 \in Keyspaces
  BY <1>2 DEF BodySet, SameBut, Consistent, Matching
<1>6. /\ e.meta = d.meta /\ e.polygons = d1.polygons
      /\ e.wrongHash = d.wrongHash /\ e.wrongSet = d.wrongSet
      /\ d1.cellinfo = d.cellinfo /\ d1.cells = d.cells /\ d2.wrongSet = {}
  BY <1>2, <1>3, <1>4 DEF BodySet, CellsTakenOut, CellsSet, SameBut, Consistent
<1>7. Rewritten(d, e, i, {p}, b, T)
  <2> SUFFICES ASSUME NEW j \in Indexes, NEW q \in Polygons
               PROVE  /\ e.polygons[j][q] = IF j = i /\ q \in {p} THEN b ELSE d.polygons[j][q]
                      /\ e.cellinfo[j][CStr[q]] =
                           IF j = i /\ q \in {p} THEN T ELSE d.cellinfo[j][CStr[q]]
                      /\ \A t \in Terms : q \in e.cells[j][t] <=>
                           \/ j = i /\ q \in {p} /\ t \in T
                           \/ ~(j = i /\ q \in {p}) /\ q \in d.cells[j][t]
    BY DEF Rewritten
  <2>1. e.polygons[j][q] = IF j = i /\ q = p THEN b ELSE d.polygons[j][q]
    BY <1>2, <1>6 DEF BodySet, Consistent
  <2>2. /\ d2.cellinfo[j][CStr[q]] = IF j = i /\ q \in {p} THEN {} ELSE d1.cellinfo[j][CStr[q]]
        /\ \A t \in Terms :
             q \in d2.cells[j][t] <=> q \in d1.cells[j][t] /\ ~(j = i /\ q \in {p})
    <3>1. Cleared(d1, d2, i, {p})
      BY <1>3, <1>5, CellsCleared
    <3> QED BY <3>1 DEF Cleared
  <2>3. CStr[q] \in CNames /\ (CStr[q] = CStr[p] <=> q = p)
    BY DEF CNames, DistinctCStrings
  <2>4. e.cellinfo[j][CStr[q]] =
          IF j = i /\ q = p THEN d2.cellinfo[j][CStr[q]] \cup T ELSE d2.cellinfo[j][CStr[q]]
    BY <1>4, <2>3 DEF CellsSet
  <2>5. ASSUME NEW t \in Terms
        PROVE  q \in e.cells[j][t] <=> q \in d2.cells[j][t] \/ (j = i /\ q = p /\ t \in T)
    <3>1. CASE j = i /\ t \in T
      <4>1. e.cells[j][t] = d2.cells[j][t] \cup {p}
        BY <1>4, <1>6, <3>1 DEF CellsSet
      <4> QED BY <3>1, <4>1
    <3>2. CASE ~(j = i /\ t \in T)
      BY <1>4, <3>2 DEF CellsSet
    <3> QED BY <3>1, <3>2
  <2> HIDE DEF T
  <2> QED BY <1>6, <2>1, <2>2, <2>4, <2>5
<1>8. ASSUME NEW j \in Indexes, ~IsIndex(e, j)
      PROVE  e.polygons[j] = NoPolygons
  <2>1. j # i /\ d.polygons[j] = NoPolygons
    BY <1>6, <1>8 DEF Consistent, IsIndex
  <2>2. ASSUME NEW q \in Polygons PROVE e.polygons[j][q] = NoBody
    <3>1. e.polygons[j][q] = d.polygons[j][q]
      BY <1>7, <2>1 DEF Rewritten
    <3> QED BY <2>1, <3>1 DEF NoPolygons
  <2>3. e.polygons[j] \in [Polygons -> Bodies \cup {NoBody}]
    BY DEF WellFormed, Keyspaces
  <2> QED BY <2>2, <2>3 DEF NoPolygons
<1> QED BY <1>6, <1>7, <1>8, RewrittenConsistent

LEMMA DeletePolygonConsistent ==
  ASSUME DistinctCStrings, NEW d, Consistent(d), NEW e, WellFormed(e),
         NEW i \in Indexes, IsIndex(d, i), NEW p \in Polygons,
         e = DeletePolygonCells(DeletePolygonBody(d, i, {p}), i, {p})
  PROVE  Consistent(e)
<1>1. PICK d1 : d1 = DeletePolygonBody(d, i, {p}) /\ BodiesDeleted(d, d1, i, {p})
  BY DeletePolygonBodyFields DEF Consistent, WellFormed
<1>2. CellsTakenOut(d1, e, i, {p})
  BY <1>1, DeletePolygonCellsFields DEF BodiesDeleted
<1>3. Matching(d1) /\ d1 \in Keyspaces
  BY <1>1 DEF BodiesDeleted, SameBut, Consistent, Matching
<1>4. Cleared(d1, e, i, {p})
  BY <1>2, <1>3, CellsCleared
<1>5. /\ e.meta = d.meta /\ e.polygons = d1.polygons
      /\ e.wrongHash = d.wrongHash /\ e.wrongSet = d.wrongSet
      /\ d1.cellinfo = d.cellinfo /\ d1.cells = d.cells
  BY <1>1, <1>2 DEF BodiesDeleted, CellsTakenOut, SameBut
<1>6. Rewritten(d, e, i, {p}, NoBody, {})
  <2> SUFFICES ASSUME NEW j \in Indexes, NEW q \in Polygons
               PROVE  /\ e.polygons[j][q] = IF j = i /\ q \in {p} THEN NoBody ELSE d.polygons[j][q]
                      /\ e.cellinfo[j][CStr[q]] =
                           IF j = i /\ q \in {p} THEN {} ELSE d.cellinfo[j][CStr[q]]
                      /\ \A t \in Terms : q \in e.cells[j][t] <=>
                           \/ j = i /\ q \in {p} /\ t \in {}
                           \/ ~(j = i /\ q \in {p}) /\ q \in d.cells[j][t]
    BY DEF Rewritten
  <2>1. e.polygons[j][q] = IF j = i /\ q \in {p} THEN NoBody ELSE d.polygons[j][q]
    BY <1>1, <1>5 DEF BodiesDeleted
  <2>2. /\ e.cellinfo[j][CStr[q]] = IF j = i /\ q \in {p} THEN {} ELSE d1.cellinfo[j][CStr[q]]
        /\ \A t \in Terms : q \in e.cells[j][t] <=>
             q \in d1.cells[j][t] /\ ~(j = i /\ q \in {p})
    BY <1>4 DEF Cleared
  <2> QED BY <1>5, <2>1, <2>2
<1>7. ASSUME NEW j \in Indexes, ~IsIndex(e, j)
      PROVE  e.polygons[j] = NoPolygons
  <2>1. j # i /\ d.polygons[j] = NoPolygons
    BY <1>5, <1>7 DEF Consistent, IsIndex
  <2>2. ASSUME NEW q \in Polygons PROVE e.polygons[j][q] = NoBody
    <3>1. e.polygons[j][q] = d.polygons[j][q]
      BY <1>1, <1>5, <2>1 DEF BodiesDeleted
    <3> QED BY <2>1, <3>1 DEF NoPolygons
  <2>3. e.polygons[j] \in [Polygons -> Bodies \cup {NoBody}]
    BY DEF WellFormed, Keyspaces
  <2> QED BY <2>2, <2>3 DEF NoPolygons
<1> QED BY <1>5, <1>6, <1>7, RewrittenConsistent

\* IDEL never gives up: every listed polygon has cells, under a C string of its own.
LEMMA NothingStops ==
  ASSUME DistinctCStrings, NEW d, Consistent(d), NEW i \in Indexes,
         NEW D \in SUBSET ListPolygons(d, i)
  PROVE  Deletable(d, i, D)
  BY DEF Deletable, ListPolygons, HasCells, DistinctCStrings, Consistent

LEMMA DeleteIndexConsistent ==
  ASSUME DistinctCStrings, NEW d, Consistent(d), NEW e, WellFormed(e),
         NEW i \in Indexes, IsIndex(d, i), e = DeleteIndex(d, i)
  PROVE  Consistent(e)
<1>1. PICK L : L = ListPolygons(d, i)
  OBVIOUS
<1>2. L \in SUBSET Polygons
  BY <1>1 DEF ListPolygons
<1>3. PICK d1 : d1 = DeletePolygonCells(d, i, L) /\ CellsTakenOut(d, d1, i, L)
  BY <1>2, DeletePolygonCellsFields DEF Consistent, WellFormed
<1>4. PICK d2 : d2 = DeletePolygonBody(d1, i, L) /\ BodiesDeleted(d1, d2, i, L)
  BY <1>3, DeletePolygonBodyFields DEF CellsTakenOut
<1>5. e = [d2 EXCEPT !.meta[i] = "none"]
  BY <1>1, <1>3, <1>4 DEF DeleteIndex, DeletePolygons
<1>6. MetaSet(d2, e, i, "none")
  <2>1. d2 \in Keyspaces
    BY <1>4 DEF BodiesDeleted
  <2> QED BY <1>5, <2>1, MetaFields
<1>7. Cleared(d, d1, i, L)
  BY <1>2, <1>3, CellsCleared DEF Consistent, WellFormed
<1>8. /\ d2.meta = d.meta /\ d1.polygons = d.polygons
      /\ e.polygons = d2.polygons /\ e.cellinfo = d1.cellinfo /\ e.cells = d1.cells
      /\ e.wrongHash = d.wrongHash /\ e.wrongSet = d.wrongSet
  BY <1>3, <1>4, <1>6 DEF BodiesDeleted, CellsTakenOut, MetaSet, SameBut
<1>9. Rewritten(d, e, i, L, NoBody, {})
  BY <1>4, <1>7, <1>8 DEF Rewritten, Cleared, BodiesDeleted
<1>10. ASSUME NEW j \in Indexes, ~IsIndex(e, j)
       PROVE  e.polygons[j] = NoPolygons
  <2>1. ASSUME NEW q \in Polygons PROVE e.polygons[j][q] = NoBody
    <3>1. CASE j = i
      BY <1>1, <1>9, <3>1 DEF Rewritten, ListPolygons
    <3>2. CASE j # i
      <4>1. d.polygons[j] = NoPolygons
        BY <1>6, <1>8, <1>10, <3>2 DEF Consistent, MetaSet, IsIndex
      <4> QED BY <1>9, <3>2, <4>1 DEF Rewritten, NoPolygons
    <3> QED BY <3>1, <3>2
  <2>2. e.polygons[j] \in [Polygons -> Bodies \cup {NoBody}]
    BY DEF WellFormed, Keyspaces
  <2> QED BY <2>1, <2>2 DEF NoPolygons
<1> QED BY <1>2, <1>8, <1>9, <1>10, RewrittenConsistent

LEMMA ChangedConsistent ==
  ASSUME DistinctCStrings, NEW d, Consistent(d), NEW e, Changed(d, e)
  PROVE  Consistent(e)
<1>1. WellFormed(e)
  BY ChangedWellFormed DEF Consistent
<1>2. PICK i \in Indexes :
        \/ e = CreateIndex(d, i)
        \/ /\ IsIndex(d, i)
           /\ \/ \E p \in Polygons, b \in ValidBodies :
                   /\ IndexPolygon[b] # {}
                   /\ e = SetPolygonCells(
                            DeletePolygonCells(SetPolygonBody(d, i, p, b), i, {p}),
                            i, p, IndexPolygon[b])
              \/ \E p \in Polygons :
                   e = DeletePolygonCells(DeletePolygonBody(d, i, {p}), i, {p})
              \/ \E D \in SUBSET ListPolygons(d, i), q \in ListPolygons(d, i) :
                   StopsAt(d, i, D, q)
              \/ e = DeleteIndex(d, i)
  BY DEF Changed
<1>3. CASE e = CreateIndex(d, i)
  BY <1>3, CreateIndexConsistent
<1>4. ASSUME IsIndex(d, i), NEW p \in Polygons, NEW b \in ValidBodies,
             IndexPolygon[b] # {},
             e = SetPolygonCells(DeletePolygonCells(SetPolygonBody(d, i, p, b), i, {p}),
                                 i, p, IndexPolygon[b])
      PROVE  Consistent(e)
  BY <1>1, <1>4, SetPolygonConsistent
<1>5. ASSUME IsIndex(d, i), NEW p \in Polygons,
             e = DeletePolygonCells(DeletePolygonBody(d, i, {p}), i, {p})
      PROVE  Consistent(e)
  BY <1>1, <1>5, DeletePolygonConsistent
<1>6. ASSUME NEW D \in SUBSET ListPolygons(d, i), NEW q \in ListPolygons(d, i),
             StopsAt(d, i, D, q)
      PROVE  FALSE
  <2>1. D \cup {q} \in SUBSET ListPolygons(d, i)
    OBVIOUS
  <2> QED BY <1>6, <2>1, NothingStops DEF StopsAt
<1>7. CASE IsIndex(d, i) /\ e = DeleteIndex(d, i)
  BY <1>1, <1>7, DeleteIndexConsistent
<1> QED BY <1>2, <1>3, <1>4, <1>5, <1>6, <1>7


-----------------------------------------------------------------------------
(* What is left when bodies may have no index, after a DEL of a meta key   *)
(* for one: the types of the keys, whatever the names, and when no two     *)
(* names share a C string, the agreement of the two halves.                *)

\* No key has been given a value of another type.
RightTypes(d) == d \in Keyspaces /\ d.wrongHash = {} /\ d.wrongSet = {}

Sound(d) == RightTypes(d) /\ (DistinctCStrings => Matching(d))

LEMMA SameCellsSound ==
  ASSUME NEW d, Sound(d), NEW e \in Keyspaces, NEW F, F \in {{"meta"}, {"polygons"}},
         SameBut(d, e, F)
  PROVE  Sound(e)
  BY DEF Sound, RightTypes, Matching, SameBut

LEMMA MetaSound ==
  ASSUME NEW d, Sound(d), NEW i \in Indexes, NEW m \in {"none", "index"}
  PROVE  Sound([d EXCEPT !.meta[i] = m])
  BY MetaFields, SameCellsSound DEF Sound, RightTypes, MetaSet

LEMMA SetPolygonBodySound ==
  ASSUME NEW d, Sound(d), NEW i \in Indexes, NEW p \in Polygons, NEW b \in Bodies
  PROVE  Sound(SetPolygonBody(d, i, p, b))
  BY SetPolygonBodyFields, SameCellsSound DEF Sound, RightTypes, BodySet

LEMMA DeletePolygonBodySound ==
  ASSUME NEW d, Sound(d), NEW i \in Indexes, NEW D
  PROVE  Sound(DeletePolygonBody(d, i, D))
  BY DeletePolygonBodyFields, SameCellsSound DEF Sound, RightTypes, BodiesDeleted

LEMMA DeletePolygonCellsSound ==
  ASSUME NEW d, Sound(d), NEW i \in Indexes, NEW D \in SUBSET Polygons
  PROVE  Sound(DeletePolygonCells(d, i, D))
<1>1. PICK e : e = DeletePolygonCells(d, i, D) /\ CellsTakenOut(d, e, i, D)
  BY DeletePolygonCellsFields DEF Sound, RightTypes
<1>2. DistinctCStrings => Cleared(d, e, i, D)
  BY <1>1, CellsCleared DEF Sound, RightTypes
<1>3. RightTypes(e)
  BY <1>1 DEF CellsTakenOut, SameBut, Sound, RightTypes
<1>4. DistinctCStrings => Matching(e)
  BY <1>2 DEF Cleared, Sound, Matching
<1> QED BY <1>1, <1>3, <1>4 DEF Sound

LEMMA SetPolygonCellsSound ==
  ASSUME NEW d, Sound(d), NEW i \in Indexes, NEW p \in Polygons,
         NEW T \in SUBSET Terms
  PROVE  Sound(SetPolygonCells(d, i, p, T))
<1>1. PICK e : e = SetPolygonCells(d, i, p, T) /\ CellsSet(d, e, i, p, T)
  BY SetPolygonCellsFields DEF Sound, RightTypes
<1>2. RightTypes(e)
  BY <1>1 DEF CellsSet, SameBut, Sound, RightTypes
<1>3. ASSUME DistinctCStrings, NEW j \in Indexes, NEW q \in Polygons, NEW t \in Terms
      PROVE  q \in e.cells[j][t] <=> t \in e.cellinfo[j][CStr[q]]
  <2>1. CStr[q] \in CNames /\ (CStr[q] = CStr[p] <=> q = p)
    BY <1>3 DEF CNames, DistinctCStrings
  <2>2. e.cellinfo[j][CStr[q]] = IF j = i /\ q = p THEN d.cellinfo[j][CStr[q]] \cup T
                                 ELSE d.cellinfo[j][CStr[q]]
    BY <1>1, <2>1 DEF CellsSet
  <2>3. e.cells[j][t] = IF j = i /\ t \in T THEN d.cells[j][t] \cup {p} ELSE d.cells[j][t]
    BY <1>1 DEF CellsSet, Sound, RightTypes
  <2>4. q \in d.cells[j][t] <=> t \in d.cellinfo[j][CStr[q]]
    BY <1>3 DEF Sound, Matching
  <2> QED BY <2>2, <2>3, <2>4
<1> QED BY <1>1, <1>2, <1>3 DEF Sound, Matching

LEMMA ChangedSound ==
  ASSUME NEW d, Sound(d), NEW e, Changed(d, e)
  PROVE  Sound(e)
<1>1. PICK i \in Indexes :
        \/ e = CreateIndex(d, i)
        \/ \E p \in Polygons, b \in ValidBodies :
             e = SetPolygonCells(
                   DeletePolygonCells(SetPolygonBody(d, i, p, b), i, {p}),
                   i, p, IndexPolygon[b])
        \/ \E p \in Polygons :
             e = DeletePolygonCells(DeletePolygonBody(d, i, {p}), i, {p})
        \/ \E D \in SUBSET ListPolygons(d, i), q \in ListPolygons(d, i) :
             e = DeleteIndexStopped(d, i, D, q)
        \/ e = DeleteIndex(d, i)
  BY DEF Changed
<1>2. CASE e = CreateIndex(d, i)
  BY <1>2, MetaSound DEF CreateIndex
<1>3. ASSUME NEW p \in Polygons, NEW b \in ValidBodies,
             e = SetPolygonCells(
                   DeletePolygonCells(SetPolygonBody(d, i, p, b), i, {p}),
                   i, p, IndexPolygon[b])
      PROVE  Sound(e)
  <2>1. b \in Bodies /\ IndexPolygon[b] \in SUBSET Terms
    BY GeometryAssumption
  <2>2. Sound(SetPolygonBody(d, i, p, b))
    BY <2>1, SetPolygonBodySound
  <2>3. Sound(DeletePolygonCells(SetPolygonBody(d, i, p, b), i, {p}))
    BY <2>2, DeletePolygonCellsSound
  <2> QED BY <1>3, <2>1, <2>3, SetPolygonCellsSound
<1>4. ASSUME NEW p \in Polygons,
             e = DeletePolygonCells(DeletePolygonBody(d, i, {p}), i, {p})
      PROVE  Sound(e)
  BY <1>4, DeletePolygonBodySound, DeletePolygonCellsSound
<1>5. ASSUME NEW D \in SUBSET Polygons PROVE Sound(DeletePolygons(d, i, D))
  BY <1>5, DeletePolygonBodySound, DeletePolygonCellsSound DEF DeletePolygons
<1>6. ASSUME NEW D \in SUBSET ListPolygons(d, i), NEW q \in ListPolygons(d, i),
             e = DeleteIndexStopped(d, i, D, q)
      PROVE  Sound(e)
  <2>1. D \in SUBSET Polygons
    BY DEF ListPolygons
  <2> QED BY <1>5, <1>6, <2>1, DeletePolygonBodySound DEF DeleteIndexStopped
<1>7. CASE e = DeleteIndex(d, i)
  <2>1. ListPolygons(d, i) \in SUBSET Polygons
    BY DEF ListPolygons
  <2> QED BY <1>5, <1>7, <2>1, MetaSound DEF DeleteIndex
<1> QED BY <1>1, <1>2, <1>3, <1>4, <1>6, <1>7
=============================================================================
