------------------------- MODULE GeoSelfTestProofs --------------------------
(***************************************************************************)
(* S2GEO.TEST and S2GEO.POPULATE, whatever the clients do between two      *)
(* runs of them, and whatever else the server holds.  The argument for     *)
(* TEST: the keyspace is the one it found, but for the test index, which   *)
(* is in one of a few states; its calls, read as a script, lead from the   *)
(* state "no index" back to it, and each call in its turn answers as it is *)
(* asserted to and makes the step the script needs.                        *)
(***************************************************************************)
EXTENDS GeoSelfTest, GeoCommandsProofs, SequenceTheorems

-----------------------------------------------------------------------------
(* The test index: its meta key, and the test polygons it has, each under  *)
(* its own body.                                                           *)

TestStates == [meta : {"none", "index"}, have : SUBSET TestPolygonNames]

Holding(meta, have) == [meta |-> meta, have |-> have]

\* The test index of d is in the state m.
At(d, m) ==
  /\ d.meta[kTestIndexName] = m.meta
  /\ \A p \in Polygons :
       d.polygons[kTestIndexName][p] = IF p \in m.have THEN p ELSE NoBody
  /\ \A c \in CNames :
       d.cellinfo[kTestIndexName][c] = IF c \in m.have THEN IndexPolygon[c] ELSE {}
  /\ \A t \in Terms, p \in Polygons :
       p \in d.cells[kTestIndexName][t] <=> p \in m.have /\ t \in IndexPolygon[p]

\* Every other index is in d what it is in e.
Elsewhere(d, e) ==
  \A j \in Indexes : j # kTestIndexName =>
    /\ d.meta[j] = e.meta[j]
    /\ \A p \in Polygons : d.polygons[j][p] = e.polygons[j][p]
    /\ \A c \in CNames : d.cellinfo[j][c] = e.cellinfo[j][c]
    /\ \A t \in Terms, p \in Polygons : p \in d.cells[j][t] <=> p \in e.cells[j][t]

\* d is d0 but for the test index, which is in the state m.
Holds(d, d0, m) == RightTypes(d) /\ m \in TestStates /\ At(d, m) /\ Elsewhere(d, d0)

LEMMA TestData ==
  /\ kTestIndexName \in Indexes
  /\ \A p \in TestPolygonNames :
       /\ p \in Polygons /\ p \in ValidBodies /\ p \in Bodies /\ p # NoBody
       /\ p \in CNames /\ CStr[p] = p
       /\ IndexPolygon[p] \in SUBSET Terms /\ IndexPolygon[p] # {}
  BY TestDataAssumption, GeometryAssumption DEF CNames

LEMMA HoldingFields ==
  ASSUME NEW meta \in {"none", "index"}, NEW have \in SUBSET TestPolygonNames
  PROVE  /\ Holding(meta, have) \in TestStates
         /\ Holding(meta, have).meta = meta /\ Holding(meta, have).have = have
  BY DEF Holding, TestStates

LEMMA CreateTestIndex ==
  ASSUME NEW d, NEW d0, NEW m, Holds(d, d0, m)
  PROVE  Holds(CreateIndex(d, kTestIndexName), d0, Holding("index", m.have))
<1>1. PICK e : e = CreateIndex(d, kTestIndexName)
  OBVIOUS
<1>2. MetaSet(d, e, kTestIndexName, "index")
  BY <1>1, CreateIndexFields, TestData DEF Holds, RightTypes
<1>3. m.have \in SUBSET TestPolygonNames
  BY DEF Holds, TestStates
<1>4. RightTypes(e)
  BY <1>2 DEF MetaSet, SameBut, Holds, RightTypes
<1>5. At(e, Holding("index", m.have))
  BY <1>2, <1>3, HoldingFields, TestData DEF MetaSet, SameBut, Holds, At
<1>6. Elsewhere(e, d0)
  BY <1>2 DEF MetaSet, SameBut, Holds, Elsewhere
<1> QED BY <1>1, <1>3, <1>4, <1>5, <1>6, HoldingFields DEF Holds

\* e is d with the test polygon p under its body and no others.
TestPolygonSet(d, e, p) ==
  /\ e.meta = d.meta
  /\ \A j \in Indexes, q \in Polygons :
       e.polygons[j][q] = IF j = kTestIndexName /\ q = p THEN p ELSE d.polygons[j][q]
  /\ \A j \in Indexes, c \in CNames :
       e.cellinfo[j][c] = IF j = kTestIndexName /\ c = p
                            THEN IndexPolygon[p] ELSE d.cellinfo[j][c]
  /\ \A j \in Indexes, t \in Terms, q \in Polygons :
       q \in e.cells[j][t] <=>
         \/ /\ q \in d.cells[j][t]
            /\ ~(j = kTestIndexName /\ q = p /\ t \in d.cellinfo[j][p])
         \/ j = kTestIndexName /\ q = p /\ t \in IndexPolygon[p]

TestPolygonWritten(d, p) ==
  SetPolygonCells(
    DeletePolygonCells(SetPolygonBody(d, kTestIndexName, p, p), kTestIndexName, {p}),
    kTestIndexName, p, IndexPolygon[p])

LEMMA TestPolygonIsSet ==
  ASSUME NEW d, RightTypes(d), NEW p \in TestPolygonNames
  PROVE  RightTypes(TestPolygonWritten(d, p)) /\ TestPolygonSet(d, TestPolygonWritten(d, p), p)
<1> DEFINE i == kTestIndexName
           T == IndexPolygon[p]
<1>1. /\ i \in Indexes /\ p \in Polygons /\ p \in Bodies /\ CStr[p] = p /\ p \in CNames
      /\ T \in SUBSET Terms
  BY TestData
<1>2. PICK d1 : d1 = SetPolygonBody(d, i, p, p) /\ BodySet(d, d1, i, p, p)
  BY <1>1, SetPolygonBodyFields DEF RightTypes
<1>3. PICK d2 : d2 = DeletePolygonCells(d1, i, {p}) /\ CellsTakenOut(d1, d2, i, {p})
  BY <1>1, <1>2, DeletePolygonCellsFields DEF BodySet
<1>4. PICK e : e = SetPolygonCells(d2, i, p, T) /\ CellsSet(d2, e, i, p, T)
  BY <1>1, <1>3, SetPolygonCellsFields DEF CellsTakenOut
<1>5. /\ e.meta = d.meta /\ e.polygons = d1.polygons
      /\ e.wrongHash = {} /\ e.wrongSet = {}
      /\ d1.cellinfo = d.cellinfo /\ d1.cells = d.cells /\ d2.wrongSet = {}
  <2>1. /\ d1.meta = d.meta /\ d1.cellinfo = d.cellinfo /\ d1.cells = d.cells
        /\ d1.wrongHash = {} /\ d1.wrongSet = {}
    BY <1>2 DEF BodySet, SameBut, RightTypes
  <2>2. /\ d2.meta = d1.meta /\ d2.polygons = d1.polygons
        /\ d2.wrongHash = d1.wrongHash /\ d2.wrongSet = d1.wrongSet
    BY <1>3 DEF CellsTakenOut, SameBut
  <2>3. /\ e.meta = d2.meta /\ e.polygons = d2.polygons
        /\ e.wrongHash = d2.wrongHash /\ e.wrongSet = d2.wrongSet
    BY <1>4 DEF CellsSet, SameBut
  <2> QED BY <2>1, <2>2, <2>3
<1>6. RightTypes(e)
  BY <1>4, <1>5 DEF CellsSet, RightTypes
<1>7. ASSUME NEW j \in Indexes, NEW q \in Polygons
      PROVE  e.polygons[j][q] = IF j = i /\ q = p THEN p ELSE d.polygons[j][q]
  BY <1>2, <1>5 DEF BodySet, Holds, RightTypes
<1>8. ASSUME NEW j \in Indexes, NEW c \in CNames
       PROVE  e.cellinfo[j][c] = IF j = i /\ c = p THEN T ELSE d.cellinfo[j][c]
  <2>1. d2.cellinfo[j][c] = IF j = i /\ c = p THEN {} ELSE d.cellinfo[j][c]
    <3>1. (\E q \in {p} : CStr[q] = c) <=> c = p
      BY <1>1
    <3>2. d2.cellinfo[j][c] = IF j = i /\ \E q \in {p} : CStr[q] = c
                                THEN {} ELSE d1.cellinfo[j][c]
      BY <1>3 DEF CellsTakenOut
    <3> QED BY <1>5, <3>1, <3>2
  <2>2. e.cellinfo[j][c] = IF j = i /\ c = p THEN d2.cellinfo[j][c] \cup T ELSE d2.cellinfo[j][c]
    BY <1>1, <1>4 DEF CellsSet
  <2> QED BY <2>1, <2>2
<1>9. ASSUME NEW j \in Indexes, NEW t \in Terms, NEW q \in Polygons
       PROVE  q \in e.cells[j][t] <=>
                \/ q \in d.cells[j][t] /\ ~(j = i /\ q = p /\ t \in d.cellinfo[j][p])
                \/ j = i /\ q = p /\ t \in T
  <2>1. q \in d2.cells[j][t] <=>
          q \in d.cells[j][t] /\ ~(j = i /\ q = p /\ t \in d.cellinfo[j][p])
    <3>1. q \in d2.cells[j][t] <=>
            q \in d.cells[j][t] /\ ~(j = i /\ q \in {p} /\ t \in d.cellinfo[j][CStr[q]])
      BY <1>3, <1>5 DEF CellsTakenOut
    <3> QED BY <1>1, <3>1
  <2>2. e.cells[j][t] = IF j = i /\ t \in T THEN d2.cells[j][t] \cup {p} ELSE d2.cells[j][t]
    BY <1>4, <1>5 DEF CellsSet
  <2> QED BY <2>1, <2>2
<1> HIDE DEF T
<1>10. TestPolygonSet(d, e, p)
  BY <1>5, <1>7, <1>8, <1>9 DEF TestPolygonSet, T
<1> QED BY <1>2, <1>3, <1>4, <1>6, <1>10 DEF TestPolygonWritten, T

LEMMA SetTestPolygon ==
  ASSUME NEW d, NEW d0, NEW m, Holds(d, d0, m), NEW p \in TestPolygonNames
  PROVE  Holds(TestPolygonWritten(d, p), d0, Holding(m.meta, m.have \cup {p}))
<1> DEFINE i == kTestIndexName
           T == IndexPolygon[p]
<1>1. i \in Indexes /\ p \in Polygons /\ p \in CNames
  BY TestData
<1>2. PICK e : e = TestPolygonWritten(d, p) /\ RightTypes(e) /\ TestPolygonSet(d, e, p)
  BY TestPolygonIsSet DEF Holds
<1>3. PICK n : n = Holding(m.meta, m.have \cup {p})
  OBVIOUS
<1>4. n \in TestStates /\ n.meta = m.meta /\ n.have = m.have \cup {p}
  BY <1>3, HoldingFields DEF Holds, TestStates
<1>5. At(e, n)
  <2>1. e.meta[i] = n.meta
    BY <1>2, <1>4 DEF Holds, At, TestPolygonSet
  <2>2. \A q \in Polygons : e.polygons[i][q] = IF q \in n.have THEN q ELSE NoBody
    BY <1>1, <1>2, <1>4 DEF Holds, At, TestPolygonSet
  <2>3. \A c \in CNames : e.cellinfo[i][c] = IF c \in n.have THEN IndexPolygon[c] ELSE {}
    BY <1>1, <1>2, <1>4 DEF Holds, At, TestPolygonSet
  <2>4. \A t \in Terms, q \in Polygons :
          q \in e.cells[i][t] <=> q \in n.have /\ t \in IndexPolygon[q]
    <3> SUFFICES ASSUME NEW t \in Terms, NEW q \in Polygons
                 PROVE  q \in e.cells[i][t] <=> q \in n.have /\ t \in IndexPolygon[q]
      OBVIOUS
    <3>1. /\ q \in d.cells[i][t] <=> q \in m.have /\ t \in IndexPolygon[q]
          /\ d.cellinfo[i][p] = IF p \in m.have THEN IndexPolygon[p] ELSE {}
      BY <1>1 DEF Holds, At
    <3>2. q \in e.cells[i][t] <=>
                \/ q \in d.cells[i][t] /\ ~(q = p /\ t \in d.cellinfo[i][p])
                \/ q = p /\ t \in T
      BY <1>1, <1>2 DEF TestPolygonSet
    <3> QED BY <1>4, <3>1, <3>2
  <2> QED BY <2>1, <2>2, <2>3, <2>4 DEF At
<1>6. Elsewhere(e, d0)
  BY <1>2 DEF Holds, Elsewhere, TestPolygonSet
<1> QED BY <1>2, <1>3, <1>4, <1>5, <1>6 DEF Holds

\* e is d without the bodies and the cells of the test polygons of D.
TestPolygonsGone(d, e, D) ==
  /\ e.meta = d.meta
  /\ \A j \in Indexes, q \in Polygons :
       e.polygons[j][q] = IF j = kTestIndexName /\ q \in D
                            THEN NoBody ELSE d.polygons[j][q]
  /\ \A j \in Indexes, c \in CNames :
       e.cellinfo[j][c] = IF j = kTestIndexName /\ c \in D
                            THEN {} ELSE d.cellinfo[j][c]
  /\ \A j \in Indexes, t \in Terms, q \in Polygons :
       q \in e.cells[j][t] <=>
         /\ q \in d.cells[j][t]
         /\ ~(j = kTestIndexName /\ q \in D /\ t \in d.cellinfo[j][CStr[q]])

LEMMA TestPolygonsGo ==
  ASSUME NEW d, NEW d1, NEW d2, NEW D \in SUBSET TestPolygonNames,
         \/ BodiesDeleted(d, d1, kTestIndexName, D) /\ CellsTakenOut(d1, d2, kTestIndexName, D)
         \/ CellsTakenOut(d, d1, kTestIndexName, D) /\ BodiesDeleted(d1, d2, kTestIndexName, D),
         RightTypes(d)
  PROVE  RightTypes(d2) /\ TestPolygonsGone(d, d2, D)
<1> DEFINE i == kTestIndexName
<1>1. \A c : (\E p \in D : CStr[p] = c) <=> c \in D
  BY TestData
<1>2. RightTypes(d2) /\ d2.meta = d.meta
  BY DEF BodiesDeleted, CellsTakenOut, SameBut, RightTypes
<1>3. ASSUME NEW j \in Indexes, NEW q \in Polygons
      PROVE  d2.polygons[j][q] = IF j = i /\ q \in D THEN NoBody ELSE d.polygons[j][q]
  BY DEF BodiesDeleted, CellsTakenOut, SameBut
<1>4. ASSUME NEW j \in Indexes, NEW c \in CNames
      PROVE  d2.cellinfo[j][c] = IF j = i /\ c \in D THEN {} ELSE d.cellinfo[j][c]
  <2>1. CASE BodiesDeleted(d, d1, i, D) /\ CellsTakenOut(d1, d2, i, D)
    <3>1. d1.cellinfo = d.cellinfo
      BY <2>1 DEF BodiesDeleted, SameBut
    <3>2. d2.cellinfo[j][c] = IF j = i /\ \E p \in D : CStr[p] = c
                                THEN {} ELSE d1.cellinfo[j][c]
      BY <2>1 DEF CellsTakenOut
    <3> QED BY <1>1, <3>1, <3>2
  <2>2. CASE CellsTakenOut(d, d1, i, D) /\ BodiesDeleted(d1, d2, i, D)
    <3>1. d2.cellinfo = d1.cellinfo
      BY <2>2 DEF BodiesDeleted, SameBut
    <3>2. d1.cellinfo[j][c] = IF j = i /\ \E p \in D : CStr[p] = c
                                THEN {} ELSE d.cellinfo[j][c]
      BY <2>2 DEF CellsTakenOut
    <3> QED BY <1>1, <3>1, <3>2
  <2> QED BY <2>1, <2>2
<1>5. ASSUME NEW j \in Indexes, NEW t \in Terms, NEW q \in Polygons
      PROVE  q \in d2.cells[j][t] <=>
               /\ q \in d.cells[j][t]
               /\ ~(j = i /\ q \in D /\ t \in d.cellinfo[j][CStr[q]])
  <2>1. CASE BodiesDeleted(d, d1, i, D) /\ CellsTakenOut(d1, d2, i, D)
    <3>1. d1.cellinfo = d.cellinfo /\ d1.cells = d.cells
      BY <2>1 DEF BodiesDeleted, SameBut
    <3>2. q \in d2.cells[j][t] <=>
            q \in d1.cells[j][t] /\ ~(j = i /\ q \in D /\ t \in d1.cellinfo[j][CStr[q]])
      BY <2>1 DEF CellsTakenOut
    <3> QED BY <3>1, <3>2
  <2>2. CASE CellsTakenOut(d, d1, i, D) /\ BodiesDeleted(d1, d2, i, D)
    <3>1. d2.cells = d1.cells
      BY <2>2 DEF BodiesDeleted, SameBut
    <3>2. q \in d1.cells[j][t] <=>
            q \in d.cells[j][t] /\ ~(j = i /\ q \in D /\ t \in d.cellinfo[j][CStr[q]])
      BY <2>2 DEF CellsTakenOut
    <3> QED BY <3>1, <3>2
  <2> QED BY <2>1, <2>2
<1> QED BY <1>2, <1>3, <1>4, <1>5 DEF TestPolygonsGone

LEMMA TestPolygonsGoneHolds ==
  ASSUME NEW d, NEW d0, NEW m, Holds(d, d0, m),
         NEW D \in SUBSET TestPolygonNames, NEW e, RightTypes(e), TestPolygonsGone(d, e, D)
  PROVE  Holds(e, d0, Holding(m.meta, m.have \ D))
<1> DEFINE i == kTestIndexName
<1>1. PICK n : n = Holding(m.meta, m.have \ D)
  OBVIOUS
<1>2. n \in TestStates /\ n.meta = m.meta /\ n.have = m.have \ D
  BY <1>1, HoldingFields DEF Holds, TestStates
<1>3. At(e, n)
  <2>1. e.meta[i] = n.meta
    BY <1>2 DEF Holds, At, TestPolygonsGone
  <2>2. \A q \in Polygons : e.polygons[i][q] = IF q \in n.have THEN q ELSE NoBody
    BY <1>2, TestData DEF Holds, At, TestPolygonsGone
  <2>3. \A c \in CNames : e.cellinfo[i][c] = IF c \in n.have THEN IndexPolygon[c] ELSE {}
    BY <1>2, TestData DEF Holds, At, TestPolygonsGone
  <2>4. \A t \in Terms, q \in Polygons :
          q \in e.cells[i][t] <=> q \in n.have /\ t \in IndexPolygon[q]
    <3> SUFFICES ASSUME NEW t \in Terms, NEW q \in Polygons
                 PROVE  q \in e.cells[i][t] <=> q \in n.have /\ t \in IndexPolygon[q]
      OBVIOUS
    <3>1. q \in e.cells[i][t] <=>
            q \in d.cells[i][t] /\ ~(q \in D /\ t \in d.cellinfo[i][CStr[q]])
      BY TestData DEF TestPolygonsGone
    <3>2. q \in d.cells[i][t] <=> q \in m.have /\ t \in IndexPolygon[q]
      BY DEF Holds, At
    <3>3. q \in D /\ q \in m.have => d.cellinfo[i][CStr[q]] = IndexPolygon[q]
      BY TestData DEF Holds, At
    <3> QED BY <1>2, <3>1, <3>2, <3>3
  <2> QED BY <2>1, <2>2, <2>3, <2>4 DEF At
<1>4. Elsewhere(e, d0)
  BY DEF Holds, Elsewhere, TestPolygonsGone
<1> QED BY <1>1, <1>2, <1>3, <1>4 DEF Holds

LEMMA DeleteTestPolygon ==
  ASSUME NEW d, NEW d0, NEW m, Holds(d, d0, m), NEW p \in TestPolygonNames
  PROVE  Holds(DeletePolygonCells(DeletePolygonBody(d, kTestIndexName, {p}),
                                  kTestIndexName, {p}),
               d0, Holding(m.meta, m.have \ {p}))
<1> DEFINE i == kTestIndexName
<1>1. i \in Indexes /\ p \in Polygons
  BY TestData
<1>2. PICK d1 : d1 = DeletePolygonBody(d, i, {p}) /\ BodiesDeleted(d, d1, i, {p})
  BY <1>1, DeletePolygonBodyFields DEF Holds, RightTypes
<1>3. PICK e : e = DeletePolygonCells(d1, i, {p}) /\ CellsTakenOut(d1, e, i, {p})
  BY <1>1, <1>2, DeletePolygonCellsFields DEF BodiesDeleted
<1>4. RightTypes(e) /\ TestPolygonsGone(d, e, {p})
  BY <1>2, <1>3, TestPolygonsGo DEF Holds
<1> QED BY <1>2, <1>3, <1>4, TestPolygonsGoneHolds

\* IDEL lists the test polygons there are, and every one of them has its cells.
LEMMA TestPolygonsListed ==
  ASSUME NEW d, NEW d0, NEW m, Holds(d, d0, m)
  PROVE  /\ ListPolygons(d, kTestIndexName) = m.have
         /\ \A D \in SUBSET m.have : Deletable(d, kTestIndexName, D)
<1>1. m.have \in SUBSET TestPolygonNames
  BY DEF Holds, TestStates
<1>2. ListPolygons(d, kTestIndexName) = m.have
  BY <1>1, TestData DEF Holds, At, ListPolygons
<1>3. \A D \in SUBSET m.have : Deletable(d, kTestIndexName, D)
  BY <1>1, TestData DEF Holds, At, Deletable, HasCells
<1> QED BY <1>2, <1>3

LEMMA DeleteTestIndex ==
  ASSUME NEW d, NEW d0, NEW m, Holds(d, d0, m)
  PROVE  Holds(DeleteIndex(d, kTestIndexName), d0, Holding("none", {}))
<1> DEFINE i == kTestIndexName
<1>1. PICK D : D = ListPolygons(d, i)
  OBVIOUS
<1>2. i \in Indexes /\ D = m.have /\ D \in SUBSET TestPolygonNames /\ D \in SUBSET Polygons
  BY <1>1, TestData, TestPolygonsListed DEF Holds, TestStates
<1>3. PICK d1 : d1 = DeletePolygonCells(d, i, D) /\ CellsTakenOut(d, d1, i, D)
  BY <1>2, DeletePolygonCellsFields DEF Holds, RightTypes
<1>4. PICK d2 : d2 = DeletePolygonBody(d1, i, D) /\ BodiesDeleted(d1, d2, i, D)
  BY <1>2, <1>3, DeletePolygonBodyFields DEF CellsTakenOut
<1>5. RightTypes(d2) /\ TestPolygonsGone(d, d2, D)
  BY <1>2, <1>3, <1>4, TestPolygonsGo DEF Holds
<1>6. PICK n : n = Holding(m.meta, m.have \ D) /\ Holds(d2, d0, n)
  BY <1>2, <1>5, TestPolygonsGoneHolds
<1>7. n.have = {}
  BY <1>2, <1>6, HoldingFields DEF Holds, TestStates
<1>8. PICK e : e = [d2 EXCEPT !.meta[i] = "none"] /\ MetaSet(d2, e, i, "none")
  BY <1>2, <1>5, MetaFields DEF RightTypes
<1>9. e = DeleteIndex(d, i)
  BY <1>1, <1>3, <1>4, <1>8 DEF DeleteIndex, DeletePolygons
<1>10. RightTypes(e)
  BY <1>5, <1>8 DEF MetaSet, SameBut, RightTypes
<1>11. /\ e.meta[i] = "none" /\ e.polygons = d2.polygons
       /\ e.cellinfo = d2.cellinfo /\ e.cells = d2.cells
  BY <1>2, <1>8 DEF MetaSet, SameBut
<1>12. PICK o : o = Holding("none", {}) /\ o \in TestStates /\ o.meta = "none" /\ o.have = {}
  BY HoldingFields
<1>13. At(e, o)
  <2>1. \A p \in Polygons : d2.polygons[i][p] = NoBody
    BY <1>6, <1>7 DEF Holds, At
  <2>2. \A c \in CNames : d2.cellinfo[i][c] = {}
    BY <1>6, <1>7 DEF Holds, At
  <2>3. \A t \in Terms, p \in Polygons : p \notin d2.cells[i][t]
    BY <1>6, <1>7 DEF Holds, At
  <2> QED BY <1>11, <1>12, <2>1, <2>2, <2>3 DEF At
<1>14. Elsewhere(e, d0)
  BY <1>6, <1>8, <1>11 DEF MetaSet, Holds, Elsewhere
<1> QED BY <1>9, <1>10, <1>12, <1>13, <1>14 DEF Holds

-----------------------------------------------------------------------------
(* What each call of the scripts asserts of a test index in the state m,   *)
(* and the state n it leaves it in.                                        *)

\* The test polygons of m that a query for the terms T meets.
Found(T, m) == {p \in m.have : \E t \in T : t \in IndexPolygon[p]}

BodyIn(m, p) ==
  IF m.meta = "index" /\ p \in m.have THEN <<"string", p>> ELSE <<"null">>

SetsIndex(c, m, n) ==
  /\ m.meta = "none" /\ n = Holding("index", m.have)
  /\ c = On("ISET", <<>>, "ok", Any)

DeletesIndex(c, m, n) ==
  /\ m.meta = "index" /\ n = Holding("none", {})
  /\ c = On("IDEL", <<>>, "int", 1)

SetsPolygon(c, m, n) ==
  \E p \in TestPolygonNames :
    /\ m.meta = "index" /\ n = Holding("index", m.have \cup {p})
    /\ c = On("POLYSET", <<p, p>>, "int", 1)

DeletesPolygon(c, m, n) ==
  \E p \in TestPolygonNames :
    /\ m.meta = "index" /\ n = Holding("index", m.have \ {p})
    /\ \/ c = On("POLYDEL", <<p>>, "int", Any)
       \/ c = On("POLYDEL", <<p>>, "int", IF p \in m.have THEN 1 ELSE 0)

ReadsIndex(c, m) ==
  \/ m.meta = "index" /\ c = On("ISET", <<>>, "error", Any)
  \/ m.meta = "index" /\ c = On("IGET", <<>>, "ok", Any)
  \/ m.meta = "none" /\ c = On("IGET", <<>>, "null", Any)
  \/ m.meta = "none" /\ c = On("IDEL", <<>>, "int", 0)

ReadsPolygon(c, m) ==
  \E p \in TestPolygonNames :
    \/ m.meta = "index" /\ p \in m.have /\ c = On("POLYGET", <<p>>, "string", p)
    \/ ~(m.meta = "index" /\ p \in m.have) /\ c = On("POLYGET", <<p>>, "null", Any)

ReadsPolygons(c, m) ==
  \E ps \in Seq(TestPolygonNames) :
    \/ c = On("POLYMGET", <<ps>>, "list", [k \in DOMAIN ps |-> BodyIn(m, ps[k])])
    \/ /\ m.meta = "index" /\ \A k \in DOMAIN ps : ps[k] \in m.have
       /\ c = On("POLYMGET", <<ps>>, "bodies", RedisArrayToSet(ps))

ListsPolygons(c, m) ==
  c = On("POLYLIST", <<>>, "set", IF m.meta = "index" THEN m.have ELSE {})

Searches(c, m) ==
  \/ \E b \in TestPolygonNames \cup {"wide"} :
       \/ /\ m.meta = "index"
          /\ c = On("POLYSEARCH", <<b>>, "set", Found(IndexPolygonForOverlapTest[b], m))
       \/ m.meta = "none" /\ c = On("POLYSEARCH", <<b>>, "error", Any)
  \/ \E pt \in {"circle", "triangle", "square"} :
       \/ /\ m.meta = "index"
          /\ c = On("POINTSEARCH", <<pt>>, "set", Found(IndexPoint[pt], m))
       \/ m.meta = "none" /\ c = On("POINTSEARCH", <<pt>>, "error", Any)

Reads(c, m) ==
  \/ ReadsIndex(c, m) \/ ReadsPolygon(c, m) \/ ReadsPolygons(c, m)
  \/ ListsPolygons(c, m) \/ Searches(c, m)

Fits(c, m, n) ==
  /\ m \in TestStates /\ n \in TestStates
  /\ \/ SetsIndex(c, m, n) \/ DeletesIndex(c, m, n)
     \/ SetsPolygon(c, m, n) \/ DeletesPolygon(c, m, n)
     \/ n = m /\ Reads(c, m)

-----------------------------------------------------------------------------
(* A call that fits passes, and leaves the test index in the next state.   *)

LEMMA OnFields ==
  ASSUME NEW cmd, NEW rest, NEW type, NEW value
  PROVE  LET c == On(cmd, rest, type, value)
         IN  /\ c.cmd = cmd /\ c.type = type /\ c.value = value
             /\ c.args = <<kTestIndexName>> \o rest
  BY DEF On, Call

LEMMA Arguments ==
  ASSUME NEW i
  PROVE  /\ (<<i>> \o <<>>)[1] = i
         /\ \A x : (<<i>> \o <<x>>)[1] = i /\ (<<i>> \o <<x>>)[2] = x
         /\ \A x, y : /\ (<<i>> \o <<x, y>>)[1] = i /\ (<<i>> \o <<x, y>>)[2] = x
                      /\ (<<i>> \o <<x, y>>)[3] = y
  OBVIOUS

LEMMA PassesPlainly ==
  ASSUME NEW c, NEW out, c.type # "bodies", out[1] = c.type,
         c.value = Any \/ out[2] = c.value
  PROVE  Passes(c, out)
  BY DEF Passes

LEMMA TestNamesOk ==
  ASSUME NEW cmd, NEW args, NEW P \in SUBSET TestPolygonNames
  PROVE  NamesOk(kTestIndexName, P) /\ ~RefuseNames(cmd, args, kTestIndexName, P)
  BY TestData, NamesAssumption DEF NamesOk, RefuseNames, ValidateEntityName

LEMMA AnswerIs ==
  ASSUME NEW cmd, NEW args, NEW out
  PROVE  /\ Answer(cmd, args, out) => reply'[3] = out
         /\ Reply(cmd, args, out) => reply'[3] = out /\ db' = db
         /\ Refuse(cmd, args, out) => reply'[3] = <<"error", out>> /\ db' = db
  BY DEF Answer, Reply, Refuse

LEMMA RefusalIs ==
  ASSUME NEW cmd, NEW args, NEW text, Refuse(cmd, args, text)
  PROVE  db' = db /\ reply'[3][1] = "error"
<1>1. PICK out : out = reply'[3] /\ out = <<"error", text>> /\ db' = db
  BY AnswerIs
<1>2. out[1] = "error"
  BY <1>1
<1> QED BY <1>1, <1>2

\* What validation makes of a test index.
LEMMA TestIndexKind ==
  ASSUME NEW d, NEW d0, NEW m, Holds(d, d0, m)
  PROVE  /\ m.meta = "none" \/ m.meta = "index"
         /\ m.meta = "none" => NoSuchIndex(d, kTestIndexName)
         /\ m.meta = "index" => IsIndex(d, kTestIndexName)
         /\ IsIndex(d, kTestIndexName) <=> m.meta = "index"
         /\ NoSuchIndex(d, kTestIndexName) <=> m.meta = "none"
         /\ ~InvalidIndex(d, kTestIndexName) /\ ~ListFails(d, kTestIndexName)
         /\ \A T : ~SearchFails(d, kTestIndexName, T)
  BY DEF Holds, At, TestStates, RightTypes, NoSuchIndex, IsIndex, InvalidIndex,
         ListFails, SearchFails

LEMMA SetIndexFits ==
  ASSUME NEW m, NEW n, NEW c, Holds(db, before, m),
         SetsIndex(c, m, n), Perform(c.cmd, c.args)
  PROVE  Passes(c, reply'[3]) /\ Holds(db', before, n)
<1>1. c = On("ISET", <<>>, "ok", Any) /\ m.meta = "none"
  BY DEF SetsIndex
<1>2. c.cmd = "ISET" /\ c.type = "ok" /\ c.value = Any /\ c.args[1] = kTestIndexName
  BY <1>1, OnFields, Arguments
<1>3. SetIndexCommand(kTestIndexName)
  BY <1>2 DEF Perform
<1>4. db' = CreateIndex(db, kTestIndexName) /\ reply'[3] = <<"ok">>
  BY <1>1, <1>3, TestNamesOk, TestIndexKind, AnswerIs DEF SetIndexCommand
<1>5. Passes(c, reply'[3])
  BY <1>2, <1>4, PassesPlainly
<1>6. Holds(db', before, n)
  BY <1>4, CreateTestIndex DEF SetsIndex
<1> QED BY <1>5, <1>6

LEMMA DeleteIndexFits ==
  ASSUME NEW m, NEW n, NEW c, Holds(db, before, m),
         DeletesIndex(c, m, n), Perform(c.cmd, c.args)
  PROVE  Passes(c, reply'[3]) /\ Holds(db', before, n)
<1>1. c = On("IDEL", <<>>, "int", 1) /\ m.meta = "index"
  BY DEF DeletesIndex
<1>2. c.cmd = "IDEL" /\ c.type = "int" /\ c.value = 1 /\ c.args[1] = kTestIndexName
  BY <1>1, OnFields, Arguments
<1>3. DeleteIndexCommand(kTestIndexName)
  BY <1>2 DEF Perform
<1>4. \A D, q : ~StopsAt(db, kTestIndexName, D, q)
  BY TestPolygonsListed DEF StopsAt
<1>5. db' = DeleteIndex(db, kTestIndexName) /\ reply'[3] = <<"int", 1>>
  BY <1>1, <1>3, <1>4, TestNamesOk, TestIndexKind, AnswerIs DEF DeleteIndexCommand
<1>6. Passes(c, reply'[3])
  BY <1>2, <1>5, PassesPlainly
<1>7. Holds(db', before, n)
  BY <1>5, DeleteTestIndex DEF DeletesIndex
<1> QED BY <1>6, <1>7

LEMMA TestPolygonSets ==
  ASSUME IsIndex(db, kTestIndexName), NEW p \in TestPolygonNames,
         SetPolygonCommand(kTestIndexName, p, p)
  PROVE  db' = TestPolygonWritten(db, p) /\ reply'[3] = <<"int", 1>>
  BY TestData, TestNamesOk, AnswerIs DEF SetPolygonCommand, TestPolygonWritten

LEMMA SetPolygonFits ==
  ASSUME NEW m, NEW n, NEW c, Holds(db, before, m),
         SetsPolygon(c, m, n), Perform(c.cmd, c.args)
  PROVE  Passes(c, reply'[3]) /\ Holds(db', before, n)
<1>1. PICK p \in TestPolygonNames :
        /\ m.meta = "index" /\ n = Holding("index", m.have \cup {p})
        /\ c = On("POLYSET", <<p, p>>, "int", 1)
  BY DEF SetsPolygon
<1>2. /\ c.cmd = "POLYSET" /\ c.type = "int" /\ c.value = 1
      /\ c.args[1] = kTestIndexName /\ c.args[2] = p /\ c.args[3] = p
  BY <1>1, OnFields, Arguments
<1>3. SetPolygonCommand(kTestIndexName, p, p)
  BY <1>2 DEF Perform
<1>4. db' = TestPolygonWritten(db, p) /\ reply'[3] = <<"int", 1>>
  BY <1>1, <1>3, TestIndexKind, TestPolygonSets
<1>5. Passes(c, reply'[3])
  BY <1>2, <1>4, PassesPlainly
<1>6. Holds(db', before, n)
  BY <1>1, <1>4, SetTestPolygon
<1> QED BY <1>5, <1>6

LEMMA DeletePolygonFits ==
  ASSUME NEW m, NEW n, NEW c, Holds(db, before, m),
         DeletesPolygon(c, m, n), Perform(c.cmd, c.args)
  PROVE  Passes(c, reply'[3]) /\ Holds(db', before, n)
<1> PICK p \in TestPolygonNames :
      /\ m.meta = "index" /\ n = Holding("index", m.have \ {p})
      /\ \/ c = On("POLYDEL", <<p>>, "int", Any)
         \/ c = On("POLYDEL", <<p>>, "int", IF p \in m.have THEN 1 ELSE 0)
  BY DEF DeletesPolygon
<1> PICK had : had = IF p \in m.have THEN 1 ELSE 0
  OBVIOUS
<1>1. PICK v : v \in {Any, had} /\ c = On("POLYDEL", <<p>>, "int", v)
  OBVIOUS
<1>2. /\ c.cmd = "POLYDEL" /\ c.type = "int" /\ c.value = v
      /\ c.args[1] = kTestIndexName /\ c.args[2] = p
  BY <1>1, OnFields, Arguments
<1>3. DeletePolygonCommand(kTestIndexName, p)
  BY <1>2 DEF Perform
<1>4. HasCells(db, kTestIndexName, p) <=> p \in m.have
  BY TestData DEF HasCells, Holds, At
<1>5. /\ db' = DeletePolygonCells(DeletePolygonBody(db, kTestIndexName, {p}),
                                  kTestIndexName, {p})
      /\ reply'[3] = <<"int", had>>
  BY <1>1, <1>3, <1>4, TestNamesOk, TestIndexKind, AnswerIs DEF DeletePolygonCommand
<1>6. Passes(c, reply'[3])
  <2>1. PICK out : out = reply'[3] /\ out = <<"int", had>>
    BY <1>5
  <2>2. out[1] = c.type /\ (c.value = Any \/ out[2] = c.value)
    BY <1>1, <1>2, <2>1
  <2>3. Passes(c, out)
    BY <1>2, <2>2, PassesPlainly
  <2> QED BY <2>1, <2>3
<1>7. Holds(db', before, n)
  BY <1>1, <1>5, DeleteTestPolygon
<1> QED BY <1>6, <1>7

LEMMA ReadIndexFits ==
  ASSUME NEW m, NEW c, Holds(db, before, m), ReadsIndex(c, m), Perform(c.cmd, c.args)
  PROVE  Passes(c, reply'[3]) /\ db' = db
<1>1. CASE m.meta = "index" /\ c = On("ISET", <<>>, "error", Any)
  <2>1. c.cmd = "ISET" /\ c.type = "error" /\ c.value = Any /\ c.args[1] = kTestIndexName
    BY <1>1, OnFields, Arguments
  <2>2. SetIndexCommand(kTestIndexName)
    BY <2>1 DEF Perform
  <2>3. Refuse("ISET", <<kTestIndexName>>, "index already exists")
    BY <1>1, <2>2, TestNamesOk, TestIndexKind DEF SetIndexCommand
  <2>4. db' = db /\ reply'[3][1] = "error"
    BY <2>3, RefusalIs
  <2> QED BY <2>1, <2>4, PassesPlainly
<1>2. CASE m.meta = "index" /\ c = On("IGET", <<>>, "ok", Any)
  <2>1. c.cmd = "IGET" /\ c.type = "ok" /\ c.value = Any /\ c.args[1] = kTestIndexName
    BY <1>2, OnFields, Arguments
  <2>2. GetIndexCommand(kTestIndexName)
    BY <2>1 DEF Perform
  <2>3. db' = db /\ reply'[3] = <<"ok">>
    BY <1>2, <2>2, TestNamesOk, TestIndexKind, AnswerIs DEF GetIndexCommand
  <2> QED BY <2>1, <2>3, PassesPlainly
<1>3. CASE m.meta = "none" /\ c = On("IGET", <<>>, "null", Any)
  <2>1. c.cmd = "IGET" /\ c.type = "null" /\ c.value = Any /\ c.args[1] = kTestIndexName
    BY <1>3, OnFields, Arguments
  <2>2. GetIndexCommand(kTestIndexName)
    BY <2>1 DEF Perform
  <2>3. db' = db /\ reply'[3] = <<"null">>
    BY <1>3, <2>2, TestNamesOk, TestIndexKind, AnswerIs DEF GetIndexCommand
  <2> QED BY <2>1, <2>3, PassesPlainly
<1>4. CASE m.meta = "none" /\ c = On("IDEL", <<>>, "int", 0)
  <2>1. c.cmd = "IDEL" /\ c.type = "int" /\ c.value = 0 /\ c.args[1] = kTestIndexName
    BY <1>4, OnFields, Arguments
  <2>2. DeleteIndexCommand(kTestIndexName)
    BY <2>1 DEF Perform
  <2>3. db' = db /\ reply'[3] = <<"int", 0>>
    BY <1>4, <2>2, TestNamesOk, TestIndexKind, AnswerIs DEF DeleteIndexCommand
  <2> QED BY <2>1, <2>3, PassesPlainly
<1> QED BY <1>1, <1>2, <1>3, <1>4 DEF ReadsIndex

\* What POLYGET and POLYMGET find of a polygon of the test.
LEMMA BodyFound ==
  ASSUME NEW m, Holds(db, before, m), m.meta = "index", NEW p \in TestPolygonNames
  PROVE  GetPolygonBody(db, kTestIndexName, p) = BodyIn(m, p)
  BY TestData DEF GetPolygonBody, BodyIn, Holds, At

LEMMA ReadPolygonFits ==
  ASSUME NEW m, NEW c, Holds(db, before, m), ReadsPolygon(c, m), Perform(c.cmd, c.args)
  PROVE  Passes(c, reply'[3]) /\ db' = db
<1>1. PICK p \in TestPolygonNames :
        \/ m.meta = "index" /\ p \in m.have /\ c = On("POLYGET", <<p>>, "string", p)
        \/ ~(m.meta = "index" /\ p \in m.have) /\ c = On("POLYGET", <<p>>, "null", Any)
  BY DEF ReadsPolygon
<1>2. c.cmd = "POLYGET" /\ c.args[1] = kTestIndexName /\ c.args[2] = p
  BY <1>1, OnFields, Arguments
<1>3. GetPolygonCommand(kTestIndexName, p)
  BY <1>2 DEF Perform
<1>4. db' = db /\ reply'[3] = BodyIn(m, p)
  <2>1. CASE m.meta = "none"
    <3>1. db' = db /\ reply'[3] = <<"null">>
      BY <1>3, <2>1, TestNamesOk, TestIndexKind, AnswerIs DEF GetPolygonCommand
    <3> QED BY <2>1, <3>1 DEF BodyIn
  <2>2. CASE m.meta = "index"
    BY <1>3, <2>2, BodyFound, TestNamesOk, TestIndexKind, AnswerIs DEF GetPolygonCommand
  <2> QED BY <2>1, <2>2, TestIndexKind
<1>5. CASE m.meta = "index" /\ p \in m.have /\ c = On("POLYGET", <<p>>, "string", p)
  <2>1. c.type = "string" /\ c.value = p /\ reply'[3] = <<"string", p>>
    BY <1>4, <1>5, OnFields DEF BodyIn
  <2> QED BY <1>4, <2>1, PassesPlainly
<1>6. CASE ~(m.meta = "index" /\ p \in m.have) /\ c = On("POLYGET", <<p>>, "null", Any)
  <2>1. c.type = "null" /\ c.value = Any /\ reply'[3] = <<"null">>
    BY <1>4, <1>6, OnFields DEF BodyIn
  <2> QED BY <1>4, <2>1, PassesPlainly
<1> QED BY <1>1, <1>5, <1>6

LEMMA ReadPolygonsFits ==
  ASSUME NEW m, NEW c, Holds(db, before, m), ReadsPolygons(c, m), Perform(c.cmd, c.args)
  PROVE  Passes(c, reply'[3]) /\ db' = db
<1>1. PICK ps \in Seq(TestPolygonNames) :
        \/ c = On("POLYMGET", <<ps>>, "list", [k \in DOMAIN ps |-> BodyIn(m, ps[k])])
        \/ /\ m.meta = "index" /\ \A k \in DOMAIN ps : ps[k] \in m.have
           /\ c = On("POLYMGET", <<ps>>, "bodies", RedisArrayToSet(ps))
  BY DEF ReadsPolygons
<1>2. c.cmd = "POLYMGET" /\ c.args[1] = kTestIndexName /\ c.args[2] = ps
  <2>1. \E type, value : c = On("POLYMGET", <<ps>>, type, value)
    BY <1>1
  <2>2. c.cmd = "POLYMGET" /\ c.args = <<kTestIndexName>> \o <<ps>>
    BY <2>1, OnFields
  <2> QED BY <2>2, Arguments
<1>3. GetMultiplePolygonsCommand(kTestIndexName, ps)
  BY <1>2 DEF Perform
<1>4. PICK P : P = {ps[k] : k \in DOMAIN ps}
  OBVIOUS
<1>5. \A k \in DOMAIN ps : ps[k] \in TestPolygonNames
  OBVIOUS
<1>6. P \in SUBSET TestPolygonNames
  BY <1>4, <1>5
<1>7. PICK bodies : bodies = [k \in DOMAIN ps |-> BodyIn(m, ps[k])]
  OBVIOUS
<1>8. db' = db /\ reply'[3] = <<"list", bodies>>
  <2>1. CASE m.meta = "none"
    <3>1. [k \in DOMAIN ps |-> <<"null">>] = bodies
      BY <1>7, <2>1 DEF BodyIn
    <3>2. Reply("POLYMGET", <<kTestIndexName, ps>>, <<"list", [k \in DOMAIN ps |-> <<"null">>]>>)
      BY <1>3, <1>4, <1>6, <2>1, TestNamesOk, TestIndexKind DEF GetMultiplePolygonsCommand
    <3> QED BY <3>1, <3>2, AnswerIs
  <2>2. CASE m.meta = "index"
    <3>1. GetPolygonBodies(db, kTestIndexName, ps) = bodies
      BY <1>5, <1>7, <2>2, BodyFound DEF GetPolygonBodies
    <3>2. Reply("POLYMGET", <<kTestIndexName, ps>>,
                <<"list", GetPolygonBodies(db, kTestIndexName, ps)>>)
      BY <1>3, <1>4, <1>6, <2>2, TestNamesOk, TestIndexKind DEF GetMultiplePolygonsCommand
    <3> QED BY <3>1, <3>2, AnswerIs
  <2> QED BY <2>1, <2>2, TestIndexKind
<1>9. CASE c = On("POLYMGET", <<ps>>, "list", [k \in DOMAIN ps |-> BodyIn(m, ps[k])])
  <2>1. c.type = "list" /\ c.value = bodies
    BY <1>7, <1>9, OnFields
  <2> QED BY <1>8, <2>1, PassesPlainly
<1>10. CASE /\ m.meta = "index" /\ \A k \in DOMAIN ps : ps[k] \in m.have
            /\ c = On("POLYMGET", <<ps>>, "bodies", RedisArrayToSet(ps))
  <2>1. c.type = "bodies" /\ c.value = RedisArrayToSet(ps)
    BY <1>10, OnFields
  <2>2. \A k \in DOMAIN ps : bodies[k] = <<"string", ps[k]>>
    BY <1>7, <1>10 DEF BodyIn
  <2>3. {<<"string", b>> : b \in RedisArrayToSet(ps)} = RedisArrayToSet(bodies)
    <3>1. DOMAIN bodies = DOMAIN ps
      BY <1>7
    <3> QED BY <2>2, <3>1 DEF RedisArrayToSet
  <2>4. Len(bodies) = Len(c.args[2])
    BY <1>2, <1>7
  <2> QED BY <1>8, <2>1, <2>3, <2>4 DEF Passes
<1> QED BY <1>1, <1>9, <1>10

LEMMA ListPolygonsFits ==
  ASSUME NEW m, NEW c, Holds(db, before, m), ListsPolygons(c, m), Perform(c.cmd, c.args)
  PROVE  Passes(c, reply'[3]) /\ db' = db
<1>1. PICK v : /\ v = IF m.meta = "index" THEN m.have ELSE {}
               /\ c = On("POLYLIST", <<>>, "set", v)
  BY DEF ListsPolygons
<1>2. c.cmd = "POLYLIST" /\ c.type = "set" /\ c.value = v /\ c.args[1] = kTestIndexName
  BY <1>1, OnFields, Arguments
<1>3. ListPolygonsCommand(kTestIndexName)
  BY <1>2 DEF Perform
<1>4. db' = db /\ reply'[3] = <<"set", v>>
  <2>1. CASE m.meta = "none"
    BY <1>1, <1>3, <2>1, TestNamesOk, TestIndexKind, AnswerIs DEF ListPolygonsCommand
  <2>2. CASE m.meta = "index"
    BY <1>1, <1>3, <2>2, TestPolygonsListed, TestNamesOk, TestIndexKind, AnswerIs
       DEF ListPolygonsCommand
  <2> QED BY <2>1, <2>2, TestIndexKind
<1> QED BY <1>2, <1>4, PassesPlainly

LEMMA PolygonsFound ==
  ASSUME NEW m, Holds(db, before, m), NEW T \in SUBSET Terms
  PROVE  GetPolygonsInCells(db, kTestIndexName, T) = Found(T, m)
<1>1. \A t \in T : db.cells[kTestIndexName][t] \in SUBSET Polygons
  BY TestData DEF Holds, RightTypes, Keyspaces
<1>2. \A p \in m.have : p \in Polygons
  BY TestData DEF Holds, TestStates
<1> QED BY <1>1, <1>2 DEF GetPolygonsInCells, Found, Holds, At

LEMMA SearchFits ==
  ASSUME NEW m, NEW c, Holds(db, before, m), Searches(c, m), Perform(c.cmd, c.args)
  PROVE  Passes(c, reply'[3]) /\ db' = db
<1>1. ASSUME NEW b \in TestPolygonNames \cup {"wide"}, m.meta = "index",
             c = On("POLYSEARCH", <<b>>, "set", Found(IndexPolygonForOverlapTest[b], m))
      PROVE  Passes(c, reply'[3]) /\ db' = db
  <2>1. /\ c.cmd = "POLYSEARCH" /\ c.args[1] = kTestIndexName /\ c.args[2] = b
        /\ c.type = "set" /\ c.value = Found(IndexPolygonForOverlapTest[b], m)
    BY <1>1, OnFields, Arguments
  <2>2. SearchPolygonCommand(kTestIndexName, b)
    BY <2>1 DEF Perform
  <2>3. /\ b \in ValidBodies /\ IndexPolygonForOverlapTest[b] # {}
        /\ IndexPolygonForOverlapTest[b] \in SUBSET Terms
    BY TestDataAssumption, GeometryAssumption
  <2>4. SearchCells("POLYSEARCH", <<kTestIndexName, b>>, kTestIndexName,
                    IndexPolygonForOverlapTest[b])
    BY <1>1, <2>2, <2>3, TestNamesOk, TestIndexKind DEF SearchPolygonCommand
  <2>5. db' = db /\ reply'[3] = <<"set", Found(IndexPolygonForOverlapTest[b], m)>>
    BY <2>3, <2>4, PolygonsFound, TestIndexKind, AnswerIs DEF SearchCells
  <2> QED BY <2>1, <2>5, PassesPlainly
<1>2. ASSUME NEW b, m.meta = "none", c = On("POLYSEARCH", <<b>>, "error", Any)
      PROVE  Passes(c, reply'[3]) /\ db' = db
  <2>1. /\ c.cmd = "POLYSEARCH" /\ c.args[1] = kTestIndexName /\ c.args[2] = b
        /\ c.type = "error" /\ c.value = Any
    BY <1>2, OnFields, Arguments
  <2>2. SearchPolygonCommand(kTestIndexName, b)
    BY <2>1 DEF Perform
  <2>3. Refuse("POLYSEARCH", <<kTestIndexName, b>>, "invalid index")
    BY <1>2, <2>2, TestNamesOk, TestIndexKind DEF SearchPolygonCommand
  <2>4. db' = db /\ reply'[3][1] = "error"
    BY <2>3, RefusalIs
  <2> QED BY <2>1, <2>4, PassesPlainly
<1>3. ASSUME NEW pt \in {"circle", "triangle", "square"}, m.meta = "index",
             c = On("POINTSEARCH", <<pt>>, "set", Found(IndexPoint[pt], m))
      PROVE  Passes(c, reply'[3]) /\ db' = db
  <2>1. /\ c.cmd = "POINTSEARCH" /\ c.args[1] = kTestIndexName /\ c.args[2] = pt
        /\ c.type = "set" /\ c.value = Found(IndexPoint[pt], m)
    BY <1>3, OnFields, Arguments
  <2>2. SearchPointCommand(kTestIndexName, pt)
    BY <2>1 DEF Perform
  <2>3. pt \in ValidPoints /\ IndexPoint[pt] \in SUBSET Terms
    BY TestDataAssumption, GeometryAssumption
  <2>4. SearchCells("POINTSEARCH", <<kTestIndexName, pt>>, kTestIndexName, IndexPoint[pt])
    BY <1>3, <2>2, <2>3, TestNamesOk, TestIndexKind DEF SearchPointCommand
  <2>5. db' = db /\ reply'[3] = <<"set", Found(IndexPoint[pt], m)>>
    BY <2>3, <2>4, PolygonsFound, TestIndexKind, AnswerIs DEF SearchCells
  <2> QED BY <2>1, <2>5, PassesPlainly
<1>4. ASSUME NEW pt, m.meta = "none", c = On("POINTSEARCH", <<pt>>, "error", Any)
      PROVE  Passes(c, reply'[3]) /\ db' = db
  <2>1. /\ c.cmd = "POINTSEARCH" /\ c.args[1] = kTestIndexName /\ c.args[2] = pt
        /\ c.type = "error" /\ c.value = Any
    BY <1>4, OnFields, Arguments
  <2>2. SearchPointCommand(kTestIndexName, pt)
    BY <2>1 DEF Perform
  <2>3. Refuse("POINTSEARCH", <<kTestIndexName, pt>>, "invalid index")
    BY <1>4, <2>2, TestNamesOk, TestIndexKind DEF SearchPointCommand
  <2>4. db' = db /\ reply'[3][1] = "error"
    BY <2>3, RefusalIs
  <2> QED BY <2>1, <2>4, PassesPlainly
<1> QED BY <1>1, <1>2, <1>3, <1>4 DEF Searches

LEMMA CallFits ==
  ASSUME NEW m, NEW n, NEW c, Holds(db, before, m), Fits(c, m, n), Perform(c.cmd, c.args)
  PROVE  Passes(c, reply'[3]) /\ Holds(db', before, n)
<1>1. CASE n = m /\ Reads(c, m)
  <2>1. Passes(c, reply'[3]) /\ db' = db
    BY <1>1, ReadIndexFits, ReadPolygonFits, ReadPolygonsFits, ListPolygonsFits, SearchFits
       DEF Reads
  <2> QED BY <1>1, <2>1
<1> QED BY <1>1, SetIndexFits, DeleteIndexFits, SetPolygonFits, DeletePolygonFits DEF Fits

-----------------------------------------------------------------------------
(* Scripts: the calls of s, one after the other, lead from m to n.         *)

Runs(s, m, n) ==
  /\ \E S : s \in Seq(S)
  /\ \E f \in [1..(Len(s) + 1) -> TestStates] :
       /\ f[1] = m /\ f[Len(s) + 1] = n
       /\ \A k \in 1..Len(s) : Fits(s[k], f[k], f[k + 1])

LEMMA RunsThen ==
  ASSUME NEW s, NEW t, NEW m, NEW n, NEW o, Runs(s, m, n), Runs(t, n, o)
  PROVE  Runs(s \o t, m, o)
<1> PICK f \in [1..(Len(s) + 1) -> TestStates] :
      /\ f[1] = m /\ f[Len(s) + 1] = n
      /\ \A k \in 1..Len(s) : Fits(s[k], f[k], f[k + 1])
  BY DEF Runs
<1> PICK g \in [1..(Len(t) + 1) -> TestStates] :
      /\ g[1] = n /\ g[Len(t) + 1] = o
      /\ \A k \in 1..Len(t) : Fits(t[k], g[k], g[k + 1])
  BY DEF Runs
<1> PICK S1, S2 : s \in Seq(S1) /\ t \in Seq(S2)
  BY DEF Runs
<1> DEFINE S == S1 \cup S2
           st == s \o t
           h == [k \in 1..(Len(st) + 1) |-> IF k <= Len(s) THEN f[k] ELSE g[k - Len(s)]]
<1>1. s \in Seq(S) /\ t \in Seq(S) /\ Len(s) \in Nat /\ Len(t) \in Nat
  BY DEF Runs
<1>2. /\ st \in Seq(S) /\ Len(st) = Len(s) + Len(t)
      /\ \A k \in 1..Len(st) : st[k] = IF k <= Len(s) THEN s[k] ELSE t[k - Len(s)]
  BY <1>1, ConcatProperties
<1>3. \E R : st \in Seq(R)
  BY <1>2
<1>4. h \in [1..(Len(st) + 1) -> TestStates]
  <2> SUFFICES ASSUME NEW k \in 1..(Len(st) + 1)
               PROVE  (IF k <= Len(s) THEN f[k] ELSE g[k - Len(s)]) \in TestStates
    OBVIOUS
  <2> HIDE DEF st
  <2>1. CASE k <= Len(s)
    <3>1. k \in 1..(Len(s) + 1)
      BY <1>1, <1>2, <2>1
    <3> QED BY <2>1, <3>1
  <2>2. CASE ~(k <= Len(s))
    <3>1. k - Len(s) \in 1..(Len(t) + 1)
      BY <1>1, <1>2, <2>2
    <3> QED BY <2>2, <3>1
  <2> QED BY <2>1, <2>2
<1>5. \A k \in 1..(Len(s) + 1) : h[k] = f[k]
  <2> HIDE DEF st
  <2> QED BY <1>1, <1>2
<1>6. \A k \in 1..(Len(t) + 1) : h[k + Len(s)] = g[k]
  <2> HIDE DEF st
  <2> QED BY <1>1, <1>2
<1>7. h[1] = m /\ h[Len(st) + 1] = o
  <2>1. h[1] = m
    BY <1>1, <1>5
  <2>2. h[Len(t) + 1 + Len(s)] = o
    <3> HIDE DEF h
    <3> QED BY <1>1, <1>6
  <2>3. Len(t) + 1 + Len(s) = Len(st) + 1
    <3> HIDE DEF st
    <3> QED BY <1>1, <1>2
  <2> QED BY <2>1, <2>2, <2>3
<1>8. ASSUME NEW k \in 1..Len(st) PROVE Fits(st[k], h[k], h[k + 1])
  <2> HIDE DEF h, st
  <2>1. CASE k <= Len(s)
    <3>1. k \in 1..Len(s) /\ k \in 1..(Len(s) + 1) /\ k + 1 \in 1..(Len(s) + 1)
      BY <1>1, <1>2, <2>1
    <3> QED BY <1>2, <1>5, <2>1, <3>1
  <2>2. CASE ~(k <= Len(s))
    <3>1. PICK j : j = k - Len(s)
      OBVIOUS
    <3>2. /\ j \in 1..Len(t) /\ j \in 1..(Len(t) + 1) /\ j + 1 \in 1..(Len(t) + 1)
          /\ j + Len(s) = k /\ (j + 1) + Len(s) = k + 1
      BY <1>1, <1>2, <2>2, <3>1
    <3>3. h[k] = g[j] /\ h[k + 1] = g[j + 1]
      BY <1>6, <3>2
    <3> QED BY <1>2, <2>2, <3>1, <3>2, <3>3
  <2> QED BY <2>1, <2>2
<1> HIDE DEF st, h
<1>9. Runs(st, m, o)
  BY <1>3, <1>4, <1>7, <1>8 DEF Runs
<1> QED BY <1>9 DEF st

LEMMA RunsOne ==
  ASSUME NEW c1, NEW m \in TestStates, NEW n \in TestStates, Fits(c1, m, n)
  PROVE  Runs(<<c1>>, m, n)
<1> DEFINE f == [k \in 1..2 |-> IF k = 1 THEN m ELSE n]
<1>0. PICK s : s = <<c1>>
  OBVIOUS
<1>1. (\E S : s \in Seq(S)) /\ Len(s) = 1 /\ s[1] = c1
  <2>1. <<c1>> \in Seq({c1})
    OBVIOUS
  <2> QED BY <1>0, <2>1
<1>2. f \in [1..(Len(s) + 1) -> TestStates]
  BY <1>1
<1>3. f[1] = m /\ f[2] = n
  OBVIOUS
<1> HIDE DEF f
<1>4. Runs(s, m, n)
  BY <1>1, <1>2, <1>3 DEF Runs
<1> QED BY <1>0, <1>4

LEMMA RunsReading ==
  ASSUME NEW S, NEW s \in Seq(S), NEW m \in TestStates, \A k \in 1..Len(s) : Fits(s[k], m, m)
  PROVE  Runs(s, m, m)
<1> DEFINE f == [k \in 1..(Len(s) + 1) |-> m]
<1>1. Len(s) \in Nat
  OBVIOUS
<1>2. \A k \in 1..(Len(s) + 1) : f[k] = m
  OBVIOUS
<1>3. f \in [1..(Len(s) + 1) -> TestStates]
  OBVIOUS
<1> HIDE DEF f
<1>4. f[1] = m /\ f[Len(s) + 1] = m /\ \A k \in 1..Len(s) : Fits(s[k], f[k], f[k + 1])
  BY <1>1, <1>2
<1> QED BY <1>3, <1>4 DEF Runs

LEMMA RunsFour ==
  ASSUME NEW s, DOMAIN s = 1..4, s = [k \in 1..4 |-> s[k]],
         NEW m1 \in TestStates, NEW m2 \in TestStates, NEW m3 \in TestStates,
         NEW m4 \in TestStates, NEW m5 \in TestStates,
         Fits(s[1], m1, m2), Fits(s[2], m2, m3), Fits(s[3], m3, m4), Fits(s[4], m4, m5)
  PROVE  Runs(s, m1, m5)
<1> DEFINE f == [k \in 1..5 |-> CASE k = 1 -> m1 [] k = 2 -> m2 [] k = 3 -> m3
                                  [] k = 4 -> m4 [] OTHER -> m5]
<1>1. (\E S : s \in Seq(S)) /\ Len(s) = 4
  <2>1. s \in [1..4 -> RedisArrayToSet(s)]
    BY DEF RedisArrayToSet
  <2> QED BY <2>1
<1>2. /\ f \in [1..(Len(s) + 1) -> TestStates]
      /\ f[1] = m1 /\ f[2] = m2 /\ f[3] = m3 /\ f[4] = m4 /\ f[5] = m5
  BY <1>1
<1> HIDE DEF f
<1>3. \A k \in 1..4 : Fits(s[k], f[k], f[k + 1])
  BY <1>2
<1> QED BY <1>1, <1>2, <1>3 DEF Runs

\* The middle of TestPolygons: three calls, one that writes, and three more.
LEMMA RunsSeven ==
  ASSUME NEW c1, NEW c2, NEW c3, NEW c4, NEW c5, NEW c6, NEW c7,
         NEW m \in TestStates, NEW n \in TestStates,
         Fits(c1, m, m), Fits(c2, m, m), Fits(c3, m, m),
         Fits(c4, m, n), Fits(c5, n, n), Fits(c6, n, n), Fits(c7, n, n)
  PROVE  Runs(<<c1, c2, c3, c4, c5, c6, c7>>, m, n)
<1> DEFINE f == [k \in 1..8 |-> IF k <= 4 THEN m ELSE n]
<1>0. PICK s : s = <<c1, c2, c3, c4, c5, c6, c7>>
  OBVIOUS
<1>1. (\E S : s \in Seq(S)) /\ Len(s) = 7
  <2>1. <<c1, c2, c3, c4, c5, c6, c7>> \in Seq({c1, c2, c3, c4, c5, c6, c7})
    OBVIOUS
  <2> QED BY <1>0, <2>1
<1>2. f \in [1..(Len(s) + 1) -> TestStates]
  BY <1>1
<1>3. s[1] = c1 /\ s[2] = c2 /\ s[3] = c3 /\ s[4] = c4 /\ s[5] = c5 /\ s[6] = c6 /\ s[7] = c7
  BY <1>0
<1>4. /\ f[1] = m /\ f[2] = m /\ f[3] = m /\ f[4] = m
      /\ f[5] = n /\ f[6] = n /\ f[7] = n /\ f[8] = n
  OBVIOUS
<1> HIDE DEF f
<1>5. \A k \in 1..7 : Fits(s[k], f[k], f[k + 1])
  BY <1>3, <1>4
<1>6. Runs(s, m, n)
  BY <1>1, <1>2, <1>4, <1>5 DEF Runs
<1> QED BY <1>0, <1>6

-----------------------------------------------------------------------------
(* The scripts lead from "no index" back to it.                            *)

Absent == Holding("none", {})
Having(P) == Holding("index", P)

LEMMA States ==
  /\ Absent \in TestStates /\ Absent.meta = "none" /\ Absent.have = {}
  /\ \A P \in SUBSET TestPolygonNames :
       Having(P) \in TestStates /\ Having(P).meta = "index" /\ Having(P).have = P
  BY HoldingFields DEF Absent, Having

LEMMA CreateRuns == Runs(CreateTheIndex, Absent, Having({}))
<1>1. SetsIndex(On("ISET", <<>>, "ok", Any), Absent, Having({}))
  BY States DEF SetsIndex, Having
<1> QED BY <1>1, States, RunsOne DEF CreateTheIndex, Fits

LEMMA DeleteRuns ==
  ASSUME NEW P \in SUBSET TestPolygonNames
  PROVE  Runs(DeleteTheIndex, Having(P), Absent)
<1>1. DeletesIndex(On("IDEL", <<>>, "int", 1), Having(P), Absent)
  BY States DEF DeletesIndex, Absent
<1> QED BY <1>1, States, RunsOne DEF DeleteTheIndex, Fits

LEMMA SetUpRuns == Runs(SetUpPolygons, Having({}), Having(TestPolygonNames))
<1> DEFINE s == SetUpPolygons
<1>1. /\ DOMAIN s = 1..4 /\ s = [k \in 1..4 |-> s[k]]
      /\ s[1] = On("POLYSET", <<"red", "red">>, "int", 1)
      /\ s[2] = On("POLYSET", <<"green", "green">>, "int", 1)
      /\ s[3] = On("POLYSET", <<"blue", "blue">>, "int", 1)
      /\ s[4] = On("POLYSET", <<"yellow", "yellow">>, "int", 1)
  BY DEF SetUpPolygons, kPolygonName
<1>2. ASSUME NEW P \in SUBSET TestPolygonNames, NEW p \in TestPolygonNames,
             NEW Q, Q = P \cup {p}
      PROVE  Fits(On("POLYSET", <<p, p>>, "int", 1), Having(P), Having(Q))
  <2>1. Q \in SUBSET TestPolygonNames
    BY <1>2
  <2>2. SetsPolygon(On("POLYSET", <<p, p>>, "int", 1), Having(P), Having(Q))
    BY <1>2, States DEF SetsPolygon, Having
  <2> QED BY <2>1, <2>2, States DEF Fits
<1>3. /\ Fits(s[1], Having({}), Having({"red"}))
      /\ Fits(s[2], Having({"red"}), Having({"red", "green"}))
      /\ Fits(s[3], Having({"red", "green"}), Having({"red", "green", "blue"}))
      /\ Fits(s[4], Having({"red", "green", "blue"}), Having(TestPolygonNames))
  BY <1>1, <1>2 DEF TestPolygonNames
<1>4. /\ Having({}) \in TestStates /\ Having({"red"}) \in TestStates
      /\ Having({"red", "green"}) \in TestStates
      /\ Having({"red", "green", "blue"}) \in TestStates
      /\ Having(TestPolygonNames) \in TestStates
  BY States DEF TestPolygonNames
<1> HIDE DEF s
<1>5. Runs(s, Having({}), Having(TestPolygonNames))
  BY <1>1, <1>3, <1>4, RunsFour
<1> QED BY <1>5 DEF s

LEMMA TestIndexRuns == Runs(TestIndex, Absent, Absent)
<1> DEFINE there == <<On("ISET", <<>>, "error", Any), On("IGET", <<>>, "ok", Any)>>
           gone == <<On("IDEL", <<>>, "int", 0), On("IGET", <<>>, "null", Any)>>
<1>1. Runs(there, Having({}), Having({}))
  <2>1. ReadsIndex(there[1], Having({})) /\ ReadsIndex(there[2], Having({}))
    BY States DEF ReadsIndex
  <2>2. there \in Seq({there[1], there[2]}) /\ Len(there) = 2
    OBVIOUS
  <2> HIDE DEF there
  <2> QED BY <2>1, <2>2, States, RunsReading DEF Fits, Reads
<1>2. Runs(gone, Absent, Absent)
  <2>1. ReadsIndex(gone[1], Absent) /\ ReadsIndex(gone[2], Absent)
    BY States DEF ReadsIndex
  <2>2. gone \in Seq({gone[1], gone[2]}) /\ Len(gone) = 2
    OBVIOUS
  <2> HIDE DEF gone
  <2> QED BY <2>1, <2>2, States, RunsReading DEF Fits, Reads
<1>3. TestIndex = CreateTheIndex \o there \o DeleteTheIndex \o gone
  BY DEF TestIndex
<1> HIDE DEF there, gone
<1>4. Runs(CreateTheIndex \o there, Absent, Having({}))
  BY <1>1, CreateRuns, RunsThen
<1>5. Runs(CreateTheIndex \o there \o DeleteTheIndex, Absent, Absent)
  BY <1>4, DeleteRuns, RunsThen
<1> QED BY <1>2, <1>3, <1>5, RunsThen

LEMMA TestPolygonsRuns == Runs(TestPolygons, Absent, Absent)
<1> DEFINE m == Having(TestPolygonNames)
           n == Having(TestPolygonNames \ {"red"})
           empty == <<On("POLYLIST", <<>>, "set", {})>>
           c1 == On("POLYLIST", <<>>, "set", TestPolygonNames)
           c2 == On("POLYMGET", <<kPolygonName>>, "bodies", TestPolygonNames)
           c3 == On("POLYGET", <<"red">>, "string", "red")
           c4 == On("POLYDEL", <<"red">>, "int", Any)
           c5 == On("POLYGET", <<"red">>, "null", Any)
           c6 == On("POLYDEL", <<"red">>, "int", 0)
           c7 == On("POLYMGET", << <<"red", "blue">> >>, "list",
                    << <<"null">>, <<"string", "blue">> >>)
           c8 == On("POLYMGET", << <<"red">> >>, "list", << <<"null">> >>)
           seven == <<c1, c2, c3, c4, c5, c6, c7>>
           gone == <<c5, c8, On("POLYLIST", <<>>, "set", {})>>
<1>1. /\ "red" \in TestPolygonNames /\ "blue" \in TestPolygonNames /\ "red" # "blue"
      /\ m \in TestStates /\ m.meta = "index" /\ m.have = TestPolygonNames
      /\ n \in TestStates /\ n.meta = "index" /\ n.have = TestPolygonNames \ {"red"}
  BY States DEF TestPolygonNames
<1>2. Runs(empty, Having({}), Having({}))
  <2>1. ListsPolygons(On("POLYLIST", <<>>, "set", {}), Having({}))
    BY States DEF ListsPolygons
  <2> QED BY <2>1, States, RunsOne DEF Fits, Reads
<1>3. Runs(seven, m, n)
  <2> HIDE DEF m, n
  <2>1. Fits(c1, m, m)
    <3>1. ListsPolygons(c1, m)
      BY <1>1 DEF ListsPolygons
    <3> QED BY <1>1, <3>1 DEF Fits, Reads
  <2>2. Fits(c2, m, m)
    <3>1. kPolygonName \in Seq(TestPolygonNames)
      BY DEF kPolygonName, TestPolygonNames
    <3>2. RedisArrayToSet(kPolygonName) = TestPolygonNames
      BY DEF kPolygonName, TestPolygonNames, RedisArrayToSet
    <3>3. \A k \in DOMAIN kPolygonName : kPolygonName[k] \in m.have
      BY <1>1, <3>1
    <3>4. ReadsPolygons(c2, m)
      BY <1>1, <3>1, <3>2, <3>3 DEF ReadsPolygons
    <3> QED BY <1>1, <3>4 DEF Fits, Reads
  <2>3. Fits(c3, m, m)
    <3>1. ReadsPolygon(c3, m)
      BY <1>1 DEF ReadsPolygon
    <3> QED BY <1>1, <3>1 DEF Fits, Reads
  <2>4. Fits(c4, m, n)
    <3>1. n = Holding("index", m.have \ {"red"})
      BY <1>1 DEF n, Having
    <3>2. DeletesPolygon(c4, m, n)
      BY <1>1, <3>1 DEF DeletesPolygon
    <3> QED BY <1>1, <3>2 DEF Fits
  <2>5. Fits(c5, n, n)
    <3>1. ReadsPolygon(c5, n)
      BY <1>1 DEF ReadsPolygon
    <3> QED BY <1>1, <3>1 DEF Fits, Reads
  <2>6. Fits(c6, n, n)
    <3>1. n.have \ {"red"} = n.have
      BY <1>1
    <3>2. n = Holding("index", n.have \ {"red"})
      BY <1>1, <3>1 DEF n, Having
    <3>3. (IF "red" \in n.have THEN 1 ELSE 0) = 0
      BY <1>1
    <3>4. DeletesPolygon(c6, n, n)
      BY <1>1, <3>2, <3>3 DEF DeletesPolygon
    <3> QED BY <1>1, <3>4 DEF Fits
  <2>7. Fits(c7, n, n)
    <3>1. PICK ps : ps = <<"red", "blue">>
      OBVIOUS
    <3>2. ps \in Seq(TestPolygonNames) /\ DOMAIN ps = 1..2 /\ ps[1] = "red" /\ ps[2] = "blue"
      BY <1>1, <3>1
    <3>3. BodyIn(n, "red") = <<"null">> /\ BodyIn(n, "blue") = <<"string", "blue">>
      BY <1>1 DEF BodyIn
    <3>4. [k \in DOMAIN ps |-> BodyIn(n, ps[k])] = << <<"null">>, <<"string", "blue">> >>
      BY <3>2, <3>3
    <3>5. ReadsPolygons(c7, n)
      BY <3>1, <3>2, <3>4 DEF ReadsPolygons
    <3> QED BY <1>1, <3>5 DEF Fits, Reads
  <2> HIDE DEF c1, c2, c3, c4, c5, c6, c7
  <2> QED BY <1>1, <2>1, <2>2, <2>3, <2>4, <2>5, <2>6, <2>7, RunsSeven
<1>4. Runs(gone, Absent, Absent)
  <2>1. ReadsPolygon(c5, Absent)
    BY <1>1, States DEF ReadsPolygon
  <2>2. ReadsPolygons(c8, Absent)
    <3>1. PICK ps : ps = <<"red">>
      OBVIOUS
    <3>2. ps \in Seq(TestPolygonNames) /\ DOMAIN ps = 1..1 /\ ps[1] = "red"
      BY <1>1, <3>1
    <3>3. BodyIn(Absent, "red") = <<"null">>
      BY States DEF BodyIn
    <3>4. [k \in DOMAIN ps |-> BodyIn(Absent, ps[k])] = << <<"null">> >>
      BY <3>2, <3>3
    <3> QED BY <3>1, <3>2, <3>4 DEF ReadsPolygons
  <2>3. ListsPolygons(gone[3], Absent)
    BY States DEF ListsPolygons
  <2>4. gone \in Seq({c5, c8, gone[3]}) /\ Len(gone) = 3 /\ gone[1] = c5 /\ gone[2] = c8
    OBVIOUS
  <2> HIDE DEF gone, c5, c8
  <2>5. \A k \in 1..3 : Reads(gone[k], Absent)
    BY <2>1, <2>2, <2>3, <2>4 DEF Reads
  <2> QED BY <2>4, <2>5, States, RunsReading DEF Fits
<1>5. TestPolygons = CreateTheIndex \o empty \o SetUpPolygons \o seven \o DeleteTheIndex \o gone
  BY DEF TestPolygons
<1> HIDE DEF empty, seven, gone, m
<1>6. Runs(CreateTheIndex \o empty, Absent, Having({}))
  BY <1>2, CreateRuns, RunsThen
<1>7. Runs(CreateTheIndex \o empty \o SetUpPolygons, Absent, m)
  BY <1>6, SetUpRuns, RunsThen DEF m
<1>8. Runs(CreateTheIndex \o empty \o SetUpPolygons \o seven, Absent, n)
  BY <1>3, <1>7, RunsThen
<1>9. Runs(CreateTheIndex \o empty \o SetUpPolygons \o seven \o DeleteTheIndex, Absent, Absent)
  BY <1>8, DeleteRuns, RunsThen
<1> QED BY <1>4, <1>5, <1>9, RunsThen

\* What the searches find when all four polygons are there, and when none is.
LEMMA AllFound ==
  ASSUME NEW T
  PROVE  Found(T, Having(TestPolygonNames)) = Meets(T) /\ Found(T, Having({})) = {}
  BY States DEF Found, Meets

LEMMA SearchesFit ==
  ASSUME NEW c, NEW P \in SUBSET TestPolygonNames, Searches(c, Having(P))
  PROVE  Fits(c, Having(P), Having(P))
  BY States DEF Fits, Reads

LEMMA TestPointSearchRuns == Runs(TestPointSearch, Absent, Absent)
<1> DEFINE m == Having(TestPolygonNames)
           c1 == On("POINTSEARCH", <<"circle">>, "set", {})
           c2 == On("POINTSEARCH", <<"triangle">>, "set", {"red"})
           c3 == On("POINTSEARCH", <<"square">>, "set", {"red", "yellow"})
           found == <<c1, c2, c3>>
           gone == <<On("POINTSEARCH", <<"square">>, "error", Any)>>
<1>1. Runs(found, m, m)
  <2>1. /\ Found(IndexPoint["circle"], m) = {}
        /\ Found(IndexPoint["triangle"], m) = {"red"}
        /\ Found(IndexPoint["square"], m) = {"red", "yellow"}
    BY AllFound, PictureAssumption
  <2>2. m \in TestStates /\ m.meta = "index"
    BY States
  <2> HIDE DEF m
  <2>3. Searches(c1, m) /\ Searches(c2, m) /\ Searches(c3, m)
    BY <2>1, <2>2 DEF Searches
  <2>4. found \in Seq({c1, c2, c3}) /\ Len(found) = 3
        /\ found[1] = c1 /\ found[2] = c2 /\ found[3] = c3
    OBVIOUS
  <2> HIDE DEF found, c1, c2, c3
  <2>5. \A k \in 1..3 : Searches(found[k], m)
    BY <2>3, <2>4
  <2> QED BY <2>2, <2>4, <2>5, RunsReading DEF Fits, Reads
<1>2. Runs(gone, Absent, Absent)
  <2>1. Searches(On("POINTSEARCH", <<"square">>, "error", Any), Absent)
    BY States DEF Searches
  <2> QED BY <2>1, States, RunsOne DEF Fits, Reads
<1>3. TestPointSearch = CreateTheIndex \o SetUpPolygons \o found \o DeleteTheIndex \o gone
  BY DEF TestPointSearch
<1> HIDE DEF found, gone, m
<1>4. Runs(CreateTheIndex \o SetUpPolygons, Absent, m)
  BY CreateRuns, SetUpRuns, RunsThen DEF m
<1>5. Runs(CreateTheIndex \o SetUpPolygons \o found, Absent, m)
  BY <1>1, <1>4, RunsThen
<1>6. Runs(CreateTheIndex \o SetUpPolygons \o found \o DeleteTheIndex, Absent, Absent)
  BY <1>5, DeleteRuns, RunsThen DEF m
<1> QED BY <1>2, <1>3, <1>6, RunsThen

LEMMA TestPolygonSearchRuns == Runs(TestPolygonSearch, Absent, Absent)
<1> DEFINE m == Having(TestPolygonNames)
           c1 == On("POLYSEARCH", <<"red">>, "set", {"red", "yellow", "green"})
           c2 == On("POLYSEARCH", <<"green">>, "set", {"green", "red"})
           c3 == On("POLYSEARCH", <<"blue">>, "set", {"blue"})
           c4 == On("POLYSEARCH", <<"yellow">>, "set", {"yellow", "red"})
           c5 == On("POLYSEARCH", <<"wide">>, "set", TestPolygonNames)
           found == <<c1, c2, c3, c4, c5>>
           deleted == [k \in 1..4 |-> On("POLYDEL", <<kPolygonName[k]>>, "int", 1)]
           none == <<On("POLYSEARCH", <<"yellow">>, "set", {})>>
           gone == <<On("POLYSEARCH", <<"yellow">>, "error", Any)>>
<1>1. Runs(found, m, m)
  <2>1. /\ Found(IndexPolygonForOverlapTest["red"], m) = {"red", "yellow", "green"}
        /\ Found(IndexPolygonForOverlapTest["green"], m) = {"green", "red"}
        /\ Found(IndexPolygonForOverlapTest["blue"], m) = {"blue"}
        /\ Found(IndexPolygonForOverlapTest["yellow"], m) = {"yellow", "red"}
        /\ Found(IndexPolygonForOverlapTest["wide"], m) = TestPolygonNames
    BY AllFound, PictureAssumption
  <2>2. m \in TestStates /\ m.meta = "index"
    BY States
  <2> HIDE DEF m
  <2>3. /\ Searches(c1, m) /\ Searches(c2, m) /\ Searches(c3, m)
        /\ Searches(c4, m) /\ Searches(c5, m)
    <3>1. ASSUME NEW b \in {"red", "green", "blue", "yellow", "wide"}, NEW v,
                 Found(IndexPolygonForOverlapTest[b], m) = v
          PROVE  Searches(On("POLYSEARCH", <<b>>, "set", v), m)
      BY <2>2, <3>1 DEF Searches, TestPolygonNames
    <3> QED BY <2>1, <3>1
  <2>4. /\ found \in Seq({c1, c2, c3, c4, c5}) /\ Len(found) = 5
        /\ found[1] = c1 /\ found[2] = c2 /\ found[3] = c3 /\ found[4] = c4 /\ found[5] = c5
    OBVIOUS
  <2> HIDE DEF found, c1, c2, c3, c4, c5
  <2>5. \A k \in 1..5 : Searches(found[k], m)
    BY <2>3, <2>4
  <2> QED BY <2>2, <2>4, <2>5, RunsReading DEF Fits, Reads
<1>2. Runs(deleted, m, Having({}))
  <2>1. /\ DOMAIN deleted = 1..4 /\ deleted = [k \in 1..4 |-> deleted[k]]
        /\ deleted[1] = On("POLYDEL", <<"red">>, "int", 1)
        /\ deleted[2] = On("POLYDEL", <<"green">>, "int", 1)
        /\ deleted[3] = On("POLYDEL", <<"blue">>, "int", 1)
        /\ deleted[4] = On("POLYDEL", <<"yellow">>, "int", 1)
    BY DEF kPolygonName
  <2>2. ASSUME NEW P \in SUBSET TestPolygonNames, NEW p \in P, NEW Q, Q = P \ {p}
        PROVE  Fits(On("POLYDEL", <<p>>, "int", 1), Having(P), Having(Q))
    <3>1. Q \in SUBSET TestPolygonNames /\ p \in TestPolygonNames
      BY <2>2
    <3>2. DeletesPolygon(On("POLYDEL", <<p>>, "int", 1), Having(P), Having(Q))
      BY <2>2, <3>1, States DEF DeletesPolygon, Having
    <3> QED BY <3>1, <3>2, States DEF Fits
  <2>3. /\ Fits(deleted[1], m, Having({"green", "blue", "yellow"}))
        /\ Fits(deleted[2], Having({"green", "blue", "yellow"}), Having({"blue", "yellow"}))
        /\ Fits(deleted[3], Having({"blue", "yellow"}), Having({"yellow"}))
        /\ Fits(deleted[4], Having({"yellow"}), Having({}))
    BY <2>1, <2>2 DEF TestPolygonNames
  <2>4. /\ m \in TestStates /\ Having({}) \in TestStates
        /\ Having({"green", "blue", "yellow"}) \in TestStates
        /\ Having({"blue", "yellow"}) \in TestStates /\ Having({"yellow"}) \in TestStates
    BY States DEF TestPolygonNames
  <2> HIDE DEF deleted, m
  <2> QED BY <2>1, <2>3, <2>4, RunsFour
<1>3. Runs(none, Having({}), Having({}))
  <2>1. Found(IndexPolygonForOverlapTest["yellow"], Having({})) = {}
    BY AllFound
  <2>2. Searches(On("POLYSEARCH", <<"yellow">>, "set", {}), Having({}))
    BY <2>1, States DEF Searches, TestPolygonNames
  <2> QED BY <2>2, States, RunsOne DEF Fits, Reads
<1>4. Runs(gone, Absent, Absent)
  <2>1. Searches(On("POLYSEARCH", <<"yellow">>, "error", Any), Absent)
    BY States DEF Searches, TestPolygonNames
  <2> QED BY <2>1, States, RunsOne DEF Fits, Reads
<1>5. TestPolygonSearch =
        CreateTheIndex \o SetUpPolygons \o found \o deleted \o none \o DeleteTheIndex \o gone
  BY DEF TestPolygonSearch
<1> HIDE DEF found, deleted, none, gone, m
<1>6. Runs(CreateTheIndex \o SetUpPolygons, Absent, m)
  BY CreateRuns, SetUpRuns, RunsThen DEF m
<1>7. Runs(CreateTheIndex \o SetUpPolygons \o found, Absent, m)
  BY <1>1, <1>6, RunsThen
<1>8. Runs(CreateTheIndex \o SetUpPolygons \o found \o deleted, Absent, Having({}))
  BY <1>2, <1>7, RunsThen
<1>9. Runs(CreateTheIndex \o SetUpPolygons \o found \o deleted \o none, Absent, Having({}))
  BY <1>3, <1>8, RunsThen
<1>10. Runs(CreateTheIndex \o SetUpPolygons \o found \o deleted \o none \o DeleteTheIndex,
            Absent, Absent)
  BY <1>9, DeleteRuns, RunsThen
<1> QED BY <1>4, <1>5, <1>10, RunsThen

LEMMA TestRuns == Runs(TestCommand, Absent, Absent)
<1>1. Runs(TestIndex \o TestPolygons, Absent, Absent)
  BY TestIndexRuns, TestPolygonsRuns, RunsThen
<1>2. Runs(TestIndex \o TestPolygons \o TestPointSearch, Absent, Absent)
  BY <1>1, TestPointSearchRuns, RunsThen
<1> QED BY <1>2, TestPolygonSearchRuns, RunsThen DEF TestCommand

\* The state of the test index before each call of TEST, and after the last.
TestPlan ==
  CHOOSE f \in [1..(Len(TestCommand) + 1) -> TestStates] :
    /\ f[1] = Absent /\ f[Len(TestCommand) + 1] = Absent
    /\ \A k \in 1..Len(TestCommand) : Fits(TestCommand[k], f[k], f[k + 1])

LEMMA TestPlanFits ==
  /\ Len(TestCommand) \in Nat
  /\ TestPlan[1] = Absent /\ TestPlan[Len(TestCommand) + 1] = Absent
  /\ \A k \in 1..Len(TestCommand) : Fits(TestCommand[k], TestPlan[k], TestPlan[k + 1])
<1>1. \E f \in [1..(Len(TestCommand) + 1) -> TestStates] :
        /\ f[1] = Absent /\ f[Len(TestCommand) + 1] = Absent
        /\ \A k \in 1..Len(TestCommand) : Fits(TestCommand[k], f[k], f[k + 1])
  BY TestRuns DEF Runs
<1>2. PICK S : TestCommand \in Seq(S)
  BY TestRuns DEF Runs
<1>3. Len(TestCommand) \in Nat
  BY <1>2
<1> QED BY <1>1, <1>3 DEF TestPlan

\* POPULATE creates the index and sets the four polygons.
LEMMA PopulateCalls ==
  /\ Len(PopulateCommand) = 5
  /\ PopulateCommand[1] = On("ISET", <<>>, "ok", Any)
  /\ \A k \in 1..4 :
       /\ kPolygonName[k] \in TestPolygonNames
       /\ PopulateCommand[k + 1] = On("POLYSET", <<kPolygonName[k], kPolygonName[k]>>, "int", 1)
<1>1. PICK create : create = CreateTheIndex
  OBVIOUS
<1>2. /\ \E S : create \in Seq(S)
      /\ Len(create) = 1 /\ create[1] = On("ISET", <<>>, "ok", Any)
  <2>1. CreateTheIndex \in Seq({On("ISET", <<>>, "ok", Any)})
    BY DEF CreateTheIndex
  <2>2. Len(CreateTheIndex) = 1 /\ CreateTheIndex[1] = On("ISET", <<>>, "ok", Any)
    BY DEF CreateTheIndex
  <2> QED BY <1>1, <2>1, <2>2
<1>3. PICK set : set = SetUpPolygons
  OBVIOUS
<1>4. (\E S : set \in Seq(S)) /\ Len(set) = 4
  <2>1. set \in [1..4 -> RedisArrayToSet(set)]
    BY <1>3 DEF SetUpPolygons, RedisArrayToSet
  <2>2. DOMAIN set = 1..4 /\ set = [k \in 1..4 |-> set[k]]
    BY <1>3 DEF SetUpPolygons
  <2>3. PICK R : set \in [1..4 -> R]
    BY <2>1
  <2> QED BY <2>2, <2>3
<1>5. \A k \in 1..4 :
        /\ kPolygonName[k] \in TestPolygonNames
        /\ set[k] = On("POLYSET", <<kPolygonName[k], kPolygonName[k]>>, "int", 1)
  BY <1>3 DEF SetUpPolygons, kPolygonName, TestPolygonNames
<1>6. PICK both : both = create \o set
  OBVIOUS
<1>7. PICK S : create \in Seq(S) /\ set \in Seq(S)
  <2>1. PICK S1, S2 : create \in Seq(S1) /\ set \in Seq(S2)
    BY <1>2, <1>4
  <2>2. create \in Seq(S1 \cup S2) /\ set \in Seq(S1 \cup S2)
    BY <2>1
  <2> QED BY <2>2
<1>8. /\ Len(both) = 5
      /\ \A k \in 1..5 : both[k] = IF k <= 1 THEN create[k] ELSE set[k - 1]
  <2>1. /\ Len(both) = Len(create) + Len(set)
        /\ \A k \in 1..(Len(create) + Len(set)) :
             both[k] = IF k <= Len(create) THEN create[k] ELSE set[k - Len(create)]
    BY <1>6, <1>7, ConcatProperties
  <2> QED BY <1>2, <1>4, <2>1
<1>9. both[1] = create[1] /\ \A k \in 1..4 : both[k + 1] = set[k]
  <2>1. ASSUME NEW k \in 1..4 PROVE both[k + 1] = set[k]
    <3>1. k + 1 \in 1..5 /\ ~(k + 1 <= 1) /\ (k + 1) - 1 = k
      OBVIOUS
    <3> QED BY <1>8, <3>1
  <2> QED BY <1>8, <2>1
<1> QED BY <1>1, <1>2, <1>3, <1>5, <1>6, <1>8, <1>9 DEF PopulateCommand

-----------------------------------------------------------------------------
(* Whoever calls a command changes the keyspace as commands do.            *)

Request(cmd, args) ==
  /\ args[1] \in Indexes \cup BadNames
  /\ cmd \in {"POLYSET", "POLYDEL"} => args[2] \in Polygons \cup BadNames
  /\ cmd = "POLYSET" => args[3] \in Bodies

LEMMA PerformChanges ==
  ASSUME NEW cmd, NEW args, Request(cmd, args), Perform(cmd, args), Sound(db)
  PROVE  Sound(db')
<1> DEFINE i == args[1]
<1>1. i \in Indexes \cup BadNames
  BY DEF Request
<1>2. CASE cmd = "ISET" /\ SetIndexCommand(i)
  BY <1>1, <1>2, SetIndexChanges, ChangedSound DEF Handles
<1>3. CASE cmd = "IDEL" /\ DeleteIndexCommand(i)
  BY <1>1, <1>3, DeleteIndexChanges, ChangedSound DEF Handles
<1>4. CASE cmd = "POLYSET" /\ SetPolygonCommand(i, args[2], args[3])
  <2>1. args[2] \in Polygons \cup BadNames /\ args[3] \in Bodies
    BY <1>4 DEF Request
  <2>2. Handles("POLYSET")
    BY <1>1, <1>4, <2>1, SetPolygonChanges
  <2> QED BY <2>2, ChangedSound DEF Handles
<1>5. CASE cmd = "POLYDEL" /\ DeletePolygonCommand(i, args[2])
  <2>1. args[2] \in Polygons \cup BadNames
    BY <1>5 DEF Request
  <2>2. Handles("POLYDEL")
    BY <1>1, <1>5, <2>1, DeletePolygonChanges
  <2> QED BY <2>2, ChangedSound DEF Handles
<1>6. CASE \/ GetIndexCommand(i) \/ ListPolygonsCommand(i)
           \/ GetPolygonCommand(i, args[2]) \/ GetMultiplePolygonsCommand(i, args[2])
           \/ SearchPolygonCommand(i, args[2]) \/ SearchPointCommand(i, args[2])
  BY <1>6, ReadsChangeNothing
<1> QED BY <1>2, <1>3, <1>4, <1>5, <1>6 DEF Perform

LEMMA OnRequests ==
  ASSUME NEW p \in TestPolygonNames, NEW type, NEW value
  PROVE  /\ LET c == On("POLYSET", <<p, p>>, type, value) IN Request(c.cmd, c.args)
         /\ LET c == On("POLYDEL", <<p>>, type, value) IN Request(c.cmd, c.args)
<1>1. LET c == On("POLYSET", <<p, p>>, type, value) IN Request(c.cmd, c.args)
  BY OnFields, Arguments, TestData DEF Request
<1>2. LET c == On("POLYDEL", <<p>>, type, value) IN Request(c.cmd, c.args)
  BY OnFields, Arguments, TestData DEF Request
<1> QED BY <1>1, <1>2

LEMMA OtherRequests ==
  ASSUME NEW cmd, cmd \notin {"POLYSET", "POLYDEL"}, NEW rest, NEW type, NEW value,
         rest = <<>> \/ \E x : rest = <<x>>
  PROVE  LET c == On(cmd, rest, type, value) IN Request(c.cmd, c.args)
  BY OnFields, Arguments, TestData DEF Request

LEMMA FitsRequest ==
  ASSUME NEW c, NEW m, NEW n, Fits(c, m, n)
  PROVE  Request(c.cmd, c.args)
<1>1. CASE SetsPolygon(c, m, n) \/ DeletesPolygon(c, m, n)
  BY <1>1, OnRequests DEF SetsPolygon, DeletesPolygon
<1>2. CASE SetsIndex(c, m, n) \/ DeletesIndex(c, m, n) \/ ReadsIndex(c, m) \/ ListsPolygons(c, m)
  BY <1>2, OtherRequests DEF SetsIndex, DeletesIndex, ReadsIndex, ListsPolygons
<1>3. CASE ReadsPolygon(c, m) \/ ReadsPolygons(c, m) \/ Searches(c, m)
  BY <1>3, OtherRequests DEF ReadsPolygon, ReadsPolygons, Searches
<1> QED BY <1>1, <1>2, <1>3 DEF Fits, Reads

-----------------------------------------------------------------------------
(* The invariant.                                                          *)

\* TEST found no key of its index, and is where the plan says.
InTest ==
  /\ RightTypes(before) /\ ~HasKeys(before, kTestIndexName) /\ ~stray
  /\ pos \in 1..(Len(TestCommand) + 1)
  /\ Holds(db, before, TestPlan[pos])

\* The polygon of that name is in place, except perhaps in cells.
Placed(d, p) ==
  /\ d.polygons[kTestIndexName][p] = p
  /\ d.cellinfo[kTestIndexName][p] = IndexPolygon[p]

\* POPULATE has created the index and put the first polygons in place.
InPopulate ==
  /\ pos \in 1..6
  /\ pos = 1 => db = before
  /\ pos > 1 => IsIndex(db, kTestIndexName)
  /\ \A j \in 1..4 : j + 1 < pos => Placed(db, kPolygonName[j])

TestInv ==
  /\ Sound(db)
  /\ script \in {"none", "TEST", "POPULATE"}
  /\ script # "none" => verdict = NoVerdict
  /\ NoFalseAlarm
  /\ script = "TEST" => InTest
  /\ script = "POPULATE" => InPopulate

\* What may be answered, and when.
LEMMA NoVerdictYet ==
  ASSUME verdict' = NoVerdict
  PROVE  NoFalseAlarm'
<1>1. NoVerdict[1] = "none" /\ <<"POPULATE", "ISET">>[1] = "POPULATE"
  BY DEF NoVerdict
<1>2. verdict' # <<"POPULATE", "ISET">>
  BY <1>1
<1> QED BY <1>2 DEF NoFalseAlarm

LEMMA TestAnswers ==
  ASSUME \/ verdict' = <<"TEST", "OK">>
         \/ verdict' = <<"TEST", "could not start the test: stale data detected">>
  PROVE  NoFalseAlarm'
<1>1. \A text : <<"TEST", text>>[1] = "TEST" /\ <<"POPULATE", "ISET">>[1] = "POPULATE"
  OBVIOUS
<1>2. \A text : <<"TEST", text>> # <<"POPULATE", "ISET">>
  BY <1>1
<1>3. verdict' # <<"POPULATE", "ISET">>
  BY <1>2
<1> QED BY <1>3 DEF NoFalseAlarm

LEMMA PopulateAnswers ==
  ASSUME \/ verdict' = <<"POPULATE", "OK">>
         \/ verdict' = <<"POPULATE", "ISET">> /\ ~NoSuchIndex(db', kTestIndexName)
  PROVE  NoFalseAlarm'
<1>1. <<"POPULATE", "OK">>[2] = "OK" /\ <<"POPULATE", "ISET">>[2] = "ISET"
  OBVIOUS
<1>2. <<"POPULATE", "OK">> # <<"POPULATE", "ISET">>
  BY <1>1
<1> QED BY <1>2 DEF NoFalseAlarm

LEMMA FreshHolds ==
  ASSUME NEW d, RightTypes(d), ~HasKeys(d, kTestIndexName)
  PROVE  Holds(d, d, Absent)
<1>1. /\ d.meta[kTestIndexName] = "none"
      /\ d.polygons[kTestIndexName] = NoPolygons
      /\ d.cellinfo[kTestIndexName] = NoTerms
      /\ d.cells[kTestIndexName] = NoMembers
  BY DEF HasKeys, NoSuchIndex
<1>2. At(d, Absent)
  BY <1>1, States DEF At, NoPolygons, NoTerms, NoMembers
<1>3. Elsewhere(d, d)
  BY DEF Elsewhere
<1> QED BY <1>2, <1>3, States DEF Holds

\* A keyspace that had no key of the test index and has none now is unchanged.
LEMMA AbsentIsSame ==
  ASSUME NEW d, NEW d0, Holds(d, d0, Absent),
         RightTypes(d0), ~HasKeys(d0, kTestIndexName)
  PROVE  d = d0
<1>1. Holds(d0, d0, Absent)
  BY FreshHolds
<1>2. d.meta = d0.meta
  <2>1. \A j \in Indexes : d.meta[j] = d0.meta[j]
    BY <1>1 DEF Holds, At, Elsewhere
  <2>2. /\ d.meta \in [Indexes -> {"none", "index", "foreign"}]
        /\ d0.meta \in [Indexes -> {"none", "index", "foreign"}]
    BY DEF Holds, RightTypes, Keyspaces
  <2> QED BY <2>1, <2>2
<1>3. \A j \in Indexes, q \in Polygons : d.polygons[j][q] = d0.polygons[j][q]
  BY <1>1 DEF Holds, At, Elsewhere
<1>4. \A j \in Indexes, c \in CNames : d.cellinfo[j][c] = d0.cellinfo[j][c]
  BY <1>1 DEF Holds, At, Elsewhere
<1>5. \A j \in Indexes, t \in Terms, q \in Polygons :
        q \in d.cells[j][t] <=> q \in d0.cells[j][t]
  BY <1>1 DEF Holds, At, Elsewhere
<1>6. Alike(d, d0)
  BY <1>2, <1>3, <1>4, <1>5 DEF Alike, Holds, RightTypes
<1> QED BY <1>6, AlikeIsEqual

LEMMA AbsentHasNoKeys ==
  ASSUME NEW d, NEW d0, Holds(d, d0, Absent),
         RightTypes(d0), ~HasKeys(d0, kTestIndexName)
  PROVE  ~HasKeys(d, kTestIndexName)
  BY AbsentIsSame

LEMMA TestCallStep ==
  ASSUME script = "TEST", InTest, Sound(db), ScriptCall
  PROVE  /\ pos' = pos + 1 /\ UNCHANGED <<script, verdict, stray, before>>
         /\ Sound(db') /\ InTest'
<1> DEFINE c == TestCommand[pos]
<1>1. Calls = TestCommand
  BY DEF Calls
<1>2. pos \in 1..Len(TestCommand) /\ Perform(c.cmd, c.args)
  BY <1>1, TestPlanFits DEF ScriptCall, InTest
<1>3. Fits(c, TestPlan[pos], TestPlan[pos + 1])
  BY <1>2, TestPlanFits
<1>4. Passes(c, reply'[3]) /\ Holds(db', before, TestPlan[pos + 1])
  BY <1>2, <1>3, CallFits DEF InTest
<1>5. pos' = pos + 1 /\ UNCHANGED <<script, verdict, stray, before>>
  BY <1>1, <1>4 DEF ScriptCall
<1>6. Sound(db')
  BY <1>2, <1>3, FitsRequest, PerformChanges
<1>7. pos + 1 \in 1..(Len(TestCommand) + 1)
  BY <1>2, TestPlanFits
<1> QED BY <1>4, <1>5, <1>6, <1>7 DEF InTest

LEMMA FirstCallStep ==
  ASSUME script = "POPULATE", InPopulate, Sound(db), ScriptCall, pos = 1
  PROVE  /\ UNCHANGED <<stray, before>> /\ Sound(db')
         /\ \/ pos' = pos + 1 /\ UNCHANGED <<script, verdict>> /\ InPopulate'
            \/ /\ End("ISET") /\ db' = before
               /\ ~NoSuchIndex(db', kTestIndexName)
<1> DEFINE c == Calls[pos]
<1>1. c = On("ISET", <<>>, "ok", Any)
  BY PopulateCalls DEF Calls
<1>2. c.cmd = "ISET" /\ c.type = "ok" /\ c.value = Any /\ c.args[1] = kTestIndexName
  BY <1>1, OnFields, Arguments
<1>3. Perform(c.cmd, c.args) /\ SetIndexCommand(kTestIndexName)
  BY <1>2 DEF ScriptCall, Perform
<1>4. Sound(db')
  <2>1. Request(c.cmd, c.args)
    BY <1>1, OtherRequests
  <2> QED BY <1>3, <2>1, PerformChanges
<1>5. CASE NoSuchIndex(db, kTestIndexName)
  <2>1. db' = CreateIndex(db, kTestIndexName) /\ reply'[3] = <<"ok">>
    BY <1>3, <1>5, TestNamesOk, AnswerIs DEF SetIndexCommand
  <2>2. Passes(c, reply'[3])
    BY <1>2, <2>1, PassesPlainly
  <2>3. pos' = pos + 1 /\ UNCHANGED <<script, verdict, stray, before>>
    BY <2>2 DEF ScriptCall
  <2>4. IsIndex(db', kTestIndexName)
    BY <2>1, TestData, CreateIndexFields DEF MetaSet, IsIndex, Sound, RightTypes
  <2>5. pos' = 2
    BY <2>3
  <2>6. InPopulate'
    BY <2>4, <2>5 DEF InPopulate
  <2> QED BY <1>4, <2>3, <2>6
<1>6. CASE ~NoSuchIndex(db, kTestIndexName)
  <2>1. Refuse("ISET", <<kTestIndexName>>, "index already exists")
    BY <1>3, <1>6, TestNamesOk DEF SetIndexCommand
  <2>2. db' = db /\ reply'[3][1] = "error"
    BY <2>1, RefusalIs
  <2>3. ~Passes(c, reply'[3])
    BY <1>2, <2>2 DEF Passes
  <2>4. End("ISET") /\ UNCHANGED <<stray, before>>
    BY <1>2, <2>3 DEF ScriptCall
  <2>5. db' = before /\ ~NoSuchIndex(db', kTestIndexName)
    BY <1>6, <2>2 DEF InPopulate
  <2> QED BY <1>4, <2>4, <2>5
<1> QED BY <1>5, <1>6

LEMMA LaterCallStep ==
  ASSUME script = "POPULATE", InPopulate, Sound(db), ScriptCall, pos # 1
  PROVE  /\ pos' = pos + 1 /\ UNCHANGED <<script, verdict, stray, before>>
         /\ Sound(db') /\ InPopulate'
<1> DEFINE c == Calls[pos]
<1>1. PICK k \in 1..4 : pos = k + 1
  <2>1. pos \in 1..6 /\ pos <= 5
    BY PopulateCalls DEF ScriptCall, InPopulate, Calls
  <2>2. pos - 1 \in 1..4 /\ pos = (pos - 1) + 1
    BY <2>1
  <2> QED BY <2>2
<1>2. PICK p \in TestPolygonNames : p = kPolygonName[k] /\ c = On("POLYSET", <<p, p>>, "int", 1)
  BY <1>1, PopulateCalls DEF Calls
<1>3. /\ c.cmd = "POLYSET" /\ c.type = "int" /\ c.value = 1
      /\ c.args[1] = kTestIndexName /\ c.args[2] = p /\ c.args[3] = p
  BY <1>2, OnFields, Arguments
<1>4. Perform(c.cmd, c.args) /\ SetPolygonCommand(kTestIndexName, p, p)
  BY <1>3 DEF ScriptCall, Perform
<1>5. IsIndex(db, kTestIndexName)
  BY <1>1 DEF InPopulate
<1>6. db' = TestPolygonWritten(db, p) /\ reply'[3] = <<"int", 1>>
  BY <1>4, <1>5, TestPolygonSets
<1>7. Passes(c, reply'[3])
  BY <1>3, <1>6, PassesPlainly
<1>8. pos' = pos + 1 /\ UNCHANGED <<script, verdict, stray, before>>
  BY <1>7 DEF ScriptCall
<1>9. Sound(db')
  <2>1. Request(c.cmd, c.args)
    BY <1>2, OnRequests
  <2> QED BY <1>4, <2>1, PerformChanges
<1>10. TestPolygonSet(db, db', p)
  BY <1>6, TestPolygonIsSet DEF Sound
<1>11. IsIndex(db', kTestIndexName)
  BY <1>5, <1>10 DEF TestPolygonSet, IsIndex
<1>12. ASSUME NEW j \in 1..4, j + 1 < pos + 1
       PROVE  Placed(db', kPolygonName[j])
  <2>1. PICK q \in TestPolygonNames : q = kPolygonName[j]
    BY PopulateCalls
  <2>2. q \in Polygons /\ q \in CNames /\ kTestIndexName \in Indexes
    BY TestData
  <2>3. q = p \/ Placed(db, q)
    <3>1. j + 1 < pos \/ j = k
      BY <1>1, <1>12
    <3> QED BY <1>2, <2>1, <3>1 DEF InPopulate
  <2>4. Placed(db', q)
    BY <1>10, <2>2, <2>3 DEF TestPolygonSet, Placed
  <2> QED BY <2>1, <2>4
<1>13. InPopulate'
  BY <1>1, <1>8, <1>11, <1>12 DEF InPopulate
<1> QED BY <1>8, <1>9, <1>13

LEMMA CallStep ==
  ASSUME TestInv, ScriptCall
  PROVE  TestInv'
<1>1. script # "none" /\ verdict = NoVerdict
  BY DEF TestInv, ScriptCall
<1>2. UNCHANGED verdict => NoFalseAlarm'
  BY <1>1, NoVerdictYet
<1>3. CASE script = "TEST"
  <2>1. /\ UNCHANGED <<script, verdict>> /\ Sound(db') /\ InTest'
    BY <1>3, TestCallStep DEF TestInv
  <2> QED BY <1>1, <1>2, <1>3, <2>1 DEF TestInv
<1>4. CASE script = "POPULATE" /\ pos = 1
  <2>1. /\ Sound(db')
        /\ \/ UNCHANGED <<script, verdict>> /\ InPopulate'
           \/ End("ISET") /\ ~NoSuchIndex(db', kTestIndexName)
    BY <1>4, FirstCallStep DEF TestInv
  <2>2. CASE UNCHANGED <<script, verdict>> /\ InPopulate'
    BY <1>1, <1>2, <1>4, <2>1, <2>2 DEF TestInv
  <2>3. CASE End("ISET") /\ ~NoSuchIndex(db', kTestIndexName)
    <3>1. NoFalseAlarm'
      BY <1>4, <2>3, PopulateAnswers DEF End
    <3>2. script' = "none"
      BY <2>3 DEF End
    <3> QED BY <2>1, <3>1, <3>2 DEF TestInv
  <2> QED BY <2>1, <2>2, <2>3
<1>5. CASE script = "POPULATE" /\ pos # 1
  <2>1. UNCHANGED <<script, verdict>> /\ Sound(db') /\ InPopulate'
    BY <1>5, LaterCallStep DEF TestInv
  <2> QED BY <1>1, <1>2, <1>5, <2>1 DEF TestInv
<1> QED BY <1>1, <1>3, <1>4, <1>5 DEF TestInv

\* TEST ends where it began.
LEMMA TestEnds ==
  ASSUME script = "TEST", InTest, ScriptEnd
  PROVE  db' = before /\ End("OK")
<1>1. pos = Len(TestCommand) + 1
  <2>1. Calls = TestCommand
    BY DEF Calls
  <2>2. pos > Len(TestCommand) /\ pos \in 1..(Len(TestCommand) + 1)
    BY <2>1 DEF ScriptEnd, InTest
  <2>3. Len(TestCommand) \in Nat
    BY TestPlanFits
  <2> QED BY <2>2, <2>3
<1>2. Holds(db, before, Absent)
  BY <1>1, TestPlanFits DEF InTest
<1>3. db = before /\ ~HasKeys(db, kTestIndexName)
  BY <1>2, AbsentIsSame, AbsentHasNoKeys DEF InTest
<1>4. ValidateTestCondition(db)
  BY <1>3 DEF InTest, ValidateTestCondition
<1> QED BY <1>3, <1>4 DEF ScriptEnd

LEMMA EndStep ==
  ASSUME TestInv, ScriptEnd
  PROVE  TestInv'
<1>1. End("OK") /\ db' = db /\ (script = "TEST" \/ script = "POPULATE")
  BY TestEnds DEF TestInv, ScriptEnd
<1>2. NoFalseAlarm'
  BY <1>1, TestAnswers, PopulateAnswers DEF End
<1>3. script' = "none"
  BY <1>1 DEF End
<1> QED BY <1>1, <1>2, <1>3 DEF TestInv

\* The inductive invariant, whatever the names.
LEMMA AlwaysTestInv == TestSpec => []TestInv
<1>1. TestInit => TestInv
  <2> SUFFICES ASSUME TestInit PROVE TestInv
    OBVIOUS
  <2>1. PICK F \in SUBSET Indexes : db = LoadedInto(F)
    BY DEF TestInit, Init
  <2>2. Sound(db)
    BY <2>1, LoadedConsistent DEF Consistent, WellFormed, Sound, RightTypes
  <2>3. script = "none" /\ NoFalseAlarm
    <3>1. NoVerdict[1] = "none" /\ <<"POPULATE", "ISET">>[1] = "POPULATE"
      BY DEF NoVerdict
    <3>2. verdict # <<"POPULATE", "ISET">>
      BY <3>1 DEF TestInit
    <3> QED BY <3>2 DEF TestInit, NoFalseAlarm
  <2> QED BY <2>2, <2>3 DEF TestInv
<1>2. TestInv /\ [TestNext]_testVars => TestInv'
  <2> SUFFICES ASSUME TestInv, [TestNext]_testVars PROVE TestInv'
    OBVIOUS
  <2>1. CASE StartTest
    <3>1. CASE ValidateTestCondition(db) /\ Begin("TEST")
      <4>1. Holds(db, db, Absent)
        BY <3>1, FreshHolds DEF ValidateTestCondition, TestInv, Sound
      <4>2. InTest'
        BY <3>1, <4>1, TestPlanFits
           DEF InTest, Begin, ValidateTestCondition, TestInv, Sound
      <4>3. NoFalseAlarm'
        BY <3>1, NoVerdictYet DEF Begin
      <4> QED BY <3>1, <4>2, <4>3 DEF Begin, TestInv
    <3>2. CASE /\ script = "none"
               /\ verdict' = <<"TEST", "could not start the test: stale data detected">>
               /\ UNCHANGED <<db, reply, stray, script, pos, before>>
      BY <3>2, TestAnswers DEF TestInv
    <3> QED BY <2>1, <3>1, <3>2 DEF StartTest
  <2>2. CASE StartPopulate
    <3>1. InPopulate'
      BY <2>2 DEF StartPopulate, Begin, InPopulate
    <3>2. NoFalseAlarm'
      BY <2>2, NoVerdictYet DEF StartPopulate, Begin
    <3> QED BY <2>2, <3>1, <3>2 DEF StartPopulate, Begin, TestInv
  <2>3. CASE ScriptCall
    BY <2>3, CallStep
  <2>4. CASE ScriptEnd
    BY <2>4, EndStep
  <2>5. CASE Client
    <3>1. PICK r \in ClientRequests : Perform(r[1], r[2])
      BY <2>5 DEF Client
    <3>2. Request(r[1], r[2])
      BY ClientAssumption DEF Request
    <3>3. Sound(db')
      BY <3>1, <3>2, PerformChanges DEF TestInv
    <3> QED BY <2>5, <3>3, NoVerdictYet DEF Client, TestInv
  <2>6. CASE Stray
    BY <2>6, NoVerdictYet DEF Stray, TestInv
  <2>7. CASE DelTestMeta
    <3>1. Sound(db')
      BY <2>7, TestData, MetaSound DEF DelTestMeta, TestInv
    <3> QED BY <2>7, <3>1, NoVerdictYet DEF DelTestMeta, TestInv
  <2>8. CASE UNCHANGED testVars
    BY <2>8 DEF testVars, TestInv, NoFalseAlarm, InTest, InPopulate
  <2> QED BY <2>1, <2>2, <2>3, <2>4, <2>5, <2>6, <2>7, <2>8 DEF TestNext
<1> QED BY <1>1, <1>2, PTL DEF TestSpec

-----------------------------------------------------------------------------
(* The theorems.                                                           *)

\* NoFalseAlarm for any keyspace of names, polygons and terms that holds the
\* test data, and any requests of the clients: S2GEO.TEST answers OK or refuses
\* to start - no assertion of it fails, nor the check that it leaves no orphans
\* - and S2GEO.POPULATE answers OK or fails on its first call, which it does
\* only where the index is there.
THEOREM NoFalseAlarmEver == TestSpec => []NoFalseAlarm
<1>1. TestInv => NoFalseAlarm
  BY DEF TestInv
<1> QED BY <1>1, AlwaysTestInv, PTL

\* NoTrace: whatever was there when they began, S2GEO.TEST puts every key back
\* as it was, and so does an S2GEO.POPULATE that fails.
THEOREM NoTraceLeft == TestSpec => NoTrace
<1> DEFINE Restored == /\ script # "none" /\ script' = "none"
                       /\ verdict' # <<"POPULATE", "OK">>
                       => db' = before
<1>1. TestInv /\ [TestNext]_testVars => [Restored]_testVars
  <2> SUFFICES ASSUME TestInv, TestNext, script # "none", script' = "none",
                      verdict' # <<"POPULATE", "OK">>
               PROVE  db' = before
    OBVIOUS
  <2>1. script = "TEST" \/ script = "POPULATE"
    BY DEF TestInv
  <2>2. ScriptCall \/ ScriptEnd
    BY DEF TestNext, StartTest, StartPopulate, Begin, Client, Stray, DelTestMeta
  <2>3. CASE ScriptCall
    <3>1. CASE script = "TEST"
      BY <2>3, <3>1, TestCallStep DEF TestInv
    <3>2. CASE script = "POPULATE" /\ pos = 1
      BY <2>3, <3>2, FirstCallStep DEF TestInv
    <3>3. CASE script = "POPULATE" /\ pos # 1
      BY <2>3, <3>3, LaterCallStep DEF TestInv
    <3> QED BY <2>1, <3>1, <3>2, <3>3
  <2>4. CASE ScriptEnd
    <3>1. CASE script = "TEST"
      BY <2>4, <3>1, TestEnds DEF TestInv
    <3>2. CASE script = "POPULATE"
      BY <2>4, <3>2 DEF ScriptEnd, End
    <3> QED BY <2>1, <3>1, <3>2
  <2> QED BY <2>2, <2>3, <2>4
<1> QED BY <1>1, AlwaysTestInv, PTL DEF TestSpec, NoTrace

\* What S2GEO.POPULATE has done when it comes to its end.
LEMMA PopulateEnds ==
  ASSUME script = "POPULATE", InPopulate, ScriptEnd
  PROVE  \A p \in TestPolygonNames : Placed(db, p)
<1>1. pos = 6
  <2>1. Calls = PopulateCommand
    BY DEF Calls
  <2>2. pos > 5 /\ pos \in 1..6
    BY <2>1, PopulateCalls DEF ScriptEnd, InPopulate
  <2> QED BY <2>2
<1>2. ASSUME NEW p \in TestPolygonNames PROVE \E j \in 1..4 : kPolygonName[j] = p
  BY DEF TestPolygonNames, kPolygonName
<1> QED BY <1>1, <1>2 DEF InPopulate

\* PopulatedWhole: the four polygons of an S2GEO.POPULATE that answers OK are
\* in the sets of their bodies' terms and in no others, whatever remains of an
\* earlier index it found.  Without the assumption (two names that agree up to
\* a NUL byte) a polygon of that index could share their list of terms.
THEOREM PopulatedWholly ==
  ASSUME DistinctCStrings
  PROVE  TestSpec => PopulatedWhole
<1> DEFINE Whole == script = "POPULATE" /\ verdict' = <<"POPULATE", "OK">> =>
             \A p \in TestPolygonNames :
               /\ db.polygons[kTestIndexName][p] = p
               /\ \A t \in Terms : p \in db.cells[kTestIndexName][t] <=> t \in IndexPolygon[p]
<1>1. TestInv /\ [TestNext]_testVars => [Whole]_testVars
  <2> SUFFICES ASSUME TestInv, TestNext, script = "POPULATE", verdict' = <<"POPULATE", "OK">>,
                      NEW p \in TestPolygonNames
               PROVE  /\ db.polygons[kTestIndexName][p] = p
                      /\ \A t \in Terms : p \in db.cells[kTestIndexName][t] <=> t \in IndexPolygon[p]
    OBVIOUS
  <2>1. ~ScriptCall
    <3>1. SUFFICES ASSUME ScriptCall PROVE FALSE
      OBVIOUS
    <3>2. verdict = NoVerdict
      BY DEF TestInv
    <3>3. NoVerdict[2] = "none" /\ verdict'[2] = "OK"
      BY DEF NoVerdict
    <3>4. verdict' # verdict
      BY <3>2, <3>3
    <3>5. CASE pos = 1
      <4>1. ~End("ISET")
        <5>1. End("ISET") => verdict'[2] = "ISET"
          BY DEF End
        <5> QED BY <3>3, <5>1
      <4> QED BY <3>1, <3>4, <3>5, <4>1, FirstCallStep DEF TestInv
    <3>6. CASE pos # 1
      BY <3>1, <3>4, <3>6, LaterCallStep DEF TestInv
    <3> QED BY <3>5, <3>6
  <2>2. ScriptEnd
    BY <2>1 DEF TestNext, StartTest, StartPopulate, Begin, Client, Stray, DelTestMeta
  <2>3. Placed(db, p)
    BY <2>2, PopulateEnds DEF TestInv
  <2>4. p \in Polygons /\ CStr[p] = p /\ kTestIndexName \in Indexes
    BY TestData
  <2>5. Matching(db)
    BY DEF TestInv, Sound
  <2> QED BY <2>3, <2>4, <2>5 DEF Placed, Matching
<1> QED BY <1>1, AlwaysTestInv, PTL DEF TestSpec, PopulatedWhole
=============================================================================
