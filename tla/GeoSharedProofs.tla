-------------------------- MODULE GeoSharedProofs ---------------------------
(***************************************************************************)
(* What the commands guarantee among other clients, for any names, bodies  *)
(* and terms and any number of keys lost and overwritten.                  *)
(***************************************************************************)
EXTENDS GeoShared, GeoCommandsProofs

-----------------------------------------------------------------------------
(* Types.  A lost key holds nothing and an overwritten one none of ours.   *)

(* What a fault leaves of a key: a meta key with another value, a polygons *)
(* key without bodies, a cellinfo key without terms, a cells key without   *)
(* members.                                                                *)

BodiesLost(d, e, i) ==
  /\ e \in Keyspaces /\ e.wrongSet = d.wrongSet /\ e.wrongHash \subseteq d.wrongHash \cup {i}
  /\ e.meta = d.meta /\ e.cellinfo = d.cellinfo /\ e.cells = d.cells
  /\ \A j \in Indexes : e.polygons[j] = IF j = i THEN NoPolygons ELSE d.polygons[j]

CellInfoLost(d, e, i, c) ==
  /\ e \in Keyspaces /\ SameBut(d, e, {"cellinfo"})
  /\ \A j \in Indexes, k \in CNames :
       e.cellinfo[j][k] = IF j = i /\ k = c THEN {} ELSE d.cellinfo[j][k]

MembersLost(d, e, i, t) ==
  /\ e \in Keyspaces /\ e.meta = d.meta /\ e.polygons = d.polygons
  /\ e.cellinfo = d.cellinfo /\ e.wrongHash = d.wrongHash
  /\ \A ju \in Indexes \X Terms :
       ju # <<i, t>> => (ju \in e.wrongSet <=> ju \in d.wrongSet)
  /\ \A j \in Indexes, u \in Terms :
       e.cells[j][u] = IF j = i /\ u = t THEN {} ELSE d.cells[j][u]

LEMMA MetaFault ==
  ASSUME NEW d \in Keyspaces, NEW i \in Indexes, NEW m \in {"none", "foreign"}
  PROVE  MetaSet(d, [d EXCEPT !.meta[i] = m], i, m)
  BY DEF Keyspaces, SameBut, MetaSet

LEMMA PolygonsFault ==
  ASSUME NEW d \in Keyspaces, NEW i \in Indexes, NEW W \in SUBSET Indexes,
         W \subseteq d.wrongHash \cup {i}, NEW e,
         e = [d EXCEPT !.polygons[i] = NoPolygons, !.wrongHash = W]
  PROVE  BodiesLost(d, e, i)
  BY DEF Keyspaces, NoPolygons, BodiesLost

LEMMA CellInfoFault ==
  ASSUME NEW d \in Keyspaces, NEW i \in Indexes, NEW c \in CNames, NEW e,
         e = [d EXCEPT !.cellinfo[i][c] = {}]
  PROVE  CellInfoLost(d, e, i, c)
  BY DEF Keyspaces, SameBut, CellInfoLost

LEMMA CellsFault ==
  ASSUME NEW d \in Keyspaces, NEW i \in Indexes, NEW t \in Terms,
         NEW W \in SUBSET (Indexes \X Terms), NEW e,
         \A ju \in Indexes \X Terms : ju # <<i, t>> => (ju \in W <=> ju \in d.wrongSet),
         e = [d EXCEPT !.cells[i][t] = {}, !.wrongSet = W]
  PROVE  MembersLost(d, e, i, t)
<1>1. /\ e \in Keyspaces /\ e.wrongSet = W /\ e.wrongHash = d.wrongHash
      /\ e.meta = d.meta /\ e.polygons = d.polygons /\ e.cellinfo = d.cellinfo
      /\ \A j \in Indexes, u \in Terms :
           e.cells[j][u] = IF j = i /\ u = t THEN {} ELSE d.cells[j][u]
  BY DEF Keyspaces
<1> QED BY <1>1 DEF MembersLost

\* Every step of somebody else is one of these and answers nobody.
LEMMA Faults ==
  ASSUME WellFormed(db), SharedNext, ~Command
  PROVE  /\ reply' = <<"none", <<>>, <<"none">>>>
         /\ \E i \in Indexes :
              \/ /\ \E m \in {"none", "foreign"} : MetaSet(db, db', i, m)
                 /\ Lose(<<"meta", i>>)
              \/ BodiesLost(db, db', i) /\ Lose(<<"polygons", i>>)
              \/ \E c \in CNames : CellInfoLost(db, db', i, c) /\ Lose(<<"cellinfo", i, c>>)
              \/ \E t \in Terms : MembersLost(db, db', i, t) /\ Spoil(i, t)
<1>1. PICK i \in Indexes :
        \/ LoseMeta(i) \/ LosePolygons(i)
        \/ OverwriteMeta(i) \/ OverwritePolygons(i)
        \/ \E c \in CNames : LoseCellInfo(i, c)
        \/ \E t \in Terms : LoseCells(i, t) \/ OverwriteCells(i, t)
  BY DEF SharedNext
<1>2. /\ db \in Keyspaces /\ db.wrongHash \in SUBSET Indexes
      /\ db.wrongSet \in SUBSET (Indexes \X Terms)
  BY DEF WellFormed, Keyspaces
<1>3. reply' = <<"none", <<>>, <<"none">>>>
  <2>1. Fault
    BY <1>1, Zenon DEF LoseMeta, LosePolygons, OverwriteMeta, OverwritePolygons,
                LoseCellInfo, LoseCells, OverwriteCells
  <2> QED BY <2>1 DEF Fault
<1>4. CASE LoseMeta(i)
  BY <1>2, <1>3, <1>4, MetaFault DEF LoseMeta
<1>5. CASE OverwriteMeta(i)
  BY <1>2, <1>3, <1>5, MetaFault DEF OverwriteMeta
<1>6. CASE LosePolygons(i)
  <2>1. db' = [db EXCEPT !.polygons[i] = NoPolygons, !.wrongHash = db.wrongHash \ {i}]
    BY <1>6 DEF LosePolygons
  <2>2. BodiesLost(db, db', i)
    <3> DEFINE W == db.wrongHash \ {i}
    <3>1. W \in SUBSET Indexes /\ W \subseteq db.wrongHash \cup {i}
      BY <1>2
    <3>2. db' = [db EXCEPT !.polygons[i] = NoPolygons, !.wrongHash = W]
      BY <2>1
    <3> HIDE DEF W
    <3> QED BY <1>2, <3>1, <3>2, PolygonsFault
  <2> QED BY <1>3, <1>6, <2>2 DEF LosePolygons
<1>7. CASE OverwritePolygons(i)
  <2>1. db' = [db EXCEPT !.polygons[i] = NoPolygons, !.wrongHash = db.wrongHash \cup {i}]
    BY <1>7 DEF OverwritePolygons
  <2>2. BodiesLost(db, db', i)
    <3> DEFINE W == db.wrongHash \cup {i}
    <3>1. W \in SUBSET Indexes /\ W \subseteq db.wrongHash \cup {i}
      BY <1>2
    <3>2. db' = [db EXCEPT !.polygons[i] = NoPolygons, !.wrongHash = W]
      BY <2>1
    <3> HIDE DEF W
    <3> QED BY <1>2, <3>1, <3>2, PolygonsFault
  <2> QED BY <1>3, <1>7, <2>2 DEF OverwritePolygons
<1>8. ASSUME NEW c \in CNames, LoseCellInfo(i, c)
      PROVE  CellInfoLost(db, db', i, c) /\ Lose(<<"cellinfo", i, c>>)
  BY <1>2, <1>8, CellInfoFault DEF LoseCellInfo
<1>9. ASSUME NEW t \in Terms, LoseCells(i, t) \/ OverwriteCells(i, t)
      PROVE  MembersLost(db, db', i, t) /\ Spoil(i, t)
  <2>1. PICK W : /\ W = db.wrongSet \ {<<i, t>>} \/ W = db.wrongSet \cup {<<i, t>>}
                 /\ db' = [db EXCEPT !.cells[i][t] = {}, !.wrongSet = W]
    BY <1>9 DEF LoseCells, OverwriteCells
  <2>2. /\ W \in SUBSET (Indexes \X Terms)
        /\ \A ju \in Indexes \X Terms : ju # <<i, t>> => (ju \in W <=> ju \in db.wrongSet)
    BY <1>2, <2>1
  <2>3. MembersLost(db, db', i, t)
    BY <1>2, <2>1, <2>2, CellsFault
  <2> QED BY <1>9, <2>3 DEF LoseCells, OverwriteCells
<1> QED BY <1>1, <1>3, <1>4, <1>5, <1>6, <1>7, <1>8, <1>9

LEMMA FaultWellFormed ==
  ASSUME NEW d, WellFormed(d), NEW e, NEW i \in Indexes,
         \/ \E m \in {"none", "foreign"} : MetaSet(d, e, i, m)
         \/ BodiesLost(d, e, i)
         \/ \E c \in CNames : CellInfoLost(d, e, i, c)
         \/ \E t \in Terms : MembersLost(d, e, i, t)
  PROVE  WellFormed(e)
<1>1. CASE \E m \in {"none", "foreign"} : MetaSet(d, e, i, m)
  BY <1>1 DEF WellFormed, MetaSet, SameBut
<1>2. CASE BodiesLost(d, e, i)
  BY <1>2 DEF WellFormed, BodiesLost, Keyspaces
<1>3. CASE \E c \in CNames : CellInfoLost(d, e, i, c)
  BY <1>3 DEF WellFormed, CellInfoLost, SameBut
<1>4. ASSUME NEW t \in Terms, MembersLost(d, e, i, t)
      PROVE  WellFormed(e)
  <2>1. ASSUME NEW ju \in e.wrongSet PROVE e.cells[ju[1]][ju[2]] = {}
    <3>1. PICK j \in Indexes, u \in Terms : ju = <<j, u>>
      BY <1>4 DEF MembersLost, Keyspaces
    <3>2. CASE j = i /\ u = t
      BY <1>4, <3>1, <3>2 DEF MembersLost
    <3>3. CASE ~(j = i /\ u = t)
      <4>1. ju \in d.wrongSet
        BY <1>4, <3>1, <3>3 DEF MembersLost
      <4>2. d.cells[j][u] = {}
        BY <3>1, <4>1 DEF WellFormed
      <4> QED BY <1>4, <3>1, <3>3, <4>2 DEF MembersLost
    <3> QED BY <3>2, <3>3
  <2> QED BY <1>4, <2>1 DEF MembersLost, WellFormed
<1> QED BY <1>1, <1>2, <1>3, <1>4

LEMMA AlwaysWellFormed ==
  SharedSpec => [](WellFormed(db) /\ reply[1] \in Commands \cup {"none"})
<1> DEFINE Inv == WellFormed(db) /\ reply[1] \in Commands \cup {"none"}
<1>1. SharedInit => Inv
  BY LoadedWellFormed DEF SharedInit, Init
<1>2. Inv /\ [SharedNext]_sharedVars => Inv'
  <2> SUFFICES ASSUME Inv, [SharedNext]_sharedVars PROVE Inv'
    OBVIOUS
  <2>1. CASE Command
    BY <2>1, StepChanges, ChangedWellFormed DEF Command, WellFormed
  <2>2. CASE SharedNext /\ ~Command
    <3>1. WellFormed(db')
      BY <2>2, Faults, FaultWellFormed
    <3> QED BY <2>2, <3>1, Faults
  <2>3. CASE UNCHANGED sharedVars
    BY <2>3 DEF sharedVars, WellFormed
  <2> QED BY <2>1, <2>2, <2>3
<1> QED BY <1>1, <1>2, PTL DEF SharedSpec

-----------------------------------------------------------------------------
(* Stranded polygons.                                                      *)

\* p sits under a term of i that its cellinfo does not name.
Stranded(d, i, p) ==
  \E t \in Terms : p \in d.cells[i][t] /\ t \notin d.cellinfo[i][CStr[p]]

\* e strands no polygon that d does not.
NoneStranded(d, e) ==
  \A i \in Indexes, p \in Polygons : Stranded(e, i, p) => Stranded(d, i, p)

LEMMA SetPolygonCellsStrandsNone ==
  ASSUME NEW d \in Keyspaces, NEW i \in Indexes, NEW p \in Polygons,
         NEW T \in SUBSET Terms
  PROVE  NoneStranded(d, SetPolygonCells(d, i, p, T))
<1>1. PICK e : e = SetPolygonCells(d, i, p, T) /\ CellsSet(d, e, i, p, T)
  BY SetPolygonCellsFields
<1>2. ASSUME NEW j \in Indexes, NEW q \in Polygons, NEW t \in Terms,
             q \in e.cells[j][t], t \notin e.cellinfo[j][CStr[q]]
      PROVE  q \in d.cells[j][t] /\ t \notin d.cellinfo[j][CStr[q]]
  <2>1. CStr[q] \in CNames
    BY DEF CNames
  <2>2. t \notin d.cellinfo[j][CStr[q]] /\ ~(j = i /\ CStr[q] = CStr[p] /\ t \in T)
    BY <1>1, <1>2, <2>1 DEF CellsSet
  <2>3. e.cells[j][t] = IF j = i /\ t \in T /\ <<i, t>> \notin d.wrongSet
                          THEN d.cells[j][t] \cup {p} ELSE d.cells[j][t]
    BY <1>1 DEF CellsSet
  <2>4. q # p \/ ~(j = i /\ t \in T)
    BY <2>2
  <2> QED BY <1>2, <2>2, <2>3, <2>4
<1> QED BY <1>1, <1>2 DEF NoneStranded, Stranded

LEMMA DeletePolygonCellsStrandsNone ==
  ASSUME DistinctCStrings, NEW d \in Keyspaces, NEW i \in Indexes,
         NEW D \in SUBSET Polygons
  PROVE  NoneStranded(d, DeletePolygonCells(d, i, D))
<1>1. PICK e : e = DeletePolygonCells(d, i, D) /\ CellsTakenOut(d, e, i, D)
  BY DeletePolygonCellsFields
<1>2. ASSUME NEW j \in Indexes, NEW q \in Polygons, NEW t \in Terms,
             q \in e.cells[j][t], t \notin e.cellinfo[j][CStr[q]]
      PROVE  q \in d.cells[j][t] /\ t \notin d.cellinfo[j][CStr[q]]
  <2>1. CStr[q] \in CNames
    BY DEF CNames
  <2>2. q \in d.cells[j][t] /\ ~(j = i /\ q \in D /\ t \in d.cellinfo[j][CStr[q]])
    BY <1>1, <1>2 DEF CellsTakenOut
  <2>3. (\E p \in D : CStr[p] = CStr[q]) <=> q \in D
    BY DEF DistinctCStrings
  <2> QED BY <1>1, <1>2, <2>1, <2>2, <2>3 DEF CellsTakenOut
<1> QED BY <1>1, <1>2 DEF NoneStranded, Stranded

LEMMA SameCellsStrandNone ==
  ASSUME NEW d, NEW e, e.cellinfo = d.cellinfo, e.cells = d.cells
  PROVE  NoneStranded(d, e)
  BY DEF NoneStranded, Stranded

LEMMA StrandsNoneTwice ==
  ASSUME NEW d, NEW e, NEW f, NoneStranded(d, e), NoneStranded(e, f)
  PROVE  NoneStranded(d, f)
  BY DEF NoneStranded

\* Cells first, then bodies, as IDEL goes about it.
LEMMA DeletePolygonsStrandsNone ==
  ASSUME DistinctCStrings, NEW d, WellFormed(d), NEW i \in Indexes,
         NEW D \in SUBSET Polygons
  PROVE  NoneStranded(d, DeletePolygons(d, i, D)) /\ WellFormed(DeletePolygons(d, i, D))
<1>1. PICK e : e = DeletePolygonCells(d, i, D)
  OBVIOUS
<1>2. NoneStranded(d, e) /\ WellFormed(e)
  <2>1. d \in Keyspaces
    BY DEF WellFormed
  <2> QED BY <1>1, <2>1, DeletePolygonCellsStrandsNone, DeletePolygonCellsWellFormed
<1>3. PICK f : f = DeletePolygonBody(e, i, D)
  OBVIOUS
<1>4. NoneStranded(e, f)
  BY <1>2, <1>3, DeletePolygonBodyFields, SameCellsStrandNone
     DEF WellFormed, BodiesDeleted, SameBut
<1>5. NoneStranded(d, f)
  BY <1>2, <1>4, StrandsNoneTwice
<1> QED BY <1>1, <1>3, <1>5, DeletePolygonsWellFormed DEF DeletePolygons

\* No command strands a polygon, whatever state it finds the keys in.
LEMMA ChangedStrandsNone ==
  ASSUME DistinctCStrings, NEW d, WellFormed(d), NEW e, Changed(d, e)
  PROVE  NoneStranded(d, e)
<1>1. PICK i \in Indexes :
        \/ e = CreateIndex(d, i)
        \/ \E p \in Polygons, b \in ValidBodies :
             e = SetPolygonCells(
                   DeletePolygonCells(SetPolygonBody(d, i, p, b), i, {p}),
                   i, p, IndexPolygon[b])
        \/ \E p \in Polygons :
             e = DeletePolygonCells(DeletePolygonBody(d, i, {p}), i, {p})
        \/ \E D \in SUBSET ListPolygons(d, i), q \in ListPolygons(d, i) :
             e = DeleteIndexStopped(d, i, D, q)
        \/ e = DeleteIndex(d, i)
  BY DEF Changed
<1>2. CASE e = CreateIndex(d, i)
  BY <1>2, CreateIndexFields, SameCellsStrandNone DEF WellFormed, MetaSet, SameBut
<1>3. ASSUME NEW p \in Polygons, NEW b \in ValidBodies,
             e = SetPolygonCells(
                   DeletePolygonCells(SetPolygonBody(d, i, p, b), i, {p}),
                   i, p, IndexPolygon[b])
      PROVE  NoneStranded(d, e)
  <2>1. b \in Bodies /\ IndexPolygon[b] \in SUBSET Terms
    BY GeometryAssumption
  <2>2. PICK d1 : d1 = SetPolygonBody(d, i, p, b)
    OBVIOUS
  <2>3. d1 \in Keyspaces /\ NoneStranded(d, d1)
    BY <2>1, <2>2, SetPolygonBodyFields, SameCellsStrandNone DEF WellFormed, BodySet, SameBut
  <2>4. PICK d2 : d2 = DeletePolygonCells(d1, i, {p})
    OBVIOUS
  <2>5. d2 \in Keyspaces /\ NoneStranded(d1, d2)
    BY <2>3, <2>4, DeletePolygonCellsFields, DeletePolygonCellsStrandsNone DEF CellsTakenOut
  <2>6. NoneStranded(d2, e)
    BY <1>3, <2>1, <2>2, <2>4, <2>5, SetPolygonCellsStrandsNone
  <2> QED BY <2>3, <2>5, <2>6, StrandsNoneTwice
<1>4. ASSUME NEW p \in Polygons,
             e = DeletePolygonCells(DeletePolygonBody(d, i, {p}), i, {p})
      PROVE  NoneStranded(d, e)
  <2>1. PICK d1 : d1 = DeletePolygonBody(d, i, {p})
    OBVIOUS
  <2>2. d1 \in Keyspaces /\ NoneStranded(d, d1)
    BY <2>1, DeletePolygonBodyFields, SameCellsStrandNone
       DEF WellFormed, BodiesDeleted, SameBut
  <2>3. NoneStranded(d1, e)
    BY <1>4, <2>1, <2>2, DeletePolygonCellsStrandsNone
  <2> QED BY <2>2, <2>3, StrandsNoneTwice
<1>5. ASSUME NEW D \in SUBSET ListPolygons(d, i), NEW q \in ListPolygons(d, i),
             e = DeleteIndexStopped(d, i, D, q)
      PROVE  NoneStranded(d, e)
  <2>1. D \in SUBSET Polygons
    BY DEF ListPolygons
  <2>2. PICK d1 : d1 = DeletePolygons(d, i, D)
    OBVIOUS
  <2>3. NoneStranded(d, d1) /\ WellFormed(d1)
    BY <2>1, <2>2, DeletePolygonsStrandsNone
  <2>4. e = DeletePolygonBody(d1, i, {q})
    BY <1>5, <2>2 DEF DeleteIndexStopped
  <2>5. NoneStranded(d1, e)
    BY <2>3, <2>4, DeletePolygonBodyFields, SameCellsStrandNone
       DEF WellFormed, BodiesDeleted, SameBut
  <2> QED BY <2>3, <2>5, StrandsNoneTwice
<1>6. CASE e = DeleteIndex(d, i)
  <2>1. PICK d1 : d1 = DeletePolygons(d, i, ListPolygons(d, i))
    OBVIOUS
  <2>2. NoneStranded(d, d1) /\ WellFormed(d1)
    BY <2>1, DeletePolygonsStrandsNone DEF ListPolygons
  <2>3. e = [d1 EXCEPT !.meta[i] = "none"]
    BY <1>6, <2>1 DEF DeleteIndex
  <2>4. NoneStranded(d1, e)
    <3>1. d1 \in Keyspaces
      BY <2>2 DEF WellFormed
    <3>2. MetaSet(d1, e, i, "none")
      BY <2>3, <3>1, MetaFields
    <3> QED BY <3>2, SameCellsStrandNone DEF MetaSet, SameBut
  <2> QED BY <2>2, <2>4, StrandsNoneTwice
<1> QED BY <1>1, <1>2, <1>3, <1>4, <1>5, <1>6

(* Nothing but the loss of a cellinfo key strands a polygon in the cells:  *)
(* not the commands, in any order and whatever else was lost or            *)
(* overwritten before, nor an IDEL that gave up half way.                  *)
THEOREM OnlyLossStrands ==
  ASSUME DistinctCStrings
  PROVE  SharedSpec => []StrandedOnlyByLoss
<1>1. SharedInit => StrandedOnlyByLoss
  BY DEF SharedInit, Init, LoadedInto, EmptyKeyspace, NoMembers, StrandedOnlyByLoss
<1>2. StrandedOnlyByLoss /\ WellFormed(db) /\ [SharedNext]_sharedVars => StrandedOnlyByLoss'
  <2> SUFFICES ASSUME StrandedOnlyByLoss, WellFormed(db), [SharedNext]_sharedVars
               PROVE  StrandedOnlyByLoss'
    OBVIOUS
  <2>1. CASE Command
    <3>1. NoneStranded(db, db')
      <4>1. CASE db' = db
        BY <4>1, SameCellsStrandNone
      <4>2. CASE Changed(db, db')
        BY <4>2, ChangedStrandsNone
      <4> QED BY <2>1, <4>1, <4>2, StepChanges DEF Command
    <3>2. ASSUME NEW j \in Indexes, NEW c, <<"cellinfo", j, c>> \in lost
          PROVE  <<"cellinfo", j, c>> \in lost'
      BY <2>1, <3>2 DEF Command
    <3> QED BY <3>1, <3>2 DEF StrandedOnlyByLoss, NoneStranded, Stranded
  <2>2. CASE SharedNext /\ ~Command
    <3> SUFFICES ASSUME NEW j \in Indexes, NEW q \in Polygons, NEW u \in Terms,
                        q \in db'.cells[j][u], u \notin db'.cellinfo[j][CStr[q]]
                 PROVE  <<"cellinfo", j, CStr[q]>> \in lost'
      BY DEF StrandedOnlyByLoss
    <3>1. CStr[q] \in CNames
      BY DEF CNames
    <3>2. PICK i \in Indexes :
            \/ /\ \E m \in {"none", "foreign"} : MetaSet(db, db', i, m)
               /\ Lose(<<"meta", i>>)
            \/ BodiesLost(db, db', i) /\ Lose(<<"polygons", i>>)
            \/ \E c \in CNames : CellInfoLost(db, db', i, c) /\ Lose(<<"cellinfo", i, c>>)
            \/ \E t \in Terms : MembersLost(db, db', i, t) /\ Spoil(i, t)
      BY <2>2, Faults
    <3>3. CASE /\ \E m \in {"none", "foreign"} : MetaSet(db, db', i, m)
               /\ Lose(<<"meta", i>>)
      BY <3>3 DEF MetaSet, SameBut, Lose, StrandedOnlyByLoss
    <3>4. CASE BodiesLost(db, db', i) /\ Lose(<<"polygons", i>>)
      BY <3>4 DEF BodiesLost, Lose, StrandedOnlyByLoss
    <3>5. ASSUME NEW c \in CNames, CellInfoLost(db, db', i, c), Lose(<<"cellinfo", i, c>>)
          PROVE  <<"cellinfo", j, CStr[q]>> \in lost'
      BY <3>1, <3>5 DEF CellInfoLost, SameBut, Lose, StrandedOnlyByLoss
    <3>6. ASSUME NEW t \in Terms, MembersLost(db, db', i, t), Spoil(i, t)
          PROVE  <<"cellinfo", j, CStr[q]>> \in lost'
      BY <3>6 DEF MembersLost, Spoil, StrandedOnlyByLoss
    <3> QED BY <3>2, <3>3, <3>4, <3>5, <3>6
  <2>3. CASE UNCHANGED sharedVars
    BY <2>3 DEF sharedVars, StrandedOnlyByLoss
  <2> QED BY <2>1, <2>2, <2>3
<1> QED BY <1>1, <1>2, AlwaysWellFormed, PTL DEF SharedSpec

-----------------------------------------------------------------------------
(* Leftovers.                                                              *)

\* e has no body and no cellinfo without a body that d does not have too,
\* except in an index that is there, and where HSET failed.
NothingLeft(d, e) ==
  /\ e.wrongHash = d.wrongHash
  /\ \A i \in Indexes, p \in Polygons :
       /\ ~IsIndex(e, i) /\ e.polygons[i][p] # NoBody =>
            ~IsIndex(d, i) /\ d.polygons[i][p] # NoBody
       /\ HasCells(e, i, p) /\ e.polygons[i][p] = NoBody =>
            (HasCells(d, i, p) /\ d.polygons[i][p] = NoBody) \/ i \in d.wrongHash

\* The cells first, then the bodies, or the other way round.
WithoutPolygons(d, d1, e, i, D) ==
  \/ CellsTakenOut(d, d1, i, D) /\ BodiesDeleted(d1, e, i, D)
  \/ BodiesDeleted(d, d1, i, D) /\ CellsTakenOut(d1, e, i, D)

\* e is d without D: its bodies, and what cellinfo says of it.
Lacks(d, e, i, D) ==
  /\ NothingLeft(d, e) /\ e \in Keyspaces /\ e.meta = d.meta
  /\ \A j \in Indexes, r \in Polygons :
       /\ e.polygons[j][r] = IF j = i /\ r \in D THEN NoBody ELSE d.polygons[j][r]
       /\ HasCells(e, j, r) <=> HasCells(d, j, r) /\ ~(j = i /\ r \in D)

LEMMA TakenOutLeavesNothing ==
  ASSUME DistinctCStrings, NEW d, NEW d1, NEW e, NEW i \in Indexes, NEW D \in SUBSET Polygons,
         WithoutPolygons(d, d1, e, i, D)
  PROVE  Lacks(d, e, i, D)
<1>1. /\ e.meta = d.meta /\ e.wrongHash = d.wrongHash /\ e \in Keyspaces
      /\ \A j \in Indexes, r \in Polygons :
           e.polygons[j][r] = IF j = i /\ r \in D THEN NoBody ELSE d.polygons[j][r]
  BY DEF WithoutPolygons, CellsTakenOut, BodiesDeleted, SameBut
<1>2. \A j \in Indexes, c \in CNames :
        e.cellinfo[j][c] = IF j = i /\ \E p \in D : CStr[p] = c THEN {} ELSE d.cellinfo[j][c]
  BY DEF WithoutPolygons, CellsTakenOut, BodiesDeleted, SameBut
<1>3. \A r \in Polygons : CStr[r] \in CNames /\ ((\E p \in D : CStr[p] = CStr[r]) <=> r \in D)
  BY DEF CNames, DistinctCStrings
<1>4. \A j \in Indexes, r \in Polygons :
        HasCells(e, j, r) <=> HasCells(d, j, r) /\ ~(j = i /\ r \in D)
  BY <1>2, <1>3 DEF HasCells
<1> QED BY <1>1, <1>4 DEF Lacks, NothingLeft, IsIndex

\* No command leaves anything without a body or without an index.
LEMMA ChangedLeavesNothing ==
  ASSUME DistinctCStrings, NEW d, WellFormed(d), NEW e, Changed(d, e)
  PROVE  NothingLeft(d, e)
<1> USE DEF IsIndex
<1>1. PICK i \in Indexes :
        \/ e = CreateIndex(d, i)
        \/ /\ IsIndex(d, i)
           /\ \/ \E p \in Polygons, b \in ValidBodies :
                   e = SetPolygonCells(
                         DeletePolygonCells(SetPolygonBody(d, i, p, b), i, {p}),
                         i, p, IndexPolygon[b])
              \/ \E p \in Polygons :
                   e = DeletePolygonCells(DeletePolygonBody(d, i, {p}), i, {p})
              \/ \E D \in SUBSET ListPolygons(d, i), q \in ListPolygons(d, i) :
                   StopsAt(d, i, D, q) /\ e = DeleteIndexStopped(d, i, D, q)
              \/ e = DeleteIndex(d, i)
  BY DEF Changed
<1>2. d \in Keyspaces
  BY DEF WellFormed
<1>3. CASE e = CreateIndex(d, i)
  BY <1>2, <1>3, CreateIndexFields DEF MetaSet, SameBut, NothingLeft, HasCells
<1>4. ASSUME NEW p \in Polygons, NEW b \in ValidBodies, IsIndex(d, i),
             e = SetPolygonCells(
                   DeletePolygonCells(SetPolygonBody(d, i, p, b), i, {p}),
                   i, p, IndexPolygon[b])
      PROVE  NothingLeft(d, e)
  <2>1. b \in Bodies /\ b # NoBody /\ IndexPolygon[b] \in SUBSET Terms
    BY GeometryAssumption
  <2>2. PICK d1 : d1 = SetPolygonBody(d, i, p, b) /\ BodySet(d, d1, i, p, b)
    BY <1>2, <2>1, SetPolygonBodyFields
  <2>3. PICK d2 : d2 = DeletePolygonCells(d1, i, {p}) /\ CellsTakenOut(d1, d2, i, {p})
    BY <2>2, DeletePolygonCellsFields DEF BodySet
  <2>4. CellsSet(d2, e, i, p, IndexPolygon[b])
    BY <1>4, <2>1, <2>2, <2>3, SetPolygonCellsFields DEF CellsTakenOut
  <2>5. /\ e.meta = d.meta /\ e.wrongHash = d.wrongHash
        /\ \A j \in Indexes, r \in Polygons :
             e.polygons[j][r] = IF j = i /\ r = p /\ i \notin d.wrongHash
                                  THEN b ELSE d.polygons[j][r]
    BY <2>2, <2>3, <2>4 DEF BodySet, CellsTakenOut, CellsSet, SameBut
  <2>6. ASSUME NEW j \in Indexes, NEW r \in Polygons, ~(j = i /\ r = p)
        PROVE  HasCells(e, j, r) <=> HasCells(d, j, r)
    <3>1. CStr[r] \in CNames /\ (CStr[r] = CStr[p] <=> r = p)
      BY DEF CNames, DistinctCStrings
    <3>2. e.cellinfo[j][CStr[r]] = d2.cellinfo[j][CStr[r]]
      BY <2>4, <2>6, <3>1 DEF CellsSet
    <3>3. d2.cellinfo[j][CStr[r]] = d1.cellinfo[j][CStr[r]]
      <4>1. ~(j = i /\ \E k \in {p} : CStr[k] = CStr[r])
        BY <2>6, <3>1
      <4> QED BY <2>3, <3>1, <4>1 DEF CellsTakenOut
    <3> QED BY <2>2, <3>2, <3>3 DEF BodySet, SameBut, HasCells
  <2> QED BY <1>4, <2>1, <2>5, <2>6 DEF NothingLeft
<1>5. ASSUME NEW p \in Polygons,
             e = DeletePolygonCells(DeletePolygonBody(d, i, {p}), i, {p})
      PROVE  NothingLeft(d, e)
  <2>1. PICK d1 : d1 = DeletePolygonBody(d, i, {p}) /\ BodiesDeleted(d, d1, i, {p})
    BY <1>2, DeletePolygonBodyFields
  <2>2. CellsTakenOut(d1, e, i, {p})
    BY <1>5, <2>1, DeletePolygonCellsFields DEF BodiesDeleted
  <2>3. WithoutPolygons(d, d1, e, i, {p})
    BY <2>1, <2>2 DEF WithoutPolygons
  <2> QED BY <2>3, TakenOutLeavesNothing DEF Lacks
<1>6. ASSUME NEW D \in SUBSET Polygons
      PROVE  Lacks(d, DeletePolygons(d, i, D), i, D)
  <2>1. PICK d1 : d1 = DeletePolygonCells(d, i, D) /\ CellsTakenOut(d, d1, i, D)
    BY <1>2, DeletePolygonCellsFields
  <2>2. PICK f : f = DeletePolygonBody(d1, i, D) /\ BodiesDeleted(d1, f, i, D)
    BY <2>1, DeletePolygonBodyFields DEF CellsTakenOut
  <2>3. f = DeletePolygons(d, i, D)
    BY <2>1, <2>2 DEF DeletePolygons
  <2>4. WithoutPolygons(d, d1, f, i, D)
    BY <2>1, <2>2 DEF WithoutPolygons
  <2> QED BY <2>3, <2>4, TakenOutLeavesNothing
<1>7. ASSUME NEW D \in SUBSET ListPolygons(d, i), NEW q \in ListPolygons(d, i),
             StopsAt(d, i, D, q), e = DeleteIndexStopped(d, i, D, q), IsIndex(d, i)
      PROVE  NothingLeft(d, e)
  <2>1. D \in SUBSET Polygons /\ q \in Polygons
    BY DEF ListPolygons
  <2>2. PICK f : f = DeletePolygons(d, i, D) /\ Lacks(d, f, i, D)
    BY <1>6, <2>1
  <2>3. BodiesDeleted(f, e, i, {q})
    BY <1>7, <2>2, DeletePolygonBodyFields DEF DeleteIndexStopped, Lacks
  <2>4. ~HasCells(d, i, q)
    BY <1>7, <2>1 DEF StopsAt, Deletable, DistinctCStrings
  <2>5. /\ e.meta = d.meta /\ e.wrongHash = f.wrongHash
        /\ \A j \in Indexes, r \in Polygons :
             /\ e.polygons[j][r] = IF j = i /\ r = q THEN NoBody ELSE f.polygons[j][r]
             /\ HasCells(e, j, r) <=> HasCells(f, j, r)
    BY <2>2, <2>3 DEF BodiesDeleted, SameBut, HasCells, Lacks
  <2> QED BY <2>2, <2>4, <2>5 DEF NothingLeft, Lacks
<1>8. CASE IsIndex(d, i) /\ e = DeleteIndex(d, i)
  <2>1. PICK D : D = ListPolygons(d, i)
    OBVIOUS
  <2>2. D \in SUBSET Polygons
    BY <2>1 DEF ListPolygons
  <2>3. PICK f : f = DeletePolygons(d, i, D) /\ Lacks(d, f, i, D)
    BY <1>6, <2>2
  <2>4. MetaSet(f, e, i, "none")
    BY <1>8, <2>1, <2>3, MetaFields DEF DeleteIndex, Lacks
  <2>5. /\ e.wrongHash = f.wrongHash /\ e.polygons = f.polygons
        /\ \A j \in Indexes : j # i => e.meta[j] = d.meta[j]
        /\ \A j \in Indexes, r \in Polygons : HasCells(e, j, r) <=> HasCells(f, j, r)
    BY <2>3, <2>4 DEF MetaSet, SameBut, HasCells, Lacks
  <2>6. \A r \in Polygons : f.polygons[i][r] = NoBody
    BY <2>1, <2>3 DEF ListPolygons, Lacks
  <2> QED BY <2>3, <2>5, <2>6 DEF NothingLeft, Lacks
<1> QED BY <1>1, <1>3, <1>4, <1>5, <1>7, <1>8

(* What has a key of another type, a body without an index, or cellinfo    *)
(* without a body, goes back to a lost key.                                *)
Accounted ==
  /\ \A i \in db.wrongHash : <<"polygons", i>> \in lost
  /\ \A i \in Indexes, p \in Polygons :
       /\ ~IsIndex(db, i) /\ db.polygons[i][p] # NoBody => <<"meta", i>> \in lost
       /\ HasCells(db, i, p) /\ db.polygons[i][p] = NoBody => <<"polygons", i>> \in lost

LEMMA CommandAccounted ==
  ASSUME DistinctCStrings, WellFormed(db), Accounted, Command
  PROVE  Accounted'
<1>1. NothingLeft(db, db')
  <2>1. CASE db' = db
    BY <2>1 DEF NothingLeft
  <2>2. CASE Changed(db, db')
    BY <2>2, ChangedLeavesNothing
  <2> QED BY <2>1, <2>2, StepChanges DEF Command
<1>2. lost' = lost \ {<<"meta", i>> : i \in {j \in Indexes : IsIndex(db', j)}}
  BY DEF Command
<1>3. \A i : <<"polygons", i>> \in lost => <<"polygons", i>> \in lost'
  BY <1>2
<1>4. \A i \in Indexes : <<"meta", i>> \in lost /\ ~IsIndex(db', i) => <<"meta", i>> \in lost'
  BY <1>2
<1>5. \A i \in db'.wrongHash : <<"polygons", i>> \in lost'
  BY <1>1, <1>3 DEF NothingLeft, Accounted
<1>6. ASSUME NEW i \in Indexes, NEW p \in Polygons
      PROVE  /\ ~IsIndex(db', i) /\ db'.polygons[i][p] # NoBody => <<"meta", i>> \in lost'
             /\ HasCells(db', i, p) /\ db'.polygons[i][p] = NoBody =>
                  <<"polygons", i>> \in lost'
  BY <1>1, <1>3, <1>4 DEF NothingLeft, Accounted
<1> QED BY <1>5, <1>6 DEF Accounted, IsIndex, HasCells

LEMMA FaultAccounted ==
  ASSUME WellFormed(db), Accounted, SharedNext, ~Command
  PROVE  Accounted'
<1> USE DEF IsIndex, HasCells
<1>1. PICK i \in Indexes :
        \/ /\ \E m \in {"none", "foreign"} : MetaSet(db, db', i, m)
           /\ Lose(<<"meta", i>>)
        \/ BodiesLost(db, db', i) /\ Lose(<<"polygons", i>>)
        \/ \E c \in CNames : CellInfoLost(db, db', i, c) /\ Lose(<<"cellinfo", i, c>>)
        \/ \E t \in Terms : MembersLost(db, db', i, t) /\ Spoil(i, t)
  BY Faults
<1>2. lost \subseteq lost'
  BY <1>1 DEF Lose, Spoil
<1>3. CASE /\ \E m \in {"none", "foreign"} : MetaSet(db, db', i, m)
           /\ Lose(<<"meta", i>>)
  <2>1. /\ db'.wrongHash = db.wrongHash /\ db'.polygons = db.polygons
        /\ db'.cellinfo = db.cellinfo /\ <<"meta", i>> \in lost'
        /\ \A j \in Indexes : j # i => db'.meta[j] = db.meta[j]
    BY <1>3 DEF MetaSet, SameBut, Lose
  <2> QED BY <1>2, <2>1 DEF Accounted
<1>4. CASE BodiesLost(db, db', i) /\ Lose(<<"polygons", i>>)
  <2>1. /\ db'.wrongHash \subseteq db.wrongHash \cup {i} /\ db'.meta = db.meta
        /\ db'.cellinfo = db.cellinfo /\ <<"polygons", i>> \in lost'
        /\ \A j \in Indexes : j # i => db'.polygons[j] = db.polygons[j]
        /\ \A p \in Polygons : db'.polygons[i][p] = NoBody
    BY <1>4 DEF BodiesLost, Lose, NoPolygons
  <2> QED BY <1>2, <2>1 DEF Accounted
<1>5. ASSUME NEW c \in CNames, CellInfoLost(db, db', i, c) PROVE Accounted'
  <2>1. /\ db'.wrongHash = db.wrongHash /\ db'.polygons = db.polygons /\ db'.meta = db.meta
        /\ \A j \in Indexes, k \in CNames : db'.cellinfo[j][k] \in {db.cellinfo[j][k], {}}
    BY <1>5 DEF CellInfoLost, SameBut
  <2>2. \A p \in Polygons : CStr[p] \in CNames
    BY DEF CNames
  <2> QED BY <1>2, <2>1, <2>2 DEF Accounted
<1>6. ASSUME NEW t \in Terms, MembersLost(db, db', i, t) PROVE Accounted'
  <2>1. /\ db'.wrongHash = db.wrongHash /\ db'.polygons = db.polygons /\ db'.meta = db.meta
        /\ db'.cellinfo = db.cellinfo
    BY <1>6 DEF MembersLost
  <2> QED BY <1>2, <2>1 DEF Accounted
<1> QED BY <1>1, <1>3, <1>4, <1>5, <1>6

LEMMA AlwaysAccounted ==
  ASSUME DistinctCStrings
  PROVE  SharedSpec => []Accounted
<1>1. SharedInit => Accounted
  <2> SUFFICES ASSUME SharedInit PROVE Accounted
    OBVIOUS
  <2>1. /\ db.wrongHash = {}
        /\ \A i \in Indexes, p \in Polygons : db.polygons[i][p] = NoBody
        /\ \A i \in Indexes, c \in CNames : db.cellinfo[i][c] = {}
    BY DEF SharedInit, Init, LoadedInto, EmptyKeyspace, NoPolygons, NoTerms
  <2>2. \A p \in Polygons : CStr[p] \in CNames
    BY DEF CNames
  <2> QED BY <2>1, <2>2 DEF HasCells, Accounted
<1>2. WellFormed(db) /\ Accounted /\ [SharedNext]_sharedVars => Accounted'
  <2> SUFFICES ASSUME WellFormed(db), Accounted, [SharedNext]_sharedVars
               PROVE  Accounted'
    OBVIOUS
  <2>1. CASE UNCHANGED sharedVars
    BY <2>1 DEF sharedVars, Accounted, IsIndex, HasCells
  <2> QED BY <2>1, CommandAccounted, FaultAccounted
<1> QED BY <1>1, <1>2, AlwaysWellFormed, PTL DEF SharedSpec

(* What an ISET takes over was left by somebody else's DEL, SET or         *)
(* eviction, never by the commands; and what the loss of a meta key left   *)
(* is gone after ISET and IDEL.  DistinctCStrings: with NUL bytes in names *)
(* one POLYSET takes away what another put in.                             *)
THEOREM LeftoversAreOfLosses ==
  ASSUME DistinctCStrings
  PROVE  SharedSpec => []LeftoversOnlyByLoss
<1>1. Accounted /\ StrandedOnlyByLoss => LeftoversOnlyByLoss
  <2> SUFFICES ASSUME Accounted, StrandedOnlyByLoss, NEW i \in Indexes, NoSuchIndex(db, i)
               PROVE  /\ ListPolygons(db, i) # {} => <<"meta", i>> \in lost
                      /\ \A p \in Polygons :
                           /\ HasCells(db, i, p) =>
                                <<"meta", i>> \in lost \/ <<"polygons", i>> \in lost
                           /\ (\E t \in Terms : p \in db.cells[i][t]) =>
                                \/ <<"meta", i>> \in lost \/ <<"polygons", i>> \in lost
                                \/ <<"cellinfo", i, CStr[p]>> \in lost
    BY DEF LeftoversOnlyByLoss
  <2>1. ~IsIndex(db, i)
    BY DEF NoSuchIndex, IsIndex
  <2>2. ListPolygons(db, i) # {} => <<"meta", i>> \in lost
    BY <2>1 DEF Accounted, ListPolygons
  <2>3. \A p \in Polygons : HasCells(db, i, p) =>
          <<"meta", i>> \in lost \/ <<"polygons", i>> \in lost
    BY <2>1 DEF Accounted
  <2>4. ASSUME NEW p \in Polygons, NEW t \in Terms, p \in db.cells[i][t]
        PROVE  HasCells(db, i, p) \/ <<"cellinfo", i, CStr[p]>> \in lost
    BY <2>4 DEF StrandedOnlyByLoss, HasCells
  <2> QED BY <2>2, <2>3, <2>4
<1> QED BY <1>1, AlwaysAccounted, OnlyLossStrands, PTL

-----------------------------------------------------------------------------
(* Who answered what.                                                      *)

LEMMA Answered3 ==
  ASSUME NEW cmd, NEW args, NEW out
  PROVE  /\ Answer(cmd, args, out) => reply'[1] = cmd /\ reply'[2] = args /\ reply'[3] = out
         /\ Answer(cmd, args, <<"error", out>>) => reply'[3][1] = "error"
         /\ Reply(cmd, args, out) =>
              /\ reply'[1] = cmd /\ reply'[2] = args /\ reply'[3] = out /\ db' = db
         /\ Refuse(cmd, args, out) =>
              /\ reply'[1] = cmd /\ reply'[2] = args /\ reply'[3][1] = "error" /\ db' = db
  BY DEF Answer, Reply, Refuse

LEMMA Refused3 ==
  ASSUME NEW cmd, NEW args, NEW i, NEW P, RefuseNames(cmd, args, i, P)
  PROVE  /\ reply'[1] = cmd /\ reply'[2] = args /\ reply'[3][1] = "error" /\ db' = db
         /\ ~NamesOk(i, P)
  BY Answered3 DEF RefuseNames, NamesOk

\* Every handler answers under its own name.
LEMMA OwnName ==
  ASSUME NEW i, NEW p, NEW b, NEW pt, NEW ps
  PROVE  /\ SetIndexCommand(i) => reply'[1] = "ISET"
         /\ GetIndexCommand(i) => reply'[1] = "IGET"
         /\ DeleteIndexCommand(i) => reply'[1] = "IDEL"
         /\ ListPolygonsCommand(i) => reply'[1] = "POLYLIST"
         /\ GetPolygonCommand(i, p) => reply'[1] = "POLYGET"
         /\ DeletePolygonCommand(i, p) => reply'[1] = "POLYDEL"
         /\ SetPolygonCommand(i, p, b) => reply'[1] = "POLYSET"
         /\ SearchPolygonCommand(i, b) => reply'[1] = "POLYSEARCH"
         /\ SearchPointCommand(i, pt) => reply'[1] = "POINTSEARCH"
         /\ GetMultiplePolygonsCommand(i, ps) => reply'[1] = "POLYMGET"
<1>1. SetIndexCommand(i) => reply'[1] = "ISET"
  BY NamesRefused, Answers DEF SetIndexCommand
<1>2. GetIndexCommand(i) => reply'[1] = "IGET"
  BY NamesRefused, Answers DEF GetIndexCommand
<1>3. DeleteIndexCommand(i) => reply'[1] = "IDEL"
  BY NamesRefused, Answers DEF DeleteIndexCommand
<1>4. ListPolygonsCommand(i) => reply'[1] = "POLYLIST"
  BY NamesRefused, Answers DEF ListPolygonsCommand
<1>5. GetPolygonCommand(i, p) => reply'[1] = "POLYGET"
  BY NamesRefused, Answers DEF GetPolygonCommand
<1>6. DeletePolygonCommand(i, p) => reply'[1] = "POLYDEL"
  BY NamesRefused, Answers DEF DeletePolygonCommand
<1>7. SetPolygonCommand(i, p, b) => reply'[1] = "POLYSET"
  BY NamesRefused, Answers DEF SetPolygonCommand
<1>8. SearchPolygonCommand(i, b) => reply'[1] = "POLYSEARCH"
  BY NamesRefused, Answers DEF SearchPolygonCommand, SearchCells
<1>9. SearchPointCommand(i, pt) => reply'[1] = "POINTSEARCH"
  BY NamesRefused, Answers DEF SearchPointCommand, SearchCells
<1>10. GetMultiplePolygonsCommand(i, ps) => reply'[1] = "POLYMGET"
  BY NamesRefused, Answers DEF GetMultiplePolygonsCommand
<1> QED BY <1>1, <1>2, <1>3, <1>4, <1>5, <1>6, <1>7, <1>8, <1>9, <1>10

LEMMA ArityAnswer ==
  ASSUME WrongArity
  PROVE  db' = db /\ reply'[2] = <<>> /\ reply'[3][1] = "error"
  BY Answered3 DEF WrongArity

\* So an answer tells the handler, the wrong number of arguments apart.
LEMMA WhoAnswered ==
  ASSUME Next, ~WrongArity
  PROVE  \E i \in Indexes \cup BadNames :
           /\ reply'[1] = "IDEL" => DeleteIndexCommand(i)
           /\ reply'[1] = "POLYSEARCH" => \E b \in Bodies : SearchPolygonCommand(i, b)
           /\ reply'[1] = "POINTSEARCH" => \E pt \in Points : SearchPointCommand(i, pt)
           /\ reply'[1] = "POLYSET" =>
                \E p \in Polygons \cup BadNames, b \in Bodies : SetPolygonCommand(i, p, b)
           /\ reply'[1] = "POLYDEL" =>
                \E p \in Polygons \cup BadNames : DeletePolygonCommand(i, p)
           /\ reply'[1] \notin {"IDEL", "POLYSET", "POLYDEL"} =>
                db' = db \/ SetIndexCommand(i)
<1>1. PICK i \in Indexes \cup BadNames :
        \/ SetIndexCommand(i)
        \/ GetIndexCommand(i)
        \/ DeleteIndexCommand(i)
        \/ ListPolygonsCommand(i)
        \/ \E b \in Bodies : SearchPolygonCommand(i, b)
        \/ \E pt \in Points : SearchPointCommand(i, pt)
        \/ \E ps \in NameLists : GetMultiplePolygonsCommand(i, ps)
        \/ \E p \in Polygons \cup BadNames :
             \/ GetPolygonCommand(i, p)
             \/ DeletePolygonCommand(i, p)
             \/ \E b \in Bodies : SetPolygonCommand(i, p, b)
  BY DEF Next
<1>2. CASE SetIndexCommand(i)
  BY <1>2, OwnName
<1>3. CASE DeleteIndexCommand(i)
  BY <1>3, OwnName
<1>4. CASE \/ GetIndexCommand(i)
           \/ ListPolygonsCommand(i)
           \/ \E ps \in NameLists : GetMultiplePolygonsCommand(i, ps)
           \/ \E p \in Polygons \cup BadNames : GetPolygonCommand(i, p)
  <2>1. db' = db /\ reply'[1] \in {"IGET", "POLYLIST", "POLYMGET", "POLYGET"}
    BY <1>4, OwnName, ReadsChangeNothing
  <2> QED BY <2>1
<1>5. CASE \E b \in Bodies : SearchPolygonCommand(i, b)
  <2>1. db' = db /\ reply'[1] = "POLYSEARCH"
    BY <1>5, OwnName, ReadsChangeNothing
  <2> QED BY <1>5, <2>1
<1>6. CASE \E pt \in Points : SearchPointCommand(i, pt)
  <2>1. db' = db /\ reply'[1] = "POINTSEARCH"
    BY <1>6, OwnName, ReadsChangeNothing
  <2> QED BY <1>6, <2>1
<1>7. CASE \E p \in Polygons \cup BadNames : DeletePolygonCommand(i, p)
  <2>1. reply'[1] = "POLYDEL"
    BY <1>7, OwnName
  <2> QED BY <1>7, <2>1
<1>8. CASE \E p \in Polygons \cup BadNames, b \in Bodies : SetPolygonCommand(i, p, b)
  <2>1. reply'[1] = "POLYSET"
    BY <1>8, OwnName
  <2> QED BY <1>8, <2>1
<1> QED BY <1>1, <1>2, <1>3, <1>4, <1>5, <1>6, <1>7, <1>8

(* What a successful POLYSET, a POLYDEL and an IDEL did.                   *)

LEMMA SetPolygonDone ==
  ASSUME Next, reply'[1] = "POLYSET", reply'[3][1] # "error"
  PROVE  \E i \in Indexes, p \in Polygons, b \in ValidBodies :
           /\ reply'[2] = <<i, p, b>> /\ reply'[3] = <<"int", 1>>
           /\ db' = SetPolygonCells(DeletePolygonCells(SetPolygonBody(db, i, p, b), i, {p}),
                                    i, p, IndexPolygon[b])
<1>1. PICK i \in Indexes \cup BadNames, p \in Polygons \cup BadNames, b \in Bodies :
        SetPolygonCommand(i, p, b)
  BY ArityAnswer, WhoAnswered
<1>2. /\ NamesOk(i, {p}) /\ b \in ValidBodies
      /\ db' = SetPolygonCells(DeletePolygonCells(SetPolygonBody(db, i, p, b), i, {p}),
                               i, p, IndexPolygon[b])
      /\ reply'[2] = <<i, p, b>> /\ reply'[3] = <<"int", 1>>
  BY <1>1, Answered3, Refused3 DEF SetPolygonCommand
<1>3. i \in Indexes /\ p \in Polygons
  BY <1>2, NamesAccepted
<1> QED BY <1>2, <1>3

LEMMA DeletePolygonDone ==
  ASSUME Next, reply'[1] = "POLYDEL"
  PROVE  \/ db' = db
         \/ \E i \in Indexes, p \in Polygons :
              /\ IsIndex(db, i) /\ reply'[2] = <<i, p>>
              /\ db' = DeletePolygonCells(DeletePolygonBody(db, i, {p}), i, {p})
<1>1. CASE WrongArity
  BY <1>1, ArityAnswer
<1>2. CASE ~WrongArity
  <2>1. PICK i \in Indexes \cup BadNames, p \in Polygons \cup BadNames :
          DeletePolygonCommand(i, p)
    BY <1>2, WhoAnswered
  <2>2. \/ db' = db
        \/ /\ NamesOk(i, {p}) /\ IsIndex(db, i) /\ reply'[2] = <<i, p>>
           /\ db' = DeletePolygonCells(DeletePolygonBody(db, i, {p}), i, {p})
    BY <2>1, Answered3, Refused3 DEF DeletePolygonCommand
  <2>3. NamesOk(i, {p}) => i \in Indexes /\ p \in Polygons
    BY NamesAccepted
  <2> QED BY <2>2, <2>3
<1> QED BY <1>1, <1>2

LEMMA DeleteIndexDone ==
  ASSUME Next, reply'[1] = "IDEL"
  PROVE  \/ /\ db' = db
            /\ \/ reply'[3][1] # "error"
               \/ reply'[2] = <<>>
               \/ \E i \in Indexes \cup BadNames :
                    /\ reply'[2] = <<i>>
                    /\ i \in BadNames \/ ~IsIndex(db, i) \/ ListFails(db, i)
         \/ \E i \in Indexes :
              /\ reply'[2] = <<i>> /\ IsIndex(db, i) /\ ~ListFails(db, i)
              /\ \/ \E D \in SUBSET ListPolygons(db, i), q \in ListPolygons(db, i) :
                      /\ StopsAt(db, i, D, q)
                      /\ db' = DeleteIndexStopped(db, i, D, q)
                      /\ reply'[3][1] = "error"
                 \/ db' = DeleteIndex(db, i) /\ reply'[3] = <<"int", 1>>
<1>1. CASE WrongArity
  BY <1>1, ArityAnswer
<1>2. CASE ~WrongArity
  <2>1. PICK i \in Indexes \cup BadNames : DeleteIndexCommand(i)
    BY <1>2, WhoAnswered
  <2>2. CASE RefuseNames("IDEL", <<i>>, i, {})
    <3>1. i \in BadNames
      BY <2>2, Refused3 DEF NamesOk, ValidateEntityName
    <3> QED BY <2>2, <3>1, Refused3
  <2>3. CASE NamesOk(i, {}) /\ NoSuchIndex(db, i) /\ Reply("IDEL", <<i>>, <<"int", 0>>)
    <3>1. db' = db /\ reply'[3] = <<"int", 0>>
      BY <2>3, Answered3
    <3> QED BY <3>1
  <2>4. CASE NamesOk(i, {}) /\ InvalidIndex(db, i) /\ Refuse("IDEL", <<i>>, "not an index")
    BY <2>4, Answered3 DEF InvalidIndex
  <2>5. CASE ListFails(db, i) /\ Refuse("IDEL", <<i>>, "failed to delete the index")
    BY <2>5, Answered3
  <2>6. CASE /\ NamesOk(i, {}) /\ IsIndex(db, i) /\ ~ListFails(db, i)
             /\ \E D \in SUBSET ListPolygons(db, i), q \in ListPolygons(db, i) :
                  StopsAt(db, i, D, q) /\ db' = DeleteIndexStopped(db, i, D, q)
             /\ Answer("IDEL", <<i>>, <<"error", "failed to delete the index">>)
    <3>1. i \in Indexes
      BY <2>6, NamesAccepted
    <3>2. reply'[2] = <<i>>
      BY <2>6, Answered3
    <3>3. reply'[3][1] = "error"
      BY <2>6, Answered3
    <3> QED BY <2>6, <3>1, <3>2, <3>3
  <2>7. CASE /\ NamesOk(i, {}) /\ IsIndex(db, i) /\ ~ListFails(db, i)
             /\ db' = DeleteIndex(db, i)
             /\ Answer("IDEL", <<i>>, <<"int", 1>>)
    <3>1. i \in Indexes
      BY <2>7, NamesAccepted
    <3>2. reply'[2] = <<i>> /\ reply'[3] = <<"int", 1>>
      BY <2>7, Answered3
    <3> QED BY <2>7, <3>1, <3>2
  <2> QED BY <2>1, <2>2, <2>3, <2>4, <2>5, <2>6, <2>7 DEF DeleteIndexCommand
<1> QED BY <1>1, <1>2

-----------------------------------------------------------------------------
(* An IDEL that gives up.                                                  *)

IndexStopped(d, e, i, D, q) ==
  /\ e \in Keyspaces /\ e.meta = d.meta /\ e.wrongSet = d.wrongSet
  /\ \A r \in Polygons :
       e.polygons[i][r] = IF r \in D \cup {q} THEN NoBody ELSE d.polygons[i][r]
  /\ \A j \in Indexes, c \in CNames :
       e.cellinfo[j][c] = IF j = i /\ \E p \in D : CStr[p] = c
                            THEN {} ELSE d.cellinfo[j][c]
  /\ \A j \in Indexes, t \in Terms, r \in Polygons :
       /\ r \in d.cells[j][t] /\ ~(j = i /\ r \in D) => r \in e.cells[j][t]
       /\ r \in e.cells[j][t] => r \in d.cells[j][t]

LEMMA DeleteIndexStoppedFields ==
  ASSUME NEW d \in Keyspaces, NEW i \in Indexes,
         NEW D \in SUBSET Polygons, NEW q \in Polygons, NEW e,
         e = DeleteIndexStopped(d, i, D, q)
  PROVE  IndexStopped(d, e, i, D, q)
<1>1. PICK d1 : d1 = DeletePolygonCells(d, i, D) /\ CellsTakenOut(d, d1, i, D)
  BY DeletePolygonCellsFields
<1>2. PICK d2 : d2 = DeletePolygonBody(d1, i, D) /\ BodiesDeleted(d1, d2, i, D)
  BY <1>1, DeletePolygonBodyFields DEF CellsTakenOut
<1>3. BodiesDeleted(d2, e, i, {q})
  BY <1>1, <1>2, DeletePolygonBodyFields DEF BodiesDeleted, DeleteIndexStopped, DeletePolygons
<1>4. /\ e \in Keyspaces /\ e.meta = d.meta /\ d1.polygons = d.polygons
      /\ e.cellinfo = d1.cellinfo /\ e.cells = d1.cells /\ e.wrongSet = d.wrongSet
  BY <1>1, <1>2, <1>3 DEF CellsTakenOut, BodiesDeleted, SameBut
<1>5. \A r \in Polygons :
        e.polygons[i][r] = IF r \in D \cup {q} THEN NoBody ELSE d.polygons[i][r]
  BY <1>2, <1>3, <1>4 DEF BodiesDeleted
<1>6. \A j \in Indexes, c \in CNames :
        e.cellinfo[j][c] = IF j = i /\ \E p \in D : CStr[p] = c
                             THEN {} ELSE d.cellinfo[j][c]
  BY <1>1, <1>4 DEF CellsTakenOut
<1>7. \A j \in Indexes, t \in Terms, r \in Polygons :
        /\ r \in d.cells[j][t] /\ ~(j = i /\ r \in D) => r \in e.cells[j][t]
        /\ r \in e.cells[j][t] => r \in d.cells[j][t]
  BY <1>1, <1>4 DEF CellsTakenOut
<1> QED BY <1>4, <1>5, <1>6, <1>7 DEF IndexStopped

(* An IDEL that fails on a readable list makes headway and harms nothing   *)
(* it leaves behind, so that repeating it ends: in every state other       *)
(* clients may have brought the keys into.                                 *)
THEOREM FailedDeletesProgress ==
  ASSUME DistinctCStrings
  PROVE  SharedSpec => FailedDeleteProgress
<1> DEFINE A == \A i \in Indexes :
       reply'[1] = "IDEL" /\ reply'[2] = <<i>> /\ reply'[3][1] = "error"
         /\ IsIndex(db, i) /\ ~ListFails(db, i) =>
       /\ IsIndex(db', i)
       /\ ListPolygons(db', i) \subseteq ListPolygons(db, i)
       /\ ListPolygons(db', i) # ListPolygons(db, i)
       /\ \A p \in ListPolygons(db', i) :
            /\ db'.cellinfo[i][CStr[p]] = db.cellinfo[i][CStr[p]]
            /\ \A t \in Terms : p \in db'.cells[i][t] <=> p \in db.cells[i][t]
<1>1. WellFormed(db) /\ [SharedNext]_sharedVars => A \/ UNCHANGED sharedVars
  <2> SUFFICES ASSUME WellFormed(db), SharedNext, NEW i \in Indexes,
                      reply'[1] = "IDEL", reply'[2] = <<i>>, reply'[3][1] = "error",
                      IsIndex(db, i), ~ListFails(db, i)
               PROVE  /\ IsIndex(db', i)
                      /\ ListPolygons(db', i) \subseteq ListPolygons(db, i)
                      /\ ListPolygons(db', i) # ListPolygons(db, i)
                      /\ \A p \in ListPolygons(db', i) :
                           /\ db'.cellinfo[i][CStr[p]] = db.cellinfo[i][CStr[p]]
                           /\ \A t \in Terms : p \in db'.cells[i][t] <=> p \in db.cells[i][t]
    OBVIOUS
  <2>1. Next
    BY Faults DEF Command
  <2>2. ~(reply'[2] = <<>>) /\ \A j : reply'[2] = <<j>> => j = i
    OBVIOUS
  <2>3. i \notin BadNames
    BY NamesAssumption
  <2>4. PICK D \in SUBSET ListPolygons(db, i), q \in ListPolygons(db, i) :
          StopsAt(db, i, D, q) /\ db' = DeleteIndexStopped(db, i, D, q)
    BY <2>1, <2>2, <2>3, DeleteIndexDone
  <2>5. /\ db \in Keyspaces /\ D \in SUBSET Polygons /\ q \in Polygons
        /\ q \in ListPolygons(db, i)
    BY DEF WellFormed, ListPolygons
  <2>6. IndexStopped(db, db', i, D, q)
    BY <2>4, <2>5, DeleteIndexStoppedFields
  <2>8. ListPolygons(db', i) = ListPolygons(db, i) \ (D \cup {q})
    BY <2>6 DEF IndexStopped, ListPolygons
  <2>9. ASSUME NEW p \in ListPolygons(db', i)
        PROVE  /\ db'.cellinfo[i][CStr[p]] = db.cellinfo[i][CStr[p]]
               /\ \A t \in Terms : p \in db'.cells[i][t] <=> p \in db.cells[i][t]
    <3>1. p \in Polygons /\ p \notin D /\ CStr[p] \in CNames
      BY <2>8, <2>9 DEF ListPolygons, CNames
    <3>2. ~\E r \in D : CStr[r] = CStr[p]
      BY <2>5, <3>1 DEF DistinctCStrings
    <3> QED BY <2>6, <3>1, <3>2 DEF IndexStopped
  <2> QED BY <2>5, <2>6, <2>8, <2>9 DEF IndexStopped, IsIndex
<1>2. FailedDeleteProgress <=> [][A]_sharedVars
  BY DEF FailedDeleteProgress
<1> HIDE DEF A
<1> QED BY <1>1, <1>2, AlwaysWellFormed, PTL DEF SharedSpec

-----------------------------------------------------------------------------
(* What is still found.  A polygon leaves a cells key only with a command  *)
(* that sets or deletes it, or with the key.                               *)

\* e has every member of a cells key of d, but perhaps those of D in i.
Keeps(d, e, i, D) ==
  /\ e.wrongSet = d.wrongSet
  /\ \A j \in Indexes, t \in Terms, r \in Polygons :
       r \in d.cells[j][t] /\ ~(j = i /\ r \in D) => r \in e.cells[j][t]

LEMMA SetPolygonKeeps ==
  ASSUME NEW d \in Keyspaces, NEW i \in Indexes, NEW p \in Polygons, NEW b \in Bodies,
         NEW T \in SUBSET Terms, NEW e,
         e = SetPolygonCells(DeletePolygonCells(SetPolygonBody(d, i, p, b), i, {p}), i, p, T)
  PROVE  /\ Keeps(d, e, i, {p})
         /\ \A t \in T : p \in e.cells[i][t] \/ <<i, t>> \in e.wrongSet
<1>1. PICK d1 : d1 = SetPolygonBody(d, i, p, b) /\ BodySet(d, d1, i, p, b)
  BY SetPolygonBodyFields
<1>2. PICK d2 : d2 = DeletePolygonCells(d1, i, {p}) /\ CellsTakenOut(d1, d2, i, {p})
  BY <1>1, DeletePolygonCellsFields DEF BodySet
<1>3. CellsSet(d2, e, i, p, T)
  BY <1>1, <1>2, SetPolygonCellsFields DEF CellsTakenOut
<1>4. /\ e.wrongSet = d2.wrongSet /\ d2.wrongSet = d.wrongSet /\ d1.cells = d.cells
  BY <1>1, <1>2, <1>3 DEF BodySet, CellsTakenOut, CellsSet, SameBut
<1>5. \A j \in Indexes, t \in Terms, r \in Polygons :
        r \in d.cells[j][t] /\ ~(j = i /\ r \in {p}) => r \in e.cells[j][t]
  <2> SUFFICES ASSUME NEW j \in Indexes, NEW t \in Terms, NEW r \in Polygons,
                      r \in d.cells[j][t], ~(j = i /\ r \in {p})
               PROVE  r \in e.cells[j][t]
    OBVIOUS
  <2>1. r \in d2.cells[j][t]
    BY <1>2, <1>4 DEF CellsTakenOut
  <2> QED BY <1>3, <2>1 DEF CellsSet
<1>6. \A t \in T : p \in e.cells[i][t] \/ <<i, t>> \in e.wrongSet
  BY <1>3, <1>4 DEF CellsSet
<1> QED BY <1>4, <1>5, <1>6 DEF Keeps

LEMMA DeletePolygonKeeps ==
  ASSUME NEW d \in Keyspaces, NEW i \in Indexes, NEW p \in Polygons, NEW e,
         e = DeletePolygonCells(DeletePolygonBody(d, i, {p}), i, {p})
  PROVE  Keeps(d, e, i, {p})
<1>1. PICK d1 : d1 = DeletePolygonBody(d, i, {p}) /\ BodiesDeleted(d, d1, i, {p})
  BY DeletePolygonBodyFields
<1>2. CellsTakenOut(d1, e, i, {p})
  BY <1>1, DeletePolygonCellsFields DEF BodiesDeleted
<1> QED BY <1>1, <1>2 DEF BodiesDeleted, CellsTakenOut, SameBut, Keeps

LEMMA DeleteIndexKeeps ==
  ASSUME NEW d \in Keyspaces, NEW i \in Indexes, NEW e, e = DeleteIndex(d, i)
  PROVE  Keeps(d, e, i, Polygons)
<1> DEFINE L == ListPolygons(d, i)
<1>1. L \in SUBSET Polygons
  BY DEF ListPolygons
<1> HIDE DEF L
<1>2. PICK d1 : d1 = DeletePolygonCells(d, i, L) /\ CellsTakenOut(d, d1, i, L)
  BY <1>1, DeletePolygonCellsFields
<1>3. PICK d2 : d2 = DeletePolygonBody(d1, i, L) /\ BodiesDeleted(d1, d2, i, L)
  BY <1>2, DeletePolygonBodyFields DEF CellsTakenOut
<1>4. e = [d2 EXCEPT !.meta[i] = "none"]
  BY <1>2, <1>3 DEF DeleteIndex, DeletePolygons, L
<1>5. MetaSet(d2, e, i, "none")
  <2>1. d2 \in Keyspaces
    BY <1>3 DEF BodiesDeleted
  <2> QED BY <1>4, <2>1, MetaFields
<1>6. e.wrongSet = d.wrongSet /\ e.cells = d1.cells
  BY <1>2, <1>3, <1>5 DEF CellsTakenOut, BodiesDeleted, MetaSet, SameBut
<1> QED BY <1>1, <1>2, <1>6 DEF CellsTakenOut, Keeps

LEMMA CreateIndexKeeps ==
  ASSUME NEW d \in Keyspaces, NEW i \in Indexes, NEW e, e = CreateIndex(d, i)
  PROVE  Keeps(d, e, i, {})
  BY CreateIndexFields DEF MetaSet, SameBut, Keeps

\* What a command does to the cells is what its answer says it did.
LEMMA CommandKeeps ==
  ASSUME WellFormed(db), Next
  PROVE  /\ db'.wrongSet = db.wrongSet
         /\ \A i \in Indexes, p \in Polygons, t \in Terms :
              /\ p \in db.cells[i][t]
              => p \in db'.cells[i][t] \/ Sets(i, p) \/ Unsets(i, p)
         /\ \A i \in Indexes, p \in Polygons : Sets(i, p) =>
              /\ reply'[2][3] \in ValidBodies
              /\ \A t \in IndexPolygon[reply'[2][3]] :
                   p \in db'.cells[i][t] \/ <<i, t>> \in db'.wrongSet
<1> DEFINE Goal == /\ db'.wrongSet = db.wrongSet
                  /\ \A i \in Indexes, p \in Polygons, t \in Terms :
                       /\ p \in db.cells[i][t]
                       => p \in db'.cells[i][t] \/ Sets(i, p) \/ Unsets(i, p)
           Whole == \A i \in Indexes, p \in Polygons : Sets(i, p) =>
                      /\ reply'[2][3] \in ValidBodies
                      /\ \A t \in IndexPolygon[reply'[2][3]] :
                           p \in db'.cells[i][t] \/ <<i, t>> \in db'.wrongSet
<1>1. db \in Keyspaces
  BY DEF WellFormed
<1>2. CASE reply'[1] = "POLYSET"
  <2>1. CASE reply'[3][1] = "error"
    <3>1. db' = db
      <4>1. ~WrongArity => \E i \in Indexes \cup BadNames, p \in Polygons \cup BadNames, b \in Bodies :
                             SetPolygonCommand(i, p, b)
        BY <1>2, WhoAnswered
      <4>2. ASSUME NEW i, NEW p, NEW b, SetPolygonCommand(i, p, b)
            PROVE  db' = db
        <5>1. ~Answer("POLYSET", <<i, p, b>>, <<"int", 1>>)
          <6>1. Answer("POLYSET", <<i, p, b>>, <<"int", 1>>) => reply'[3] = <<"int", 1>>
            BY Answered3
          <6> QED BY <2>1, <6>1
        <5> QED BY <4>2, <5>1, Answered3, Refused3 DEF SetPolygonCommand
      <4> QED BY <4>1, <4>2, ArityAnswer
    <3>2. \A i, p : ~Sets(i, p)
      BY <2>1 DEF Sets
    <3> QED BY <3>1, <3>2
  <2>2. CASE reply'[3][1] # "error"
    <3>1. PICK i \in Indexes, p \in Polygons, b \in ValidBodies :
            /\ reply'[2] = <<i, p, b>> /\ reply'[3] = <<"int", 1>>
            /\ db' = SetPolygonCells(DeletePolygonCells(SetPolygonBody(db, i, p, b), i, {p}),
                                     i, p, IndexPolygon[b])
      BY <1>2, <2>2, SetPolygonDone
    <3>2. b \in Bodies /\ IndexPolygon[b] \in SUBSET Terms
      BY GeometryAssumption
    <3>3. /\ Keeps(db, db', i, {p})
          /\ \A t \in IndexPolygon[b] : p \in db'.cells[i][t] \/ <<i, t>> \in db'.wrongSet
      BY <1>1, <3>1, <3>2, SetPolygonKeeps
    <3>4. Sets(i, p) /\ reply'[2][3] = b
      BY <1>2, <3>1 DEF Sets
    <3>5. \A j, r : Sets(j, r) => j = i /\ r = p
      BY <3>1 DEF Sets
    <3>6. Goal
      BY <3>3, <3>4 DEF Keeps
    <3>7. Whole
      BY <3>3, <3>4, <3>5
    <3> QED BY <3>6, <3>7
  <2> QED BY <2>1, <2>2
<1>3. reply'[1] # "POLYSET" => Whole
  BY DEF Sets
<1>4. CASE reply'[1] = "POLYDEL"
  <2>1. CASE db' = db
    BY <1>3, <1>4, <2>1
  <2>2. ASSUME NEW i \in Indexes, NEW p \in Polygons,
               IsIndex(db, i), reply'[2] = <<i, p>>,
               db' = DeletePolygonCells(DeletePolygonBody(db, i, {p}), i, {p})
        PROVE  Goal
    <3>1. Keeps(db, db', i, {p})
      BY <1>1, <2>2, DeletePolygonKeeps
    <3>2. Unsets(i, p)
      BY <1>4, <2>2 DEF Unsets
    <3> QED BY <3>1, <3>2 DEF Keeps
  <2> HIDE DEF Goal, Whole
  <2>3. Goal
    BY <1>4, <2>1, <2>2, DeletePolygonDone DEF Goal
  <2> QED BY <1>3, <1>4, <2>3 DEF Goal, Whole
<1>5. CASE reply'[1] = "IDEL"
  <2>1. CASE db' = db
    BY <1>3, <1>5, <2>1
  <2>2. ASSUME NEW i \in Indexes, reply'[2] = <<i>>, reply'[3] = <<"int", 1>>,
               db' = DeleteIndex(db, i)
        PROVE  Goal
    <3>1. Keeps(db, db', i, Polygons)
      BY <1>1, <2>2, DeleteIndexKeeps
    <3>2. \A p : Unsets(i, p)
      BY <1>5, <2>2 DEF Unsets
    <3> QED BY <3>1, <3>2 DEF Keeps
  <2>3. ASSUME NEW i \in Indexes, NEW D \in SUBSET ListPolygons(db, i),
               NEW q \in ListPolygons(db, i),
               db' = DeleteIndexStopped(db, i, D, q)
        PROVE  Goal
    <3>1. D \in SUBSET Polygons /\ q \in Polygons
      BY DEF ListPolygons
    <3>2. IndexStopped(db, db', i, D, q)
      BY <1>1, <2>3, <3>1, DeleteIndexStoppedFields
    <3>3. \A p \in D : Unsets(i, p)
      <4>1. \A p \in D : p \in ListPolygons(db, i) \ ListPolygons(db', i)
        BY <3>1, <3>2 DEF IndexStopped, ListPolygons
      <4> QED BY <1>5, <4>1 DEF Unsets
    <3> QED BY <3>2, <3>3 DEF IndexStopped
  <2> HIDE DEF Goal, Whole
  <2>4. Goal
    BY <1>5, <2>1, <2>2, <2>3, DeleteIndexDone DEF Goal
  <2> QED BY <1>3, <1>5, <2>4 DEF Goal, Whole
<1>6. CASE reply'[1] \notin {"POLYSET", "POLYDEL", "IDEL"}
  <2>1. db' = db \/ \E i \in Indexes : db' = CreateIndex(db, i)
    <3>1. ~WrongArity => \E i \in Indexes \cup BadNames : db' = db \/ SetIndexCommand(i)
      BY <1>6, WhoAnswered
    <3>2. ASSUME NEW i \in Indexes \cup BadNames, SetIndexCommand(i)
          PROVE  db' = db \/ (i \in Indexes /\ db' = CreateIndex(db, i))
      <4>1. CASE RefuseNames("ISET", <<i>>, i, {})
        BY <4>1, NamesRefused
      <4>2. CASE Refuse("ISET", <<i>>, "index already exists")
        BY <4>2, Answers
      <4>3. CASE NamesOk(i, {}) /\ db' = CreateIndex(db, i)
        BY <4>3, NamesAccepted
      <4> QED BY <3>2, <4>1, <4>2, <4>3 DEF SetIndexCommand
    <3> QED BY <3>1, <3>2, ArityAnswer
  <2>2. Goal
    BY <1>1, <2>1, CreateIndexKeeps DEF Keeps
  <2> QED BY <1>3, <1>6, <2>2
<1> QED BY <1>2, <1>4, <1>5, <1>6

\* The members of a cells key go with the key.
FreshTyped == fresh \in [Indexes -> [Polygons -> SUBSET Terms]]

LEMMA SpoilFields ==
  ASSUME FreshTyped, NEW i \in Indexes, NEW t \in Terms, Spoil(i, t)
  PROVE  /\ FreshTyped'
         /\ \A j \in Indexes, p \in Polygons :
              fresh'[j][p] = IF j = i THEN fresh[i][p] \ {t} ELSE fresh[j][p]
<1> USE DEF FreshTyped
<1> DEFINE f == [p \in Polygons |-> fresh[i][p] \ {t}]
<1>1. fresh' = [fresh EXCEPT ![i] = f]
  BY DEF Spoil
<1>2. f \in [Polygons -> SUBSET Terms]
  OBVIOUS
<1>3. \A j \in Indexes : fresh'[j] = IF j = i THEN f ELSE fresh[j]
  <2> HIDE DEF f
  <2> QED BY <1>1
<1> QED BY <1>1, <1>2, <1>3

(* A polygon is in the cells key of every term it may be relied on to be   *)
(* under, or that key has a value every search stops at.                   *)
Reliable ==
  /\ FreshTyped
  /\ \A i \in Indexes, p \in Polygons : \A t \in fresh[i][p] :
       p \in db.cells[i][t] \/ <<i, t>> \in db.wrongSet

LEMMA CommandReliable ==
  ASSUME WellFormed(db), Reliable, Command
  PROVE  Reliable'
<1> DEFINE F(i, p) == IF Sets(i, p) THEN IndexPolygon[reply'[2][3]]
                      ELSE IF Unsets(i, p) THEN {} ELSE fresh[i][p]
<1>1. Next
  BY DEF Command
<1>2. fresh' = [i \in Indexes |-> [p \in Polygons |-> F(i, p)]]
  BY DEF Command
<1>3. ASSUME NEW i \in Indexes, NEW p \in Polygons
      PROVE  /\ F(i, p) \in SUBSET Terms
             /\ \A t \in F(i, p) : p \in db'.cells[i][t] \/ <<i, t>> \in db'.wrongSet
  <2>1. CASE Sets(i, p)
    <3>1. /\ reply'[2][3] \in ValidBodies
          /\ \A t \in IndexPolygon[reply'[2][3]] :
               p \in db'.cells[i][t] \/ <<i, t>> \in db'.wrongSet
      BY <1>1, <2>1, CommandKeeps
    <3>2. IndexPolygon[reply'[2][3]] \in SUBSET Terms
      BY <3>1, GeometryAssumption
    <3> QED BY <2>1, <3>1, <3>2
  <2>2. CASE ~Sets(i, p) /\ Unsets(i, p)
    BY <2>2
  <2>3. CASE ~Sets(i, p) /\ ~Unsets(i, p)
    <3>1. F(i, p) = fresh[i][p] /\ fresh[i][p] \in SUBSET Terms
      BY <2>3 DEF Reliable, FreshTyped
    <3>2. ASSUME NEW t \in fresh[i][p]
          PROVE  p \in db'.cells[i][t] \/ <<i, t>> \in db'.wrongSet
      <4>1. p \in db.cells[i][t] \/ <<i, t>> \in db.wrongSet
        BY <3>2 DEF Reliable
      <4>2. t \in Terms
        BY <3>1, <3>2
      <4> QED BY <1>1, <2>3, <4>1, <4>2, CommandKeeps
    <3> HIDE DEF F
    <3> QED BY <3>1, <3>2
  <2> QED BY <2>1, <2>2, <2>3
<1> HIDE DEF F
<1>4. \A i \in Indexes, p \in Polygons : fresh'[i][p] = F(i, p)
  BY <1>2
<1>5. FreshTyped'
  BY <1>2, <1>3 DEF FreshTyped
<1> QED BY <1>3, <1>4, <1>5 DEF Reliable

LEMMA FaultReliable ==
  ASSUME WellFormed(db), Reliable, SharedNext, ~Command
  PROVE  Reliable'
<1>1. PICK i \in Indexes :
        \/ /\ \E m \in {"none", "foreign"} : MetaSet(db, db', i, m)
           /\ Lose(<<"meta", i>>)
        \/ BodiesLost(db, db', i) /\ Lose(<<"polygons", i>>)
        \/ \E c \in CNames : CellInfoLost(db, db', i, c) /\ Lose(<<"cellinfo", i, c>>)
        \/ \E t \in Terms : MembersLost(db, db', i, t) /\ Spoil(i, t)
  BY Faults
<1>2. CASE fresh' = fresh /\ db'.cells = db.cells /\ db'.wrongSet = db.wrongSet
  BY <1>2 DEF Reliable, FreshTyped
<1>3. CASE /\ UNCHANGED fresh
           /\ \/ \E m \in {"none", "foreign"} : MetaSet(db, db', i, m)
              \/ BodiesLost(db, db', i)
              \/ \E c \in CNames : CellInfoLost(db, db', i, c)
  BY <1>2, <1>3 DEF MetaSet, BodiesLost, CellInfoLost, SameBut
<1>4. ASSUME NEW t \in Terms, MembersLost(db, db', i, t), Spoil(i, t)
      PROVE  Reliable'
  <2>1. /\ FreshTyped'
        /\ \A j \in Indexes, p \in Polygons :
             fresh'[j][p] = IF j = i THEN fresh[i][p] \ {t} ELSE fresh[j][p]
    BY <1>4, SpoilFields DEF Reliable
  <2>2. ASSUME NEW j \in Indexes, NEW p \in Polygons, NEW u \in fresh'[j][p]
        PROVE  p \in db'.cells[j][u] \/ <<j, u>> \in db'.wrongSet
    <3>1. u \in fresh[j][p] /\ ~(j = i /\ u = t)
      BY <2>1, <2>2
    <3>2. u \in Terms
      BY <2>1, <2>2 DEF FreshTyped
    <3>3. p \in db.cells[j][u] \/ <<j, u>> \in db.wrongSet
      BY <3>1 DEF Reliable
    <3>4. <<j, u>> \in Indexes \X Terms /\ <<j, u>> # <<i, t>>
      BY <3>1, <3>2
    <3> QED BY <1>4, <3>1, <3>2, <3>3, <3>4 DEF MembersLost
  <2> QED BY <2>1, <2>2 DEF Reliable
<1> QED BY <1>1, <1>3, <1>4 DEF Lose

LEMMA AlwaysReliable == SharedSpec => []Reliable
<1>1. SharedInit => Reliable
  BY DEF SharedInit, Reliable, FreshTyped
<1>2. WellFormed(db) /\ Reliable /\ [SharedNext]_sharedVars => Reliable'
  <2> SUFFICES ASSUME WellFormed(db), Reliable, [SharedNext]_sharedVars
               PROVE  Reliable'
    OBVIOUS
  <2>1. CASE UNCHANGED sharedVars
    BY <2>1 DEF sharedVars, Reliable, FreshTyped
  <2> QED BY <2>1, CommandReliable, FaultReliable
<1> QED BY <1>1, <1>2, AlwaysWellFormed, PTL DEF SharedSpec

\* A search that answers with a set looked at every key of its terms.
LEMMA SearchAnswer ==
  ASSUME NEW cmd, NEW args, NEW i, NEW T, SearchCells(cmd, args, i, T), reply'[3][1] = "set"
  PROVE  ~SearchFails(db, i, T) /\ reply'[3][2] = GetPolygonsInCells(db, i, T)
<1>1. ~Refuse(cmd, args, "error while fetching polygons")
  BY Answered3
<1>2. ~SearchFails(db, i, T) /\ Reply(cmd, args, <<"set", GetPolygonsInCells(db, i, T)>>)
  BY <1>1 DEF SearchCells
<1>3. reply'[3] = <<"set", GetPolygonsInCells(db, i, T)>>
  BY <1>2, Answered3
<1> QED BY <1>2, <1>3

LEMMA OwedFound ==
  ASSUME Reliable, NEW i \in Indexes, NEW T \in SUBSET Terms, ~SearchFails(db, i, T)
  PROVE  Owed(i, T) \subseteq GetPolygonsInCells(db, i, T)
<1> SUFFICES ASSUME NEW p \in Owed(i, T) PROVE p \in GetPolygonsInCells(db, i, T)
  OBVIOUS
<1>1. PICK t \in T : p \in Polygons /\ t \in fresh[i][p]
  BY DEF Owed
<1>2. <<i, t>> \notin db.wrongSet
  BY DEF SearchFails
<1>3. p \in db.cells[i][t]
  BY <1>1, <1>2 DEF Reliable
<1> QED BY <1>3 DEF GetPolygonsInCells

LEMMA PolygonSearched ==
  ASSUME Next, Reliable, NEW i \in Indexes, NEW b \in ValidBodies, Answered("POLYSEARCH", i, b)
  PROVE  Owed(i, IndexPolygonForOverlapTest[b]) \subseteq reply'[3][2]
<1>1. /\ reply'[1] = "POLYSEARCH" /\ reply'[2] = <<i, b>> /\ reply'[3][1] = "set"
  BY DEF Answered
<1>2. ~WrongArity
  BY <1>1, ArityAnswer
<1>3. PICK j \in Indexes \cup BadNames, c \in Bodies : SearchPolygonCommand(j, c)
  BY <1>1, <1>2, WhoAnswered
<1>4. /\ ~RefuseNames("POLYSEARCH", <<j, c>>, j, {})
      /\ ~Refuse("POLYSEARCH", <<j, c>>, "invalid index")
      /\ ~Refuse("POLYSEARCH", <<j, c>>, "invalid polygon")
      /\ ~Refuse("POLYSEARCH", <<j, c>>, "empty cell union for a given polygon")
  <2>1. reply'[3][1] # "error"
    BY <1>1
  <2> QED BY <2>1, Answered3, Refused3
<1>5. SearchCells("POLYSEARCH", <<j, c>>, j, IndexPolygonForOverlapTest[c])
  BY <1>3, <1>4 DEF SearchPolygonCommand
<1>6. reply'[2] = <<j, c>>
  BY <1>5, Answered3 DEF SearchCells
<1>7. j = i /\ c = b
  BY <1>1, <1>6
<1>8. IndexPolygonForOverlapTest[b] \in SUBSET Terms
  BY GeometryAssumption
<1>9. /\ ~SearchFails(db, i, IndexPolygonForOverlapTest[b])
      /\ reply'[3][2] = GetPolygonsInCells(db, i, IndexPolygonForOverlapTest[b])
  BY <1>1, <1>5, <1>7, SearchAnswer
<1> QED BY <1>8, <1>9, OwedFound

LEMMA PointSearched ==
  ASSUME Next, Reliable, NEW i \in Indexes, NEW pt \in ValidPoints,
         Answered("POINTSEARCH", i, pt)
  PROVE  Owed(i, IndexPoint[pt]) \subseteq reply'[3][2]
<1>1. /\ reply'[1] = "POINTSEARCH" /\ reply'[2] = <<i, pt>> /\ reply'[3][1] = "set"
  BY DEF Answered
<1>2. ~WrongArity
  BY <1>1, ArityAnswer
<1>3. PICK j \in Indexes \cup BadNames, qt \in Points : SearchPointCommand(j, qt)
  BY <1>1, <1>2, WhoAnswered
<1>4. /\ ~RefuseNames("POINTSEARCH", <<j, qt>>, j, {})
      /\ ~Refuse("POINTSEARCH", <<j, qt>>, "invalid index")
      /\ ~Refuse("POINTSEARCH", <<j, qt>>, "invalid point")
  <2>1. reply'[3][1] # "error"
    BY <1>1
  <2> QED BY <2>1, Answered3, Refused3
<1>5. SearchCells("POINTSEARCH", <<j, qt>>, j, IndexPoint[qt])
  BY <1>3, <1>4 DEF SearchPointCommand
<1>6. reply'[2] = <<j, qt>>
  BY <1>5, Answered3 DEF SearchCells
<1>7. j = i /\ qt = pt
  BY <1>1, <1>6
<1>8. IndexPoint[pt] \in SUBSET Terms
  BY GeometryAssumption
<1>9. /\ ~SearchFails(db, i, IndexPoint[pt])
      /\ reply'[3][2] = GetPolygonsInCells(db, i, IndexPoint[pt])
  BY <1>1, <1>5, <1>7, SearchAnswer
<1> QED BY <1>8, <1>9, OwedFound

(* A search among other clients misses a polygon without an error only if  *)
(* the query's terms meet it in lost cells keys alone, whatever keys they  *)
(* take or overwrite and in whatever order: NUL bytes in names included.   *)
THEOREM SearchesMissOnlyLostCells == SharedSpec => MissesOnlyLostCells
<1> DEFINE A == \A i \in Indexes :
       /\ \A b \in ValidBodies : Answered("POLYSEARCH", i, b) =>
            Owed(i, IndexPolygonForOverlapTest[b]) \subseteq reply'[3][2]
       /\ \A pt \in ValidPoints : Answered("POINTSEARCH", i, pt) =>
            Owed(i, IndexPoint[pt]) \subseteq reply'[3][2]
<1>1. WellFormed(db) /\ Reliable /\ [SharedNext]_sharedVars => A \/ UNCHANGED sharedVars
  <2> SUFFICES ASSUME WellFormed(db), Reliable, SharedNext PROVE A
    OBVIOUS
  <2>1. CASE ~Command
    <3>1. reply' = <<"none", <<>>, <<"none">>>>
      BY <2>1, Faults
    <3>2. reply'[1] = "none"
      BY <3>1
    <3> QED BY <3>2 DEF Answered
  <2>2. CASE Command
    <3>1. Next
      BY <2>2 DEF Command
    <3> QED BY <3>1, PolygonSearched, PointSearched
  <2> QED BY <2>1, <2>2
<1>2. MissesOnlyLostCells <=> [][A]_sharedVars
  BY DEF MissesOnlyLostCells
<1> HIDE DEF A
<1> QED BY <1>1, <1>2, AlwaysWellFormed, AlwaysReliable, PTL DEF SharedSpec
=============================================================================
