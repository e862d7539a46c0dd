-------------------------- MODULE GeoCommandsProofs -------------------------
(***************************************************************************)
(* The invariants of GeoCommands, for any number of indexes, polygons,     *)
(* bodies and terms, and that it implements GeoStore.  The invariants are  *)
(* about the keyspace alone: every command leaves it alone or makes one of *)
(* the changes GeoIndexProofs speaks of.  The refinement is that every     *)
(* handler, run on a consistent keyspace, is the promised command.         *)
(***************************************************************************)
EXTENDS GeoRefinement, GeoIndexProofs

-----------------------------------------------------------------------------
(* The commands.  A command changes the keyspace in one of five ways.      *)

LEMMA LoadedIsUnused ==
  ASSUME NEW F \in SUBSET Indexes
  PROVE  LoadedInto(F) = Unused([i \in Indexes |-> IF i \in F THEN "foreign" ELSE "none"])
  BY DEF LoadedInto, Unused

LEMMA LoadedWellFormed ==
  ASSUME NEW F \in SUBSET Indexes
  PROVE  WellFormed(LoadedInto(F))
  BY LoadedIsUnused, UnusedWellFormed

LEMMA LoadedConsistent ==
  ASSUME NEW F \in SUBSET Indexes
  PROVE  Consistent(LoadedInto(F))
  BY LoadedIsUnused, UnusedConsistent

LEMMA Answers ==
  ASSUME NEW cmd, NEW args, NEW out
  PROVE  /\ Answer(cmd, args, out) => reply'[1] = cmd
         /\ Reply(cmd, args, out) => reply'[1] = cmd /\ db' = db
         /\ Refuse(cmd, args, out) => reply'[1] = cmd /\ db' = db
  BY DEF Answer, Reply, Refuse

LEMMA NamesRefused ==
  ASSUME NEW cmd, NEW args, NEW i, NEW P, RefuseNames(cmd, args, i, P)
  PROVE  reply'[1] = cmd /\ db' = db
  BY Answers DEF RefuseNames

LEMMA NamesAccepted ==
  ASSUME NEW i \in Indexes \cup BadNames, NEW P, NamesOk(i, P)
  PROVE  i \in Indexes /\ P \cap BadNames = {}
  BY DEF NamesOk, ValidateEntityName

\* A handler answers its command, and leaves the keyspace alone or changes it.
Handles(cmd) == reply'[1] = cmd /\ (db' = db \/ Changed(db, db'))

LEMMA SetIndexChanges ==
  ASSUME NEW i \in Indexes \cup BadNames, SetIndexCommand(i)
  PROVE  Handles("ISET")
<1>1. CASE RefuseNames("ISET", <<i>>, i, {})
  BY <1>1, NamesRefused DEF Handles
<1>2. CASE Refuse("ISET", <<i>>, "index already exists")
  BY <1>2, Answers DEF Handles
<1>3. CASE /\ NamesOk(i, {}) /\ NoSuchIndex(db, i)
           /\ db' = CreateIndex(db, i)
           /\ Answer("ISET", <<i>>, <<"ok">>)
  BY <1>3, NamesAccepted, Answers DEF Handles, Changed
<1> QED BY <1>1, <1>2, <1>3 DEF SetIndexCommand

LEMMA DeleteIndexChanges ==
  ASSUME NEW i \in Indexes \cup BadNames, DeleteIndexCommand(i)
  PROVE  Handles("IDEL")
<1>1. CASE RefuseNames("IDEL", <<i>>, i, {})
  BY <1>1, NamesRefused DEF Handles
<1>2. CASE \/ Reply("IDEL", <<i>>, <<"int", 0>>)
           \/ Refuse("IDEL", <<i>>, "not an index")
           \/ Refuse("IDEL", <<i>>, "failed to delete the index")
  BY <1>2, Answers DEF Handles
<1>3. CASE /\ NamesOk(i, {}) /\ IsIndex(db, i)
           /\ \E D \in SUBSET ListPolygons(db, i), q \in ListPolygons(db, i) :
                StopsAt(db, i, D, q) /\ db' = DeleteIndexStopped(db, i, D, q)
           /\ Answer("IDEL", <<i>>, <<"error", "failed to delete the index">>)
  BY <1>3, NamesAccepted, Answers DEF Handles, Changed
<1>4. CASE /\ NamesOk(i, {}) /\ IsIndex(db, i)
           /\ Deletable(db, i, ListPolygons(db, i))
           /\ db' = DeleteIndex(db, i)
           /\ Answer("IDEL", <<i>>, <<"int", 1>>)
  BY <1>4, NamesAccepted, Answers DEF Handles, Changed
<1> QED BY <1>1, <1>2, <1>3, <1>4 DEF DeleteIndexCommand

LEMMA SetPolygonChanges ==
  ASSUME NEW i \in Indexes \cup BadNames, NEW p \in Polygons \cup BadNames,
         NEW b \in Bodies, SetPolygonCommand(i, p, b)
  PROVE  Handles("POLYSET")
<1>1. CASE RefuseNames("POLYSET", <<i, p, b>>, i, {p})
  BY <1>1, NamesRefused DEF Handles
<1>2. CASE \E text : Refuse("POLYSET", <<i, p, b>>, text)
  BY <1>2, Answers DEF Handles
<1>3. CASE /\ NamesOk(i, {p}) /\ IsIndex(db, i) /\ b \in ValidBodies
           /\ IndexPolygon[b] # {}
           /\ db' = SetPolygonCells(
                      DeletePolygonCells(SetPolygonBody(db, i, p, b), i, {p}),
                      i, p, IndexPolygon[b])
           /\ Answer("POLYSET", <<i, p, b>>, <<"int", 1>>)
  <2>1. i \in Indexes /\ p \in Polygons
    BY <1>3, NamesAccepted
  <2>2. Changed(db, db')
    BY <1>3, <2>1 DEF Changed
  <2>3. reply'[1] = "POLYSET"
    BY <1>3, Answers
  <2> QED BY <2>2, <2>3 DEF Handles
<1> QED BY <1>1, <1>2, <1>3 DEF SetPolygonCommand

LEMMA DeletePolygonChanges ==
  ASSUME NEW i \in Indexes \cup BadNames, NEW p \in Polygons \cup BadNames,
         DeletePolygonCommand(i, p)
  PROVE  Handles("POLYDEL")
<1>1. CASE RefuseNames("POLYDEL", <<i, p>>, i, {p})
  BY <1>1, NamesRefused DEF Handles
<1>2. CASE \/ Reply("POLYDEL", <<i, p>>, <<"int", 0>>)
           \/ Refuse("POLYDEL", <<i, p>>, "invalid index")
  BY <1>2, Answers DEF Handles
<1>3. CASE /\ NamesOk(i, {p}) /\ IsIndex(db, i)
           /\ db' = DeletePolygonCells(DeletePolygonBody(db, i, {p}), i, {p})
           /\ \E out : Answer("POLYDEL", <<i, p>>, out)
  <2>1. i \in Indexes /\ p \in Polygons
    BY <1>3, NamesAccepted
  <2>2. Changed(db, db')
    BY <1>3, <2>1 DEF Changed
  <2>3. reply'[1] = "POLYDEL"
    BY <1>3, Answers
  <2> QED BY <2>2, <2>3 DEF Handles
<1> QED BY <1>1, <1>2, <1>3 DEF DeletePolygonCommand

\* The other commands only read.
LEMMA ReadsChangeNothing ==
  ASSUME NEW i, NEW p, NEW b, NEW pt, NEW ps,
         \/ GetIndexCommand(i)
         \/ ListPolygonsCommand(i)
         \/ GetPolygonCommand(i, p)
         \/ GetMultiplePolygonsCommand(i, ps)
         \/ SearchPolygonCommand(i, b)
         \/ SearchPointCommand(i, pt)
  PROVE  db' = db /\ reply'[1] \in Commands
<1>1. CASE GetIndexCommand(i)
  BY <1>1, NamesRefused, Answers DEF GetIndexCommand, Commands
<1>2. CASE ListPolygonsCommand(i)
  BY <1>2, NamesRefused, Answers DEF ListPolygonsCommand, Commands
<1>3. CASE GetPolygonCommand(i, p)
  BY <1>3, NamesRefused, Answers DEF GetPolygonCommand, Commands
<1>4. CASE GetMultiplePolygonsCommand(i, ps)
  BY <1>4, NamesRefused, Answers DEF GetMultiplePolygonsCommand, Commands
<1>5. CASE SearchPolygonCommand(i, b)
  BY <1>5, NamesRefused, Answers DEF SearchPolygonCommand, SearchCells, Commands
<1>6. CASE SearchPointCommand(i, pt)
  BY <1>6, NamesRefused, Answers DEF SearchPointCommand, SearchCells, Commands
<1> QED BY <1>1, <1>2, <1>3, <1>4, <1>5, <1>6

(* Every step of the commands answers a command, and leaves the keyspace   *)
(* alone or changes it as one of the four writing commands does.           *)
LEMMA StepChanges ==
  ASSUME Next
  PROVE  (db' = db \/ Changed(db, db')) /\ reply'[1] \in Commands
<1>1. CASE WrongArity
  BY <1>1, Answers DEF WrongArity
<1>2. CASE \E i \in Indexes \cup BadNames :
             \/ GetIndexCommand(i)
             \/ ListPolygonsCommand(i)
             \/ \E b \in Bodies : SearchPolygonCommand(i, b)
             \/ \E pt \in Points : SearchPointCommand(i, pt)
             \/ \E ps \in NameLists : GetMultiplePolygonsCommand(i, ps)
             \/ \E p \in Polygons \cup BadNames : GetPolygonCommand(i, p)
  BY <1>2, ReadsChangeNothing
<1>3. CASE \E i \in Indexes \cup BadNames : SetIndexCommand(i) \/ DeleteIndexCommand(i)
  BY <1>3, SetIndexChanges, DeleteIndexChanges DEF Handles, Commands
<1>4. CASE \E i \in Indexes \cup BadNames, p \in Polygons \cup BadNames :
             \/ DeletePolygonCommand(i, p)
             \/ \E b \in Bodies : SetPolygonCommand(i, p, b)
  BY <1>4, SetPolygonChanges, DeletePolygonChanges DEF Handles, Commands
<1> QED BY <1>1, <1>2, <1>3, <1>4 DEF Next

(* The keyspace never takes a shape the code does not mean, and a key of a *)
(* wrong type is never read as data, whatever commands are run: needs      *)
(* nothing of the names but that they are validated.                       *)
THEOREM TypeCorrect == Spec => []TypeOK
<1>1. Init => TypeOK
  BY LoadedWellFormed DEF Init, TypeOK, WellFormed
<1>2. TypeOK /\ [Next]_vars => TypeOK'
  <2> SUFFICES ASSUME TypeOK, [Next]_vars PROVE TypeOK'
    OBVIOUS
  <2>1. WellFormed(db)
    BY DEF TypeOK, WellFormed
  <2>2. CASE Next
    <3>1. WellFormed(db')
      BY <2>1, <2>2, StepChanges, ChangedWellFormed
    <3>2. reply'[1] \in Commands
      BY <2>2, StepChanges
    <3> QED BY <3>1, <3>2 DEF TypeOK, WellFormed
  <2>3. CASE UNCHANGED vars
    BY <2>3 DEF TypeOK, vars
  <2> QED BY <2>2, <2>3
<1> QED BY <1>1, <1>2, PTL DEF Spec

-----------------------------------------------------------------------------
(* Consistency, when no two polygon names share a C string.                *)

\* The inductive invariant.
LEMMA AlwaysConsistent ==
  ASSUME DistinctCStrings
  PROVE  Spec => []Consistent(db)
<1>1. Init => Consistent(db)
  BY LoadedConsistent DEF Init
<1>2. Consistent(db) /\ [Next]_vars => Consistent(db)'
  <2> SUFFICES ASSUME Consistent(db), [Next]_vars PROVE Consistent(db)'
    OBVIOUS
  <2>1. CASE Next
    BY <2>1, StepChanges, ChangedConsistent
  <2>2. CASE UNCHANGED vars
    BY <2>2 DEF vars, Consistent, WellFormed, Matching, IsIndex
  <2> QED BY <2>1, <2>2
<1> QED BY <1>1, <1>2, PTL DEF Spec

(* The two halves of the inverted index agree in every reachable state.    *)
THEOREM InvertedIndexAgrees ==
  ASSUME DistinctCStrings
  PROVE  Spec => []CellsMatchCellInfo
<1>1. Consistent(db) => CellsMatchCellInfo
  BY DEF Consistent, Matching, CellsMatchCellInfo
<1> QED BY <1>1, AlwaysConsistent, PTL

(* POLYGET's body and the searches' terms never part: whatever sequence of *)
(* commands came before, a polygon is stored under the terms of its        *)
(* present body and under no others.                                       *)
THEOREM TermsFollowBody ==
  ASSUME DistinctCStrings
  PROVE  Spec => []StoredUnderItsBody
<1>1. Consistent(db) => StoredUnderItsBody
  BY DEF Consistent, StoredUnderItsBody
<1> QED BY <1>1, AlwaysConsistent, PTL

(* An index that does not exist owns nothing.                              *)
THEOREM NothingOrphaned ==
  ASSUME DistinctCStrings
  PROVE  Spec => []NoOrphans
<1>1. Consistent(db) => NoOrphans
  BY ConsistentEmpty DEF Consistent, NoOrphans
<1> QED BY <1>1, AlwaysConsistent, PTL

-----------------------------------------------------------------------------
(* The refinement: names and answers on both sides.                        *)

LEMMA Names ==
  ASSUME NEW i \in Indexes \cup BadNames
  PROVE  /\ ValidateEntityName(i) <=> i \in Indexes
         /\ i \in Promise!Free <=> i \in Indexes /\ ~InvalidIndex(db, i)
         /\ i \in Existing <=> i \in Indexes /\ IsIndex(db, i)
  BY NamesAssumption DEF ValidateEntityName, Promise!Free, Existing

LEMMA PolygonNames ==
  ASSUME NEW p \in Polygons \cup BadNames
  PROVE  ValidateEntityName(p) <=> p \in Polygons
  BY NamesAssumption DEF ValidateEntityName

\* A validated, existing index is one of the promise's; the other two kinds are not.
LEMMA Kinds ==
  ASSUME NEW i \in Indexes \cup BadNames
  PROVE  /\ ValidateEntityName(i) /\ IsIndex(db, i) =>
              i \in Existing /\ i \in Promise!Free
         /\ ValidateEntityName(i) /\ NoSuchIndex(db, i) =>
              i \notin Existing /\ i \in Promise!Free
         /\ ValidateEntityName(i) /\ InvalidIndex(db, i) =>
              i \notin Existing /\ i \notin Promise!Free
         /\ ~ValidateEntityName(i) => i \notin Existing /\ i \notin Promise!Free
  BY Names DEF IsIndex, NoSuchIndex, InvalidIndex

LEMMA AnswerMaps ==
  ASSUME NEW cmd, NEW args, NEW out, Answer(cmd, args, out)
  PROVE  Promise!Answer(cmd, args, PromisedOutcome(out))
  BY DEF Answer, Promise!Answer, PromisedReply, PromisedOutcome

LEMMA ReadMaps ==
  ASSUME NEW cmd, NEW args, NEW out, Reply(cmd, args, out)
  PROVE  Promise!Read(cmd, args, PromisedOutcome(out))
<1>1. Promise!Answer(cmd, args, PromisedOutcome(out))
  BY AnswerMaps DEF Reply
<1>2. Promise!Unchanged
  BY DEF Reply, Promise!Unchanged, Existing
<1> QED BY <1>1, <1>2 DEF Promise!Read

LEMMA RefuseMaps ==
  ASSUME NEW cmd, NEW args, NEW text, Refuse(cmd, args, text)
  PROVE  Promise!Read(cmd, args, <<"error">>)
<1>1. PromisedOutcome(<<"error", text>>) = <<"error">>
  BY DEF PromisedOutcome
<1>2. Promise!Read(cmd, args, PromisedOutcome(<<"error", text>>))
  BY ReadMaps DEF Refuse
<1> QED BY <1>1, <1>2

LEMMA NamesRefusedMap ==
  ASSUME NEW cmd, NEW args, NEW i, NEW P, RefuseNames(cmd, args, i, P)
  PROVE  /\ Promise!Read(cmd, args, <<"error">>)
         /\ ~ValidateEntityName(i) \/ \E p \in P : ~ValidateEntityName(p)
  BY RefuseMaps DEF RefuseNames

\* No outcome but an error changes on the way.
LEMMA Outcomes ==
  ASSUME NEW x
  PROVE  /\ PromisedOutcome(<<"null">>) = <<"null">>
         /\ PromisedOutcome(<<"ok">>) = <<"ok">>
         /\ PromisedOutcome(<<"int", x>>) = <<"int", x>>
         /\ PromisedOutcome(<<"string", x>>) = <<"string", x>>
         /\ PromisedOutcome(<<"list", x>>) = <<"list", x>>
         /\ PromisedOutcome(<<"set", x>>) = <<"set", x>>
         /\ PromisedOutcome(<<"error", x>>) = <<"error">>
  BY DEF PromisedOutcome

-----------------------------------------------------------------------------
(* The commands that only read.  On a consistent keyspace no hash and no   *)
(* set call fails, and what a search finds in the cells sets is what the   *)
(* present bodies call for.                                                *)

LEMMA NothingFails ==
  ASSUME NEW d, Consistent(d), NEW i, NEW T
  PROVE  ~ListFails(d, i) /\ ~SearchFails(d, i, T)
  BY DEF Consistent, ListFails, SearchFails

\* The cells sets of T hold the polygons whose present body has a term in T.
LEMMA CellsFound ==
  ASSUME NEW d, Consistent(d), NEW i \in Indexes, NEW T \in SUBSET Terms
  PROVE  GetPolygonsInCells(d, i, T) =
           {p \in Polygons : /\ d.polygons[i][p] \in Storable
                             /\ IndexPolygon[d.polygons[i][p]] \cap T # {}}
<1>1. \A t \in T : d.cells[i][t] \in SUBSET Polygons
  BY DEF Consistent, WellFormed, Keyspaces
<1>2. ASSUME NEW p \in Polygons
      PROVE  (\E t \in T : p \in d.cells[i][t]) <=>
               /\ d.polygons[i][p] \in Storable
               /\ IndexPolygon[d.polygons[i][p]] \cap T # {}
  <2>1. (\E t \in T : p \in d.cells[i][t]) <=> d.cellinfo[i][CStr[p]] \cap T # {}
    BY DEF Consistent, Matching
  <2>2. CASE d.polygons[i][p] = NoBody
    <3>1. d.polygons[i][p] \notin Storable
      BY <2>2, GeometryAssumption DEF Storable
    <3>2. d.cellinfo[i][CStr[p]] = {}
      BY <2>2 DEF Consistent
    <3> QED BY <2>1, <3>1, <3>2
  <2>3. CASE d.polygons[i][p] # NoBody
    <3>1. /\ d.polygons[i][p] \in Storable
          /\ d.cellinfo[i][CStr[p]] = IndexPolygon[d.polygons[i][p]]
      BY <2>3 DEF Consistent, Storable
    <3> QED BY <2>1, <3>1
  <2> QED BY <2>2, <2>3
<1> QED BY <1>1, <1>2 DEF GetPolygonsInCells

LEMMA GetIndexMaps ==
  ASSUME NEW i \in Indexes \cup BadNames, GetIndexCommand(i)
  PROVE  Promise!Read("IGET", <<i>>, Promise!GetIndexOutcome(i))
<1>1. CASE RefuseNames("IGET", <<i>>, i, {})
  BY <1>1, NamesRefusedMap, Kinds DEF Promise!GetIndexOutcome
<1>2. CASE NamesOk(i, {}) /\ NoSuchIndex(db, i) /\ Reply("IGET", <<i>>, <<"null">>)
  BY <1>2, ReadMaps, Outcomes, Kinds DEF NamesOk, Promise!GetIndexOutcome
<1>3. CASE NamesOk(i, {}) /\ InvalidIndex(db, i) /\ Refuse("IGET", <<i>>, "not an index")
  BY <1>3, RefuseMaps, Kinds DEF NamesOk, Promise!GetIndexOutcome
<1>4. CASE NamesOk(i, {}) /\ IsIndex(db, i) /\ Reply("IGET", <<i>>, <<"ok">>)
  BY <1>4, ReadMaps, Outcomes, Kinds DEF NamesOk, Promise!GetIndexOutcome
<1> QED BY <1>1, <1>2, <1>3, <1>4 DEF GetIndexCommand

LEMMA ListPolygonsMaps ==
  ASSUME Consistent(db), NEW i \in Indexes \cup BadNames, ListPolygonsCommand(i)
  PROVE  Promise!Read("POLYLIST", <<i>>, Promise!ListOutcome(i))
<1>1. CASE RefuseNames("POLYLIST", <<i>>, i, {})
  BY <1>1, NamesRefusedMap, Kinds DEF Promise!ListOutcome
<1>2. CASE NamesOk(i, {}) /\ NoSuchIndex(db, i) /\ Reply("POLYLIST", <<i>>, <<"set", {}>>)
  BY <1>2, ReadMaps, Outcomes, Kinds DEF NamesOk, Promise!ListOutcome
<1>3. CASE NamesOk(i, {}) /\ InvalidIndex(db, i) /\ Refuse("POLYLIST", <<i>>, "invalid index")
  BY <1>3, RefuseMaps, Kinds DEF NamesOk, Promise!ListOutcome
<1>4. CASE /\ NamesOk(i, {}) /\ IsIndex(db, i)
           /\ Reply("POLYLIST", <<i>>, <<"set", ListPolygons(db, i)>>)
  BY <1>4, ReadMaps, Outcomes, Kinds DEF NamesOk, Promise!ListOutcome, ListPolygons
<1> QED BY <1>1, <1>2, <1>3, <1>4, NothingFails DEF ListPolygonsCommand

LEMMA BodyIsLookup ==
  ASSUME NEW i, NEW p
  PROVE  /\ GetPolygonBody(db, i, p) = Promise!Lookup(i, p)
         /\ PromisedOutcome(GetPolygonBody(db, i, p)) = Promise!Lookup(i, p)
  BY DEF GetPolygonBody, Promise!Lookup, PromisedOutcome

LEMMA GetPolygonMaps ==
  ASSUME NEW i \in Indexes \cup BadNames, NEW p \in Polygons \cup BadNames,
         GetPolygonCommand(i, p)
  PROVE  Promise!Read("POLYGET", <<i, p>>, Promise!GetPolygonOutcome(i, p))
<1> DEFINE args == <<i, p>>
<1>1. CASE RefuseNames("POLYGET", args, i, {p})
  BY <1>1, NamesRefusedMap, Kinds, PolygonNames DEF Promise!GetPolygonOutcome
<1>2. CASE NamesOk(i, {p}) /\ NoSuchIndex(db, i) /\ Reply("POLYGET", args, <<"null">>)
  BY <1>2, ReadMaps, Outcomes, Kinds, PolygonNames DEF NamesOk, Promise!GetPolygonOutcome
<1>3. CASE NamesOk(i, {p}) /\ InvalidIndex(db, i) /\ Refuse("POLYGET", args, "invalid index")
  BY <1>3, RefuseMaps, Kinds DEF NamesOk, Promise!GetPolygonOutcome
<1>4. CASE /\ NamesOk(i, {p}) /\ IsIndex(db, i)
           /\ Reply("POLYGET", args, GetPolygonBody(db, i, p))
  BY <1>4, ReadMaps, BodyIsLookup, Kinds, PolygonNames
     DEF NamesOk, Promise!GetPolygonOutcome
<1> QED BY <1>1, <1>2, <1>3, <1>4 DEF GetPolygonCommand

LEMMA GetMultiplePolygonsMaps ==
  ASSUME Consistent(db), NEW i \in Indexes \cup BadNames, NEW ps \in NameLists,
         GetMultiplePolygonsCommand(i, ps)
  PROVE  Promise!Read("POLYMGET", <<i, ps>>, Promise!GetPolygonsOutcome(i, ps))
<1> DEFINE args == <<i, ps>>
           P == {ps[k] : k \in DOMAIN ps}
<1>1. \A k \in DOMAIN ps : ValidateEntityName(ps[k]) <=> ps[k] \in Polygons
  BY PolygonNames DEF NameLists
<1>2. /\ NamesOk(i, P) => ValidateEntityName(i) /\ \A k \in DOMAIN ps : ps[k] \in Polygons
      /\ (\E p \in P : ~ValidateEntityName(p)) => ~\A k \in DOMAIN ps : ps[k] \in Polygons
  BY <1>1 DEF NamesOk
<1> HIDE DEF P
<1>3. CASE RefuseNames("POLYMGET", args, i, P)
  BY <1>2, <1>3, NamesRefusedMap, Kinds DEF Promise!GetPolygonsOutcome
<1>4. CASE /\ NamesOk(i, P) /\ NoSuchIndex(db, i)
           /\ Reply("POLYMGET", args, <<"list", [k \in DOMAIN ps |-> <<"null">>]>>)
  BY <1>2, <1>4, ReadMaps, Outcomes, Kinds DEF Promise!GetPolygonsOutcome
<1>5. CASE NamesOk(i, P) /\ InvalidIndex(db, i) /\ Refuse("POLYMGET", args, "invalid index")
  BY <1>2, <1>5, RefuseMaps, Kinds DEF Promise!GetPolygonsOutcome
<1>6. CASE /\ NamesOk(i, P) /\ IsIndex(db, i)
           /\ Reply("POLYMGET", args, <<"list", GetPolygonBodies(db, i, ps)>>)
  <2>1. GetPolygonBodies(db, i, ps) = [k \in DOMAIN ps |-> Promise!Lookup(i, ps[k])]
    BY BodyIsLookup DEF GetPolygonBodies
  <2>2. i \in Promise!Free /\ i \in Existing /\ \A k \in DOMAIN ps : ps[k] \in Polygons
    BY <1>2, <1>6, Kinds
  <2>3. Promise!Read("POLYMGET", args, <<"list", GetPolygonBodies(db, i, ps)>>)
    BY <1>6, ReadMaps, Outcomes
  <2> QED BY <2>1, <2>2, <2>3 DEF Promise!GetPolygonsOutcome
<1>7. P = {ps[k] : k \in DOMAIN ps}
  BY DEF P
<1> QED BY <1>3, <1>4, <1>5, <1>6, <1>7, NothingFails DEF GetMultiplePolygonsCommand

LEMMA SearchPolygonMaps ==
  ASSUME Consistent(db), NEW i \in Indexes \cup BadNames, NEW b \in Bodies,
         SearchPolygonCommand(i, b)
  PROVE  Promise!Read("POLYSEARCH", <<i, b>>, Promise!SearchPolygonOutcome(i, b))
<1> DEFINE args == <<i, b>>
           T == IndexPolygonForOverlapTest[b]
<1>1. CASE RefuseNames("POLYSEARCH", args, i, {})
  BY <1>1, NamesRefusedMap, Kinds DEF Promise!SearchPolygonOutcome
<1>2. CASE NamesOk(i, {}) /\ ~IsIndex(db, i) /\ Refuse("POLYSEARCH", args, "invalid index")
  BY <1>2, RefuseMaps, Names DEF NamesOk, Promise!SearchPolygonOutcome
<1>3. CASE /\ b \notin ValidBodies \/ T = {}
           /\ \E text : Refuse("POLYSEARCH", args, text)
  BY <1>3, RefuseMaps DEF Queryable, Promise!SearchPolygonOutcome
<1>4. CASE /\ NamesOk(i, {}) /\ IsIndex(db, i) /\ b \in ValidBodies /\ T # {}
           /\ Reply("POLYSEARCH", args, <<"set", GetPolygonsInCells(db, i, T)>>)
  <2>1. i \in Existing /\ i \in Indexes /\ b \in Queryable /\ T \in SUBSET Terms
    BY <1>4, Names, GeometryAssumption DEF NamesOk, Queryable
  <2>2. GetPolygonsInCells(db, i, T) =
          {p \in Polygons : /\ db.polygons[i][p] \in Storable
                            /\ IndexPolygon[db.polygons[i][p]] \cap T # {}}
    BY <2>1, CellsFound
  <2>3. GetPolygonsInCells(db, i, T) =
          {p \in Polygons : <<db.polygons[i][p], b>> \in TermOverlaps}
    BY <2>1, <2>2 DEF TermOverlaps
  <2>4. Promise!Read("POLYSEARCH", args, <<"set", GetPolygonsInCells(db, i, T)>>)
    BY <1>4, ReadMaps, Outcomes
  <2> QED BY <2>1, <2>3, <2>4 DEF Promise!SearchPolygonOutcome
<1> QED BY <1>1, <1>2, <1>3, <1>4, NothingFails DEF SearchPolygonCommand, SearchCells

LEMMA SearchPointMaps ==
  ASSUME Consistent(db), NEW i \in Indexes \cup BadNames, NEW pt \in Points,
         SearchPointCommand(i, pt)
  PROVE  Promise!Read("POINTSEARCH", <<i, pt>>, Promise!SearchPointOutcome(i, pt))
<1> DEFINE args == <<i, pt>>
           T == IndexPoint[pt]
<1>1. CASE RefuseNames("POINTSEARCH", args, i, {})
  BY <1>1, NamesRefusedMap, Kinds DEF Promise!SearchPointOutcome
<1>2. CASE NamesOk(i, {}) /\ ~IsIndex(db, i) /\ Refuse("POINTSEARCH", args, "invalid index")
  BY <1>2, RefuseMaps, Names DEF NamesOk, Promise!SearchPointOutcome
<1>3. CASE pt \notin ValidPoints /\ Refuse("POINTSEARCH", args, "invalid point")
  BY <1>3, RefuseMaps DEF Promise!SearchPointOutcome
<1>4. CASE /\ NamesOk(i, {}) /\ IsIndex(db, i) /\ pt \in ValidPoints
           /\ Reply("POINTSEARCH", args, <<"set", GetPolygonsInCells(db, i, T)>>)
  <2>1. i \in Existing /\ i \in Indexes /\ T \in SUBSET Terms
    BY <1>4, Names, GeometryAssumption DEF NamesOk
  <2>2. GetPolygonsInCells(db, i, T) =
          {p \in Polygons : /\ db.polygons[i][p] \in Storable
                            /\ IndexPolygon[db.polygons[i][p]] \cap T # {}}
    BY <2>1, CellsFound
  <2>3. GetPolygonsInCells(db, i, T) =
          {p \in Polygons : <<db.polygons[i][p], pt>> \in TermEncloses}
    BY <1>4, <2>2 DEF TermEncloses
  <2>4. Promise!Read("POINTSEARCH", args, <<"set", GetPolygonsInCells(db, i, T)>>)
    BY <1>4, ReadMaps, Outcomes
  <2> QED BY <1>4, <2>1, <2>3, <2>4 DEF Promise!SearchPointOutcome
<1> QED BY <1>1, <1>2, <1>3, <1>4, NothingFails DEF SearchPointCommand, SearchCells

-----------------------------------------------------------------------------
(* The commands that write.  First what each does to the two families of   *)
(* keys that the promise is about, then the commands themselves.           *)

\* e has the meta keys and the bodies given, the rest is hidden.
Shows(e, meta, polygons) == e.meta = meta /\ e.polygons = polygons

BodyMaps == [Indexes -> [Polygons -> Bodies \cup {NoBody}]]

LEMMA SameBodies ==
  ASSUME NEW f \in BodyMaps, NEW g \in BodyMaps,
         \A j \in Indexes, q \in Polygons : f[j][q] = g[j][q]
  PROVE  f = g
<1>1. ASSUME NEW j \in Indexes PROVE f[j] = g[j]
  <2>1. /\ f[j] \in [Polygons -> Bodies \cup {NoBody}]
        /\ g[j] \in [Polygons -> Bodies \cup {NoBody}]
    BY DEF BodyMaps
  <2> QED BY <2>1
<1> QED BY <1>1 DEF BodyMaps

LEMMA CreateIndexShows ==
  ASSUME NEW d, Consistent(d), NEW i \in Indexes
  PROVE  Shows(CreateIndex(d, i), [d.meta EXCEPT ![i] = "index"], d.polygons)
  BY DEF CreateIndex, Shows, Consistent, WellFormed, Keyspaces

LEMMA SetPolygonShows ==
  ASSUME NEW d, Consistent(d), NEW i \in Indexes, NEW p \in Polygons,
         NEW b \in ValidBodies, NEW e,
         e = SetPolygonCells(DeletePolygonCells(SetPolygonBody(d, i, p, b), i, {p}),
                             i, p, IndexPolygon[b])
  PROVE  Shows(e, d.meta, [d.polygons EXCEPT ![i][p] = b])
<1>1. b \in Bodies /\ IndexPolygon[b] \in SUBSET Terms /\ d \in Keyspaces
  BY GeometryAssumption DEF Consistent, WellFormed
<1>2. PICK d1 : d1 = SetPolygonBody(d, i, p, b)
  OBVIOUS
<1>3. d1 \in Keyspaces /\ Shows(d1, d.meta, [d.polygons EXCEPT ![i][p] = b])
  <2>1. d1 \in Keyspaces
    BY <1>1, <1>2, SetPolygonBodyFields DEF BodySet
  <2>2. i \notin d.wrongHash
    BY DEF Consistent
  <2> QED BY <1>1, <1>2, <2>1, <2>2 DEF SetPolygonBody, Shows, Keyspaces
<1>4. PICK d2 : d2 = DeletePolygonCells(d1, i, {p}) /\ CellsTakenOut(d1, d2, i, {p})
  BY <1>3, DeletePolygonCellsFields
<1>5. CellsSet(d2, e, i, p, IndexPolygon[b])
  BY <1>1, <1>2, <1>4, SetPolygonCellsFields DEF CellsTakenOut
<1> QED BY <1>3, <1>4, <1>5 DEF Shows, CellsTakenOut, CellsSet, SameBut

LEMMA DeletePolygonShows ==
  ASSUME NEW d, Consistent(d), NEW i \in Indexes, NEW p \in Polygons, NEW e,
         e = DeletePolygonCells(DeletePolygonBody(d, i, {p}), i, {p})
  PROVE  Shows(e, d.meta, [d.polygons EXCEPT ![i][p] = NoBody])
<1>1. PICK d1 : d1 = DeletePolygonBody(d, i, {p}) /\ BodiesDeleted(d, d1, i, {p})
  BY DeletePolygonBodyFields DEF Consistent, WellFormed
<1>2. CellsTakenOut(d1, e, i, {p})
  BY <1>1, DeletePolygonCellsFields DEF BodiesDeleted
<1>3. d.polygons \in BodyMaps /\ d1.polygons \in BodyMaps
  BY <1>1 DEF BodyMaps, BodiesDeleted, Consistent, WellFormed, Keyspaces
<1>4. PICK f : f = [d.polygons EXCEPT ![i][p] = NoBody]
  OBVIOUS
<1>5. f \in BodyMaps /\ \A j \in Indexes, q \in Polygons :
        f[j][q] = IF j = i /\ q \in {p} THEN NoBody ELSE d.polygons[j][q]
  BY <1>3, <1>4 DEF BodyMaps
<1>6. d1.polygons = f
  <2>1. \A j \in Indexes, q \in Polygons : d1.polygons[j][q] = f[j][q]
    BY <1>1, <1>5 DEF BodiesDeleted
  <2> QED BY <1>3, <1>5, <2>1, SameBodies
<1> QED BY <1>1, <1>2, <1>4, <1>6 DEF Shows, BodiesDeleted, CellsTakenOut, SameBut

LEMMA DeleteIndexShows ==
  ASSUME NEW d, Consistent(d), NEW i \in Indexes, NEW e, e = DeleteIndex(d, i)
  PROVE  Shows(e, [d.meta EXCEPT ![i] = "none"], [d.polygons EXCEPT ![i] = NoPolygons])
<1>1. PICK L : L = ListPolygons(d, i)
  OBVIOUS
<1>2. PICK d1 : d1 = DeletePolygonCells(d, i, L) /\ CellsTakenOut(d, d1, i, L)
  BY <1>1, DeletePolygonCellsFields DEF ListPolygons, Consistent, WellFormed
<1>3. PICK d2 : d2 = DeletePolygonBody(d1, i, L) /\ BodiesDeleted(d1, d2, i, L)
  BY <1>2, DeletePolygonBodyFields DEF CellsTakenOut
<1>4. e = [d2 EXCEPT !.meta[i] = "none"]
  BY <1>1, <1>2, <1>3 DEF DeleteIndex, DeletePolygons
<1>5. /\ e.meta = [d.meta EXCEPT ![i] = "none"] /\ e.polygons = d2.polygons
      /\ d1.polygons = d.polygons
  <2>1. d2 \in Keyspaces /\ d2.meta = d.meta /\ d1.polygons = d.polygons
    BY <1>2, <1>3 DEF BodiesDeleted, CellsTakenOut, SameBut
  <2>2. e.meta = [d2.meta EXCEPT ![i] = "none"] /\ e.polygons = d2.polygons
    BY <1>4, <2>1 DEF Keyspaces
  <2> QED BY <2>1, <2>2
<1>6. /\ d.polygons \in [Indexes -> [Polygons -> Bodies \cup {NoBody}]]
      /\ d2.polygons \in [Indexes -> [Polygons -> Bodies \cup {NoBody}]]
  BY <1>3 DEF BodiesDeleted, Consistent, WellFormed, Keyspaces
<1>7. ASSUME NEW j \in Indexes
      PROVE  d2.polygons[j] = IF j = i THEN NoPolygons ELSE d.polygons[j]
  <2>1. \A q \in Polygons : d2.polygons[j][q] =
          IF j = i /\ q \in L THEN NoBody ELSE d.polygons[j][q]
    BY <1>3, <1>5 DEF BodiesDeleted
  <2>2. CASE j = i
    <3>1. \A q \in Polygons : d2.polygons[j][q] = NoBody
      BY <1>1, <2>1, <2>2 DEF ListPolygons
    <3> QED BY <1>6, <2>2, <3>1 DEF NoPolygons
  <2>3. CASE j # i
    BY <1>6, <2>1, <2>3
  <2> QED BY <2>2, <2>3
<1>8. d2.polygons = [d.polygons EXCEPT ![i] = NoPolygons]
  BY <1>6, <1>7
<1> QED BY <1>5, <1>8 DEF Shows

LEMMA SetIndexMaps ==
  ASSUME Consistent(db), NEW i \in Indexes \cup BadNames, SetIndexCommand(i)
  PROVE  Promise!CreateIndex(i)
<1>1. CASE RefuseNames("ISET", <<i>>, i, {})
  BY <1>1, NamesRefusedMap, Kinds DEF Promise!CreateIndex, Promise!Read
<1>2. CASE /\ NamesOk(i, {}) /\ ~NoSuchIndex(db, i)
           /\ Refuse("ISET", <<i>>, "index already exists")
  <2>1. i \notin Promise!Free \ Existing
    BY <1>2, Names DEF InvalidIndex
  <2> QED BY <1>2, <2>1, RefuseMaps DEF Promise!CreateIndex, Promise!Read
<1>3. CASE /\ NamesOk(i, {}) /\ NoSuchIndex(db, i)
           /\ db' = CreateIndex(db, i)
           /\ Answer("ISET", <<i>>, <<"ok">>)
  <2>1. i \in Indexes /\ i \in Promise!Free \ Existing
    BY <1>3, Names, Kinds DEF NamesOk
  <2>2. /\ db'.meta = [db.meta EXCEPT ![i] = "index"]
        /\ db'.polygons = db.polygons
    BY <1>3, <2>1, CreateIndexShows DEF Shows
  <2>3. db.meta \in [Indexes -> {"none", "index", "foreign"}]
    BY DEF Consistent, WellFormed, Keyspaces
  <2>4. Existing' = Existing \cup {i}
    BY <2>1, <2>2, <2>3 DEF Existing, IsIndex
  <2>5. Promise!Answer("ISET", <<i>>, <<"ok">>)
    BY <1>3, AnswerMaps, Outcomes
  <2> QED BY <2>1, <2>2, <2>4, <2>5 DEF Promise!CreateIndex
<1> QED BY <1>1, <1>2, <1>3 DEF SetIndexCommand

LEMMA DeleteIndexMaps ==
  ASSUME DistinctCStrings, Consistent(db), NEW i \in Indexes \cup BadNames,
         DeleteIndexCommand(i)
  PROVE  Promise!DropIndex(i)
<1>1. CASE RefuseNames("IDEL", <<i>>, i, {})
  BY <1>1, NamesRefusedMap, Kinds DEF Promise!DropIndex, Promise!Read
<1>2. CASE NamesOk(i, {}) /\ NoSuchIndex(db, i) /\ Reply("IDEL", <<i>>, <<"int", 0>>)
  BY <1>2, ReadMaps, Outcomes, Kinds DEF NamesOk, Promise!DropIndex, Promise!Read
<1>3. CASE NamesOk(i, {}) /\ InvalidIndex(db, i) /\ Refuse("IDEL", <<i>>, "not an index")
  BY <1>3, RefuseMaps, Kinds DEF NamesOk, Promise!DropIndex, Promise!Read
<1>4. CASE /\ NamesOk(i, {}) /\ IsIndex(db, i)
           /\ db' = DeleteIndex(db, i)
           /\ Answer("IDEL", <<i>>, <<"int", 1>>)
  <2>1. i \in Indexes /\ i \in Existing
    BY <1>4, Names DEF NamesOk
  <2>2. /\ db'.meta = [db.meta EXCEPT ![i] = "none"]
        /\ db'.polygons = [db.polygons EXCEPT ![i] = NoPolygons]
    BY <1>4, <2>1, DeleteIndexShows DEF Shows
  <2>3. db.meta \in [Indexes -> {"none", "index", "foreign"}]
    BY DEF Consistent, WellFormed, Keyspaces
  <2>4. Existing' = Existing \ {i}
    BY <2>1, <2>2, <2>3 DEF Existing, IsIndex
  <2>5. Promise!Answer("IDEL", <<i>>, <<"int", 1>>)
    BY <1>4, AnswerMaps, Outcomes
  <2> QED BY <2>1, <2>2, <2>4, <2>5
          DEF Promise!DropIndex, Promise!NoPolygons, NoPolygons
\* IDEL gives up on no consistent keyspace.
<1>5. ASSUME NEW D \in SUBSET ListPolygons(db, i), NEW q \in ListPolygons(db, i),
             NamesOk(i, {}), IsIndex(db, i), StopsAt(db, i, D, q)
      PROVE  FALSE
  <2>1. i \in Indexes /\ D \cup {q} \in SUBSET ListPolygons(db, i)
    BY <1>5, Names DEF NamesOk
  <2> QED BY <1>5, <2>1, NothingStops DEF StopsAt
<1> QED BY <1>1, <1>2, <1>3, <1>4, <1>5, NothingFails DEF DeleteIndexCommand

LEMMA SetPolygonMaps ==
  ASSUME Consistent(db), NEW i \in Indexes \cup BadNames,
         NEW p \in Polygons \cup BadNames, NEW b \in Bodies, SetPolygonCommand(i, p, b)
  PROVE  Promise!SetPolygon(i, p, b)
<1> DEFINE args == <<i, p, b>>
<1>1. CASE RefuseNames("POLYSET", args, i, {p})
  BY <1>1, NamesRefusedMap, Kinds, PolygonNames DEF Promise!SetPolygon, Promise!Read
<1>2. CASE NamesOk(i, {p}) /\ ~IsIndex(db, i) /\ Refuse("POLYSET", args, "invalid index")
  BY <1>2, RefuseMaps, Names DEF Promise!SetPolygon, Promise!Read
<1>3. CASE /\ b \notin ValidBodies \/ IndexPolygon[b] = {}
           /\ \E text : Refuse("POLYSET", args, text)
  BY <1>3, RefuseMaps DEF Storable, Promise!SetPolygon, Promise!Read
<1>4. CASE /\ NamesOk(i, {p}) /\ IsIndex(db, i) /\ b \in ValidBodies
           /\ IndexPolygon[b] # {}
           /\ db' = SetPolygonCells(
                      DeletePolygonCells(SetPolygonBody(db, i, p, b), i, {p}),
                      i, p, IndexPolygon[b])
           /\ Answer("POLYSET", args, <<"int", 1>>)
  <2>1. i \in Indexes /\ i \in Existing /\ p \in Polygons /\ b \in Storable
    BY <1>4, Names, PolygonNames DEF NamesOk, Storable
  <2>2. db'.meta = db.meta /\ db'.polygons = [db.polygons EXCEPT ![i][p] = b]
    BY <1>4, <2>1, SetPolygonShows DEF Shows
  <2>3. Existing' = Existing
    BY <2>2 DEF Existing, IsIndex
  <2>4. Promise!Answer("POLYSET", args, <<"int", 1>>)
    BY <1>4, AnswerMaps, Outcomes
  <2> QED BY <2>1, <2>2, <2>3, <2>4 DEF Promise!SetPolygon
<1> QED BY <1>1, <1>2, <1>3, <1>4 DEF SetPolygonCommand

\* POLYDEL's answer, taken from the cells, is right about the body.
LEMMA CellsTellOfBody ==
  ASSUME NEW d, Consistent(d), NEW i \in Indexes, NEW p \in Polygons
  PROVE  HasCells(d, i, p) <=> d.polygons[i][p] # NoBody
  BY DEF Consistent, HasCells

LEMMA DeletePolygonMaps ==
  ASSUME Consistent(db), NEW i \in Indexes \cup BadNames,
         NEW p \in Polygons \cup BadNames, DeletePolygonCommand(i, p)
  PROVE  Promise!DropPolygon(i, p)
<1> DEFINE args == <<i, p>>
<1>1. CASE RefuseNames("POLYDEL", args, i, {p})
  BY <1>1, NamesRefusedMap, Kinds, PolygonNames DEF Promise!DropPolygon, Promise!Read
<1>2. CASE NamesOk(i, {p}) /\ NoSuchIndex(db, i) /\ Reply("POLYDEL", args, <<"int", 0>>)
  BY <1>2, ReadMaps, Outcomes, Kinds, PolygonNames
     DEF NamesOk, Promise!DropPolygon, Promise!Read
<1>3. CASE NamesOk(i, {p}) /\ InvalidIndex(db, i) /\ Refuse("POLYDEL", args, "invalid index")
  BY <1>3, RefuseMaps, Kinds DEF NamesOk, Promise!DropPolygon, Promise!Read
<1>4. CASE /\ NamesOk(i, {p}) /\ IsIndex(db, i)
           /\ db' = DeletePolygonCells(DeletePolygonBody(db, i, {p}), i, {p})
           /\ Answer("POLYDEL", args, <<"int", IF HasCells(db, i, p) THEN 1 ELSE 0>>)
  <2>1. i \in Indexes /\ i \in Existing /\ p \in Polygons
    BY <1>4, Names, PolygonNames DEF NamesOk
  <2>2. db'.meta = db.meta /\ db'.polygons = [db.polygons EXCEPT ![i][p] = NoBody]
    BY <1>4, <2>1, DeletePolygonShows DEF Shows
  <2>3. Existing' = Existing
    BY <2>2 DEF Existing, IsIndex
  <2>4. (IF HasCells(db, i, p) THEN 1 ELSE 0) =
          (IF db.polygons[i][p] = NoBody THEN 0 ELSE 1)
    BY <2>1, CellsTellOfBody
  <2>5. Promise!Answer("POLYDEL", args, <<"int", IF HasCells(db, i, p) THEN 1 ELSE 0>>)
    BY <1>4, AnswerMaps, Outcomes
  <2> QED BY <2>1, <2>2, <2>3, <2>4, <2>5 DEF Promise!DropPolygon
<1> QED BY <1>1, <1>2, <1>3, <1>4 DEF DeletePolygonCommand

-----------------------------------------------------------------------------
(* The steps and the theorem.                                              *)

\* No command makes or frees a key of somebody else's.
LEMMA TakenStays ==
  ASSUME DistinctCStrings, NEW d, Consistent(d), NEW e, Changed(d, e)
  PROVE  \A j \in Indexes : InvalidIndex(e, j) <=> InvalidIndex(d, j)
<1>1. d.meta \in [Indexes -> {"none", "index", "foreign"}]
  BY DEF Consistent, WellFormed, Keyspaces
<1>2. PICK i \in Indexes :
        \/ NoSuchIndex(d, i) /\ e = CreateIndex(d, i)
        \/ /\ IsIndex(d, i)
           /\ \/ \E p \in Polygons, b \in ValidBodies :
                   e = SetPolygonCells(
                         DeletePolygonCells(SetPolygonBody(d, i, p, b), i, {p}),
                         i, p, IndexPolygon[b])
              \/ \E p \in Polygons :
                   e = DeletePolygonCells(DeletePolygonBody(d, i, {p}), i, {p})
              \/ \E D \in SUBSET ListPolygons(d, i), q \in ListPolygons(d, i) :
                   StopsAt(d, i, D, q)
              \/ e = DeleteIndex(d, i)
  BY DEF Changed
<1>3. CASE NoSuchIndex(d, i) /\ e = CreateIndex(d, i)
  <2>1. e.meta = [d.meta EXCEPT ![i] = "index"]
    BY <1>3, CreateIndexShows DEF Shows
  <2> QED BY <1>1, <1>3, <2>1 DEF InvalidIndex, IsIndex, NoSuchIndex
<1>4. CASE \/ \E p \in Polygons, b \in ValidBodies :
                e = SetPolygonCells(
                      DeletePolygonCells(SetPolygonBody(d, i, p, b), i, {p}),
                      i, p, IndexPolygon[b])
           \/ \E p \in Polygons :
                e = DeletePolygonCells(DeletePolygonBody(d, i, {p}), i, {p})
  <2>1. e.meta = d.meta
    <3>1. ASSUME NEW p \in Polygons, NEW b \in ValidBodies,
                 e = SetPolygonCells(
                       DeletePolygonCells(SetPolygonBody(d, i, p, b), i, {p}),
                       i, p, IndexPolygon[b])
          PROVE  e.meta = d.meta
      <4>1. Shows(e, d.meta, [d.polygons EXCEPT ![i][p] = b])
        BY <3>1, SetPolygonShows
      <4> QED BY <4>1 DEF Shows
    <3>2. ASSUME NEW p \in Polygons,
                 e = DeletePolygonCells(DeletePolygonBody(d, i, {p}), i, {p})
          PROVE  e.meta = d.meta
      <4>1. Shows(e, d.meta, [d.polygons EXCEPT ![i][p] = NoBody])
        BY <3>2, DeletePolygonShows
      <4> QED BY <4>1 DEF Shows
    <3> QED BY <1>4, <3>1, <3>2
  <2> QED BY <2>1 DEF InvalidIndex, IsIndex, NoSuchIndex
<1>5. ASSUME NEW D \in SUBSET ListPolygons(d, i), NEW q \in ListPolygons(d, i),
             StopsAt(d, i, D, q)
      PROVE  FALSE
  <2>1. D \cup {q} \in SUBSET ListPolygons(d, i)
    OBVIOUS
  <2> QED BY <1>5, <2>1, NothingStops DEF StopsAt
<1>6. CASE IsIndex(d, i) /\ e = DeleteIndex(d, i)
  <2>1. e.meta = [d.meta EXCEPT ![i] = "none"]
    BY <1>6, DeleteIndexShows DEF Shows
  <2> QED BY <1>1, <1>6, <2>1 DEF InvalidIndex, IsIndex, NoSuchIndex
<1> QED BY <1>2, <1>3, <1>4, <1>5, <1>6

LEMMA CommandMaps ==
  ASSUME DistinctCStrings, Consistent(db), Next
  PROVE  Promise!Command
<1>1. CASE WrongArity
  <2>1. PICK cmd \in Commands : Refuse(cmd, <<>>, "wrong number of arguments")
    BY <1>1 DEF WrongArity
  <2> QED BY <2>1, RefuseMaps
          DEF Commands, Promise!Commands, Promise!WrongArity, Promise!Command
<1>2. ASSUME NEW i \in Indexes \cup BadNames,
             \/ SetIndexCommand(i)
             \/ DeleteIndexCommand(i)
             \/ GetIndexCommand(i)
             \/ ListPolygonsCommand(i)
      PROVE  Promise!Command
  BY <1>2, SetIndexMaps, DeleteIndexMaps, GetIndexMaps, ListPolygonsMaps
     DEF Promise!Command
<1>3. ASSUME NEW i \in Indexes \cup BadNames,
             \/ \E b \in Bodies : SearchPolygonCommand(i, b)
             \/ \E pt \in Points : SearchPointCommand(i, pt)
      PROVE  Promise!Command
  BY <1>3, SearchPolygonMaps, SearchPointMaps DEF Promise!Command
<1>4. ASSUME NEW i \in Indexes \cup BadNames, NEW ps \in NameLists,
             GetMultiplePolygonsCommand(i, ps)
      PROVE  Promise!Command
  <2>1. ps \in Promise!NameLists
    BY DEF NameLists, Promise!NameLists
  <2> QED BY <1>4, <2>1, GetMultiplePolygonsMaps DEF Promise!Command
<1>5. ASSUME NEW i \in Indexes \cup BadNames, NEW p \in Polygons \cup BadNames,
             \/ GetPolygonCommand(i, p)
             \/ DeletePolygonCommand(i, p)
             \/ \E b \in Bodies : SetPolygonCommand(i, p, b)
      PROVE  Promise!Command
  BY <1>5, GetPolygonMaps, DeletePolygonMaps, SetPolygonMaps DEF Promise!Command
<1> QED BY <1>1, <1>2, <1>3, <1>4, <1>5 DEF Next

(* The commands implement the promise, whatever names, bodies and terms    *)
(* there are: no caller can tell the module from a set of dictionaries     *)
(* searched by overlap.                                                    *)
THEOREM PromiseKept ==
  ASSUME DistinctCStrings
  PROVE  Spec => KeepsPromise
<1>1. Init => Promise!Init
  <2> SUFFICES ASSUME Init PROVE Promise!Init
    OBVIOUS
  <2>1. PICK F \in SUBSET Indexes : db = LoadedInto(F)
    BY DEF Init
  <2>2. Existing = {} /\ db.polygons = [i \in Indexes |-> NoPolygons]
    BY <2>1 DEF LoadedInto, EmptyKeyspace, Existing, IsIndex
  <2>3. PromisedReply = <<"none", <<>>, <<"none">>>>
    BY DEF Init, PromisedReply, PromisedOutcome
  <2> QED BY <2>2, <2>3 DEF Promise!Init, Promise!NoPolygons, NoPolygons
<1>2. Consistent(db) /\ [Next]_vars => [Promise!Next]_(Promise!vars)
  <2> SUFFICES ASSUME Consistent(db), [Next]_vars PROVE [Promise!Next]_(Promise!vars)
    OBVIOUS
  <2>1. CASE Next
    <3>1. \A j \in Indexes : InvalidIndex(db', j) <=> InvalidIndex(db, j)
      BY <2>1, StepChanges, TakenStays
    <3>2. UNCHANGED {j \in Indexes : InvalidIndex(db, j)}
      BY <3>1 DEF InvalidIndex, IsIndex, NoSuchIndex
    <3> QED BY <2>1, <3>2, CommandMaps DEF Promise!Next
  <2>2. CASE UNCHANGED vars
    BY <2>2 DEF vars, Promise!vars, Existing, InvalidIndex, IsIndex, NoSuchIndex,
                PromisedReply, PromisedOutcome
  <2> QED BY <2>1, <2>2
<1> QED BY <1>1, <1>2, AlwaysConsistent, PTL DEF Spec, KeepsPromise, Promise!Spec
=============================================================================
