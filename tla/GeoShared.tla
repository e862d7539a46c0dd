----------------------------- MODULE GeoShared ------------------------------
(***************************************************************************)
(* The commands in a keyspace they do not own.  An index is spread over    *)
(* ordinary Redis keys, and any client, a TTL or the eviction of a full    *)
(* server may take one of them away or put a value of another type in its  *)
(* place between two commands.  The error paths of index.cc are there for  *)
(* this, and so are the replies it ignores (HSET, HDEL, SADD and SREM).    *)
(* What a cellinfo key of a wrong type does is in GeoCalls.                *)
(*                                                                         *)
(* fresh and lost are history: what a caller may still rely on.  Of a lost *)
(* cells key nothing is left to rely on: SUNION reads it as an empty set,  *)
(* and a search is short by its polygons without an error (AnswersInFull). *)
(***************************************************************************)
EXTENDS GeoCommands

CONSTANT MaxFaults   \* bound: most keys lost or overwritten in a behaviour

VARIABLES
  fresh,    \* fresh[i][p]: the terms p was last set under, but for those
            \* whose cells key was lost or overwritten since
  lost,     \* the other keys lost or overwritten, <<family, index>> or
            \* <<family, index, name>>; an index set again puts its meta key back
  faults    \* how many keys were lost or overwritten

sharedVars == <<db, reply, fresh, lost, faults>>

SharedInit ==
  /\ Init
  /\ fresh = [i \in Indexes |-> [p \in Polygons |-> {}]]
  /\ lost = {}
  /\ faults = 0

-----------------------------------------------------------------------------
(* A command, and what it means for the polygons that were set.            *)

Sets(i, p) ==
  reply'[1] = "POLYSET" /\ reply'[3] = <<"int", 1>> /\ reply'[2] = <<i, p, reply'[2][3]>>

Unsets(i, p) ==
  \/ reply'[1] = "POLYDEL" /\ reply'[2] = <<i, p>> /\ IsIndex(db, i)
  \/ reply'[1] = "IDEL" /\ reply'[2] = <<i>> /\ reply'[3] = <<"int", 1>>
  \/ reply'[1] = "IDEL" /\ p \in ListPolygons(db, i) \ ListPolygons(db', i)

Command ==
  /\ Next
  /\ fresh' = [i \in Indexes |-> [p \in Polygons |->
                 IF Sets(i, p) THEN IndexPolygon[reply'[2][3]]
                 ELSE IF Unsets(i, p) THEN {} ELSE fresh[i][p]]]
  /\ lost' = lost \ {<<"meta", i>> : i \in {j \in Indexes : IsIndex(db', j)}}
  /\ UNCHANGED faults

-----------------------------------------------------------------------------
(* Somebody else's DEL, SET, EXPIRE or an eviction.  A key that is lost    *)
(* takes a wrong value with it.                                            *)

Fault ==
  /\ faults < MaxFaults /\ faults' = faults + 1
  /\ reply' = <<"none", <<>>, <<"none">>>>

Lose(k) == lost' = lost \cup {k} /\ UNCHANGED fresh

\* Nobody is under t any more.
Spoil(i, t) ==
  /\ fresh' = [fresh EXCEPT ![i] = [p \in Polygons |-> @[p] \ {t}]]
  /\ UNCHANGED lost

LoseMeta(i) ==
  /\ Fault /\ ~NoSuchIndex(db, i)
  /\ db' = [db EXCEPT !.meta[i] = "none"]
  /\ Lose(<<"meta", i>>)

LosePolygons(i) ==
  /\ Fault
  /\ db' = [db EXCEPT !.polygons[i] = NoPolygons, !.wrongHash = @ \ {i}]
  /\ Lose(<<"polygons", i>>)

LoseCellInfo(i, c) ==
  /\ Fault /\ db.cellinfo[i][c] # {}
  /\ db' = [db EXCEPT !.cellinfo[i][c] = {}]
  /\ Lose(<<"cellinfo", i, c>>)

LoseCells(i, t) ==
  /\ Fault
  /\ db' = [db EXCEPT !.cells[i][t] = {}, !.wrongSet = @ \ {<<i, t>>}]
  /\ Spoil(i, t)

OverwriteMeta(i) ==
  /\ Fault
  /\ db' = [db EXCEPT !.meta[i] = "foreign"]
  /\ Lose(<<"meta", i>>)

OverwritePolygons(i) ==
  /\ Fault
  /\ db' = [db EXCEPT !.polygons[i] = NoPolygons, !.wrongHash = @ \cup {i}]
  /\ Lose(<<"polygons", i>>)

OverwriteCells(i, t) ==
  /\ Fault
  /\ db' = [db EXCEPT !.cells[i][t] = {}, !.wrongSet = @ \cup {<<i, t>>}]
  /\ Spoil(i, t)

SharedNext ==
  \/ Command
  \/ \E i \in Indexes :
       \/ LoseMeta(i) \/ LosePolygons(i)
       \/ OverwriteMeta(i) \/ OverwritePolygons(i)
       \/ \E c \in CNames : LoseCellInfo(i, c)
       \/ \E t \in Terms : LoseCells(i, t) \/ OverwriteCells(i, t)

SharedSpec == SharedInit /\ [][SharedNext]_sharedVars

-----------------------------------------------------------------------------
Owed(i, T) == {p \in Polygons : fresh[i][p] \cap T # {}}

Answered(cmd, i, q) ==
  reply'[1] = cmd /\ reply'[2] = <<i, q>> /\ reply'[3][1] = "set"

(* A search that does not answer with an error answers with every polygon  *)
(* that was set under one of the query's terms and whose key of that term  *)
(* is still the one it was put in: whatever happened to the other keys, to *)
(* the other cells keys of the polygon too, to other polygons, and to      *)
(* commands that gave up half way.  What a search does miss without an     *)
(* error are the polygons it could find by a lost cells key only.          *)
MissesOnlyLostCells ==
  [][\A i \in Indexes :
       /\ \A b \in ValidBodies : Answered("POLYSEARCH", i, b) =>
            Owed(i, IndexPolygonForOverlapTest[b]) \subseteq reply'[3][2]
       /\ \A pt \in ValidPoints : Answered("POINTSEARCH", i, pt) =>
            Owed(i, IndexPoint[pt]) \subseteq reply'[3][2]]_sharedVars

(* A polygon that sits in a cells key its cellinfo does not name will be   *)
(* found for ever: no POLYSET, POLYDEL or IDEL takes it out again.  Only   *)
(* the loss of that cellinfo key can bring this about; the commands cannot *)
(* do it on the other damage, nor by stopping half way.                    *)
StrandedOnlyByLoss ==
  \A i \in Indexes, p \in Polygons, t \in Terms :
    p \in db.cells[i][t] /\ t \notin db.cellinfo[i][CStr[p]] =>
      <<"cellinfo", i, CStr[p]>> \in lost

(* ISET takes over whatever data it finds under the name of its index.     *)
(* What it can find there was left by a lost key, never by a command: the  *)
(* bodies by the loss of the meta key, a cellinfo key by that of the meta  *)
(* or polygons key, a member of a cells key by that of one of the three.   *)
(* And a lost meta key is made good by ISET and IDEL: the IDEL that comes  *)
(* to its end then leaves nothing that other losses do not account for.    *)
LeftoversOnlyByLoss ==
  \A i \in Indexes : NoSuchIndex(db, i) =>
    LET L(K) == K \cap lost # {} IN
    /\ ListPolygons(db, i) # {} => L({<<"meta", i>>})
    /\ \A p \in Polygons :
         /\ HasCells(db, i, p) => L({<<"meta", i>>, <<"polygons", i>>})
         /\ (\E t \in Terms : p \in db.cells[i][t]) =>
              L({<<"meta", i>>, <<"polygons", i>>, <<"cellinfo", i, CStr[p]>>})

(* An IDEL that fails on a readable list of polygons leaves the index in   *)
(* place with fewer polygons, and every polygon still listed in the cells  *)
(* it was in, by both halves: repeating it gets to the end.                *)
FailedDeleteProgress ==
  [][\A i \in Indexes :
       reply'[1] = "IDEL" /\ reply'[2] = <<i>> /\ reply'[3][1] = "error"
         /\ IsIndex(db, i) /\ ~ListFails(db, i) =>
       /\ IsIndex(db', i)
       /\ ListPolygons(db', i) \subseteq ListPolygons(db, i)
       /\ ListPolygons(db', i) # ListPolygons(db, i)
       /\ \A p \in ListPolygons(db', i) :
            /\ db'.cellinfo[i][CStr[p]] = db.cellinfo[i][CStr[p]]
            /\ \A t \in Terms : p \in db'.cells[i][t] <=> p \in db.cells[i][t]
    ]_sharedVars

-----------------------------------------------------------------------------
(* README, POLYSEARCH: "list of polygons in the index overlapping with the *)
(* provided polygon".  Every polygon POLYLIST lists whose body has a term  *)
(* of the query's is in the answer.                                        *)
AnswersInFull ==
  [][\A i \in Indexes, b \in ValidBodies : Answered("POLYSEARCH", i, b) =>
       \A p \in ListPolygons(db, i) :
         IndexPolygon[db.polygons[i][p]] \cap IndexPolygonForOverlapTest[b] # {}
           => p \in reply'[3][2]]_sharedVars

(* README, IGET: "Null reply: (nil) if the index does not exist or the     *)
(* provided key is not an index".  IDEL, POLYDEL and POLYLIST have the     *)
(* same words with their own neutral answer: a key of another kind reads   *)
(* as an absent one and is no error.                                       *)
ForeignKeyIsNoError ==
  [][\A i \in Indexes, cmd \in {"IGET", "IDEL", "POLYDEL", "POLYLIST"} :
       /\ InvalidIndex(db, i)
       /\ reply'[1] = cmd /\ reply'[2] \in {<<i>>} \cup {<<i, p>> : p \in Polygons}
       => reply'[3][1] # "error"]_sharedVars
=============================================================================
