------------------------------ MODULE GeoCalls ------------------------------
(***************************************************************************)
(* The handlers of module.cc and index.cc one RedisModule_Call at a time.  *)
(* Redis starts no other command while a handler runs, evicts nothing and  *)
(* looks at a clock it stopped when the command began; but the server may  *)
(* die between two calls.  The calls carry no "!", so none of their writes *)
(* reaches an append-only file or a replica: what a restart or a failover  *)
(* brings back is the last image taken, with or without the deletions that *)
(* others caused since.                                                    *)
(*                                                                         *)
(* Any key may have been overwritten with a value of another type.  What   *)
(* the handlers do with the error replies of the calls on it is here call  *)
(* by call, a cellinfo key of a wrong type included: DeletePolygonCells    *)
(* takes the length of the error reply for a number of cells and asks for  *)
(* an element that is not there.                                           *)
(***************************************************************************)
EXTENDS GeoIndex

CONSTANTS
  MaxNames,    \* bound: most polygon names in one POLYMGET
  MaxFaults    \* bound: most keys lost or overwritten in a behaviour

VARIABLES
  db,          \* the keyspace
  wrongInfo,   \* the cellinfo keys whose value is of another type
  reply,       \* the answer to the last command, or NoReply while one runs
  at,          \* the Redis call the handler makes next; "idle", or "down"
  run,         \* the command that runs: <<command, arguments>>
  polygon,     \* the polygon name at hand
  polygons,    \* names DeleteIndex has not come to yet
  cells,       \* terms the loop over cells has not come to yet
  image,       \* what a restart brings back: a keyspace and its wrongInfo
  start,       \* history: the keyspace when the command started
  lost,        \* history: the cellinfo keys ever lost or overwritten
  faults       \* how many keys were lost or overwritten

local == <<run, polygon, polygons, cells>>
world == <<image, lost, faults>>
vars == <<db, wrongInfo, reply, at, local, start, world>>

NoReply == <<"none", <<>>, <<"none">>>>

cmd == run[1]
args == run[2]
index == args[1]

Requests ==
  {<<c, <<x>>>> : c \in {"ISET", "IGET", "IDEL", "POLYLIST"}, x \in Indexes}
  \cup {<<c, <<x, p>>>> : c \in {"POLYGET", "POLYDEL"}, x \in Indexes, p \in Polygons}
  \cup {<<"POLYMGET", <<x, ps>>>> : x \in Indexes,
                                    ps \in UNION {[1..n -> Polygons] : n \in 1..MaxNames}}
  \cup {<<"POLYSET", <<x, p, b>>>> : x \in Indexes, p \in Polygons, b \in Bodies}
  \cup {<<"POLYSEARCH", <<x, b>>>> : x \in Indexes, b \in Bodies}
  \cup {<<"POINTSEARCH", <<x, pt>>>> : x \in Indexes, pt \in Points}

\* The command a handler is taken for once it has answered: one step of
\* GeoCommands, from the keyspace it started on.
Atomic == INSTANCE GeoCommands WITH db <- IF at = "idle" THEN db ELSE start

NoLocals == polygon = NoBody /\ polygons = {} /\ cells = {}

Leave == run' = <<"none", <<>>>> /\ polygon' = NoBody /\ polygons' = {} /\ cells' = {}

Init ==
  /\ \E F \in SUBSET Indexes : db = Atomic!LoadedInto(F)
  /\ wrongInfo = {}
  /\ reply = NoReply /\ at = "idle" /\ run = <<"none", <<>>>> /\ NoLocals
  /\ image = <<db, wrongInfo>>
  /\ start = db /\ lost = {} /\ faults = 0

-----------------------------------------------------------------------------
(* Where a handler goes.                                                   *)

Start(r) ==
  /\ at = "idle" /\ at' = "HGET meta"
  /\ run' = r /\ start' = db /\ reply' = NoReply
  /\ UNCHANGED <<db, wrongInfo, polygon, polygons, cells, world>>

Answer(out) ==
  /\ reply' = <<cmd, args, out>> /\ at' = "idle" /\ Leave /\ start' = db'

Goto(call) == at' = call /\ UNCHANGED <<reply, run, start>>

Quiet == UNCHANGED <<db, wrongInfo>>

\* What a command answers when the name is no index.
NoIndexOutcome ==
  LET absent == NoSuchIndex(db, index) IN
  CASE cmd = "IGET" /\ absent -> <<"null">>
    [] cmd = "IDEL" /\ absent -> <<"int", 0>>
    [] cmd = "POLYDEL" /\ absent -> <<"int", 0>>
    [] cmd = "POLYGET" /\ absent -> <<"null">>
    [] cmd = "POLYMGET" /\ absent -> <<"list", [k \in DOMAIN args[2] |-> <<"null">>]>>
    [] cmd = "POLYLIST" /\ absent -> <<"set", {}>>
    [] cmd \in {"IGET", "IDEL"} /\ ~absent -> <<"error", "not an index">>
    [] OTHER -> <<"error", "invalid index">>

\* The check of the body that follows ValidateIndex, if the command has one.
BodyError ==
  CASE cmd = "POLYSET" /\ args[3] \notin ValidBodies -> "invalid polygon"
    [] cmd = "POLYSEARCH" /\ args[2] \notin ValidBodies -> "invalid polygon"
    [] cmd = "POINTSEARCH" /\ args[2] \notin ValidPoints -> "invalid point"
    [] cmd = "POLYSET" /\ args[3] \in ValidBodies /\ IndexPolygon[args[3]] = {} ->
         "empty cell union for a given polygon"
    [] cmd = "POLYSEARCH" /\ args[2] \in ValidBodies
         /\ IndexPolygonForOverlapTest[args[2]] = {} -> "empty cell union for a given polygon"
    [] OTHER -> "none"

\* The terms a search looks up.
Lookup ==
  IF cmd = "POLYSEARCH" THEN IndexPolygonForOverlapTest[args[2]] ELSE IndexPoint[args[2]]

FirstCall ==
  CASE cmd \in {"IDEL", "POLYLIST"} -> "HKEYS"
    [] cmd = "POLYSET" -> "HSET polygon"
    [] cmd = "POLYDEL" -> "HDEL"
    [] cmd = "POLYGET" -> "HGET polygon"
    [] cmd = "POLYMGET" -> "HMGET"
    [] cmd \in {"POLYSEARCH", "POINTSEARCH"} -> "SUNION"

-----------------------------------------------------------------------------
(* ValidateIndex and the calls of the commands that only read.             *)

HGetMeta ==
  /\ at = "HGET meta" /\ Quiet
  /\ \/ cmd = "ISET" /\ NoSuchIndex(db, index) /\ Goto("HSET meta") /\ UNCHANGED <<polygon, polygons, cells>>
     \/ cmd = "ISET" /\ ~NoSuchIndex(db, index) /\ Answer(<<"error", "index already exists">>)
     \/ cmd # "ISET" /\ ~IsIndex(db, index) /\ Answer(NoIndexOutcome)
     \/ cmd = "IGET" /\ IsIndex(db, index) /\ Answer(<<"ok">>)
     \/ /\ cmd \notin {"ISET", "IGET"} /\ IsIndex(db, index)
        /\ \/ BodyError # "none" /\ Answer(<<"error", BodyError>>)
           \/ /\ BodyError = "none" /\ Goto(FirstCall)
              /\ polygon' = IF cmd \in {"POLYSET", "POLYDEL"} THEN args[2] ELSE NoBody
              /\ UNCHANGED <<polygons, cells>>

HSetMeta == at = "HSET meta" /\ db' = CreateIndex(db, index) /\ UNCHANGED wrongInfo /\ Answer(<<"ok">>)

HGetPolygon == at = "HGET polygon" /\ Quiet /\ Answer(GetPolygonBody(db, index, args[2]))

HMGet ==
  /\ at = "HMGET" /\ Quiet
  /\ \/ ListFails(db, index) /\ Answer(<<"error", "invalid polygon">>)
     \/ ~ListFails(db, index) /\ Answer(<<"list", GetPolygonBodies(db, index, args[2])>>)

\* A slip the runs must notice: the error reply taken for an array.
SUnionUnchecked ==
  at = "SUNION" /\ Quiet /\ Answer(<<"set", GetPolygonsInCells(db, index, Lookup)>>)

SUnion ==
  /\ at = "SUNION" /\ Quiet
  /\ \/ SearchFails(db, index, Lookup) /\ Answer(<<"error", "error while fetching polygons">>)
     \/ /\ ~SearchFails(db, index, Lookup)
        /\ Answer(<<"set", GetPolygonsInCells(db, index, Lookup)>>)

ListError ==
  IF cmd = "IDEL" THEN "failed to delete the index" ELSE "error while fetching polygons"

HKeys ==
  /\ at = "HKEYS" /\ Quiet
  /\ \/ ListFails(db, index) /\ Answer(<<"error", ListError>>)
     \/ /\ ~ListFails(db, index) /\ cmd = "POLYLIST"
        /\ Answer(<<"set", ListPolygons(db, index)>>)
     \/ /\ ~ListFails(db, index)
        /\ cmd = "IDEL" /\ polygons' = ListPolygons(db, index)
        /\ Goto(IF polygons' = {} THEN "DEL meta" ELSE "HDEL")
        /\ UNCHANGED <<polygon, cells>>

-----------------------------------------------------------------------------
(* The calls that write.  A key of a wrong type they leave as it is: what  *)
(* HSET, HDEL, SREM and SADD reply is looked at by nobody.                 *)

HSetPolygon ==
  /\ at = "HSET polygon" /\ db' = SetPolygonBody(db, index, polygon, args[3])
  /\ Goto("SMEMBERS") /\ UNCHANGED <<wrongInfo, polygon, polygons, cells>>

\* DeleteIndex takes the names in the order of the reply to HKEYS, any order.
HDel ==
  /\ at = "HDEL"
  /\ \/ cmd = "POLYDEL" /\ UNCHANGED <<polygon, polygons>>
     \/ cmd = "IDEL" /\ polygon' \in polygons /\ polygons' = polygons \ {polygon'}
  /\ db' = DeletePolygonBody(db, index, {polygon'})
  /\ Goto("SMEMBERS") /\ UNCHANGED <<wrongInfo, cells>>

\* A slip the runs must notice: the cells are not forgotten.
CellsDeletedKept(found) ==
  \/ cmd = "POLYSET" /\ Goto("SADD cellinfo") /\ UNCHANGED <<polygon, polygons, cells>>
  \/ cmd = "POLYDEL" /\ Answer(<<"int", IF found THEN 1 ELSE 0>>)
  \/ /\ cmd = "IDEL" /\ found
     /\ Goto(IF polygons = {} THEN "DEL meta" ELSE "HDEL")
     /\ UNCHANGED <<polygon, polygons, cells>>

\* DeletePolygonCells is through, or found nothing to do.
CellsDeleted(found) ==
  \/ cmd = "POLYSET" /\ Goto("SADD cellinfo") /\ cells' = {} /\ UNCHANGED <<polygon, polygons>>
  \/ cmd = "POLYDEL" /\ Answer(<<"int", IF found THEN 1 ELSE 0>>)
  \/ cmd = "IDEL" /\ ~found /\ Answer(<<"error", "failed to delete the index">>)
  \/ /\ cmd = "IDEL" /\ found
     /\ Goto(IF polygons = {} THEN "DEL meta" ELSE "HDEL")
     /\ cells' = {} /\ UNCHANGED <<polygon, polygons>>

CellInfoKey == <<index, CStr[polygon]>>

SMembers ==
  /\ at = "SMEMBERS" /\ Quiet
  /\ \/ CellInfoKey \notin wrongInfo /\ ~HasCells(db, index, polygon) /\ CellsDeleted(FALSE)
     \/ /\ CellInfoKey \notin wrongInfo /\ HasCells(db, index, polygon)
        /\ cells' = db.cellinfo[index][CStr[polygon]]
        /\ Goto("DEL cellinfo") /\ UNCHANGED <<polygon, polygons>>
     \/ /\ CellInfoKey \in wrongInfo
        /\ Goto("DEL wrong cellinfo") /\ UNCHANGED <<polygon, polygons, cells>>

DelCellInfo ==
  /\ at = "DEL cellinfo"
  /\ db' = [db EXCEPT !.cellinfo[index][CStr[polygon]] = {}] /\ UNCHANGED wrongInfo
  /\ Goto("SREM") /\ UNCHANGED <<polygon, polygons, cells>>

\* The process is gone, and its locals and its client with it.
Die == at' = "down" /\ reply' = NoReply /\ Leave /\ start' = db'

\* The element of an error reply is a null pointer, and the server dies of it.
DelWrongCellInfo ==
  /\ at = "DEL wrong cellinfo"
  /\ wrongInfo' = wrongInfo \ {CellInfoKey} /\ UNCHANGED db /\ Die

\* A slip the runs must notice: the loop takes the first cell again and again.
SRemSame ==
  /\ at = "SREM"
  /\ \E t \in cells :
       /\ db' = [db EXCEPT !.cells[index][t] = @ \ {polygon}] /\ UNCHANGED wrongInfo
       /\ \/ cells # {t} /\ Goto("SREM") /\ UNCHANGED <<polygon, polygons, cells>>
          \/ cells = {t} /\ CellsDeleted(TRUE)

SRem ==
  /\ at = "SREM"
  /\ \E t \in cells :
       /\ db' = [db EXCEPT !.cells[index][t] = @ \ {polygon}] /\ UNCHANGED wrongInfo
       /\ \/ /\ cells # {t} /\ cells' = cells \ {t}
             /\ Goto("SREM") /\ UNCHANGED <<polygon, polygons>>
          \/ cells = {t} /\ CellsDeleted(TRUE)

\* A slip the runs must notice: the cellinfo left out.
SAddCellInfoForgotten ==
  /\ at = "SADD cellinfo" /\ cells' = IndexPolygon[args[3]]
  /\ Goto("SADD cell") /\ UNCHANGED <<db, wrongInfo, polygon, polygons>>

\* From here on index, polygon and args[3] say what POLYSET writes.
SAddCellInfo ==
  /\ at = "SADD cellinfo"
  /\ db' = [db EXCEPT !.cellinfo[index][CStr[polygon]] = @ \cup IndexPolygon[args[3]]]
  /\ cells' = IndexPolygon[args[3]]
  /\ Goto("SADD cell") /\ UNCHANGED <<wrongInfo, polygon, polygons>>

SAddCell ==
  /\ at = "SADD cell"
  /\ \E t \in cells :
       /\ db' = IF <<index, t>> \in db.wrongSet THEN db
                ELSE [db EXCEPT !.cells[index][t] = @ \cup {polygon}]
       /\ UNCHANGED wrongInfo
       /\ \/ /\ cells # {t} /\ cells' = cells \ {t}
             /\ Goto("SADD cell") /\ UNCHANGED <<polygon, polygons>>
          \/ cells = {t} /\ Answer(<<"int", 1>>)

DelMeta ==
  /\ at = "DEL meta" /\ db' = [db EXCEPT !.meta[index] = "none"]
  /\ UNCHANGED wrongInfo /\ Answer(<<"int", 1>>)

Call ==
  /\ \/ HGetMeta \/ HSetMeta \/ HGetPolygon \/ HMGet \/ SUnion \/ HKeys
     \/ HSetPolygon \/ HDel \/ SMembers \/ DelCellInfo \/ DelWrongCellInfo
     \/ SRem \/ SAddCellInfo \/ SAddCell \/ DelMeta
  /\ UNCHANGED world

-----------------------------------------------------------------------------
(* The host.  Keys are named <<family, index>> or <<family, index, name>>. *)

CellInfoKeys == {<<"cellinfo", x, c>> : x \in Indexes, c \in CNames}

Keys == {<<"meta", x>> : x \in Indexes} \cup {<<"polygons", x>> : x \in Indexes}
          \cup CellInfoKeys \cup {<<"cells", x, t>> : x \in Indexes, t \in Terms}

\* A keyspace (with its wrongInfo) after DEL of key k.
Without(dw, k) ==
  LET d == dw[1] x == k[2] IN
  CASE k[1] = "meta" -> <<[d EXCEPT !.meta[x] = "none"], dw[2]>>
    [] k[1] = "polygons" ->
         <<[d EXCEPT !.polygons[x] = NoPolygons, !.wrongHash = @ \ {x}], dw[2]>>
    [] k[1] = "cellinfo" -> <<[d EXCEPT !.cellinfo[x][k[3]] = {}], dw[2] \ {<<x, k[3]>>}>>
    [] k[1] = "cells" ->
         <<[d EXCEPT !.cells[x][k[3]] = {}, !.wrongSet = @ \ {<<x, k[3]>>}], dw[2]>>

\* The same after SET of key k: a value that is no index, hash or set.
Overwritten(dw, k) ==
  LET w == Without(dw, k) d == w[1] x == k[2] IN
  CASE k[1] = "meta" -> <<[d EXCEPT !.meta[x] = "foreign"], w[2]>>
    [] k[1] = "polygons" -> <<[d EXCEPT !.wrongHash = @ \cup {x}], w[2]>>
    [] k[1] = "cellinfo" -> <<d, w[2] \cup {<<x, k[3]>>}>>
    [] k[1] = "cells" -> <<[d EXCEPT !.wrongSet = @ \cup {<<x, k[3]>>}], w[2]>>

Fault == at = "idle" /\ faults < MaxFaults /\ faults' = faults + 1

\* What another client, an eviction or a time to live does to the keyspace is
\* done to the image too if that is an append-only file or a replica.
Befalls(k, w, im) ==
  /\ Fault
  /\ db' = w[1] /\ wrongInfo' = w[2] /\ image' \in {image, im}
  /\ lost' = lost \cup ({k} \cap CellInfoKeys)
  /\ start' = db' /\ UNCHANGED <<reply, at, local>>

Lose(k) ==
  /\ Without(<<db, wrongInfo>>, k) # <<db, wrongInfo>>
  /\ Befalls(k, Without(<<db, wrongInfo>>, k), Without(image, k))

Overwrite(k) == Befalls(k, Overwritten(<<db, wrongInfo>>, k), Overwritten(image, k))

\* A slip the runs must notice: an image taken, or a write sent on, in the
\* middle of a command.
SnapshotAnytime ==
  /\ at # "down" /\ image' = <<db, wrongInfo>>
  /\ UNCHANGED <<db, wrongInfo, reply, at, local, start, lost, faults>>

\* BGSAVE, a rewrite of the append-only file or the first copy to a replica:
\* taken between two commands, never inside one.
Snapshot ==
  /\ at = "idle" /\ image' = <<db, wrongInfo>>
  /\ UNCHANGED <<db, wrongInfo, reply, at, local, start, lost, faults>>

Crash ==
  /\ at # "down"
  /\ UNCHANGED <<db, wrongInfo, world>> /\ Die

\* A restart, or the promotion of a replica.
Restart ==
  /\ at = "down" /\ at' = "idle"
  /\ db' = image[1] /\ wrongInfo' = image[2] /\ start' = db'
  /\ UNCHANGED <<reply, local, world>>

Host ==
  \/ \E k \in Keys : Lose(k) \/ Overwrite(k)
  \/ Snapshot \/ Crash \/ Restart

Next == (\E r \in Requests : Start(r)) \/ Call \/ Host

\* The main thread of Redis, unless it dies, runs a handler to its end.
\* Nothing is asked of clients, of the clock, or of who restarts the server.
Spec == Init /\ [][Next]_vars /\ WF_vars(Call)

-----------------------------------------------------------------------------
Running == at \notin {"idle", "down"}

(* A handler is where its locals say it is: a loop has cells left, names   *)
(* left to delete are only there in IDEL, and a handler that is done or    *)
(* was never started has none of either.                                   *)
CallsTypeOK ==
  /\ db \in Keyspaces /\ image[1] \in Keyspaces
  /\ wrongInfo \subseteq Indexes \X CNames
  /\ polygons \subseteq Polygons /\ cells \subseteq Terms
  /\ at \in {"DEL cellinfo", "SREM", "SADD cell"} => cells # {} /\ polygon \in Polygons
  /\ cells # {} => at \in {"DEL cellinfo", "SREM", "SADD cell"}
  /\ polygons # {} => cmd = "IDEL"
  /\ ~Running => NoLocals /\ start = db

(* The calls of a handler make up one command: if the handler comes to its *)
(* end, what it leaves in the keyspace and what it answers are what        *)
(* GeoCommands says of the command on the keyspace it started on.  The     *)
(* loops over cells and polygons, in whatever order Redis and the          *)
(* unordered_set give them, come to the same as its set expressions.       *)
HandlersAreCommands ==
  [][Running /\ at' = "idle" => Atomic!Next]_vars

(* A polygon sits in a cells key its cellinfo does not name, and so will   *)
(* be found until that key goes, only if its cellinfo key was lost or      *)
(* overwritten, or while DeletePolygonCells is on its way to that cell:    *)
(* at every call, after every crash and every restart.                     *)
NothingStranded ==
  at # "down" =>
    \A x \in Indexes, p \in Polygons, t \in Terms :
      p \in db.cells[x][t] /\ t \notin db.cellinfo[x][CStr[p]] =>
        \/ <<"cellinfo", x, CStr[p]>> \in lost
        \/ at = "SREM" /\ index = x /\ polygon = p /\ t \in cells

(* While nobody else touched a key, the server is between two commands     *)
(* only with whole indexes, every polygon under the terms of its body and  *)
(* nothing left of a deleted index, no matter in the middle of which call  *)
(* it died before: no half of a command ever outlives the server.          *)
NoHalfCommandSurvives ==
  at = "idle" /\ faults = 0 =>
    Atomic!CellsMatchCellInfo /\ Atomic!StoredUnderItsBody /\ Atomic!NoOrphans

(* Every command ends, or the server is down: no loop of index.cc goes on  *)
(* for ever, and none waits for anything.                                  *)
EveryCommandEnds == Running ~> ~Running
=============================================================================
