---------------------------- MODULE GeoSelfTest -----------------------------
(***************************************************************************)
(* S2GEO.TEST and S2GEO.POPULATE of a debug build, redistest.cc: two       *)
(* commands that call the other commands on the index "testindex" and      *)
(* compare what they answer with what the test data are known to give.     *)
(* TEST wants no key of that index before it starts and after it ends; an  *)
(* assertion that fails ends the command then and there, without cleaning  *)
(* up.  A script is the sequence of its calls, with what is asserted of    *)
(* the answer to each.                                                     *)
(***************************************************************************)
EXTENDS GeoCommands, Sequences

CONSTANTS
  kTestIndexName,
  Any,             \* nothing is asserted of an answer beyond its type
  ClientRequests   \* <<command, arguments>> that clients send meanwhile

ASSUME ClientAssumption ==
  \A r \in ClientRequests :
    /\ r[1] \in Commands /\ r[2][1] \in Indexes \cup BadNames
    /\ r[1] \in {"POLYSET", "POLYDEL"} => r[2][2] \in Polygons \cup BadNames
    /\ r[1] = "POLYSET" => r[2][3] \in Bodies

VARIABLES
  stray,    \* another key matches kTestIndexPattern, "testindex:*"
  script,   \* "TEST", "POPULATE", or "none"
  pos,      \* the call the script makes next
  verdict,  \* which script ended last and what it answered its client, a
            \* failed assertion by the command it is about
  before    \* history: the keyspace when the script started

testVars == <<db, reply, stray, script, pos, verdict, before>>

-----------------------------------------------------------------------------
(* The assertions.  RedisArrayToSet forgets the order of an array.         *)

Call(c, args, type, value) == [cmd |-> c, args |-> args, type |-> type, value |-> value]

RedisArrayToSet(list) == {list[k] : k \in DOMAIN list}

Passes(c, out) ==
  CASE c.type = "bodies" -> /\ out[1] = "list" /\ Len(out[2]) = Len(c.args[2])
                            /\ {<<"string", b>> : b \in c.value} = RedisArrayToSet(out[2])
    [] OTHER -> out[1] = c.type /\ (c.value # Any => out[2] = c.value)

-----------------------------------------------------------------------------
(* The scripts.                                                            *)

kPolygonName == <<"red", "green", "blue", "yellow">>   \* kPolygonBody[k] too

TestPolygonNames == {"red", "green", "blue", "yellow"}

\* The test data are well formed, and no name holds a NUL byte.
ASSUME TestDataAssumption ==
  /\ kTestIndexName \in Indexes
  /\ \A p \in TestPolygonNames :
       p \in Polygons \cap ValidBodies /\ CStr[p] = p /\ IndexPolygon[p] # {}
  /\ \A b \in TestPolygonNames \cup {"wide"} :
       b \in ValidBodies /\ IndexPolygonForOverlapTest[b] # {}
  /\ {"circle", "triangle", "square"} \subseteq ValidPoints

\* The test's polygons that a query for the terms T meets.
Meets(T) == {p \in TestPolygonNames : \E t \in T : t \in IndexPolygon[p]}

\* test_data.png: S2 finds the polygons to lie as they are drawn.
ASSUME PictureAssumption ==
  /\ Meets(IndexPoint["circle"]) = {}
  /\ Meets(IndexPoint["triangle"]) = {"red"}
  /\ Meets(IndexPoint["square"]) = {"red", "yellow"}
  /\ Meets(IndexPolygonForOverlapTest["red"]) = {"red", "yellow", "green"}
  /\ Meets(IndexPolygonForOverlapTest["green"]) = {"green", "red"}
  /\ Meets(IndexPolygonForOverlapTest["blue"]) = {"blue"}
  /\ Meets(IndexPolygonForOverlapTest["yellow"]) = {"yellow", "red"}
  /\ Meets(IndexPolygonForOverlapTest["wide"]) = TestPolygonNames

On(c, rest, type, value) == Call(c, <<kTestIndexName>> \o rest, type, value)

CreateTheIndex == <<On("ISET", <<>>, "ok", Any)>>

DeleteTheIndex == <<On("IDEL", <<>>, "int", 1)>>

SetUpPolygons ==
  [k \in 1..4 |-> On("POLYSET", <<kPolygonName[k], kPolygonName[k]>>, "int", 1)]

TestIndex ==
  CreateTheIndex \o <<On("ISET", <<>>, "error", Any), On("IGET", <<>>, "ok", Any)>>
    \o DeleteTheIndex \o <<On("IDEL", <<>>, "int", 0), On("IGET", <<>>, "null", Any)>>

TestPolygons ==
  CreateTheIndex \o <<On("POLYLIST", <<>>, "set", {})>> \o SetUpPolygons
    \o <<On("POLYLIST", <<>>, "set", TestPolygonNames),
         On("POLYMGET", <<kPolygonName>>, "bodies", TestPolygonNames),
         On("POLYGET", <<"red">>, "string", "red"),
         On("POLYDEL", <<"red">>, "int", Any),
         On("POLYGET", <<"red">>, "null", Any),
         On("POLYDEL", <<"red">>, "int", 0),
         On("POLYMGET", << <<"red", "blue">> >>, "list", << <<"null">>, <<"string", "blue">> >>)>>
    \o DeleteTheIndex
    \o <<On("POLYGET", <<"red">>, "null", Any),
         On("POLYMGET", << <<"red">> >>, "list", << <<"null">> >>),
         On("POLYLIST", <<>>, "set", {})>>

TestPointSearch ==
  CreateTheIndex \o SetUpPolygons
    \o <<On("POINTSEARCH", <<"circle">>, "set", {}),
         On("POINTSEARCH", <<"triangle">>, "set", {"red"}),
         On("POINTSEARCH", <<"square">>, "set", {"red", "yellow"})>>
    \o DeleteTheIndex \o <<On("POINTSEARCH", <<"square">>, "error", Any)>>

TestPolygonSearch ==
  CreateTheIndex \o SetUpPolygons
    \o <<On("POLYSEARCH", <<"red">>, "set", {"red", "yellow", "green"}),
         On("POLYSEARCH", <<"green">>, "set", {"green", "red"}),
         On("POLYSEARCH", <<"blue">>, "set", {"blue"}),
         On("POLYSEARCH", <<"yellow">>, "set", {"yellow", "red"}),
         On("POLYSEARCH", <<"wide">>, "set", TestPolygonNames)>>
    \o [k \in 1..4 |-> On("POLYDEL", <<kPolygonName[k]>>, "int", 1)]
    \o <<On("POLYSEARCH", <<"yellow">>, "set", {})>>
    \o DeleteTheIndex \o <<On("POLYSEARCH", <<"yellow">>, "error", Any)>>

TestCommand == TestIndex \o TestPolygons \o TestPointSearch \o TestPolygonSearch

\* A slip the runs must notice: the index is created last.
PopulateCommandLate == SetUpPolygons \o CreateTheIndex

PopulateCommand == CreateTheIndex \o SetUpPolygons

Calls == IF script = "TEST" THEN TestCommand ELSE PopulateCommand

-----------------------------------------------------------------------------
(* The commands.                                                           *)

Perform(c, args) ==
  LET i == args[1] IN
  \/ c = "ISET" /\ SetIndexCommand(i)
  \/ c = "IGET" /\ GetIndexCommand(i)
  \/ c = "IDEL" /\ DeleteIndexCommand(i)
  \/ c = "POLYSET" /\ SetPolygonCommand(i, args[2], args[3])
  \/ c = "POLYGET" /\ GetPolygonCommand(i, args[2])
  \/ c = "POLYMGET" /\ GetMultiplePolygonsCommand(i, args[2])
  \/ c = "POLYDEL" /\ DeletePolygonCommand(i, args[2])
  \/ c = "POLYLIST" /\ ListPolygonsCommand(i)
  \/ c = "POLYSEARCH" /\ SearchPolygonCommand(i, args[2])
  \/ c = "POINTSEARCH" /\ SearchPointCommand(i, args[2])

HasKeys(d, i) ==
  ~NoSuchIndex(d, i) \/ d.polygons[i] # NoPolygons
    \/ d.cellinfo[i] # NoTerms \/ d.cells[i] # NoMembers

\* KEYS "testindex:*" has no reply.
ValidateTestCondition(d) == ~HasKeys(d, kTestIndexName) /\ ~stray

NoVerdict == <<"none", "none">>

TestInit ==
  /\ Init /\ stray = FALSE
  /\ script = "none" /\ pos = 1 /\ verdict = NoVerdict /\ before = db

Begin(name) ==
  /\ script = "none" /\ script' = name /\ pos' = 1 /\ verdict' = NoVerdict /\ before' = db
  /\ UNCHANGED <<db, reply, stray>>

\* A slip the runs must notice: TEST starts on whatever there is.
StartTestAnyway == Begin("TEST")

StartTest ==
  /\ script = "none"
  /\ \/ ValidateTestCondition(db) /\ Begin("TEST")
     \/ /\ ~ValidateTestCondition(db)
        /\ verdict' = <<"TEST", "could not start the test: stale data detected">>
        /\ UNCHANGED <<db, reply, stray, script, pos, before>>

StartPopulate == Begin("POPULATE")

End(text) == script' = "none" /\ pos' = 1 /\ verdict' = <<script, text>>

ScriptCall ==
  /\ script # "none" /\ pos <= Len(Calls)
  /\ Perform(Calls[pos].cmd, Calls[pos].args)
  /\ \/ Passes(Calls[pos], reply'[3]) /\ pos' = pos + 1 /\ UNCHANGED <<script, verdict>>
     \/ ~Passes(Calls[pos], reply'[3]) /\ End(Calls[pos].cmd)
  /\ UNCHANGED <<stray, before>>

ScriptEnd ==
  /\ script # "none" /\ pos > Len(Calls)
  /\ End(IF script = "POPULATE" \/ ValidateTestCondition(db) THEN "OK"
         ELSE "test failed: orphaned data detected")
  /\ UNCHANGED <<db, reply, stray, before>>

-----------------------------------------------------------------------------
(* Everybody else, between two scripts and never inside one.               *)

Client ==
  /\ script = "none"
  /\ \E r \in ClientRequests : Perform(r[1], r[2])
  /\ verdict' = NoVerdict
  /\ UNCHANGED <<stray, script, pos, before>>

\* SET or DEL of a key "testindex:..." that is none of the index's own.
Stray ==
  /\ script = "none" /\ stray' = ~stray
  /\ verdict' = NoVerdict /\ UNCHANGED <<db, reply, script, pos, before>>

\* DEL testindex:meta leaves the polygons of the index without an index.
DelTestMeta ==
  /\ script = "none" /\ IsIndex(db, kTestIndexName)
  /\ db' = [db EXCEPT !.meta[kTestIndexName] = "none"]
  /\ verdict' = NoVerdict /\ UNCHANGED <<reply, stray, script, pos, before>>

TestNext ==
  \/ StartTest \/ StartPopulate \/ ScriptCall \/ ScriptEnd
  \/ Client \/ Stray \/ DelTestMeta

TestSpec == TestInit /\ [][TestNext]_testVars

-----------------------------------------------------------------------------
(* TEST answers OK or refuses to start, and nothing else, whatever the     *)
(* clients did before, to this index or to others, and whatever was left   *)
(* behind: no assertion of it ever fails in the middle (and so leaves its  *)
(* index behind, which every later TEST would take for stale data), nor    *)
(* the check for orphans.  POPULATE answers OK or fails on its first call, *)
(* which it does only where the index is there.                            *)
NoFalseAlarm ==
  /\ verdict \in {NoVerdict, <<"TEST", "OK">>,
                 <<"TEST", "could not start the test: stale data detected">>,
                 <<"POPULATE", "OK">>, <<"POPULATE", "ISET">>}
  /\ verdict = <<"POPULATE", "ISET">> => ~NoSuchIndex(db, kTestIndexName)

(* TEST leaves every key as it was, of its index and of all others, and so *)
(* does a POPULATE that fails: of two POPULATEs the second does nothing.   *)
NoTrace ==
  [][script # "none" /\ script' = "none" /\ verdict' # <<"POPULATE", "OK">>
     => db' = before]_testVars

(* A POPULATE that answers OK has the four polygons in place, each under   *)
(* the terms of its body and no others, even if it found the remains of an *)
(* index whose meta key was deleted.                                       *)
PopulatedWhole ==
  [][script = "POPULATE" /\ verdict' = <<"POPULATE", "OK">> =>
       \A p \in TestPolygonNames :
         /\ db.polygons[kTestIndexName][p] = p
         /\ \A t \in Terms : p \in db.cells[kTestIndexName][t] <=> t \in IndexPolygon[p]
    ]_testVars
=============================================================================
