# redis-s2geo: verification project

A Redis module that keeps geometry indexes: named sets of polygons, given as
JSON arrays of `[longitude, latitude]` points, searched by a polygon or by a
point. The module turns a polygon into S2 cells, the cells into strings
("terms"), and keeps an inverted index from terms to polygon names in ordinary
Redis hashes and sets. A search is one `SUNION`.

This directory holds a TLA+ model of it, the TLC configurations that check it,
and the proofs of its main properties. Paths below are relative to the
repository (`src/...` is the repository's own `src`).

    tlasany M.tla                              # parse
    tlc -workers 2 -config X.cfg M.tla         # model-check, see "Runs"
    for m in *Proofs.tla; do tlapm $m; done    # check the proofs, see "Proofs"

## 1. Inventory

| Component | Source | State | Operations |
|---|---|---|---|
| Index storage | `src/index.cc`, `index.h` | four families of Redis keys per index: `<i>:meta`, `<i>:polygons`, `<i>:cellinfo:<p>`, `<i>:cells:<t>` | `ValidateEntityName`, `ValidateIndex`, `CreateIndex`, `DeleteIndex`, `ListPolygons`, `Set/Get/DeletePolygonBody`, `GetPolygonBodies`, `SetPolygonCells`, `DeletePolygonCells`, `GetPolygonsInCells` |
| Commands | `src/module.cc` | none of its own: the keyspace, and one reply per command | `ISET IGET IDEL POLYSET POLYGET POLYMGET POLYDEL POLYLIST POLYSEARCH POINTSEARCH` |
| Index terms | `src/geo.cc`, `geo.h` | none (functions) | `GetPolygonCovering`, `IndexPolygon`, `IndexPolygonForOverlapTest`, `IndexPoint` |
| Body parsers | `src/parser.cc`, `parser.h` | a state machine: state, counters, two coordinates, vertices and loops so far | `ParseS2LatLng`, `ParseS2Polygon`, and the wrappers `ParseLatLng`, `ParsePolygon` of `index.cc` (20-44) |
| Self tests in the server | `src/redistest/redistest.cc` | an index of a fixed name | `S2GEO.TEST`, `S2GEO.POPULATE` (`DEBUG` builds) |
| Host | Redis, S2 | keyspace, its images, other clients; coverings | external; modelled as far as the module meets it |
| Unit tests, build files, vendored `redismodule.h` | | | no behaviour of the program |

**How they interact.** A client command enters its handler in `module.cc`. The
handler validates the names, asks `index.cc` whether the index is one, parses
the body (`parser.cc`) and turns it into terms (`geo.cc`), then lets `index.cc`
read and write the keys with `RedisModule_Call`. There are no threads, timers
or callbacks: Redis runs a command to its end before it starts the next, so two
commands never interleave inside a handler. All sharing is through the
keyspace, which the module does not own: any client may `DEL` or `SET` the
same keys, and eviction may take them. The server may die between two calls
of a handler, and what it comes back with is the last image it took.

**What is hard.** Nothing here is hard because of threads. It is hard because
one index lives in four families of keys that only a sequence of commands
brings together, because a handler makes many calls and ignores the replies of
those that write, because `DeleteIndex` can give up half way, because one of the
three places a polygon name goes to is a C string, because the term scheme
works by substrings whose first step (the face) differs from the others, and
because two parsers count to limits. The hazards are listed in `PROJECT.json`
at their lines.

**What makes each component correct.**

- *Storage*: `cells` and `cellinfo` are inverse to each other; a polygon is
  under exactly the terms of its present body; an index that is gone has no
  keys; keys of different things differ. No half of a handler outlives a crash.
- *Commands*: to a caller, an index is a dictionary from names to bodies, and a
  search answers with the entries that overlap the query, as the README says.
- *Terms*: two cells have a string in common exactly when they meet.
- *Parsers*: accept one point on the sphere, or one ring of 4 to `POINT_LIMIT` points
  and nothing else, and return the points that were read. (That is the code's
  grammar; the README's is GeoJSON's, see the end of section 5.)
- *Self tests*: fail only if the module is wrong, and leave nothing behind.

## 2. Modules

| Module | Models | Notes |
|---|---|---|
| `GeoStore` | the README's promise | abstract: existing indexes, their dictionaries, the last answer |
| `GeoIndex` | `index.cc` | one operator on a keyspace record per function, a predicate next to it for its return code |
| `GeoCommands` | `module.cc` | one action per handler, one disjunct per reply; `TypeOK`, `CellsMatchCellInfo`, `StoredUnderItsBody`, `NoOrphans` |
| `GeoRefinement` | - | `GeoCommands` implements `GeoStore` (`KeepsPromise`) |
| `GeoTerms`, `GeoLookup` | `geo.cc` | cells as face and path, strings as sequences of characters; one stored cell against one query cell |
| `GeoSearch` | `module.cc` with `geo.cc` | composes `GeoCommands` and `GeoTerms`; implements `GeoStore` with overlap defined by cells |
| `GeoShared` | `module.cc` among other clients | composes `GeoCommands` with an environment that loses and overwrites keys |
| `GeoCalls` | `module.cc`, `index.cc` and the host | the handlers one Redis call at a time, with crashes, images and restarts; implements `GeoCommands` handler by handler |
| `GeoKeys` | the key builders of `index.cc` | names and keys as strings |
| `GeoSelfTest` | `redistest.cc` | the two scripts as sequences of calls and assertions on top of `GeoCommands` |
| `S2Parser` | `parser.cc` | both parsers as one token-driven machine, one action per `case` |
| `*Proofs` | - | the TLAPS proofs: what the storage functions do (`GeoIndexProofs`), then one module per component, with `GeoTerms` in that of `GeoSearch` |
| `MC*` | - | small instances for TLC |

### State and actions against the code

`db` is the keyspace, a record with a field for each family of keys; an empty
hash or set is an absent key, as in Redis. `meta[i]` is `"none"`, `"index"` or
`"foreign"`; `wrongHash` and `wrongSet` hold the keys that somebody replaced by a
value of another type. `reply` is the answer to the last command with the
command and its arguments; an error carries the handler's text, which keeps
the error paths apart. Each action is a whole handler, from validation to
reply. The order of the calls within a handler is kept where it can be felt:
`POLYSET` sets the body, deletes the old cells, then adds the new ones, and
`DeleteIndex` walks its polygons in the order `HKEYS` happens to give, which is
a free choice of the set that was done (`D`) and the polygon it gave up at (`q`).

`Init` is a Redis into which the module is loaded: it holds no keys of the module,
but the meta keys of some names may hold something else. Those names are `taken`
in `GeoStore`; every command on them is an error.

Names are model values. What of a name matters is kept: whether it is valid
(`BadNames`: the empty string and those with a colon before any NUL byte), and
its C string (`CStr`), since `CreatePolygonCellInfoSetKey` prints it with `%s`
while the hash field and the set member take its whole length. Index names go
through `%s` in all four key builders, so the C string is the index. That the
fields of the record are as separate as keys in Redis is what `GeoKeys` shows:
there a name is a sequence of characters, `CString` is what `%s` and `strchr` see
of it, and `Key` puts the four kinds of keys together.

Bodies, points and terms are model values in `GeoCommands`; the three term
functions are constants. `GeoSearch` instantiates them with those of `GeoTerms`.

`GeoShared` adds a client or a server that deletes or overwrites one key at a time
between commands. What a caller may rely on after that is kept as history: `fresh`
has the terms each polygon was last set under, without those whose cells key was
lost since, and `lost` the other keys that were lost.

`GeoCalls` takes the handlers apart. `at` is the Redis call the handler makes
next (`"idle"` between two commands, `"down"` when the server is dead), `run` the
command with its arguments, and `polygon`, `polygons` and `cells` are the locals of
`DeleteIndex`, `DeletePolygonCells` and `SetPolygonCells` that outlive a call: the
polygon at hand, the names not come to yet, the terms not come to yet. A loop is
one call with a free choice of the next element. `image` is what a restart
would bring back: it is taken between two commands (`Snapshot`), and, since
the calls carry no `!`, only what other clients do is sent on to it. Redis
stops its clock for the time of a command, so that no key expires inside one.
A key of any family may be of a wrong type, and each call has the branch for its
error reply: `HKEYS`, `HMGET` and `SUNION` make the handler answer with an error,
the replies to `HSET`, `HDEL`, `SREM` and `SADD` are not looked at, and all of it is
compared with `GeoCommands`. `DelWrongCellInfo` is `DeletePolygonCells` on a cellinfo key of a wrong type: it
deletes the key and dies of the null pointer that the error reply has in the
place of its first element.

In `GeoSelfTest` a script is the sequence of its calls, each with what the
`ASSERT_*` macro wants of the answer; `ScriptCall` performs one of them by the
action of `GeoCommands` and ends the script at the first failure, with the
command in question in its `verdict`, a pair of the script and what it answered, so
that what only `POPULATE` may answer is not allowed to `TEST`. `ValidateTestCondition` is the
`KEYS testindex:*` before and after. What the test data are is an assumption
of the module: they are well formed (`TestDataAssumption`) and their terms meet as
`test_data.png` has them drawn (`PictureAssumption`).

In `S2Parser` a token is a bracket, a comma (`"comma"` in the model), a number as
`strtod` reads it, or anything else (which covers a failed `strtod`). The
counters, coordinates, vertices and loops are the variables of the C++
functions; `Fail` is `return -i - 1`. `ParseS2LatLng` is the same machine entered
at `POINT_START` and left at `POINT_END`. A vertex is a point, `ToPoint` of latitude
and longitude, and not the pair: `ToPoint` is any function to `S2Points`, so that two
pairs may give one point (two longitudes at a pole), and `Equal` is the `==` of
points, under which those with NaNs (`NaNPoints`) equal none; `strtod` reads
infinities and NaNs behind a sign, and no vertex is checked. Adjacent numbers cannot occur in the code
(`strtod` takes the longest), but nothing accepts them in the model either.

## 3. Runs

All numbers are distinct states.

| Run | States | Shows |
|---|---|---|
| `commands_one_index` | 954 | All handlers and replies on one index: the invariants, and that every command does and answers what `GeoStore` promises. |
| `terms` | 3844 | Every stored cell against every query cell: below the faces a string in common exactly when the cells meet; a face meets only itself. |
| `search_by_geometry` | 4809 | Searches on two indexes answer by the cells of the present bodies, through replacement and deletion in either, when no covering holds a whole face. |
| `shared_keyspace` | 48417 | Among clients that lose and overwrite keys: a search misses only what it could find by a lost cells key alone, what an `ISET` finds under its name was left by a lost key, only the loss of cellinfo strands a polygon, a failed `IDEL` gets further when repeated. |
| `calls` | 407024 | One Redis call at a time, with keys of all families lost and of a wrong type: the calls of a handler make up its command, no half of one outlives a crash, what is stranded by a lost or overwritten cellinfo key is bounded, and every command ends. |
| `keys` | 176400 | Every pair of keys: those of different things differ, and the self test's pattern finds one index. |
| `self_test` | 95850 | `S2GEO.TEST` and `S2GEO.POPULATE` after anything clients did: `TEST` answers OK or refuses to start, no trace, no half-populated index. |
| `parser` | 135160 | Both parsers on every token sequence they look at: what is accepted, what it becomes, where they give up. |
| `face_missed`, `shared_c_string`, `foreign_key`, `lost_cells` | findings | see section 5 |

### Bounds, and why they are enough

- *Commands*: two polygons, since every invariant relates one polygon to one key
  or two polygons to each other; two storable bodies whose term sets overlap
  without one holding the other, so that replacing one by the other both adds,
  removes and keeps a term; a body with an empty covering and one the parser
  rejects for the remaining error paths; one bad name. `MaxNames` (2) bounds the
  names in a `POLYMGET`: enough for a valid next to an invalid name and for a
  repeated name.
- *Terms*: levels 0 to 4 (S2 has 30) with two faces and two children per cell.
  The loops treat every level from 2 on alike, so four levels hold every case:
  face, its child, and differences in depth of zero to three.
- *Search*: two indexes, the least in which one could disturb the other; three
  levels with all four children, two faces, coverings among which there is a
  stored cell above, below, equal to, beside and away from the query. Nothing
  tells one index, or one polygon name, from another, so permuting them
  (`MCSymmetry`) changes no behaviour.
- *Shared keyspace*: `MaxFaults` = 2 lost or overwritten keys in a behaviour; a
  fault of each kind before and after any sequence of commands, and each pair of
  them.
- *Calls*: one index, two polygons, two bodies that share a term, so that a loop
  over cells has one round or two and may meet another polygon's term.
  `MaxFaults` = 1, with any number of crashes, images and restarts before and after.
  `MaxNames` = 1, since `HMGET` is one call whatever it names.
- *Keys*: names of up to two characters over two letters, the delimiter and the
  NUL byte, and those of three over one letter and the delimiter; the suffixes
  are made of the same letters, so that a name can look like any of them. The
  proofs (section 4) are for any names. `Next` stops after a pair of keys,
  hence `CHECK_DEADLOCK FALSE`.
- *Self tests*: the scripts are the code's, with the four test polygons, the
  wide one and the three points as their overlaps are in `test_data.png`; clients
  create, fill and delete the test index and another one, under the test's own
  polygon names and with other bodies under them.
- *Parser*: `POINT_LIMIT` = 5 (64 in the code) is one above the least ring of four
  and is reached and exceeded; `LOOP_LIMIT` = 1 is the code's. Two numbers give
  rings that close and rings that do not; of their four pairs two are one point and
  one is a point with a NaN. `MaxSpaces` = 1 shifts every offset.
  `CHECK_DEADLOCK` is off because the functions return.

### Fairness and liveness

`GeoCalls` assumes `WF_vars(Call)`: a handler that runs makes its next call, unless
the server dies. That is how the main thread of Redis works: it serves nobody
until the handler has returned, and no call waits for anything. Nothing is
asked of clients, of the clock, of the images, or of whoever restarts the
server. Under it `EveryCommandEnds` says that no loop of a handler goes on for
ever.

In the other modules a handler is one step, and no fairness is assumed: whether
a client sends another command is no scheduler's business. What a caller may
count on in the long run is stated as steps there: `FailedDeleteProgress` says
that a failing `IDEL` leaves strictly fewer polygons.

## 4. Proofs

For any constants that satisfy the assumptions below:

| Module | Theorem | Statement |
|---|---|---|
| `GeoCommandsProofs` | `TypeCorrect` | `Spec => []TypeOK` |
| | `InvertedIndexAgrees`* | `Spec => []CellsMatchCellInfo` |
| | `TermsFollowBody`* | `Spec => []StoredUnderItsBody` |
| | `NothingOrphaned`* | `Spec => []NoOrphans` |
| | `PromiseKept`* | `Spec => KeepsPromise`: the commands implement `GeoStore` |
| `GeoSearchProofs` | `PolygonLookupsExact` | `LookupSpec => []PolygonLookupExact` |
| | `PointLookupsExact` | `LookupSpec => []PointLookupExact` |
| | `FacesMeetNoOthers` | `LookupSpec => []FacesMeetOnlyThemselves` |
| | `GeometryDecides`* | `NoWholeFaces` implies `Spec => AnswersByGeometry` |
| `GeoSharedProofs` | `SearchesMissOnlyLostCells` | `SharedSpec => MissesOnlyLostCells` |
| | `LeftoversAreOfLosses`* | `SharedSpec => []LeftoversOnlyByLoss` |
| | `OnlyLossStrands`* | `SharedSpec => []StrandedOnlyByLoss` |
| | `FailedDeletesProgress`* | `SharedSpec => FailedDeleteProgress` |
| `GeoCallsProofs` | `CallsTypeCorrect` | `Spec => []CallsTypeOK` |
| | `HandlersMakeCommands` | `Spec => HandlersAreCommands` |
| | `NothingEverStranded`* | `Spec => []NothingStranded` |
| | `NoHalfCommandEverSurvives`* | `Spec => []NoHalfCommandSurvives` |
| `GeoKeysProofs` | `KeysAlwaysTellApart` | `Spec => []KeysTellApart` |
| | `PatternAlwaysFindsTheIndex` | `Spec => []PatternFindsTheIndex` |
| `GeoSelfTestProofs` | `NoFalseAlarmEver` | `TestSpec => []NoFalseAlarm` |
| | `NoTraceLeft` | `TestSpec => NoTrace` |
| | `PopulatedWholly`* | `TestSpec => PopulatedWhole` |
| `S2ParserProofs` | `AcceptsExactlyTheGrammar`, `ReturnsWhatWasRead`, `GivesUpOnNothing` | `LOOP_LIMIT = 1` implies `Spec => []AcceptsTheGrammar`, `Spec => []ResultIsWhatWasRead`, `Spec => RejectsOnlyTheHopeless` |

\* under the hypothesis `DistinctCStrings`. `GeoIndexProofs` holds the lemmas about
the storage functions that the proofs about commands, calls and self tests share.

**Assumptions**, evaluated by TLC in the runs: `NamesAssumption` (`CStr` maps names
to names; a bad name is no name; in `GeoKeys`, names are strings),
`GeometryAssumption` (the parser accepts some of the bodies, and the term functions
map accepted bodies to sets of terms), `CellAssumption` (there is a level below the
faces, and the two separators are no digits), `CoveringAssumption` (the terms are those
of the coverings), `CharsAssumption` and `SuffixAssumption` (the suffixes differ and
hold no delimiter and no NUL byte), `ParserAssumption` (the limits and the code are
positive, tokens are told apart, `ToPoint` maps pairs to points), and in `GeoSelfTest` `ClientAssumption` (clients send
commands with arguments that exist), `TestDataAssumption` and `PictureAssumption`. The
last is what the authors of the test looked up in the picture: the coverings that S2
makes of the four polygons, of the wide one and of the three points meet just where
the shapes do. It says nothing about what the module does with them.

**Hypotheses**, which are no assumptions because the code does not ensure
them. `DistinctCStrings`: no two polygon names in use agree up to a NUL byte;
without it the properties are false (run `shared_c_string`). `NoWholeFaces`: no
covering holds a face cell (run `face_missed`). `LOOP_LIMIT = 1` is the code's
value; the grammar of `AcceptsTheGrammar` is that of one ring.

**Arguments.**

- *Commands.* One lemma per storage function says what it leaves in each family
  of keys (`SetPolygonBodyFields`, `DeletePolygonCellsFields`, ...); the update
  expressions of `GeoIndex` are opened there and nowhere else. `StepChanges` says
  that a step either leaves the keyspace alone or is one of the five
  compositions a handler makes of them, so that the read-only handlers and the
  error paths are dealt with once. The invariant is `Consistent(db)`, as none of
  the three properties is inductive alone. `CellsMatchCellInfo` is not preserved by
  a `POLYSET` that runs into a cells key of a wrong type, so `Consistent` says that
  there is none. `StoredUnderItsBody` needs `CellsMatchCellInfo`, because what
  `POLYSET` takes out of `cells` is what `cellinfo` names. `NoOrphans` needs both,
  because `DeleteIndex` finds the keys to delete through the list of bodies and
  through `cellinfo`: a term without a body, or a member of `cells` that `cellinfo`
  does not name, would stay. That `DeleteIndex` never gives up follows too
  (`NothingStops`): every listed polygon has cells, since `POLYSET` refuses an empty
  covering.
- *Refinement.* `Consistent` turns what a search reads from `cells` into what
  `GeoStore` says of bodies, and POLYDEL's answer, taken from `cellinfo`, into one
  about the body. For each writing composition a lemma says which meta keys and
  bodies it shows (`Shows`), and one step per handler maps it to the action of
  `GeoStore` with the same answer.
- *Terms.* Each term of a cell is a prefix of its string, bare or with a star.
  Two prefixes of equal length of two cells' strings are equal exactly if the
  paths agree so far, a star is at the end of a term or nowhere, and the
  lengths on either side then say which of the cells is above the other.
- *Search.* `NoWholeFaces` and the exactness of the terms make overlap by terms
  and overlap by cells the same relation, so that the promise of the one is
  the promise of the other and `PromiseKept` carries over.
- *Shared keyspace.* The lemmas of the commands again, without `Consistent`, which
  faults break; `Faults` says what each fault does to each family. `MissesOnlyLostCells`
  rests on the invariant `Reliable`: a polygon that is still owed is in the cells
  keys of the terms it is owed under, unless such a key holds a value at which every
  search stops. It needs no hypothesis about C strings: a `POLYSET` or `POLYDEL` of
  another name with the same C string takes its own name out of the cells, not
  this one's. `LeftoversOnlyByLoss` rests on `Accounted`: a polygons key of a wrong
  type, a body without an index, and cellinfo without a body each go back to a key
  in `lost`. A command adds none of them (`NothingLeft`), not even an `IDEL` that gives
  up, which has deleted bodies and cells of the same polygons by then; what
  sits in a cells key without cellinfo is `StrandedOnlyByLoss`.
- *Calls.* `Progress` says, for each value of `at`, which keyspace the handler has
  made so far of the one it started on (`start`), in terms of the storage functions
  as a whole. In the middle of a loop over cells that is `Taking` or `Putting`:
  everything of `DeletePolygonCells` or `SetPolygonCells` except for the terms not
  come to yet. Each has a lemma for where the loop begins, for one round, and for
  its end, where it is the storage function itself; none of them depends on the
  order. `DeleteIndex` is at a set `D` of polygons deleted so far, all of which had
  cells (`Deletable`). There is one lemma per call, which shows that the call leads
  to the next of these places or to the end of what the command does (`Wrote`), and
  `WroteIsCommand`, `ValidationIsCommand` and `ReadingIsCommand` find the command of
  `GeoCommands` that it is. The invariant is `IInv`, that is `Progress` with the shape
  of the keyspace, of the image and of `start` (`Typed`). It is needed for
  `CallsTypeOK` as well, since what the loops hold in `cells` came from a keyspace in
  the middle of a handler.
  `NothingStranded` is then inductive with the same statement about the image
  (`NoneStranded`): `DEL cellinfo` strands only what `cells` holds, because `Progress`
  has it that `cells` is what `cellinfo` was, and `SADD` strands nothing, because what
  `Putting` adds is in `cellinfo` before. `NoHalfCommandSurvives` rests on `WholeInv`:
  what the running command started on and what a restart brings back are
  `Consistent`. It is inductive because a handler that ends has made one of the
  compositions of `StepChanges` (by `CallProgress`), and because nothing between two
  calls is ever made an image.
- *Self tests.* Inside a script nobody else runs, so that what a call meets is what
  the calls before it left. `Holding(meta, have)` is a state of the test index: its
  meta key, and which of the four polygons it has; `Holds(db, before, m)` says that the
  keyspace is in state `m` at the test index and as `before` everywhere else. For each
  kind of call one lemma says from which state it leads to which, and that its
  answer passes what is asserted of it (`Fits`, `CallFits`). A part of the script is
  then a chain of states that fit (`Runs`), and chains are joined where they end and
  begin, up to the whole script, which goes from `Absent` to `Absent` (`TestRuns`). The
  invariant `TestInv` has the keyspace of `TEST` at the state of this plan (`TestPlan`)
  for the call at hand, and for `POPULATE` the polygons set so far in place. At the end
  of `TEST` the index is absent as it was before, and keyspaces that are equal at
  every key are equal (`AbsentIsSame`), which gives `NoTrace` and passes the check for
  orphans. `POPULATE` may start on remains without a meta key, about which only
  `Sound` is known: no key has a wrong type, and, under `DistinctCStrings`, `cells` and
  `cellinfo` match. That suffices: `POLYSET` takes a polygon out of whatever `cellinfo`
  names before it adds it. `NoFalseAlarm` and `NoTrace` need no hypothesis about C
  strings, because an index without keys shares none.
- *Keys.* A valid name's C string has no delimiter, nor has a suffix, so that a
  key falls apart at its delimiters in one way only.
- *Parser.* `Scanned` says, for each state of the machine, how many tokens were
  read since the first bracket, that each is what the grammar has at its place,
  and where in the vertices and loops the numbers went. Each token extends
  this or ends the parse, and a token that does not fit is at a place where no
  body of the grammar has it.

**Only model-checked**: `EveryCommandEnds`, a liveness property, out of the prover's
reach as `ENABLED` and fairness are. What a recursive definition computes for every
input is out of reach as well; the model has no recursive operator. Every other
property of the passing runs is a theorem.

## 5. Findings

1. **Searches miss polygons at whole faces** (`face_missed`). `ToString` of a face
   cell is `"0/"`, but the substring that stands for the face is `"0"`.
   `IndexPolygon` stores the polygons of the face under `"0*"` (`geo.cc:33`), while a
   query that covers the whole face looks up `"0/*"` (`geo.cc:63`); and a polygon
   that holds the face is stored under `"0/"` (`geo.cc:30`), while points and
   polygons inside look up `"0"` (`geo.cc:57`, `geo.cc:77`). Such queries and
   polygons are huge, but the README sets no limit to a polygon's size.
   `FacesMeetOnlyThemselves` (run `terms`, proved) says how far it goes.
2. **Names that agree up to a NUL byte share a cellinfo key** (`shared_c_string`).
   Deleting one polygon removes the terms of the other; its cells stay behind
   after `POLYDEL` and `IDEL`, which `redistest.cc:381` calls orphaned data.
3. **A key that is not an index is an error** (`foreign_key`). The README promises
   the same neutral answer as for an absent index in `IGET` (line 77), `IDEL` (92),
   `POLYDEL` (169) and `POLYLIST` (187); the handlers answer with an error. The run
   finds one of them; the others are the disjuncts of the same form in `GeoCommands`.
4. **A lost cells key makes a search silently short** (`lost_cells`). `SUNION` reads a
   key that was deleted, expired or evicted as an empty set (`index.cc:283`), and
   nothing compares the answer with the bodies: `POLYSEARCH` leaves out polygons that
   `POLYLIST` still lists, without an error, where the README (line 205) promises the
   "list of polygons in the index overlapping with the provided polygon".
   `MissesOnlyLostCells` (run `shared_keyspace`, proved) says that nothing else is
   missed: a cells key of a wrong type is an error, and the loss of any other key
   takes no polygon out of an answer.

Two more disagreements with the documentation lie on the surface of `parser.cc`. The
model has the code's side of both, and no run is spent on them:

- *Rings need not be closed.* The README (line 104) asks for a polygon as in GeoJSON
  (RFC 7946, 3.1.6), whose rings end with the position they began with and may be
  several. `ParseS2Polygon` accepts any ring of four points and drops the last one
  only where it is the first (`parser.cc:286`); a second ring it refuses, as the unit
  test wants. The grammar of `AcceptsTheGrammar` is the code's own.
- *The point limit has no code.* `ParseS2Polygon` returns `POINT_LIMIT` itself
  (`parser.cc:199`); `PARSE_ERR_POINT_LIMIT` (`parser.h:8`) is returned nowhere. Callers
  only ask whether the code is zero.

## 6. Not modelled, and why

- *Cluster mode*: `RedisModule_Call` answers NULL for keys of another node, and
  what the reply functions then do is a matter of the Redis version. The
  registration flags and key positions in `RedisModule_OnLoad` concern the same.
- *Durability*: writes acknowledged after the last image are gone after a
  restart (`Restart` in `GeoCalls` has it so). The repository promises nothing, so
  no property speaks of it.
- *S2*: the coverings are any normalized set of cells, the validity of a point a
  set of pairs. What S2 makes of a polygon with vertices off the sphere, which
  `ParseS2Polygon` lets through, is not the repository's code.
- *The digits of a number* and the wording of replies.
- *Timeouts, retries, messages*: the module has none.
- *Unit tests, build files, the vendored `redismodule.h`*: no behaviour of the
  program.

## 7. Plan

Done: all modules of section 2, with the proofs of section 4.

Left: what a host in cluster mode answers, once there is a description of it to
model (section 6). Every safety and step property of the passing runs is proved.
