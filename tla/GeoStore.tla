------------------------------ MODULE GeoStore ------------------------------
(***************************************************************************)
(* What the S2GEO commands promise their callers, as the README states it: *)
(* a set of named indexes, each a dictionary from polygon names to polygon *)
(* bodies, and searches that answer with the stored polygons overlapping   *)
(* the query.  Nothing here is about Redis keys, cells or terms: those are *)
(* the business of GeoCommands, which is shown to implement this module.   *)
(*                                                                         *)
(* An answer is <<command, arguments, outcome>>; an outcome is <<"error">> *)
(* (whatever its wording), <<"null">>, <<"ok">>, <<"int", n>>,             *)
(* <<"string", b>>, <<"list", seq>> or <<"set", S>>.                       *)
(***************************************************************************)
EXTENDS Naturals

CONSTANTS
  Indexes,      \* names that can name an index
  Polygons,     \* names that can name a polygon
  BadNames,     \* strings that cannot name anything
  Bodies,       \* polygon bodies a caller may pass
  Points,       \* point bodies a caller may pass
  Storable,     \* the bodies POLYSET accepts
  Queryable,    \* the bodies POLYSEARCH accepts
  PointsOk,     \* the points POINTSEARCH accepts
  Overlaps,     \* pairs <<stored body, query body>> that overlap
  Encloses,     \* pairs <<stored body, point>> with the point in the polygon
  NoBody,       \* "no polygon of that name"
  MaxNames      \* bound: most names in one POLYMGET

VARIABLES
  taken,        \* the names whose key was somebody else's before
  exists,       \* the indexes that exist
  body,         \* body[i][p]: the body of polygon p of index i, or NoBody
  reply         \* the answer to the last command

vars == <<taken, exists, body, reply>>

\* A taken name is no index and never becomes one: every command on it is an
\* error (the README would have the reading commands treat it as absent).
Free == Indexes \ taken

Commands == {"ISET", "IGET", "IDEL", "POLYSET", "POLYGET", "POLYMGET",
             "POLYDEL", "POLYLIST", "POLYSEARCH", "POINTSEARCH"}

NameLists == UNION {[1..n -> Polygons \cup BadNames] : n \in 1..MaxNames}

NoPolygons == [p \in Polygons |-> NoBody]

Answer(cmd, args, out) == reply' = <<cmd, args, out>>

Lookup(i, p) == IF body[i][p] = NoBody THEN <<"null">> ELSE <<"string", body[i][p]>>

Unchanged == UNCHANGED <<exists, body>>

Init ==
  /\ taken \in SUBSET Indexes
  /\ exists = {}
  /\ body = [i \in Indexes |-> NoPolygons]
  /\ reply = <<"none", <<>>, <<"none">>>>

-----------------------------------------------------------------------------
(* The commands that change something.                                     *)

CreateIndex(i) ==
  \/ /\ i \in Free \ exists
     /\ exists' = exists \cup {i}
     /\ Answer("ISET", <<i>>, <<"ok">>)
     /\ UNCHANGED body
  \/ /\ i \notin Free \ exists
     /\ Answer("ISET", <<i>>, <<"error">>)
     /\ Unchanged

DropIndex(i) ==
  \/ /\ i \in exists
     /\ exists' = exists \ {i}
     /\ body' = [body EXCEPT ![i] = NoPolygons]
     /\ Answer("IDEL", <<i>>, <<"int", 1>>)
  \/ /\ i \in Free \ exists
     /\ Answer("IDEL", <<i>>, <<"int", 0>>)
     /\ Unchanged
  \/ /\ i \notin Free
     /\ Answer("IDEL", <<i>>, <<"error">>)
     /\ Unchanged

SetPolygon(i, p, b) ==
  \/ /\ i \in exists /\ p \in Polygons /\ b \in Storable
     /\ body' = [body EXCEPT ![i][p] = b]
     /\ Answer("POLYSET", <<i, p, b>>, <<"int", 1>>)
     /\ UNCHANGED exists
  \/ /\ ~(i \in exists /\ p \in Polygons /\ b \in Storable)
     /\ Answer("POLYSET", <<i, p, b>>, <<"error">>)
     /\ Unchanged

DropPolygon(i, p) ==
  \/ /\ i \in exists /\ p \in Polygons
     /\ body' = [body EXCEPT ![i][p] = NoBody]
     /\ Answer("POLYDEL", <<i, p>>, <<"int", IF body[i][p] = NoBody THEN 0 ELSE 1>>)
     /\ UNCHANGED exists
  \/ /\ i \in Free \ exists /\ p \in Polygons
     /\ Answer("POLYDEL", <<i, p>>, <<"int", 0>>)
     /\ Unchanged
  \/ /\ ~(i \in Free /\ p \in Polygons)
     /\ Answer("POLYDEL", <<i, p>>, <<"error">>)
     /\ Unchanged

-----------------------------------------------------------------------------
(* The commands that only read: each is the outcome it promises.           *)

GetIndexOutcome(i) ==
  IF i \notin Free THEN <<"error">>
  ELSE IF i \in exists THEN <<"ok">> ELSE <<"null">>

GetPolygonOutcome(i, p) ==
  IF ~(i \in Free /\ p \in Polygons) THEN <<"error">>
  ELSE IF i \in exists THEN Lookup(i, p) ELSE <<"null">>

GetPolygonsOutcome(i, ps) ==
  IF ~(i \in Free /\ \A k \in DOMAIN ps : ps[k] \in Polygons) THEN <<"error">>
  ELSE <<"list", [k \in DOMAIN ps |->
                    IF i \in exists THEN Lookup(i, ps[k]) ELSE <<"null">>]>>

ListOutcome(i) ==
  IF i \notin Free THEN <<"error">>
  ELSE <<"set", IF i \in exists THEN {p \in Polygons : body[i][p] # NoBody} ELSE {}>>

SearchPolygonOutcome(i, b) ==
  IF i \in exists /\ b \in Queryable
    THEN <<"set", {p \in Polygons : <<body[i][p], b>> \in Overlaps}>>
    ELSE <<"error">>

SearchPointOutcome(i, pt) ==
  IF i \in exists /\ pt \in PointsOk
    THEN <<"set", {p \in Polygons : <<body[i][p], pt>> \in Encloses}>>
    ELSE <<"error">>

Read(cmd, args, out) == Answer(cmd, args, out) /\ Unchanged

-----------------------------------------------------------------------------
WrongArity == \E cmd \in Commands : Read(cmd, <<>>, <<"error">>)

Command ==
  \/ WrongArity
  \/ \E i \in Indexes \cup BadNames :
       \/ CreateIndex(i)
       \/ DropIndex(i)
       \/ Read("IGET", <<i>>, GetIndexOutcome(i))
       \/ Read("POLYLIST", <<i>>, ListOutcome(i))
       \/ \E b \in Bodies : Read("POLYSEARCH", <<i, b>>, SearchPolygonOutcome(i, b))
       \/ \E pt \in Points : Read("POINTSEARCH", <<i, pt>>, SearchPointOutcome(i, pt))
       \/ \E p \in Polygons \cup BadNames :
            \/ DropPolygon(i, p)
            \/ Read("POLYGET", <<i, p>>, GetPolygonOutcome(i, p))
            \/ \E b \in Bodies : SetPolygon(i, p, b)
       \/ \E ps \in NameLists : Read("POLYMGET", <<i, ps>>, GetPolygonsOutcome(i, ps))

Next == Command /\ UNCHANGED taken

Spec == Init /\ [][Next]_vars
=============================================================================
