---------------------------- MODULE GeoCommands -----------------------------
(***************************************************************************)
(* The S2GEO commands, src/module.cc, on top of the storage layer.  Redis  *)
(* runs a command to its end before it starts another, so each handler is  *)
(* one action: it reads and writes the keyspace db through the operators   *)
(* of GeoIndex and leaves its answer in reply, as <<command, arguments,    *)
(* outcome>>.  An error outcome carries the text the handler sends, which  *)
(* tells its error paths apart.                                            *)
(***************************************************************************)
EXTENDS GeoIndex

CONSTANT MaxNames   \* bound: most polygon names in one POLYMGET

VARIABLES
  db,      \* the keyspace
  reply    \* the answer to the last command

vars == <<db, reply>>

Commands == {"ISET", "IGET", "IDEL", "POLYSET", "POLYGET", "POLYMGET",
             "POLYDEL", "POLYLIST", "POLYSEARCH", "POINTSEARCH"}

NameLists == UNION {[1..n -> Polygons \cup BadNames] : n \in 1..MaxNames}

Answer(cmd, args, out) == reply' = <<cmd, args, out>>

\* A reply that leaves the keyspace alone.
Reply(cmd, args, out) == Answer(cmd, args, out) /\ UNCHANGED db

Refuse(cmd, args, text) == Reply(cmd, args, <<"error", text>>)

\* Every handler starts by validating the names it was given, index first.
RefuseNames(cmd, args, i, P) ==
  \/ ~ValidateEntityName(i) /\ Refuse(cmd, args, "invalid index name")
  \/ /\ ValidateEntityName(i)
     /\ \E p \in P : ~ValidateEntityName(p)
     /\ Refuse(cmd, args, "invalid polygon name")

NamesOk(i, P) == ValidateEntityName(i) /\ \A p \in P : ValidateEntityName(p)

\* Redis when the module is loaded: the meta keys of F hold something else.
LoadedInto(F) ==
  [EmptyKeyspace EXCEPT !.meta = [i \in Indexes |-> IF i \in F THEN "foreign" ELSE "none"]]

Init ==
  /\ \E F \in SUBSET Indexes : db = LoadedInto(F)
  /\ reply = <<"none", <<>>, <<"none">>>>

WrongArity == \E cmd \in Commands : Refuse(cmd, <<>>, "wrong number of arguments")

-----------------------------------------------------------------------------
(* S2GEO.ISET, S2GEO.IGET and S2GEO.IDEL.                                  *)

SetIndexCommand(i) ==
  \/ RefuseNames("ISET", <<i>>, i, {})
  \/ /\ NamesOk(i, {}) /\ ~NoSuchIndex(db, i)
     /\ Refuse("ISET", <<i>>, "index already exists")
  \/ /\ NamesOk(i, {}) /\ NoSuchIndex(db, i)
     /\ db' = CreateIndex(db, i)
     /\ Answer("ISET", <<i>>, <<"ok">>)

GetIndexCommand(i) ==
  \/ RefuseNames("IGET", <<i>>, i, {})
  \/ NamesOk(i, {}) /\ NoSuchIndex(db, i) /\ Reply("IGET", <<i>>, <<"null">>)
  \/ NamesOk(i, {}) /\ InvalidIndex(db, i) /\ Refuse("IGET", <<i>>, "not an index")
  \/ NamesOk(i, {}) /\ IsIndex(db, i) /\ Reply("IGET", <<i>>, <<"ok">>)

DeleteIndexCommand(i) ==
  \/ RefuseNames("IDEL", <<i>>, i, {})
  \/ NamesOk(i, {}) /\ NoSuchIndex(db, i) /\ Reply("IDEL", <<i>>, <<"int", 0>>)
  \/ NamesOk(i, {}) /\ InvalidIndex(db, i) /\ Refuse("IDEL", <<i>>, "not an index")
  \/ /\ NamesOk(i, {}) /\ IsIndex(db, i)
     /\ \/ /\ ListFails(db, i)
           /\ Refuse("IDEL", <<i>>, "failed to delete the index")
        \/ /\ ~ListFails(db, i)
           /\ \E D \in SUBSET ListPolygons(db, i), q \in ListPolygons(db, i) :
                /\ StopsAt(db, i, D, q)
                /\ db' = DeleteIndexStopped(db, i, D, q)
           /\ Answer("IDEL", <<i>>, <<"error", "failed to delete the index">>)
        \/ /\ ~ListFails(db, i)
           /\ Deletable(db, i, ListPolygons(db, i))
           /\ db' = DeleteIndex(db, i)
           /\ Answer("IDEL", <<i>>, <<"int", 1>>)

-----------------------------------------------------------------------------
(* S2GEO.POLYSET and S2GEO.POLYDEL.  POLYSET overwrites the body, takes    *)
(* the polygon out of the cells it was stored under and puts it under its  *)
(* new ones.  POLYDEL answers by whether there were cells, not by whether  *)
(* there was a body.                                                       *)

\* A slip the runs must notice: the cells of the body replaced are kept.
SetPolygonCommandAdding(i, p, b) ==
  /\ NamesOk(i, {p}) /\ IsIndex(db, i) /\ b \in ValidBodies /\ IndexPolygon[b] # {}
  /\ db' = SetPolygonCells(SetPolygonBody(db, i, p, b), i, p, IndexPolygon[b])
  /\ Answer("POLYSET", <<i, p, b>>, <<"int", 1>>)

SetPolygonCommand(i, p, b) ==
  LET args == <<i, p, b>> IN
  \/ RefuseNames("POLYSET", args, i, {p})
  \/ NamesOk(i, {p}) /\ ~IsIndex(db, i) /\ Refuse("POLYSET", args, "invalid index")
  \/ /\ NamesOk(i, {p}) /\ IsIndex(db, i) /\ b \notin ValidBodies
     /\ Refuse("POLYSET", args, "invalid polygon")
  \/ /\ NamesOk(i, {p}) /\ IsIndex(db, i) /\ b \in ValidBodies
     /\ IndexPolygon[b] = {}
     /\ Refuse("POLYSET", args, "empty cell union for a given polygon")
  \/ /\ NamesOk(i, {p}) /\ IsIndex(db, i) /\ b \in ValidBodies
     /\ IndexPolygon[b] # {}
     /\ db' = LET d1 == SetPolygonBody(db, i, p, b)
                  d2 == DeletePolygonCells(d1, i, {p})
              IN SetPolygonCells(d2, i, p, IndexPolygon[b])
     /\ Answer("POLYSET", args, <<"int", 1>>)

\* A slip the runs must notice: the cells of the polygon are kept.
DeletePolygonCommandBody(i, p) ==
  /\ NamesOk(i, {p}) /\ IsIndex(db, i)
  /\ db' = DeletePolygonBody(db, i, {p})
  /\ Answer("POLYDEL", <<i, p>>, <<"int", IF HasCells(db, i, p) THEN 1 ELSE 0>>)

DeletePolygonCommand(i, p) ==
  LET args == <<i, p>> IN
  \/ RefuseNames("POLYDEL", args, i, {p})
  \/ NamesOk(i, {p}) /\ NoSuchIndex(db, i) /\ Reply("POLYDEL", args, <<"int", 0>>)
  \/ NamesOk(i, {p}) /\ InvalidIndex(db, i) /\ Refuse("POLYDEL", args, "invalid index")
  \/ /\ NamesOk(i, {p}) /\ IsIndex(db, i)
     /\ db' = DeletePolygonCells(DeletePolygonBody(db, i, {p}), i, {p})
     /\ Answer("POLYDEL", args, <<"int", IF HasCells(db, i, p) THEN 1 ELSE 0>>)

-----------------------------------------------------------------------------
(* S2GEO.POLYGET, S2GEO.POLYMGET and S2GEO.POLYLIST.                       *)

GetPolygonCommand(i, p) ==
  LET args == <<i, p>> IN
  \/ RefuseNames("POLYGET", args, i, {p})
  \/ NamesOk(i, {p}) /\ NoSuchIndex(db, i) /\ Reply("POLYGET", args, <<"null">>)
  \/ NamesOk(i, {p}) /\ InvalidIndex(db, i) /\ Refuse("POLYGET", args, "invalid index")
  \/ /\ NamesOk(i, {p}) /\ IsIndex(db, i)
     /\ Reply("POLYGET", args, GetPolygonBody(db, i, p))

GetMultiplePolygonsCommand(i, ps) ==
  LET args == <<i, ps>>
      P == {ps[k] : k \in DOMAIN ps}
  IN
  \/ RefuseNames("POLYMGET", args, i, P)
  \/ /\ NamesOk(i, P) /\ NoSuchIndex(db, i)
     /\ Reply("POLYMGET", args, <<"list", [k \in DOMAIN ps |-> <<"null">>]>>)
  \/ NamesOk(i, P) /\ InvalidIndex(db, i) /\ Refuse("POLYMGET", args, "invalid index")
  \/ /\ NamesOk(i, P) /\ IsIndex(db, i)
     /\ \/ ListFails(db, i) /\ Refuse("POLYMGET", args, "invalid polygon")
        \/ /\ ~ListFails(db, i)
           /\ Reply("POLYMGET", args, <<"list", GetPolygonBodies(db, i, ps)>>)

ListPolygonsCommand(i) ==
  \/ RefuseNames("POLYLIST", <<i>>, i, {})
  \/ NamesOk(i, {}) /\ NoSuchIndex(db, i) /\ Reply("POLYLIST", <<i>>, <<"set", {}>>)
  \/ NamesOk(i, {}) /\ InvalidIndex(db, i) /\ Refuse("POLYLIST", <<i>>, "invalid index")
  \/ /\ NamesOk(i, {}) /\ IsIndex(db, i)
     /\ \/ ListFails(db, i) /\ Refuse("POLYLIST", <<i>>, "error while fetching polygons")
        \/ /\ ~ListFails(db, i)
           /\ Reply("POLYLIST", <<i>>, <<"set", ListPolygons(db, i)>>)

-----------------------------------------------------------------------------
(* S2GEO.POLYSEARCH and S2GEO.POINTSEARCH: one SUNION over the cells keys  *)
(* of the query's terms, which fails if any of them has the wrong type.    *)

SearchCells(cmd, args, i, T) ==
  \/ /\ SearchFails(db, i, T)
     /\ Refuse(cmd, args, "error while fetching polygons")
  \/ /\ ~SearchFails(db, i, T)
     /\ Reply(cmd, args, <<"set", GetPolygonsInCells(db, i, T)>>)

SearchPolygonCommand(i, b) ==
  LET args == <<i, b>> IN
  \/ RefuseNames("POLYSEARCH", args, i, {})
  \/ NamesOk(i, {}) /\ ~IsIndex(db, i) /\ Refuse("POLYSEARCH", args, "invalid index")
  \/ /\ NamesOk(i, {}) /\ IsIndex(db, i) /\ b \notin ValidBodies
     /\ Refuse("POLYSEARCH", args, "invalid polygon")
  \/ /\ NamesOk(i, {}) /\ IsIndex(db, i) /\ b \in ValidBodies
     /\ IndexPolygonForOverlapTest[b] = {}
     /\ Refuse("POLYSEARCH", args, "empty cell union for a given polygon")
  \/ /\ NamesOk(i, {}) /\ IsIndex(db, i) /\ b \in ValidBodies
     /\ IndexPolygonForOverlapTest[b] # {}
     /\ SearchCells("POLYSEARCH", args, i, IndexPolygonForOverlapTest[b])

SearchPointCommand(i, pt) ==
  LET args == <<i, pt>> IN
  \/ RefuseNames("POINTSEARCH", args, i, {})
  \/ NamesOk(i, {}) /\ ~IsIndex(db, i) /\ Refuse("POINTSEARCH", args, "invalid index")
  \/ /\ NamesOk(i, {}) /\ IsIndex(db, i) /\ pt \notin ValidPoints
     /\ Refuse("POINTSEARCH", args, "invalid point")
  \/ /\ NamesOk(i, {}) /\ IsIndex(db, i) /\ pt \in ValidPoints
     /\ SearchCells("POINTSEARCH", args, i, IndexPoint[pt])

-----------------------------------------------------------------------------
Next ==
  \/ WrongArity
  \/ \E i \in Indexes \cup BadNames :
       \/ SetIndexCommand(i)
       \/ GetIndexCommand(i)
       \/ DeleteIndexCommand(i)
       \/ ListPolygonsCommand(i)
       \/ \E b \in Bodies : SearchPolygonCommand(i, b)
       \/ \E pt \in Points : SearchPointCommand(i, pt)
       \/ \E ps \in NameLists : GetMultiplePolygonsCommand(i, ps)
       \/ \E p \in Polygons \cup BadNames :
            \/ GetPolygonCommand(i, p)
            \/ DeletePolygonCommand(i, p)
            \/ \E b \in Bodies : SetPolygonCommand(i, p, b)

Spec == Init /\ [][Next]_vars

-----------------------------------------------------------------------------
(* What keeps the four families of keys one index.                         *)

(* Every key family has the shape of a Redis hash or set, and a key whose  *)
(* value is of another type holds none of the index's data.                *)
TypeOK ==
  /\ db \in Keyspaces
  /\ \A i \in db.wrongHash : db.polygons[i] = NoPolygons
  /\ \A it \in db.wrongSet : db.cells[it[1]][it[2]] = {}
  /\ reply[1] \in Commands \cup {"none"}

(* The two halves of the inverted index agree: a polygon is a member of a  *)
(* cell's set exactly when its cellinfo names that cell.  POLYSET must     *)
(* have taken the polygon out of every cell of the body it replaces, and   *)
(* SetPolygonCells must have filled both halves.                           *)
CellsMatchCellInfo ==
  \A i \in Indexes, p \in Polygons, t \in Terms :
    p \in db.cells[i][t] <=> t \in db.cellinfo[i][CStr[p]]

(* A polygon is stored under the terms of the body POLYGET returns for it, *)
(* all of them and no others, and a name without a body under none.        *)
StoredUnderItsBody ==
  \A i \in Indexes, p \in Polygons :
    IF db.polygons[i][p] = NoBody
      THEN db.cellinfo[i][CStr[p]] = {}
      ELSE /\ db.polygons[i][p] \in ValidBodies
           /\ db.cellinfo[i][CStr[p]] = IndexPolygon[db.polygons[i][p]]
           /\ db.cellinfo[i][CStr[p]] # {}

(* A name that is not an index owns no key: IDEL leaves nothing behind,    *)
(* whatever POLYSETs and POLYDELs came before it ("orphaned data           *)
(* detected" in the redistest is what a violation looks like), so that a   *)
(* later ISET of the same name starts empty.                               *)
NoOrphans ==
  \A i \in Indexes : ~IsIndex(db, i) =>
    /\ db.polygons[i] = NoPolygons
    /\ db.cellinfo[i] = NoTerms
    /\ db.cells[i] = NoMembers
=============================================================================
