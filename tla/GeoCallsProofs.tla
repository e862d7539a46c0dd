--------------------------- MODULE GeoCallsProofs ---------------------------
(***************************************************************************)
(* The handlers one Redis call at a time, for any number of indexes,       *)
(* polygons, bodies and terms and any number of faults and crashes.  The   *)
(* invariant says of every call what the handler has made of the keyspace  *)
(* it started on, in terms of the storage functions as a whole.            *)
(***************************************************************************)
EXTENDS GeoCalls, GeoIndexProofs

-----------------------------------------------------------------------------
(* What one call does to the keyspace, and what a loop of calls has done   *)
(* when the terms of S are still to come.                                  *)

\* d while p is taken out of its cells.
Taking(d, i, p, S) ==
  [d EXCEPT
    !.cellinfo[i][CStr[p]] = {},
    !.cells[i] = [t \in Terms |-> IF t \in d.cellinfo[i][CStr[p]] \ S
                                    THEN @[t] \ {p} ELSE @[t]]]

\* The terms of T whose cells key SADD can add to.
Takers(d, i, T) == {t \in T : <<i, t>> \notin d.wrongSet}

\* d while p is put under the terms of T.
Putting(d, i, p, T, S) ==
  [d EXCEPT
    !.cellinfo[i][CStr[p]] = @ \cup T,
    !.cells[i] = [t \in Terms |-> IF t \in Takers(d, i, T \ S)
                                    THEN @[t] \cup {p} ELSE @[t]]]

\* e is d with T for the cellinfo key c of i, and with p taken out of the
\* cells keys of Gone and put in those of Come.
Moved(d, e, i, c, T, p, Gone, Come) ==
  /\ e \in Keyspaces /\ SameBut(d, e, {"cellinfo", "cells"})
  /\ \A j \in Indexes, k \in CNames :
       e.cellinfo[j][k] = IF j = i /\ k = c THEN T ELSE d.cellinfo[j][k]
  /\ \A j \in Indexes, t \in Terms, q \in Polygons :
       q \in e.cells[j][t] <=>
         \/ j = i /\ q = p /\ t \in Come
         \/ q \in d.cells[j][t] /\ ~(j = i /\ q = p /\ t \in Gone)

LEMMA CellInfoFields ==
  ASSUME NEW d \in Keyspaces, NEW i \in Indexes, NEW c \in CNames, NEW T \in SUBSET Terms,
         NEW p
  PROVE  Moved(d, [d EXCEPT !.cellinfo[i][c] = T], i, c, T, p, {}, {})
<1> DEFINE g == [d.cellinfo[i] EXCEPT ![c] = T]
           e == [d EXCEPT !.cellinfo[i][c] = T]
<1>1. g \in [CNames -> SUBSET Terms]
  BY DEF Keyspaces
<1>2. e = [d EXCEPT !.cellinfo = [d.cellinfo EXCEPT ![i] = g]]
  BY DEF Keyspaces
<1>3. /\ e \in Keyspaces /\ SameBut(d, e, {"cellinfo", "cells"}) /\ e.cells = d.cells
      /\ e.cellinfo = [d.cellinfo EXCEPT ![i] = g]
  <2> HIDE DEF g, e
  <2> QED BY <1>1, <1>2 DEF Keyspaces, SameBut
<1>4. ASSUME NEW j \in Indexes, NEW k \in CNames
      PROVE  e.cellinfo[j][k] = IF j = i /\ k = c THEN T ELSE d.cellinfo[j][k]
  <2>1. g[k] = IF k = c THEN T ELSE d.cellinfo[i][k]
    BY DEF Keyspaces
  <2> HIDE DEF g, e
  <2> QED BY <1>3, <2>1 DEF Keyspaces
<1>5. ASSUME NEW j \in Indexes, NEW t \in Terms, NEW q \in Polygons
      PROVE  q \in e.cells[j][t] <=>
               \/ j = i /\ q = p /\ t \in {}
               \/ q \in d.cells[j][t] /\ ~(j = i /\ q = p /\ t \in {})
  <2> HIDE DEF g, e
  <2> QED BY <1>3
<1>6. Moved(d, e, i, c, T, p, {}, {})
  <2> HIDE DEF g, e
  <2> QED BY <1>3, <1>4, <1>5, Zenon DEF Moved
<1> QED BY <1>6

\* e is d with M for the cells key t of i.
CellWritten(d, e, i, t, M) ==
  /\ e \in Keyspaces /\ SameBut(d, e, {"cellinfo", "cells"}) /\ e.cellinfo = d.cellinfo
  /\ \A j \in Indexes, u \in Terms :
       e.cells[j][u] = IF j = i /\ u = t THEN M ELSE d.cells[j][u]

LEMMA CellWrittenFields ==
  ASSUME NEW d \in Keyspaces, NEW i \in Indexes, NEW t \in Terms, NEW M \in SUBSET Polygons
  PROVE  CellWritten(d, [d EXCEPT !.cells[i][t] = M], i, t, M)
<1>1. PICK e : e = [d EXCEPT !.cells[i][t] = M]
  OBVIOUS
<1>2. PICK g : g = [d.cells[i] EXCEPT ![t] = M]
  OBVIOUS
<1>3. g \in [Terms -> SUBSET Polygons]
  BY <1>2 DEF Keyspaces
<1>4. e = [d EXCEPT !.cells = [d.cells EXCEPT ![i] = g]]
  BY <1>1, <1>2 DEF Keyspaces
<1>5. /\ e \in Keyspaces /\ SameBut(d, e, {"cellinfo", "cells"})
      /\ e.cellinfo = d.cellinfo /\ e.cells = [d.cells EXCEPT ![i] = g]
  BY <1>3, <1>4 DEF Keyspaces, SameBut
<1>6. \A u \in Terms : g[u] = IF u = t THEN M ELSE d.cells[i][u]
  BY <1>2 DEF Keyspaces
<1>7. CellWritten(d, e, i, t, M)
  BY <1>5, <1>6 DEF Keyspaces, CellWritten
<1> QED BY <1>1, <1>7

LEMMA CellFields ==
  ASSUME NEW d \in Keyspaces, NEW i \in Indexes, NEW t \in Terms, NEW p \in Polygons,
         NEW c \in CNames
  PROVE  /\ Moved(d, [d EXCEPT !.cells[i][t] = @ \ {p}], i, c, d.cellinfo[i][c], p, {t}, {})
         /\ Moved(d, [d EXCEPT !.cells[i][t] = @ \cup {p}], i, c, d.cellinfo[i][c], p, {}, {t})
<1>2. d.cells[i][t] \in SUBSET Polygons
  BY DEF Keyspaces
<1>3. d.cells[i][t] \ {p} \in SUBSET Polygons /\ d.cells[i][t] \cup {p} \in SUBSET Polygons
  BY <1>2
<1>4. Moved(d, [d EXCEPT !.cells[i][t] = @ \ {p}], i, c, d.cellinfo[i][c], p, {t}, {})
  <2>0. PICK M \in SUBSET Polygons : M = d.cells[i][t] \ {p}
    BY <1>3
  <2>1. PICK e : e = [d EXCEPT !.cells[i][t] = M]
    OBVIOUS
  <2>2. CellWritten(d, e, i, t, M)
    BY <2>1, CellWrittenFields
  <2>3. ASSUME NEW j \in Indexes, NEW u \in Terms, NEW q \in Polygons
        PROVE  q \in e.cells[j][u] <=>
                 \/ j = i /\ q = p /\ u \in {}
                 \/ q \in d.cells[j][u] /\ ~(j = i /\ q = p /\ u \in {t})
    BY <2>0, <2>2 DEF CellWritten
  <2>4. \A j \in Indexes, k \in CNames :
          e.cellinfo[j][k] = IF j = i /\ k = c THEN d.cellinfo[i][c] ELSE d.cellinfo[j][k]
    BY <2>2 DEF CellWritten
  <2>5. Moved(d, e, i, c, d.cellinfo[i][c], p, {t}, {})
    BY <2>2, <2>3, <2>4, Zenon DEF CellWritten, Moved
  <2> QED BY <2>0, <2>1, <2>5
<1>5. Moved(d, [d EXCEPT !.cells[i][t] = @ \cup {p}], i, c, d.cellinfo[i][c], p, {}, {t})
  <2>0. PICK M \in SUBSET Polygons : M = d.cells[i][t] \cup {p}
    BY <1>3
  <2>1. PICK e : e = [d EXCEPT !.cells[i][t] = M]
    OBVIOUS
  <2>2. CellWritten(d, e, i, t, M)
    BY <2>1, CellWrittenFields
  <2>3. ASSUME NEW j \in Indexes, NEW u \in Terms, NEW q \in Polygons
        PROVE  q \in e.cells[j][u] <=>
                 \/ j = i /\ q = p /\ u \in {t}
                 \/ q \in d.cells[j][u] /\ ~(j = i /\ q = p /\ u \in {})
    BY <2>0, <2>2 DEF CellWritten
  <2>4. \A j \in Indexes, k \in CNames :
          e.cellinfo[j][k] = IF j = i /\ k = c THEN d.cellinfo[i][c] ELSE d.cellinfo[j][k]
    BY <2>2 DEF CellWritten
  <2>5. Moved(d, e, i, c, d.cellinfo[i][c], p, {}, {t})
    BY <2>2, <2>3, <2>4, Zenon DEF CellWritten, Moved
  <2> QED BY <2>0, <2>1, <2>5
<1> QED BY <1>4, <1>5

LEMMA SameMoves ==
  ASSUME NEW d \in Keyspaces, NEW e, NEW f, NEW i, NEW c, NEW T, NEW p, NEW G, NEW C,
         Moved(d, e, i, c, T, p, G, C), Moved(d, f, i, c, T, p, G, C)
  PROVE  e = f
<1>1. \A j \in Indexes, t \in Terms, q \in Polygons : q \in e.cells[j][t] <=> q \in f.cells[j][t]
  BY DEF Moved
<1>2. \A j \in Indexes, k \in CNames : e.cellinfo[j][k] = f.cellinfo[j][k]
  BY DEF Moved
<1>3. Alike(e, f)
  BY <1>1, <1>2 DEF Alike, Moved, SameBut
<1> QED BY <1>3, AlikeIsEqual

LEMMA MovesCompose ==
  ASSUME NEW d \in Keyspaces, NEW e, NEW f, NEW i, NEW c, NEW T, NEW p, NEW G, NEW C,
         NEW H, NEW D, Moved(d, e, i, c, T, p, G, C), Moved(e, f, i, c, T, p, H, D),
         C \cap H = {}
  PROVE  Moved(d, f, i, c, T, p, G \cup H, C \cup D)
<1>1. f \in Keyspaces /\ SameBut(d, f, {"cellinfo", "cells"})
  BY DEF Moved, SameBut
<1>2. \A j \in Indexes, k \in CNames :
        f.cellinfo[j][k] = IF j = i /\ k = c THEN T ELSE d.cellinfo[j][k]
  BY DEF Moved
<1>3. ASSUME NEW j \in Indexes, NEW t \in Terms, NEW q \in Polygons
      PROVE  q \in f.cells[j][t] <=>
               \/ j = i /\ q = p /\ t \in C \cup D
               \/ q \in d.cells[j][t] /\ ~(j = i /\ q = p /\ t \in G \cup H)
  <2>1. q \in e.cells[j][t] <=>
          \/ j = i /\ q = p /\ t \in C
          \/ q \in d.cells[j][t] /\ ~(j = i /\ q = p /\ t \in G)
    BY DEF Moved
  <2>2. q \in f.cells[j][t] <=>
          \/ j = i /\ q = p /\ t \in D
          \/ q \in e.cells[j][t] /\ ~(j = i /\ q = p /\ t \in H)
    BY DEF Moved
  <2> QED BY <2>1, <2>2
<1> QED BY <1>1, <1>2, <1>3, Zenon DEF Moved

LEMMA TakingFields ==
  ASSUME NEW d \in Keyspaces, NEW i \in Indexes, NEW p \in Polygons, NEW S
  PROVE  Moved(d, Taking(d, i, p, S), i, CStr[p], {}, p, d.cellinfo[i][CStr[p]] \ S, {})
<1> DEFINE G == d.cellinfo[i][CStr[p]] \ S
           f == [t \in Terms |-> IF t \in G THEN d.cells[i][t] \ {p} ELSE d.cells[i][t]]
           g == [d.cellinfo[i] EXCEPT ![CStr[p]] = {}]
           e == Taking(d, i, p, S)
<1>1. CStr[p] \in CNames
  BY DEF CNames
<1>2. f \in [Terms -> SUBSET Polygons] /\ g \in [CNames -> SUBSET Terms]
  <2>1. d.cells[i] \in [Terms -> SUBSET Polygons] /\ d.cellinfo[i] \in [CNames -> SUBSET Terms]
    BY DEF Keyspaces
  <2> QED BY <1>1, <2>1
<1>3. e = [d EXCEPT !.cellinfo = [d.cellinfo EXCEPT ![i] = g],
                    !.cells = [d.cells EXCEPT ![i] = f]]
  BY DEF Taking, Keyspaces
<1>4. /\ e \in Keyspaces /\ SameBut(d, e, {"cellinfo", "cells"})
      /\ e.cellinfo = [d.cellinfo EXCEPT ![i] = g]
      /\ e.cells = [d.cells EXCEPT ![i] = f]
  <2> HIDE DEF f, g, e
  <2> QED BY <1>2, <1>3 DEF Keyspaces, SameBut
<1>5. ASSUME NEW j \in Indexes, NEW k \in CNames
      PROVE  e.cellinfo[j][k] = IF j = i /\ k = CStr[p] THEN {} ELSE d.cellinfo[j][k]
  <2>1. g[k] = IF k = CStr[p] THEN {} ELSE d.cellinfo[i][k]
    BY <1>1 DEF Keyspaces
  <2>2. e.cellinfo[j] = IF j = i THEN g ELSE d.cellinfo[j]
    <3> HIDE DEF e, f, g
    <3> QED BY <1>4 DEF Keyspaces
  <2> HIDE DEF e, f, g
  <2> QED BY <2>1, <2>2
<1>6. ASSUME NEW j \in Indexes, NEW t \in Terms, NEW q \in Polygons
      PROVE  q \in e.cells[j][t] <=>
               \/ j = i /\ q = p /\ t \in {}
               \/ q \in d.cells[j][t] /\ ~(j = i /\ q = p /\ t \in G)
  <2>1. f[t] = IF t \in G THEN d.cells[i][t] \ {p} ELSE d.cells[i][t]
    OBVIOUS
  <2>2. e.cells[j] = IF j = i THEN f ELSE d.cells[j]
    <3> HIDE DEF e, f, g
    <3> QED BY <1>4 DEF Keyspaces
  <2> HIDE DEF e, f, g, G
  <2> QED BY <2>1, <2>2
<1>7. Moved(d, e, i, CStr[p], {}, p, G, {})
  <2> HIDE DEF e, f, g, G
  <2> QED BY <1>4, <1>5, <1>6, Zenon DEF Moved
<1> QED BY <1>7

LEMMA PuttingFields ==
  ASSUME NEW d \in Keyspaces, NEW i \in Indexes, NEW p \in Polygons,
         NEW T \in SUBSET Terms, NEW S
  PROVE  Moved(d, Putting(d, i, p, T, S), i, CStr[p], d.cellinfo[i][CStr[p]] \cup T,
               p, {}, Takers(d, i, T \ S))
<1> DEFINE C == Takers(d, i, T \ S)
           U == d.cellinfo[i][CStr[p]] \cup T
           f == [t \in Terms |-> IF t \in C THEN d.cells[i][t] \cup {p} ELSE d.cells[i][t]]
           g == [d.cellinfo[i] EXCEPT ![CStr[p]] = U]
           e == Putting(d, i, p, T, S)
<1>1. CStr[p] \in CNames
  BY DEF CNames
<1>2. f \in [Terms -> SUBSET Polygons] /\ g \in [CNames -> SUBSET Terms]
  <2>1. d.cells[i] \in [Terms -> SUBSET Polygons] /\ d.cellinfo[i] \in [CNames -> SUBSET Terms]
    BY DEF Keyspaces
  <2>2. f \in [Terms -> SUBSET Polygons]
    BY <2>1
  <2>3. U \in SUBSET Terms
    BY <1>1, <2>1
  <2>4. g \in [CNames -> SUBSET Terms]
    <3> HIDE DEF U
    <3> QED BY <1>1, <2>1, <2>3
  <2> QED BY <2>2, <2>4
<1>3. e = [d EXCEPT !.cellinfo = [d.cellinfo EXCEPT ![i] = g],
                    !.cells = [d.cells EXCEPT ![i] = f]]
  BY DEF Putting, Keyspaces
<1>4. /\ e \in Keyspaces /\ SameBut(d, e, {"cellinfo", "cells"})
      /\ e.cellinfo = [d.cellinfo EXCEPT ![i] = g]
      /\ e.cells = [d.cells EXCEPT ![i] = f]
  <2> HIDE DEF f, g, e
  <2> QED BY <1>2, <1>3 DEF Keyspaces, SameBut
<1>5. ASSUME NEW j \in Indexes, NEW k \in CNames
      PROVE  e.cellinfo[j][k] = IF j = i /\ k = CStr[p] THEN U ELSE d.cellinfo[j][k]
  <2>1. g[k] = IF k = CStr[p] THEN U ELSE d.cellinfo[i][k]
    BY <1>1 DEF Keyspaces
  <2>2. e.cellinfo[j] = IF j = i THEN g ELSE d.cellinfo[j]
    <3> HIDE DEF e, f, g
    <3> QED BY <1>4 DEF Keyspaces
  <2> HIDE DEF e, f, g, U
  <2> QED BY <2>1, <2>2
<1>6. ASSUME NEW j \in Indexes, NEW t \in Terms, NEW q \in Polygons
      PROVE  q \in e.cells[j][t] <=>
               \/ j = i /\ q = p /\ t \in C
               \/ q \in d.cells[j][t] /\ ~(j = i /\ q = p /\ t \in {})
  <2>1. f[t] = IF t \in C THEN d.cells[i][t] \cup {p} ELSE d.cells[i][t]
    OBVIOUS
  <2>2. e.cells[j] = IF j = i THEN f ELSE d.cells[j]
    <3> HIDE DEF e, f, g
    <3> QED BY <1>4 DEF Keyspaces
  <2> HIDE DEF e, f, g, C
  <2> QED BY <2>1, <2>2
<1>7. Moved(d, e, i, CStr[p], U, p, {}, C)
  <2> HIDE DEF e, f, g, C, U
  <2> QED BY <1>4, <1>5, <1>6, Zenon DEF Moved
<1> QED BY <1>7

\* DeletePolygonCells of one polygon: DEL cellinfo, then SREM for every cell.
LEMMA TakingBegins ==
  ASSUME NEW d \in Keyspaces, NEW i \in Indexes, NEW p \in Polygons
  PROVE  [d EXCEPT !.cellinfo[i][CStr[p]] = {}] = Taking(d, i, p, d.cellinfo[i][CStr[p]])
<1>1. PICK S : S = d.cellinfo[i][CStr[p]]
  OBVIOUS
<1>2. PICK e : e = [d EXCEPT !.cellinfo[i][CStr[p]] = {}]
  OBVIOUS
<1>3. CStr[p] \in CNames
  BY DEF CNames
<1>4. Moved(d, e, i, CStr[p], {}, p, {}, {})
  BY <1>2, <1>3, CellInfoFields
<1>5. Moved(d, Taking(d, i, p, S), i, CStr[p], {}, p, {}, {})
  <2>1. S \ S = {}
    OBVIOUS
  <2> QED BY <1>1, <2>1, TakingFields
<1> QED BY <1>1, <1>2, <1>4, <1>5, SameMoves

LEMMA TakingGoesOn ==
  ASSUME NEW d \in Keyspaces, NEW i \in Indexes, NEW p \in Polygons,
         NEW S \in SUBSET d.cellinfo[i][CStr[p]], NEW t \in S, NEW e,
         e = Taking(d, i, p, S)
  PROVE  [e EXCEPT !.cells[i][t] = @ \ {p}] = Taking(d, i, p, S \ {t})
<1>1. PICK F : F = d.cellinfo[i][CStr[p]]
  OBVIOUS
<1>2. PICK f : f = [e EXCEPT !.cells[i][t] = @ \ {p}]
  OBVIOUS
<1>3. CStr[p] \in CNames
  BY DEF CNames
<1>4. t \in Terms
  BY <1>3 DEF Keyspaces
<1>5. Moved(d, e, i, CStr[p], {}, p, F \ S, {})
  BY <1>1, TakingFields
<1>6. e \in Keyspaces /\ e.cellinfo[i][CStr[p]] = {}
  BY <1>3, <1>5 DEF Moved
<1>7. Moved(e, f, i, CStr[p], {}, p, {t}, {})
  <2>1. Moved(e, f, i, CStr[p], e.cellinfo[i][CStr[p]], p, {t}, {})
    BY <1>2, <1>3, <1>4, <1>6, CellFields
  <2> QED BY <1>6, <2>1
<1>8. Moved(d, f, i, CStr[p], {}, p, F \ (S \ {t}), {})
  <2>1. (F \ S) \cup {t} = F \ (S \ {t})
    BY <1>1
  <2>2. Moved(d, f, i, CStr[p], {}, p, (F \ S) \cup {t}, {} \cup {})
    BY <1>5, <1>7, MovesCompose
  <2>3. {} \cup {} = {}
    OBVIOUS
  <2> QED BY <2>1, <2>2, <2>3
<1>9. Moved(d, Taking(d, i, p, S \ {t}), i, CStr[p], {}, p, F \ (S \ {t}), {})
  BY <1>1, TakingFields
<1> QED BY <1>2, <1>8, <1>9, SameMoves

LEMMA TakingEnds ==
  ASSUME NEW d \in Keyspaces, NEW i \in Indexes, NEW p \in Polygons
  PROVE  Taking(d, i, p, {}) = DeletePolygonCells(d, i, {p})
<1>1. PICK F : F = d.cellinfo[i][CStr[p]]
  OBVIOUS
<1>2. Moved(d, Taking(d, i, p, {}), i, CStr[p], {}, p, F, {})
  <2>1. F \ {} = F
    OBVIOUS
  <2> QED BY <1>1, <2>1, TakingFields
<1>3. PICK e : e = DeletePolygonCells(d, i, {p}) /\ CellsTakenOut(d, e, i, {p})
  BY DeletePolygonCellsFields
<1>4. Moved(d, e, i, CStr[p], {}, p, F, {})
  <2>1. ASSUME NEW j \in Indexes, NEW k \in CNames
        PROVE  e.cellinfo[j][k] = IF j = i /\ k = CStr[p] THEN {} ELSE d.cellinfo[j][k]
    <3>1. (\E q \in {p} : CStr[q] = k) <=> k = CStr[p]
      OBVIOUS
    <3>2. e.cellinfo[j][k] = IF j = i /\ \E q \in {p} : CStr[q] = k
                               THEN {} ELSE d.cellinfo[j][k]
      BY <1>3, Zenon DEF CellsTakenOut
    <3> QED BY <3>1, <3>2
  <2>2. ASSUME NEW j \in Indexes, NEW t \in Terms, NEW q \in Polygons
        PROVE  q \in e.cells[j][t] <=>
                 \/ j = i /\ q = p /\ t \in {}
                 \/ q \in d.cells[j][t] /\ ~(j = i /\ q = p /\ t \in F)
    BY <1>1, <1>3 DEF CellsTakenOut
  <2> QED BY <1>3, <2>1, <2>2, Zenon DEF CellsTakenOut, Moved
<1> QED BY <1>2, <1>3, <1>4, SameMoves

\* A polygon without cells is left alone.
LEMMA NothingToTake ==
  ASSUME NEW d \in Keyspaces, NEW i \in Indexes, NEW p \in Polygons, ~HasCells(d, i, p)
  PROVE  DeletePolygonCells(d, i, {p}) = d
<1>1. PICK e : e = DeletePolygonCells(d, i, {p}) /\ CellsTakenOut(d, e, i, {p})
  BY DeletePolygonCellsFields
<1>2. ASSUME NEW j \in Indexes, NEW c \in CNames PROVE d.cellinfo[j][c] = e.cellinfo[j][c]
  <2>1. (\E q \in {p} : CStr[q] = c) <=> c = CStr[p]
    OBVIOUS
  <2>2. e.cellinfo[j][c] = IF j = i /\ \E q \in {p} : CStr[q] = c
                             THEN {} ELSE d.cellinfo[j][c]
    BY <1>1, Zenon DEF CellsTakenOut
  <2> QED BY <2>1, <2>2 DEF HasCells
<1>3. \A j \in Indexes, t \in Terms, q \in Polygons : q \in d.cells[j][t] <=> q \in e.cells[j][t]
  BY <1>1 DEF CellsTakenOut, HasCells
<1>4. Alike(d, e)
  BY <1>1, <1>2, <1>3 DEF Alike, CellsTakenOut, SameBut
<1> QED BY <1>1, <1>4, AlikeIsEqual

\* SetPolygonCells: SADD of the cellinfo, then SADD for every cell.
LEMMA PuttingBegins ==
  ASSUME NEW d \in Keyspaces, NEW i \in Indexes, NEW p \in Polygons, NEW T \in SUBSET Terms
  PROVE  [d EXCEPT !.cellinfo[i][CStr[p]] = @ \cup T] = Putting(d, i, p, T, T)
<1>1. PICK U : U = d.cellinfo[i][CStr[p]] \cup T
  OBVIOUS
<1>2. PICK e : e = [d EXCEPT !.cellinfo[i][CStr[p]] = U]
  OBVIOUS
<1>3. CStr[p] \in CNames
  BY DEF CNames
<1>4. U \in SUBSET Terms
  BY <1>1, <1>3 DEF Keyspaces
<1>5. Moved(d, e, i, CStr[p], U, p, {}, {})
  BY <1>2, <1>3, <1>4, CellInfoFields
<1>6. Moved(d, Putting(d, i, p, T, T), i, CStr[p], U, p, {}, {})
  <2>1. Takers(d, i, T \ T) = {}
    BY DEF Takers
  <2> QED BY <1>1, <2>1, PuttingFields
<1>7. e = Putting(d, i, p, T, T)
  BY <1>5, <1>6, SameMoves
<1> QED BY <1>1, <1>2, <1>7

\* SADD of p to the cells key t.
Added(d, i, t, p) ==
  IF <<i, t>> \in d.wrongSet THEN d ELSE [d EXCEPT !.cells[i][t] = @ \cup {p}]

LEMMA AddedFields ==
  ASSUME NEW d \in Keyspaces, NEW i \in Indexes, NEW t \in Terms, NEW p \in Polygons,
         NEW c \in CNames
  PROVE  Moved(d, Added(d, i, t, p), i, c, d.cellinfo[i][c], p, {}, Takers(d, i, {t}))
<1>1. CASE <<i, t>> \in d.wrongSet
  <2>1. Takers(d, i, {t}) = {} /\ Added(d, i, t, p) = d
    BY <1>1 DEF Takers, Added
  <2>2. Moved(d, d, i, c, d.cellinfo[i][c], p, {}, {})
    BY DEF Moved, SameBut
  <2> QED BY <2>1, <2>2
<1>2. CASE <<i, t>> \notin d.wrongSet
  <2>1. Takers(d, i, {t}) = {t}
    BY <1>2 DEF Takers
  <2>2. PICK e : e = [d EXCEPT !.cells[i][t] = @ \cup {p}]
    OBVIOUS
  <2>3. Moved(d, e, i, c, d.cellinfo[i][c], p, {}, {t})
    BY <2>2, CellFields
  <2>4. Added(d, i, t, p) = e
    BY <1>2, <2>2 DEF Added
  <2> QED BY <2>1, <2>3, <2>4
<1> QED BY <1>1, <1>2

LEMMA PuttingGoesOn ==
  ASSUME NEW d \in Keyspaces, NEW i \in Indexes, NEW p \in Polygons,
         NEW T \in SUBSET Terms, NEW S \in SUBSET T, NEW t \in S
  PROVE  Added(Putting(d, i, p, T, S), i, t, p) = Putting(d, i, p, T, S \ {t})
<1>0. PICK e : e = Putting(d, i, p, T, S)
  OBVIOUS
<1>1. PICK U : U = d.cellinfo[i][CStr[p]] \cup T
  OBVIOUS
<1>2. PICK f : f = Added(e, i, t, p)
  OBVIOUS
<1>3. CStr[p] \in CNames /\ t \in Terms
  BY DEF CNames
<1>4. Moved(d, e, i, CStr[p], U, p, {}, Takers(d, i, T \ S))
  BY <1>0, <1>1, PuttingFields
<1>5. e \in Keyspaces /\ e.cellinfo[i][CStr[p]] = U /\ e.wrongSet = d.wrongSet
  BY <1>3, <1>4 DEF Moved, SameBut
<1>6. Moved(e, f, i, CStr[p], U, p, {}, Takers(d, i, {t}))
  <2>1. Moved(e, f, i, CStr[p], e.cellinfo[i][CStr[p]], p, {}, Takers(e, i, {t}))
    BY <1>2, <1>3, <1>5, AddedFields
  <2>2. Takers(e, i, {t}) = Takers(d, i, {t})
    BY <1>5 DEF Takers
  <2> QED BY <1>5, <2>1, <2>2
<1>7. Moved(d, f, i, CStr[p], U, p, {}, Takers(d, i, T \ (S \ {t})))
  <2>1. Takers(d, i, T \ S) \cup Takers(d, i, {t}) = Takers(d, i, T \ (S \ {t}))
    BY DEF Takers
  <2>2. {} \cup {} = {} /\ Takers(d, i, T \ S) \cap {} = {}
    OBVIOUS
  <2>3. Moved(d, f, i, CStr[p], U, p, {} \cup {}, Takers(d, i, T \ S) \cup Takers(d, i, {t}))
    BY <1>4, <1>6, <2>2, MovesCompose
  <2> QED BY <2>1, <2>2, <2>3
<1>8. Moved(d, Putting(d, i, p, T, S \ {t}), i, CStr[p], U, p, {}, Takers(d, i, T \ (S \ {t})))
  BY <1>1, PuttingFields
<1> QED BY <1>0, <1>2, <1>7, <1>8, SameMoves

LEMMA PuttingEnds ==
  ASSUME NEW d \in Keyspaces, NEW i \in Indexes, NEW p \in Polygons, NEW T \in SUBSET Terms
  PROVE  Putting(d, i, p, T, {}) = SetPolygonCells(d, i, p, T)
<1>1. PICK U : U = d.cellinfo[i][CStr[p]] \cup T
  OBVIOUS
<1>2. PICK C : C = Takers(d, i, T)
  OBVIOUS
<1>3. Moved(d, Putting(d, i, p, T, {}), i, CStr[p], U, p, {}, C)
  <2>1. T \ {} = T
    OBVIOUS
  <2> QED BY <1>1, <1>2, <2>1, PuttingFields
<1>4. PICK e : e = SetPolygonCells(d, i, p, T) /\ CellsSet(d, e, i, p, T)
  BY SetPolygonCellsFields
<1>5. Moved(d, e, i, CStr[p], U, p, {}, C)
  <2>1. ASSUME NEW j \in Indexes, NEW k \in CNames
        PROVE  e.cellinfo[j][k] = IF j = i /\ k = CStr[p] THEN U ELSE d.cellinfo[j][k]
    BY <1>1, <1>4 DEF CellsSet
  <2>2. ASSUME NEW j \in Indexes, NEW t \in Terms, NEW q \in Polygons
        PROVE  q \in e.cells[j][t] <=>
                 \/ j = i /\ q = p /\ t \in C
                 \/ q \in d.cells[j][t] /\ ~(j = i /\ q = p /\ t \in {})
    <3>1. t \in C <=> t \in T /\ <<i, t>> \notin d.wrongSet
      BY <1>2 DEF Takers
    <3>2. e.cells[j][t] = IF j = i /\ t \in T /\ <<i, t>> \notin d.wrongSet
                            THEN d.cells[j][t] \cup {p} ELSE d.cells[j][t]
      BY <1>4 DEF CellsSet
    <3> QED BY <3>1, <3>2
  <2> QED BY <1>4, <2>1, <2>2, Zenon DEF CellsSet, Moved
<1> QED BY <1>3, <1>4, <1>5, SameMoves

\* The calls on a body leave the cells alone.
LEMMA BodyCallsKeepCells ==
  ASSUME NEW d, WellFormed(d), NEW i \in Indexes
  PROVE  /\ \A p \in Polygons, b \in Bodies :
              /\ WellFormed(SetPolygonBody(d, i, p, b))
              /\ SetPolygonBody(d, i, p, b).cellinfo = d.cellinfo
              /\ SetPolygonBody(d, i, p, b).cells = d.cells
         /\ \A D : /\ WellFormed(DeletePolygonBody(d, i, D))
                   /\ DeletePolygonBody(d, i, D).cellinfo = d.cellinfo
                   /\ DeletePolygonBody(d, i, D).cells = d.cells
<1>1. d \in Keyspaces
  BY DEF WellFormed
<1>2. ASSUME NEW p \in Polygons, NEW b \in Bodies
      PROVE  /\ WellFormed(SetPolygonBody(d, i, p, b))
             /\ SetPolygonBody(d, i, p, b).cellinfo = d.cellinfo
             /\ SetPolygonBody(d, i, p, b).cells = d.cells
  BY <1>1, SetPolygonBodyFields, SetPolygonBodyWellFormed DEF BodySet, SameBut
<1>3. ASSUME NEW D
      PROVE  /\ WellFormed(DeletePolygonBody(d, i, D))
             /\ DeletePolygonBody(d, i, D).cellinfo = d.cellinfo
             /\ DeletePolygonBody(d, i, D).cells = d.cells
  BY <1>1, DeletePolygonBodyFields, DeletePolygonBodyWellFormed DEF BodiesDeleted, SameBut
<1> QED BY <1>2, <1>3

\* What DeletePolygons leaves in each family of keys.
LEMMA DeletePolygonsFields ==
  ASSUME NEW d \in Keyspaces, NEW i \in Indexes, NEW D \in SUBSET Polygons, NEW e,
         e = DeletePolygons(d, i, D)
  PROVE  /\ e \in Keyspaces /\ SameBut(d, e, {"polygons", "cellinfo", "cells"})
         /\ \A j \in Indexes, q \in Polygons :
              e.polygons[j][q] = IF j = i /\ q \in D THEN NoBody ELSE d.polygons[j][q]
         /\ \A j \in Indexes, c \in CNames :
              e.cellinfo[j][c] = IF j = i /\ \E p \in D : CStr[p] = c
                                   THEN {} ELSE d.cellinfo[j][c]
         /\ \A j \in Indexes, t \in Terms, q \in Polygons :
              q \in e.cells[j][t] <=>
                q \in d.cells[j][t] /\ ~(j = i /\ q \in D /\ t \in d.cellinfo[j][CStr[q]])
<1>1. PICK d1 : d1 = DeletePolygonCells(d, i, D) /\ CellsTakenOut(d, d1, i, D)
  BY DeletePolygonCellsFields
<1>2. BodiesDeleted(d1, e, i, D)
  BY <1>1, DeletePolygonBodyFields DEF DeletePolygons, CellsTakenOut
<1>3. /\ d1.meta = d.meta /\ d1.polygons = d.polygons
      /\ d1.wrongHash = d.wrongHash /\ d1.wrongSet = d.wrongSet
      /\ e \in Keyspaces /\ e.meta = d1.meta /\ e.cellinfo = d1.cellinfo /\ e.cells = d1.cells
      /\ e.wrongHash = d1.wrongHash /\ e.wrongSet = d1.wrongSet
  BY <1>1, <1>2 DEF CellsTakenOut, BodiesDeleted, SameBut
<1>4. SameBut(d, e, {"polygons", "cellinfo", "cells"})
  BY <1>3 DEF SameBut
<1>5. \A j \in Indexes, q \in Polygons :
        e.polygons[j][q] = IF j = i /\ q \in D THEN NoBody ELSE d.polygons[j][q]
  BY <1>2, <1>3, Zenon DEF BodiesDeleted
<1>6. \A j \in Indexes, c \in CNames :
        e.cellinfo[j][c] = IF j = i /\ \E p \in D : CStr[p] = c THEN {} ELSE d.cellinfo[j][c]
  BY <1>1, <1>3 DEF CellsTakenOut
<1>7. \A j \in Indexes, t \in Terms, q \in Polygons :
        q \in e.cells[j][t] <=>
          q \in d.cells[j][t] /\ ~(j = i /\ q \in D /\ t \in d.cellinfo[j][CStr[q]])
  BY <1>1, <1>3, Zenon DEF CellsTakenOut
<1> QED BY <1>3, <1>4, <1>5, <1>6, <1>7

LEMMA NoneDeleted ==
  ASSUME NEW d \in Keyspaces, NEW i \in Indexes
  PROVE  DeletePolygons(d, i, {}) = d
<1>1. PICK e : e = DeletePolygons(d, i, {})
  OBVIOUS
<1>2. /\ e \in Keyspaces /\ SameBut(d, e, {"polygons", "cellinfo", "cells"})
      /\ \A j \in Indexes, q \in Polygons : e.polygons[j][q] = d.polygons[j][q]
      /\ \A j \in Indexes, c \in CNames : e.cellinfo[j][c] = d.cellinfo[j][c]
      /\ \A j \in Indexes, t \in Terms, q \in Polygons :
           q \in e.cells[j][t] <=> q \in d.cells[j][t]
  BY <1>1, DeletePolygonsFields
<1>3. Alike(d, e)
  BY <1>2 DEF Alike, SameBut
<1> QED BY <1>1, <1>3, AlikeIsEqual

\* One polygon more, whose C string no polygon deleted before it had.
LEMMA OneMoreDeleted ==
  ASSUME NEW d \in Keyspaces, NEW i \in Indexes, NEW D \in SUBSET Polygons,
         NEW p \in Polygons, \A q \in D : CStr[q] # CStr[p]
  PROVE  DeletePolygonCells(DeletePolygonBody(DeletePolygons(d, i, D), i, {p}), i, {p})
           = DeletePolygons(d, i, D \cup {p})
<1>1. PICK d1 : d1 = DeletePolygons(d, i, D)
  OBVIOUS
<1>2. /\ d1 \in Keyspaces /\ SameBut(d, d1, {"polygons", "cellinfo", "cells"})
      /\ \A j \in Indexes, q \in Polygons :
           d1.polygons[j][q] = IF j = i /\ q \in D THEN NoBody ELSE d.polygons[j][q]
      /\ \A j \in Indexes, c \in CNames :
           d1.cellinfo[j][c] = IF j = i /\ \E r \in D : CStr[r] = c
                                 THEN {} ELSE d.cellinfo[j][c]
      /\ \A j \in Indexes, t \in Terms, q \in Polygons :
           q \in d1.cells[j][t] <=>
             q \in d.cells[j][t] /\ ~(j = i /\ q \in D /\ t \in d.cellinfo[j][CStr[q]])
  BY <1>1, DeletePolygonsFields
<1>3. PICK d2 : d2 = DeletePolygonBody(d1, i, {p}) /\ BodiesDeleted(d1, d2, i, {p})
  BY <1>2, DeletePolygonBodyFields
<1>4. PICK d3 : d3 = DeletePolygonCells(d2, i, {p}) /\ CellsTakenOut(d2, d3, i, {p})
  BY <1>3, DeletePolygonCellsFields DEF BodiesDeleted
<1>5. PICK E \in SUBSET Polygons : E = D \cup {p}
  OBVIOUS
<1>6. PICK e : e = DeletePolygons(d, i, E)
  OBVIOUS
<1>7. /\ e \in Keyspaces /\ SameBut(d, e, {"polygons", "cellinfo", "cells"})
      /\ \A j \in Indexes, q \in Polygons :
           e.polygons[j][q] = IF j = i /\ q \in E THEN NoBody ELSE d.polygons[j][q]
      /\ \A j \in Indexes, c \in CNames :
           e.cellinfo[j][c] = IF j = i /\ \E r \in E : CStr[r] = c
                                THEN {} ELSE d.cellinfo[j][c]
      /\ \A j \in Indexes, t \in Terms, q \in Polygons :
           q \in e.cells[j][t] <=>
             q \in d.cells[j][t] /\ ~(j = i /\ q \in E /\ t \in d.cellinfo[j][CStr[q]])
  BY <1>6, DeletePolygonsFields
<1>8. ASSUME NEW j \in Indexes, NEW q \in Polygons
      PROVE  e.polygons[j][q] = d3.polygons[j][q]
  <2>1. d3.polygons[j][q] = d2.polygons[j][q]
    BY <1>4 DEF CellsTakenOut, SameBut
  <2>2. d2.polygons[j][q] = IF j = i /\ q = p THEN NoBody ELSE d1.polygons[j][q]
    BY <1>3 DEF BodiesDeleted
  <2> QED BY <1>2, <1>5, <1>7, <2>1, <2>2
<1>9. d2.cellinfo = d1.cellinfo /\ d2.cells = d1.cells
  BY <1>3 DEF BodiesDeleted, SameBut
<1>10. ASSUME NEW j \in Indexes, NEW c \in CNames
       PROVE  e.cellinfo[j][c] = d3.cellinfo[j][c]
  <2>1. (\E r \in {p} : CStr[r] = c) <=> c = CStr[p]
    OBVIOUS
  <2>2. (\E r \in E : CStr[r] = c) <=> c = CStr[p] \/ \E r \in D : CStr[r] = c
    BY <1>5
  <2>3. d3.cellinfo[j][c] = IF j = i /\ \E r \in {p} : CStr[r] = c
                              THEN {} ELSE d1.cellinfo[j][c]
    <3>1. d3.cellinfo[j][c] = IF j = i /\ \E r \in {p} : CStr[r] = c
                                THEN {} ELSE d2.cellinfo[j][c]
      BY <1>4, Zenon DEF CellsTakenOut
    <3> QED BY <1>9, <3>1
  <2>4. d1.cellinfo[j][c] = IF j = i /\ \E r \in D : CStr[r] = c
                              THEN {} ELSE d.cellinfo[j][c]
    BY <1>2
  <2>5. e.cellinfo[j][c] = IF j = i /\ \E r \in E : CStr[r] = c
                             THEN {} ELSE d.cellinfo[j][c]
    BY <1>7
  <2> QED BY <2>1, <2>2, <2>3, <2>4, <2>5
<1>11. ASSUME NEW j \in Indexes, NEW t \in Terms, NEW q \in Polygons
       PROVE  q \in e.cells[j][t] <=> q \in d3.cells[j][t]
  <2>1. q \in d3.cells[j][t] <=>
          q \in d1.cells[j][t] /\ ~(j = i /\ q = p /\ t \in d1.cellinfo[j][CStr[q]])
    BY <1>4, <1>9 DEF CellsTakenOut
  <2>2. d1.cellinfo[i][CStr[p]] = d.cellinfo[i][CStr[p]]
    <3>1. CStr[p] \in CNames
      BY DEF CNames
    <3>2. ~ \E r \in D : CStr[r] = CStr[p]
      OBVIOUS
    <3> QED BY <1>2, <3>1, <3>2
  <2>3. q \in d1.cells[j][t] <=>
          q \in d.cells[j][t] /\ ~(j = i /\ q \in D /\ t \in d.cellinfo[j][CStr[q]])
    BY <1>2, Zenon
  <2>4. q \in e.cells[j][t] <=>
          q \in d.cells[j][t] /\ ~(j = i /\ q \in E /\ t \in d.cellinfo[j][CStr[q]])
    BY <1>7, Zenon
  <2> QED BY <1>5, <2>1, <2>2, <2>3, <2>4
<1>12. Alike(e, d3)
  <2>1. /\ d3 \in Keyspaces /\ d3.meta = d.meta
        /\ d3.wrongHash = d.wrongHash /\ d3.wrongSet = d.wrongSet
    BY <1>2, <1>3, <1>4 DEF SameBut, BodiesDeleted, CellsTakenOut
  <2>2. e.meta = d.meta /\ e.wrongHash = d.wrongHash /\ e.wrongSet = d.wrongSet
    BY <1>7 DEF SameBut
  <2> QED BY <1>7, <1>8, <1>10, <1>11, <2>1, <2>2, Zenon DEF Alike
<1> QED BY <1>1, <1>3, <1>4, <1>5, <1>6, <1>12, AlikeIsEqual

-----------------------------------------------------------------------------
(* Where a handler is.                                                     *)

\* The polygons IDEL found.
Listed == ListPolygons(start, index)

\* The keyspace when DeletePolygonCells begins, IDEL having deleted D before.
Entered(D) ==
  CASE cmd = "POLYSET" -> SetPolygonBody(start, index, polygon, args[3])
    [] cmd = "POLYDEL" -> DeletePolygonBody(start, index, {polygon})
    [] cmd = "IDEL" -> DeletePolygonBody(DeletePolygons(start, index, D), index, {polygon})

Found(D) == Entered(D).cellinfo[index][CStr[polygon]]

\* The polygon DeletePolygonCells and SetPolygonCells are at.
AtPolygon(D) ==
  /\ D \in SUBSET Polygons /\ polygon \in Polygons
  /\ \/ cmd \in {"POLYSET", "POLYDEL"} /\ polygon = args[2] /\ polygons = {}
     \/ /\ cmd = "IDEL" /\ ~ListFails(start, index) /\ polygon \in Listed \ D
        /\ D \subseteq Listed /\ Deletable(start, index, D)
        /\ polygons = Listed \ (D \cup {polygon})

AtStart == db = start /\ NoLocals

\* DeleteIndex before its next polygon, or after the last one.
AtNext ==
  /\ cmd = "IDEL" /\ ~ListFails(start, index) /\ cells = {}
  /\ \E D \in SUBSET Listed :
       /\ Deletable(start, index, D) /\ db = DeletePolygons(start, index, D)
       /\ polygons = Listed \ D

AtHDel ==
  \/ cmd = "POLYDEL" /\ polygon = args[2] /\ db = start /\ polygons = {} /\ cells = {}
  \/ AtNext /\ polygons # {}

AtSMembers == cells = {} /\ \E D \in SUBSET Polygons : AtPolygon(D) /\ db = Entered(D)

AtDelCellInfo ==
  cells # {} /\ \E D \in SUBSET Polygons : AtPolygon(D) /\ db = Entered(D) /\ cells = Found(D)

AtSRem ==
  /\ cells # {}
  /\ \E D \in SUBSET Polygons :
       /\ AtPolygon(D) /\ cells \subseteq Found(D)
       /\ db = Taking(Entered(D), index, polygon, cells)

\* POLYSET when the old cells are deleted.
Emptied == DeletePolygonCells(Entered({}), index, {polygon})

AtSAddCellInfo == AtPolygon({}) /\ cmd = "POLYSET" /\ cells = {} /\ db = Emptied

AtSAddCell ==
  /\ AtPolygon({}) /\ cmd = "POLYSET" /\ cells # {} /\ cells \subseteq IndexPolygon[args[3]]
  /\ db = Putting(Emptied, index, polygon, IndexPolygon[args[3]], cells)

Places ==
  {"idle", "down", "HGET meta", "HSET meta", "HGET polygon", "HMGET", "SUNION", "HKEYS",
   "HSET polygon", "HDEL", "SMEMBERS", "DEL cellinfo", "DEL wrong cellinfo", "SREM",
   "SADD cellinfo", "SADD cell", "DEL meta"}

Progress ==
  /\ at \in Places
  /\ ~Running => AtStart
  /\ Running => run \in Requests
  /\ at \notin {"idle", "down", "HGET meta", "HSET meta"} =>
       IsIndex(start, index) /\ BodyError = "none"
  /\ at = "HGET meta" => AtStart
  /\ at = "HSET meta" => AtStart /\ cmd = "ISET" /\ NoSuchIndex(start, index)
  /\ at = "HGET polygon" => AtStart /\ cmd = "POLYGET"
  /\ at = "HMGET" => AtStart /\ cmd = "POLYMGET"
  /\ at = "SUNION" => AtStart /\ cmd \in {"POLYSEARCH", "POINTSEARCH"}
  /\ at = "HKEYS" => AtStart /\ cmd \in {"IDEL", "POLYLIST"}
  /\ at = "HSET polygon" =>
       cmd = "POLYSET" /\ polygon = args[2] /\ db = start /\ polygons = {} /\ cells = {}
  /\ at = "HDEL" => AtHDel
  /\ at \in {"SMEMBERS", "DEL wrong cellinfo"} => AtSMembers
  /\ at = "DEL cellinfo" => AtDelCellInfo
  /\ at = "SREM" => AtSRem
  /\ at = "SADD cellinfo" => AtSAddCellInfo
  /\ at = "SADD cell" => AtSAddCell
  /\ at = "DEL meta" => AtNext /\ polygons = {}

Typed ==
  /\ WellFormed(db) /\ WellFormed(start) /\ WellFormed(image[1])
  /\ wrongInfo \subseteq Indexes \X CNames
  /\ image = <<image[1], image[2]>> /\ image[2] \subseteq Indexes \X CNames
  /\ faults \in Nat

-----------------------------------------------------------------------------
(* What a handler has done when it answers, and what GeoCommands calls it. *)

\* What a running handler has been asked for.
LEMMA RequestKinds ==
  ASSUME run \in Requests
  PROVE  /\ index \in Indexes
         /\ \/ cmd \in {"ISET", "IGET", "IDEL", "POLYLIST"} /\ args = <<index>>
            \/ /\ cmd \in {"POLYGET", "POLYDEL"}
               /\ args[2] \in Polygons /\ args = <<index, args[2]>>
            \/ /\ cmd = "POLYMGET"
               /\ args[2] \in UNION {[1..n -> Polygons] : n \in 1..MaxNames}
               /\ args = <<index, args[2]>>
            \/ /\ cmd = "POLYSET" /\ args[2] \in Polygons /\ args[3] \in Bodies
               /\ args = <<index, args[2], args[3]>>
            \/ cmd = "POLYSEARCH" /\ args[2] \in Bodies /\ args = <<index, args[2]>>
            \/ cmd = "POINTSEARCH" /\ args[2] \in Points /\ args = <<index, args[2]>>
<1>1. ASSUME NEW c \in {"ISET", "IGET", "IDEL", "POLYLIST"}, NEW x \in Indexes,
             run = <<c, <<x>>>>
      PROVE  cmd = c /\ args = <<index>> /\ index = x
  BY <1>1 DEF cmd, args, index
<1>2. ASSUME NEW c, NEW x \in Indexes, NEW a, run = <<c, <<x, a>>>>
      PROVE  cmd = c /\ args = <<index, args[2]>> /\ index = x /\ args[2] = a
  BY <1>2 DEF cmd, args, index
<1>3. ASSUME NEW x \in Indexes, NEW p \in Polygons, NEW b \in Bodies,
             run = <<"POLYSET", <<x, p, b>>>>
      PROVE  /\ cmd = "POLYSET" /\ args = <<index, args[2], args[3]>> /\ index = x
             /\ args[2] = p /\ args[3] = b
  BY <1>3 DEF cmd, args, index
<1> QED BY <1>1, <1>2, <1>3 DEF Requests

\* An answer to a handler's client, as GeoCommands sees it.
LEMMA AtomicAnswers ==
  ASSUME at # "idle", at' = "idle", NEW c, NEW a, NEW out, reply' = <<c, a, out>>
  PROVE  /\ Atomic!Answer(c, a, out)
         /\ db' = start => Atomic!Reply(c, a, out)
         /\ \A t : out = <<"error", t>> /\ db' = start => Atomic!Refuse(c, a, t)
  BY DEF Atomic!Answer, Atomic!Reply, Atomic!Refuse

LEMMA AtomicNames ==
  ASSUME NEW i \in Indexes
  PROVE  /\ Atomic!NamesOk(i, {})
         /\ \A p \in Polygons : Atomic!NamesOk(i, {p})
         /\ \A P \in SUBSET Polygons : Atomic!NamesOk(i, P)
  BY NamesAssumption DEF Atomic!NamesOk, Atomic!ValidateEntityName

LEMMA AtomicStorage ==
  ASSUME NEW d, NEW i, NEW p, NEW b, NEW D, NEW T
  PROVE  /\ Atomic!CreateIndex(d, i) = CreateIndex(d, i)
         /\ Atomic!SetPolygonBody(d, i, p, b) = SetPolygonBody(d, i, p, b)
         /\ Atomic!DeletePolygonBody(d, i, D) = DeletePolygonBody(d, i, D)
         /\ Atomic!DeletePolygonCells(d, i, D) = DeletePolygonCells(d, i, D)
         /\ Atomic!SetPolygonCells(d, i, p, T) = SetPolygonCells(d, i, p, T)
         /\ Atomic!ListPolygons(d, i) = ListPolygons(d, i)
         /\ Atomic!DeleteIndex(d, i) = DeleteIndex(d, i)
         /\ Atomic!DeleteIndexStopped(d, i, D, p) = DeleteIndexStopped(d, i, D, p)
  BY DEF CreateIndex, SetPolygonBody, DeletePolygonBody, DeletePolygonCells, SetPolygonCells,
         ListPolygons, DeleteIndex, DeleteIndexStopped, DeletePolygons, CNames,
         Atomic!CreateIndex, Atomic!SetPolygonBody, Atomic!DeletePolygonBody,
         Atomic!DeletePolygonCells, Atomic!SetPolygonCells, Atomic!ListPolygons,
         Atomic!DeleteIndex, Atomic!DeleteIndexStopped, Atomic!DeletePolygons, Atomic!CNames

LEMMA AtomicChecks ==
  ASSUME NEW d, NEW i, NEW p, NEW ps, NEW D, NEW T
  PROVE  /\ Atomic!IsIndex(d, i) = IsIndex(d, i)
         /\ Atomic!NoSuchIndex(d, i) = NoSuchIndex(d, i)
         /\ Atomic!InvalidIndex(d, i) = InvalidIndex(d, i)
         /\ Atomic!ListFails(d, i) = ListFails(d, i)
         /\ Atomic!SearchFails(d, i, T) = SearchFails(d, i, T)
         /\ Atomic!HasCells(d, i, p) = HasCells(d, i, p)
         /\ Atomic!Deletable(d, i, D) = Deletable(d, i, D)
         /\ Atomic!StopsAt(d, i, D, p) = StopsAt(d, i, D, p)
         /\ Atomic!ListPolygons(d, i) = ListPolygons(d, i)
         /\ Atomic!GetPolygonBody(d, i, p) = GetPolygonBody(d, i, p)
         /\ Atomic!GetPolygonBodies(d, i, ps) = GetPolygonBodies(d, i, ps)
         /\ Atomic!GetPolygonsInCells(d, i, T) = GetPolygonsInCells(d, i, T)
  BY DEF IsIndex, NoSuchIndex, InvalidIndex, ListFails, SearchFails, HasCells, Deletable, StopsAt,
         ListPolygons, GetPolygonBody, GetPolygonBodies, GetPolygonsInCells,
         Atomic!IsIndex, Atomic!NoSuchIndex, Atomic!InvalidIndex, Atomic!ListFails,
         Atomic!SearchFails, Atomic!HasCells, Atomic!Deletable, Atomic!StopsAt,
         Atomic!ListPolygons, Atomic!GetPolygonBody, Atomic!GetPolygonBodies,
         Atomic!GetPolygonsInCells

LEMMA AtomicNext ==
  ASSUME NEW i \in Indexes
  PROVE  /\ Atomic!SetIndexCommand(i) => Atomic!Next
         /\ Atomic!GetIndexCommand(i) => Atomic!Next
         /\ Atomic!DeleteIndexCommand(i) => Atomic!Next
         /\ Atomic!ListPolygonsCommand(i) => Atomic!Next
         /\ \A b \in Bodies : Atomic!SearchPolygonCommand(i, b) => Atomic!Next
         /\ \A pt \in Points : Atomic!SearchPointCommand(i, pt) => Atomic!Next
         /\ \A ps \in UNION {[1..n -> Polygons] : n \in 1..MaxNames} :
              Atomic!GetMultiplePolygonsCommand(i, ps) => Atomic!Next
         /\ \A p \in Polygons : Atomic!GetPolygonCommand(i, p) => Atomic!Next
         /\ \A p \in Polygons : Atomic!DeletePolygonCommand(i, p) => Atomic!Next
         /\ \A p \in Polygons, b \in Bodies : Atomic!SetPolygonCommand(i, p, b) => Atomic!Next
<1>1. ASSUME NEW ps \in UNION {[1..n -> Polygons] : n \in 1..MaxNames}
      PROVE  ps \in Atomic!NameLists
  BY DEF Atomic!NameLists
<1> QED BY <1>1, Zenon DEF Atomic!Next


\* A keyspace whose meta key is in none of the states of a name is not one.
LEMMA NameStates ==
  ASSUME NEW d, NEW i
  PROVE  /\ IsIndex(d, i) => ~NoSuchIndex(d, i) /\ ~InvalidIndex(d, i)
         /\ ~IsIndex(d, i) /\ ~NoSuchIndex(d, i) => InvalidIndex(d, i)
  BY DEF IsIndex, NoSuchIndex, InvalidIndex

\* The answers of ValidateIndex and of the body check are those of one command.
LEMMA ValidationIsCommand ==
  ASSUME run \in Requests, start = db, HGetMeta, at' = "idle"
  PROVE  Atomic!Next /\ db' = start
<1> DEFINE i == index
<1>1. at # "idle" /\ db' = start /\ i \in Indexes
  BY RequestKinds DEF HGetMeta, Quiet
<1>2. (IF at = "idle" THEN db ELSE start) = start
  BY <1>1
<1>3. \/ cmd = "ISET" /\ ~NoSuchIndex(start, i)
         /\ reply' = <<cmd, args, <<"error", "index already exists">>>>
      \/ cmd # "ISET" /\ ~IsIndex(start, i) /\ reply' = <<cmd, args, NoIndexOutcome>>
      \/ cmd = "IGET" /\ IsIndex(start, i) /\ reply' = <<cmd, args, <<"ok">>>>
      \/ /\ cmd \notin {"ISET", "IGET"} /\ IsIndex(start, i) /\ BodyError # "none"
         /\ reply' = <<cmd, args, <<"error", BodyError>>>>
  <2>1. cmd \notin {"ISET", "IGET"} => FirstCall # "idle"
    BY RequestKinds DEF FirstCall
  <2> QED BY <2>1 DEF HGetMeta, Goto, Answer
<1> HIDE DEF i
<1>4. CASE cmd = "ISET"
  <2>1. args = <<i>>
    BY <1>4, RequestKinds DEF i
  <2>2. ~NoSuchIndex(start, i) /\ Atomic!Refuse("ISET", <<i>>, "index already exists")
    BY <1>1, <1>3, <1>4, <2>1, AtomicAnswers
  <2>3. Atomic!SetIndexCommand(i)
    BY <1>1, <1>2, <2>2, AtomicNames, AtomicChecks DEF Atomic!SetIndexCommand
  <2> QED BY <1>1, <2>3, AtomicNext
<1>5. CASE cmd = "IGET"
  <2>1. args = <<i>>
    BY <1>5, RequestKinds DEF i
  <2>2. \/ NoSuchIndex(start, i) /\ Atomic!Reply("IGET", <<i>>, <<"null">>)
        \/ InvalidIndex(start, i) /\ Atomic!Refuse("IGET", <<i>>, "not an index")
        \/ IsIndex(start, i) /\ Atomic!Reply("IGET", <<i>>, <<"ok">>)
    BY <1>1, <1>3, <1>5, <2>1, AtomicAnswers, NameStates DEF NoIndexOutcome, i
  <2>3. Atomic!GetIndexCommand(i)
    BY <1>1, <1>2, <2>2, AtomicNames, AtomicChecks DEF Atomic!GetIndexCommand
  <2> QED BY <1>1, <2>3, AtomicNext
<1>6. CASE cmd = "IDEL"
  <2>1. args = <<i>> /\ BodyError = "none"
    BY <1>6, RequestKinds DEF i, BodyError
  <2>2. \/ NoSuchIndex(start, i) /\ Atomic!Reply("IDEL", <<i>>, <<"int", 0>>)
        \/ InvalidIndex(start, i) /\ Atomic!Refuse("IDEL", <<i>>, "not an index")
    BY <1>1, <1>3, <1>6, <2>1, AtomicAnswers, NameStates DEF NoIndexOutcome, i
  <2>3. Atomic!DeleteIndexCommand(i)
    BY <1>1, <1>2, <2>2, AtomicNames, AtomicChecks DEF Atomic!DeleteIndexCommand
  <2> QED BY <1>1, <2>3, AtomicNext
<1>7. CASE cmd = "POLYLIST"
  <2>1. args = <<i>> /\ BodyError = "none"
    BY <1>7, RequestKinds DEF i, BodyError
  <2>2. \/ NoSuchIndex(start, i) /\ Atomic!Reply("POLYLIST", <<i>>, <<"set", {}>>)
        \/ InvalidIndex(start, i) /\ Atomic!Refuse("POLYLIST", <<i>>, "invalid index")
    BY <1>1, <1>3, <1>7, <2>1, AtomicAnswers, NameStates DEF NoIndexOutcome, i
  <2>3. Atomic!ListPolygonsCommand(i)
    BY <1>1, <1>2, <2>2, AtomicNames, AtomicChecks DEF Atomic!ListPolygonsCommand
  <2> QED BY <1>1, <2>3, AtomicNext
<1>8. CASE cmd = "POLYGET"
  <2>1. args = <<i, args[2]>> /\ args[2] \in Polygons /\ BodyError = "none"
    BY <1>8, RequestKinds DEF i, BodyError
  <2>2. \/ NoSuchIndex(start, i) /\ Atomic!Reply("POLYGET", <<i, args[2]>>, <<"null">>)
        \/ InvalidIndex(start, i) /\ Atomic!Refuse("POLYGET", <<i, args[2]>>, "invalid index")
    BY <1>1, <1>3, <1>8, <2>1, AtomicAnswers, NameStates DEF NoIndexOutcome, i
  <2>3. Atomic!GetPolygonCommand(i, args[2])
    BY <1>1, <1>2, <2>1, <2>2, AtomicNames, AtomicChecks DEF Atomic!GetPolygonCommand
  <2> QED BY <1>1, <2>1, <2>3, AtomicNext
<1>9. CASE cmd = "POLYMGET"
  <2>1. /\ args = <<i, args[2]>> /\ BodyError = "none"
        /\ args[2] \in UNION {[1..n -> Polygons] : n \in 1..MaxNames}
    BY <1>9, RequestKinds DEF i, BodyError
  <2>2. \/ /\ NoSuchIndex(start, i)
           /\ Atomic!Reply("POLYMGET", <<i, args[2]>>,
                           <<"list", [k \in DOMAIN args[2] |-> <<"null">>]>>)
        \/ InvalidIndex(start, i) /\ Atomic!Refuse("POLYMGET", <<i, args[2]>>, "invalid index")
    BY <1>1, <1>3, <1>9, <2>1, AtomicAnswers, NameStates DEF NoIndexOutcome, i
  <2>3. {args[2][k] : k \in DOMAIN args[2]} \in SUBSET Polygons
    BY <2>1
  <2>4. Atomic!GetMultiplePolygonsCommand(i, args[2])
    BY <1>1, <1>2, <2>2, <2>3, AtomicNames, AtomicChecks DEF Atomic!GetMultiplePolygonsCommand
  <2> QED BY <1>1, <2>1, <2>4, AtomicNext
<1>10. CASE cmd = "POLYDEL"
  <2>1. args = <<i, args[2]>> /\ args[2] \in Polygons /\ BodyError = "none"
    BY <1>10, RequestKinds DEF i, BodyError
  <2>2. \/ NoSuchIndex(start, i) /\ Atomic!Reply("POLYDEL", <<i, args[2]>>, <<"int", 0>>)
        \/ InvalidIndex(start, i) /\ Atomic!Refuse("POLYDEL", <<i, args[2]>>, "invalid index")
    BY <1>1, <1>3, <1>10, <2>1, AtomicAnswers, NameStates DEF NoIndexOutcome, i
  <2>3. Atomic!DeletePolygonCommand(i, args[2])
    BY <1>1, <1>2, <2>1, <2>2, AtomicNames, AtomicChecks DEF Atomic!DeletePolygonCommand
  <2> QED BY <1>1, <2>1, <2>3, AtomicNext
<1>11. CASE cmd = "POLYSET"
  <2> DEFINE p == args[2] b == args[3]
  <2>1. args = <<i, p, b>> /\ p \in Polygons /\ b \in Bodies
    BY <1>11, RequestKinds DEF i
  <2>2. \/ ~IsIndex(start, i) /\ Atomic!Refuse("POLYSET", <<i, p, b>>, "invalid index")
        \/ /\ IsIndex(start, i) /\ b \notin ValidBodies
           /\ Atomic!Refuse("POLYSET", <<i, p, b>>, "invalid polygon")
        \/ /\ IsIndex(start, i) /\ b \in ValidBodies /\ IndexPolygon[b] = {}
           /\ Atomic!Refuse("POLYSET", <<i, p, b>>, "empty cell union for a given polygon")
    BY <1>1, <1>3, <1>11, <2>1, AtomicAnswers DEF NoIndexOutcome, BodyError, i
  <2>3. Atomic!SetPolygonCommand(i, p, b)
    BY <1>1, <1>2, <2>1, <2>2, AtomicNames, AtomicChecks DEF Atomic!SetPolygonCommand
  <2> QED BY <1>1, <2>1, <2>3, AtomicNext
<1>12. CASE cmd = "POLYSEARCH"
  <2> DEFINE b == args[2]
  <2>1. args = <<i, b>> /\ b \in Bodies
    BY <1>12, RequestKinds DEF i
  <2>2. \/ ~IsIndex(start, i) /\ Atomic!Refuse("POLYSEARCH", <<i, b>>, "invalid index")
        \/ /\ IsIndex(start, i) /\ b \notin ValidBodies
           /\ Atomic!Refuse("POLYSEARCH", <<i, b>>, "invalid polygon")
        \/ /\ IsIndex(start, i) /\ b \in ValidBodies /\ IndexPolygonForOverlapTest[b] = {}
           /\ Atomic!Refuse("POLYSEARCH", <<i, b>>, "empty cell union for a given polygon")
    BY <1>1, <1>3, <1>12, <2>1, AtomicAnswers DEF NoIndexOutcome, BodyError, i
  <2>3. Atomic!SearchPolygonCommand(i, b)
    BY <1>1, <1>2, <2>1, <2>2, AtomicNames, AtomicChecks DEF Atomic!SearchPolygonCommand
  <2> QED BY <1>1, <2>1, <2>3, AtomicNext
<1>13. CASE cmd = "POINTSEARCH"
  <2> DEFINE pt == args[2]
  <2>1. args = <<i, pt>> /\ pt \in Points
    BY <1>13, RequestKinds DEF i
  <2>2. \/ ~IsIndex(start, i) /\ Atomic!Refuse("POINTSEARCH", <<i, pt>>, "invalid index")
        \/ /\ IsIndex(start, i) /\ pt \notin ValidPoints
           /\ Atomic!Refuse("POINTSEARCH", <<i, pt>>, "invalid point")
    BY <1>1, <1>3, <1>13, <2>1, AtomicAnswers DEF NoIndexOutcome, BodyError, i
  <2>3. Atomic!SearchPointCommand(i, pt)
    BY <1>1, <1>2, <2>1, <2>2, AtomicNames, AtomicChecks DEF Atomic!SearchPointCommand
  <2> QED BY <1>1, <2>1, <2>3, AtomicNext
<1> QED BY <1>1, <1>4, <1>5, <1>6, <1>7, <1>8, <1>9, <1>10, <1>11, <1>12, <1>13, RequestKinds


SearchAnswered(c, a, i, T) ==
  \/ SearchFails(start, i, T) /\ Atomic!Refuse(c, a, "error while fetching polygons")
  \/ /\ ~SearchFails(start, i, T)
     /\ Atomic!Reply(c, a, <<"set", GetPolygonsInCells(start, i, T)>>)

\* So are those of the commands that only read.
LEMMA ReadingIsCommand ==
  ASSUME run \in Requests, start = db, IsIndex(db, index), BodyError = "none",
         \/ HGetPolygon /\ cmd = "POLYGET"
         \/ HMGet /\ cmd = "POLYMGET"
         \/ SUnion /\ cmd \in {"POLYSEARCH", "POINTSEARCH"}
         \/ HKeys /\ cmd \in {"IDEL", "POLYLIST"},
         at' = "idle"
  PROVE  Atomic!Next /\ db' = start
<1> DEFINE i == index
<1>1. at # "idle" /\ db' = start /\ i \in Indexes /\ IsIndex(start, i)
  BY RequestKinds DEF HGetPolygon, HMGet, SUnion, HKeys, Quiet
<1>2. (IF at = "idle" THEN db ELSE start) = start
  BY <1>1
<1> HIDE DEF i
<1>4. CASE HGetPolygon /\ cmd = "POLYGET"
  <2> DEFINE p == args[2]
  <2>1. args = <<i, p>> /\ p \in Polygons
    BY <1>4, RequestKinds DEF i
  <2>2. Atomic!Reply("POLYGET", <<i, p>>, GetPolygonBody(start, i, p))
    <3>1. reply' = <<"POLYGET", <<i, p>>, GetPolygonBody(start, i, p)>>
      BY <1>4, <2>1 DEF HGetPolygon, Answer, i
    <3> QED BY <1>1, <3>1, AtomicAnswers
  <2>3. Atomic!GetPolygonCommand(i, p)
    BY <1>1, <1>2, <2>1, <2>2, AtomicNames, AtomicChecks DEF Atomic!GetPolygonCommand
  <2> QED BY <1>1, <2>1, <2>3, AtomicNext
<1>5. CASE HMGet /\ cmd = "POLYMGET"
  <2> DEFINE ps == args[2]
  <2>1. /\ args = <<i, ps>>
        /\ ps \in UNION {[1..n -> Polygons] : n \in 1..MaxNames}
    BY <1>5, RequestKinds DEF i
  <2>2. \/ ListFails(start, i) /\ Atomic!Refuse("POLYMGET", <<i, ps>>, "invalid polygon")
        \/ /\ ~ListFails(start, i)
           /\ Atomic!Reply("POLYMGET", <<i, ps>>, <<"list", GetPolygonBodies(start, i, ps)>>)
    <3>1. \/ /\ ListFails(start, i)
             /\ reply' = <<"POLYMGET", <<i, ps>>, <<"error", "invalid polygon">>>>
          \/ /\ ~ListFails(start, i)
             /\ reply' = <<"POLYMGET", <<i, ps>>, <<"list", GetPolygonBodies(start, i, ps)>>>>
      BY <1>5, <2>1 DEF HMGet, Answer, i
    <3> QED BY <1>1, <3>1, AtomicAnswers
  <2>3. {ps[k] : k \in DOMAIN ps} \in SUBSET Polygons
    BY <2>1
  <2>4. Atomic!GetMultiplePolygonsCommand(i, ps)
    BY <1>1, <1>2, <2>2, <2>3, AtomicNames, AtomicChecks
       DEF Atomic!GetMultiplePolygonsCommand
  <2> QED BY <1>1, <2>1, <2>4, AtomicNext
<1>6. CASE SUnion /\ cmd = "POLYSEARCH"
  <2> DEFINE b == args[2]
             T == IndexPolygonForOverlapTest[b]
  <2>1. args = <<i, b>> /\ b \in Bodies
    BY <1>6, RequestKinds DEF i
  <2>2. SearchAnswered("POLYSEARCH", <<i, b>>, i, T)
    BY <1>1, <1>6, <2>1, AtomicAnswers DEF SUnion, Answer, Lookup, SearchAnswered, i
  <2>3. Atomic!SearchCells("POLYSEARCH", <<i, b>>, i, T)
    BY <1>2, <2>2, AtomicChecks DEF SearchAnswered, Atomic!SearchCells
  <2>4. b \in ValidBodies /\ T # {}
    BY <1>6 DEF BodyError
  <2>5. Atomic!SearchPolygonCommand(i, b)
    BY <1>1, <1>2, <2>3, <2>4, AtomicNames, AtomicChecks DEF Atomic!SearchPolygonCommand
  <2> QED BY <1>1, <2>1, <2>5, AtomicNext
<1>7. CASE SUnion /\ cmd = "POINTSEARCH"
  <2> DEFINE pt == args[2]
             T == IndexPoint[pt]
  <2>1. args = <<i, pt>> /\ pt \in Points
    BY <1>7, RequestKinds DEF i
  <2>2. SearchAnswered("POINTSEARCH", <<i, pt>>, i, T)
    BY <1>1, <1>7, <2>1, AtomicAnswers DEF SUnion, Answer, Lookup, SearchAnswered, i
  <2>3. Atomic!SearchCells("POINTSEARCH", <<i, pt>>, i, T)
    BY <1>2, <2>2, AtomicChecks DEF SearchAnswered, Atomic!SearchCells
  <2>4. pt \in ValidPoints
    BY <1>7 DEF BodyError
  <2>5. Atomic!SearchPointCommand(i, pt)
    BY <1>1, <1>2, <2>3, <2>4, AtomicNames, AtomicChecks DEF Atomic!SearchPointCommand
  <2> QED BY <1>1, <2>1, <2>5, AtomicNext
<1>8. CASE HKeys /\ cmd \in {"IDEL", "POLYLIST"}
  <2>1. \/ ListFails(start, i) /\ reply' = <<cmd, args, <<"error", ListError>>>>
        \/ /\ ~ListFails(start, i) /\ cmd = "POLYLIST"
           /\ reply' = <<cmd, args, <<"set", ListPolygons(start, i)>>>>
    BY <1>8 DEF HKeys, Goto, Answer, i
  <2>2. args = <<i>> /\ cmd \in {"IDEL", "POLYLIST"}
    BY <1>8, RequestKinds DEF HKeys, i
  <2>3. CASE cmd = "POLYLIST"
    <3>1. \/ /\ ListFails(start, i)
             /\ Atomic!Refuse("POLYLIST", <<i>>, "error while fetching polygons")
          \/ /\ ~ListFails(start, i)
             /\ Atomic!Reply("POLYLIST", <<i>>, <<"set", ListPolygons(start, i)>>)
      BY <1>1, <2>1, <2>2, <2>3, AtomicAnswers DEF ListError
    <3>2. Atomic!ListPolygonsCommand(i)
      BY <1>1, <1>2, <3>1, AtomicNames, AtomicChecks DEF Atomic!ListPolygonsCommand
    <3> QED BY <1>1, <3>2, AtomicNext
  <2>4. CASE cmd = "IDEL"
    <3>1. ListFails(start, i) /\ Atomic!Refuse("IDEL", <<i>>, "failed to delete the index")
      BY <1>1, <2>1, <2>2, <2>4, AtomicAnswers DEF ListError
    <3>2. Atomic!DeleteIndexCommand(i)
      BY <1>1, <1>2, <3>1, AtomicNames, AtomicChecks DEF Atomic!DeleteIndexCommand
    <3> QED BY <1>1, <3>2, AtomicNext
  <2> QED BY <2>2, <2>3, <2>4
<1> QED BY <1>1, <1>4, <1>5, <1>6, <1>7, <1>8

\* A handler that writes comes to its end, having done one of these.
Wrote ==
  \/ /\ cmd = "ISET" /\ NoSuchIndex(start, index)
     /\ db' = CreateIndex(start, index) /\ reply' = <<cmd, args, <<"ok">>>>
  \/ /\ cmd = "POLYSET" /\ IsIndex(start, index) /\ BodyError = "none"
     /\ db' = SetPolygonCells(
                DeletePolygonCells(SetPolygonBody(start, index, args[2], args[3]),
                                   index, {args[2]}),
                index, args[2], IndexPolygon[args[3]])
     /\ reply' = <<cmd, args, <<"int", 1>>>>
  \/ /\ cmd = "POLYDEL" /\ IsIndex(start, index)
     /\ db' = DeletePolygonCells(DeletePolygonBody(start, index, {args[2]}), index, {args[2]})
     /\ reply' = <<cmd, args, <<"int", IF HasCells(start, index, args[2]) THEN 1 ELSE 0>>>>
  \/ /\ cmd = "IDEL" /\ IsIndex(start, index) /\ ~ListFails(start, index)
     /\ \E D \in SUBSET ListPolygons(start, index), q \in ListPolygons(start, index) :
          /\ StopsAt(start, index, D, q) /\ db' = DeleteIndexStopped(start, index, D, q)
     /\ reply' = <<cmd, args, <<"error", "failed to delete the index">>>>
  \/ /\ cmd = "IDEL" /\ IsIndex(start, index) /\ ~ListFails(start, index)
     /\ Deletable(start, index, ListPolygons(start, index))
     /\ db' = DeleteIndex(start, index) /\ reply' = <<cmd, args, <<"int", 1>>>>

LEMMA WroteChanges ==
  ASSUME run \in Requests, Wrote
  PROVE  Changed(start, db')
<1>1. index \in Indexes /\ (cmd \in {"POLYSET", "POLYDEL"} => args[2] \in Polygons)
  BY RequestKinds
<1>2. cmd = "POLYSET" /\ BodyError = "none" => args[3] \in ValidBodies /\ IndexPolygon[args[3]] # {}
  BY DEF BodyError
<1> QED BY <1>1, <1>2 DEF Wrote, Changed

LEMMA WroteIsCommand ==
  ASSUME run \in Requests, at # "idle", at' = "idle", Wrote
  PROVE  Atomic!Next
<1> DEFINE i == index
<1>1. i \in Indexes
  BY RequestKinds
<1>2. /\ (IF at = "idle" THEN db ELSE start) = start
      /\ (IF at = "idle" THEN db ELSE start)' = db'
  OBVIOUS
<1> HIDE DEF i
<1>4. CASE cmd = "ISET"
  <2>1. args = <<i>>
    BY <1>4, RequestKinds DEF i
  <2>2. NoSuchIndex(start, i) /\ db' = CreateIndex(start, i) /\ reply' = <<"ISET", <<i>>, <<"ok">>>>
    BY <1>4, <2>1 DEF Wrote, i
  <2>3. Atomic!SetIndexCommand(i)
    BY <1>1, <1>2, <2>2, AtomicNames, AtomicChecks, AtomicStorage, AtomicAnswers
       DEF Atomic!SetIndexCommand
  <2> QED BY <1>1, <2>3, AtomicNext
<1>5. CASE cmd = "POLYSET"
  <2> DEFINE p == args[2] b == args[3]
  <2>1. args = <<i, p, b>> /\ p \in Polygons /\ b \in Bodies
    BY <1>5, RequestKinds DEF i
  <2>2. /\ IsIndex(start, i) /\ b \in ValidBodies /\ IndexPolygon[b] # {}
        /\ db' = SetPolygonCells(
                   DeletePolygonCells(SetPolygonBody(start, i, p, b), i, {p}),
                   i, p, IndexPolygon[b])
        /\ reply' = <<"POLYSET", <<i, p, b>>, <<"int", 1>>>>
    BY <1>5, <2>1 DEF Wrote, BodyError, i
  <2> HIDE DEF p, b
  <2>3. /\ Atomic!NamesOk(i, {p}) /\ Atomic!IsIndex(start, i)
        /\ Atomic!Answer("POLYSET", <<i, p, b>>, <<"int", 1>>)
    BY <1>1, <2>1, <2>2, AtomicNames, AtomicChecks, AtomicAnswers
  <2>4. db' = Atomic!SetPolygonCells(
                Atomic!DeletePolygonCells(Atomic!SetPolygonBody(start, i, p, b), i, {p}),
                i, p, IndexPolygon[b])
    BY <2>2, AtomicStorage
  <2>5. Atomic!SetPolygonCommand(i, p, b)
    BY <1>2, <2>2, <2>3, <2>4 DEF Atomic!SetPolygonCommand
  <2> QED BY <1>1, <2>1, <2>5, AtomicNext
<1>6. CASE cmd = "POLYDEL"
  <2> DEFINE p == args[2]
             n == IF HasCells(start, i, p) THEN 1 ELSE 0
  <2>1. args = <<i, p>> /\ p \in Polygons
    BY <1>6, RequestKinds DEF i
  <2>2. /\ IsIndex(start, i)
        /\ db' = DeletePolygonCells(DeletePolygonBody(start, i, {p}), i, {p})
        /\ reply' = <<"POLYDEL", <<i, p>>, <<"int", n>>>>
    BY <1>6, <2>1 DEF Wrote, i
  <2>3. n = IF Atomic!HasCells(start, i, p) THEN 1 ELSE 0
    BY AtomicChecks
  <2> HIDE DEF p, n
  <2>4. /\ Atomic!NamesOk(i, {p}) /\ Atomic!IsIndex(start, i)
        /\ Atomic!Answer("POLYDEL", <<i, p>>, <<"int", n>>)
    BY <1>1, <2>1, <2>2, AtomicNames, AtomicChecks, AtomicAnswers
  <2>5. db' = Atomic!DeletePolygonCells(Atomic!DeletePolygonBody(start, i, {p}), i, {p})
    BY <2>2, AtomicStorage
  <2>6. Atomic!DeletePolygonCommand(i, p)
    BY <1>2, <2>3, <2>4, <2>5 DEF Atomic!DeletePolygonCommand
  <2> QED BY <1>1, <2>1, <2>6, AtomicNext
<1>7. CASE cmd = "IDEL"
  <2>1. args = <<i>>
    BY <1>7, RequestKinds DEF i
  <2>2. /\ Atomic!NamesOk(i, {}) /\ Atomic!IsIndex(start, i) /\ ~Atomic!ListFails(start, i)
        /\ Atomic!ListPolygons(start, i) = ListPolygons(start, i)
    BY <1>1, <1>7, AtomicNames, AtomicChecks DEF Wrote, i
  <2>3. \/ /\ \E D \in SUBSET ListPolygons(start, i), q \in ListPolygons(start, i) :
                StopsAt(start, i, D, q) /\ db' = DeleteIndexStopped(start, i, D, q)
           /\ reply' = <<"IDEL", <<i>>, <<"error", "failed to delete the index">>>>
        \/ /\ Deletable(start, i, ListPolygons(start, i)) /\ db' = DeleteIndex(start, i)
           /\ reply' = <<"IDEL", <<i>>, <<"int", 1>>>>
    BY <1>7, <2>1 DEF Wrote, i
  <2>4. CASE /\ Deletable(start, i, ListPolygons(start, i)) /\ db' = DeleteIndex(start, i)
             /\ reply' = <<"IDEL", <<i>>, <<"int", 1>>>>
    <3>1. /\ Atomic!Deletable(start, i, Atomic!ListPolygons(start, i))
          /\ db' = Atomic!DeleteIndex(start, i) /\ Atomic!Answer("IDEL", <<i>>, <<"int", 1>>)
      BY <2>2, <2>4, AtomicChecks, AtomicStorage, AtomicAnswers
    <3>2. Atomic!DeleteIndexCommand(i)
      BY <1>2, <2>2, <3>1 DEF Atomic!DeleteIndexCommand
    <3> QED BY <1>1, <3>2, AtomicNext
  <2>5. ASSUME NEW D \in SUBSET ListPolygons(start, i), NEW q \in ListPolygons(start, i),
               StopsAt(start, i, D, q), db' = DeleteIndexStopped(start, i, D, q),
               reply' = <<"IDEL", <<i>>, <<"error", "failed to delete the index">>>>
        PROVE  Atomic!DeleteIndexCommand(i)
    <3>1. /\ Atomic!StopsAt(start, i, D, q) /\ db' = Atomic!DeleteIndexStopped(start, i, D, q)
          /\ Atomic!Answer("IDEL", <<i>>, <<"error", "failed to delete the index">>)
      BY <2>5, AtomicChecks, AtomicStorage, AtomicAnswers
    <3>2. \E E \in SUBSET Atomic!ListPolygons(start, i), r \in Atomic!ListPolygons(start, i) :
            /\ Atomic!StopsAt(start, i, E, r)
            /\ db' = Atomic!DeleteIndexStopped(start, i, E, r)
      BY <2>2, <3>1
    <3> QED BY <1>2, <2>2, <3>1, <3>2 DEF Atomic!DeleteIndexCommand
  <2> QED BY <1>1, <2>3, <2>4, <2>5, AtomicNext
<1> QED BY <1>4, <1>5, <1>6, <1>7 DEF Wrote

-----------------------------------------------------------------------------
(* Where a handler is does not depend on the keys it writes.               *)

LEMMA SameCommand ==
  ASSUME run' = run, start' = start
  PROVE  /\ cmd' = cmd /\ args' = args /\ index' = index /\ Listed' = Listed
         /\ BodyError' = BodyError /\ IsIndex(start, index)' = IsIndex(start, index)
         /\ ListFails(start, index)' = ListFails(start, index)
  BY DEF cmd, args, index, Listed, ListPolygons, BodyError, IsIndex, ListFails

LEMMA SameEntered ==
  ASSUME run' = run, start' = start, polygon' = polygon
  PROVE  \A D : Entered(D)' = Entered(D) /\ Found(D)' = Found(D)
<1> SUFFICES ASSUME NEW D PROVE Entered(D)' = Entered(D) /\ Found(D)' = Found(D)
  OBVIOUS
<1>1. cmd' = cmd /\ args' = args /\ index' = index
  BY SameCommand
<1>2. Entered(D)' = Entered(D)
  BY <1>1 DEF Entered, SetPolygonBody, DeletePolygonBody, DeletePolygons, DeletePolygonCells
<1> QED BY <1>1, <1>2 DEF Found

LEMMA SamePolygon ==
  ASSUME run' = run, start' = start, polygon' = polygon, polygons' = polygons
  PROVE  \A D : AtPolygon(D)' = AtPolygon(D)
  BY SameCommand DEF AtPolygon, Deletable, HasCells

\* A handler that answers or dies leaves everything as a command finds it.
LEMMA Left ==
  ASSUME at' \in {"idle", "down"}, start' = db', Leave
  PROVE  Progress'
  BY DEF Progress, AtStart, Places, Running, Leave, NoLocals

-----------------------------------------------------------------------------
(* What DeletePolygonCells finds.                                          *)

LEMMA MetaWellFormed ==
  ASSUME NEW d, WellFormed(d), NEW e, NEW i, NEW m, MetaSet(d, e, i, m)
  PROVE  WellFormed(e)
  BY DEF WellFormed, MetaSet, SameBut

LEMMA MovedWellFormed ==
  ASSUME NEW d, WellFormed(d), NEW e, NEW i, NEW c, NEW T, NEW p, NEW G, NEW C,
         Moved(d, e, i, c, T, p, G, C), \A t \in C : <<i, t>> \notin d.wrongSet
  PROVE  WellFormed(e)
<1>1. e \in Keyspaces /\ SameBut(d, e, {"cellinfo", "cells"})
  BY DEF Moved
<1>2. ASSUME NEW j \in Indexes, NEW t \in Terms, <<j, t>> \in d.wrongSet
      PROVE  e.cells[j][t] \subseteq d.cells[j][t]
  <2>1. e.cells[j][t] \subseteq Polygons
    BY <1>1 DEF Keyspaces
  <2> QED BY <1>2, <2>1 DEF Moved
<1> QED BY <1>1, <1>2, CellsWellFormed

LEMMA PuttingWellFormed ==
  ASSUME NEW d, WellFormed(d), NEW i \in Indexes, NEW p \in Polygons,
         NEW T \in SUBSET Terms, NEW S
  PROVE  WellFormed(Putting(d, i, p, T, S))
<1>1. d \in Keyspaces
  BY DEF WellFormed
<1>2. PICK C : C = Takers(d, i, T \ S)
  OBVIOUS
<1>3. \A t \in C : <<i, t>> \notin d.wrongSet
  BY <1>2 DEF Takers
<1> QED BY <1>1, <1>2, <1>3, PuttingFields, MovedWellFormed

\* In POLYSET and POLYDEL: the cells of the polygon are untouched.
LEMMA OnePolygonEntered ==
  ASSUME WellFormed(start), run \in Requests, NEW D, AtPolygon(D), cmd \in {"POLYSET", "POLYDEL"}
  PROVE  /\ AtPolygon({}) /\ Entered(D) = Entered({}) /\ WellFormed(Entered(D))
         /\ Found(D) = start.cellinfo[index][CStr[polygon]]
<1>1. index \in Indexes /\ (cmd = "POLYSET" => args[3] \in Bodies) /\ polygon \in Polygons
  BY RequestKinds DEF AtPolygon
<1>2. AtPolygon({})
  BY DEF AtPolygon
<1>3. Entered(D) = IF cmd = "POLYSET" THEN SetPolygonBody(start, index, polygon, args[3])
                                      ELSE DeletePolygonBody(start, index, {polygon})
  BY DEF Entered
<1>4. Entered({}) = Entered(D)
  BY <1>3 DEF Entered
<1>5. WellFormed(Entered(D)) /\ Entered(D).cellinfo = start.cellinfo
  BY <1>1, <1>3, BodyCallsKeepCells
<1> QED BY <1>2, <1>4, <1>5 DEF Found

\* In IDEL: there are cells unless DeleteIndex stops at this polygon.
LEMMA OneOfManyEntered ==
  ASSUME WellFormed(start), run \in Requests, NEW D, AtPolygon(D), cmd = "IDEL"
  PROVE  /\ WellFormed(Entered(D))
         /\ HasCells(Entered(D), index, polygon) <=> Deletable(start, index, D \cup {polygon})
<1>1. index \in Indexes /\ polygon \in Polygons /\ D \in SUBSET Polygons /\ CStr[polygon] \in CNames
  BY RequestKinds DEF AtPolygon, CNames
<1>2. polygon \notin D /\ Deletable(start, index, D)
  BY DEF AtPolygon
<1>3. PICK e : e = DeletePolygons(start, index, D)
  OBVIOUS
<1>4. WellFormed(e)
  BY <1>1, <1>3, DeletePolygonsWellFormed
<1>5. Entered(D) = DeletePolygonBody(e, index, {polygon})
  BY <1>3 DEF Entered
<1>6. WellFormed(Entered(D)) /\ Entered(D).cellinfo = e.cellinfo
  BY <1>1, <1>4, <1>5, BodyCallsKeepCells
<1>7. e.cellinfo[index][CStr[polygon]] =
        IF \E q \in D : CStr[q] = CStr[polygon]
          THEN {} ELSE start.cellinfo[index][CStr[polygon]]
  BY <1>1, <1>3, DeletePolygonsFields DEF WellFormed
<1>8. HasCells(Entered(D), index, polygon) <=>
        /\ HasCells(start, index, polygon)
        /\ \A q \in D : CStr[q] # CStr[polygon]
  BY <1>6, <1>7 DEF HasCells
<1>9. Deletable(start, index, D \cup {polygon}) <=>
        /\ HasCells(start, index, polygon)
        /\ \A q \in D : CStr[q] # CStr[polygon]
  BY <1>2 DEF Deletable
<1> QED BY <1>6, <1>8, <1>9

LEMMA EnteredWellFormed ==
  ASSUME WellFormed(start), run \in Requests, NEW D, AtPolygon(D)
  PROVE  WellFormed(Entered(D))
  BY OnePolygonEntered, OneOfManyEntered DEF AtPolygon

-----------------------------------------------------------------------------
(* One lemma per call: it keeps the keyspace well formed and takes the     *)
(* handler where Progress says, or to the end of what the command does.    *)

IInv == Typed /\ Progress

\* What every call must be shown to do.
Onward == WellFormed(db') /\ Progress' /\ (at' = "idle" => Wrote)

LEMMA StartProgress ==
  ASSUME IInv, NEW r \in Requests, Start(r)
  PROVE  WellFormed(db') /\ Progress'
<1>1. AtStart /\ ~Running
  BY DEF IInv, Progress, Start, Running
<1>2. AtStart'
  BY <1>1 DEF Start, AtStart, NoLocals
<1> HIDE DEF AtStart
<1> QED BY <1>2 DEF IInv, Typed, Progress, Start, Places, Running

LEMMA HGetMetaProgress ==
  ASSUME IInv, HGetMeta
  PROVE  /\ WellFormed(db') /\ Progress' /\ db' = db
         /\ at' = "idle" => run \in Requests /\ start = db
<1>1. /\ AtStart /\ run \in Requests /\ at = "HGET meta" /\ db' = db
  BY DEF IInv, Progress, Running, HGetMeta, Quiet
<1>2. (\E out : Answer(out)) => Progress'
  BY Left DEF Answer
<1>3. ASSUME cmd = "ISET" /\ NoSuchIndex(db, index) /\ Goto("HSET meta"),
             UNCHANGED <<polygon, polygons, cells>>
      PROVE  Progress'
  <2>1. AtStart' /\ at' = "HSET meta" /\ run' \in Requests /\ cmd' = "ISET"
    BY <1>1, <1>3, SameCommand DEF Goto, AtStart, NoLocals
  <2>2. NoSuchIndex(start, index)'
    BY <1>1, <1>3, SameCommand DEF Goto, AtStart, NoSuchIndex
  <2> HIDE DEF AtStart
  <2> QED BY <2>1, <2>2 DEF Progress, Places, Running
<1>4. ASSUME cmd \notin {"ISET", "IGET"}, IsIndex(db, index), BodyError = "none",
             Goto(FirstCall),
             polygon' = IF cmd \in {"POLYSET", "POLYDEL"} THEN args[2] ELSE NoBody,
             UNCHANGED <<polygons, cells>>
      PROVE  Progress'
  <2>1. /\ run' = run /\ start' = start /\ at' = FirstCall
        /\ db' = start' /\ polygons' = {} /\ cells' = {}
    BY <1>1, <1>4 DEF Goto, AtStart, NoLocals
  <2>2. cmd' = cmd /\ args' = args /\ IsIndex(start, index)' /\ BodyError' = "none"
    BY <1>1, <1>4, <2>1, SameCommand DEF AtStart
  <2>3. cmd \in {"IDEL", "POLYLIST", "POLYSET", "POLYDEL", "POLYGET", "POLYMGET",
                 "POLYSEARCH", "POINTSEARCH"}
    BY <1>1, <1>4, RequestKinds
  <2>4. CASE cmd \in {"POLYSET", "POLYDEL"}
    <3>1. polygon' = args[2] /\ at' = IF cmd = "POLYSET" THEN "HSET polygon" ELSE "HDEL"
      BY <1>4, <2>1, <2>4 DEF FirstCall
    <3>2. cmd = "POLYDEL" => AtHDel'
      BY <2>1, <2>2, <3>1 DEF AtHDel
    <3> HIDE DEF AtHDel
    <3> QED BY <1>1, <2>1, <2>2, <2>4, <3>1, <3>2 DEF Progress, Places, Running
  <2>5. CASE cmd \notin {"POLYSET", "POLYDEL"}
    <3>1. AtStart'
      BY <1>4, <2>1, <2>5 DEF AtStart, NoLocals
    <3>2. \/ at' = "HKEYS" /\ cmd \in {"IDEL", "POLYLIST"}
          \/ at' = "HGET polygon" /\ cmd = "POLYGET"
          \/ at' = "HMGET" /\ cmd = "POLYMGET"
          \/ at' = "SUNION" /\ cmd \in {"POLYSEARCH", "POINTSEARCH"}
      BY <2>1, <2>3, <2>5 DEF FirstCall
    <3> HIDE DEF AtStart
    <3> QED BY <1>1, <2>1, <2>2, <3>1, <3>2 DEF Progress, Places, Running
  <2> QED BY <2>4, <2>5
<1>5. Progress'
  BY <1>2, <1>3, <1>4 DEF HGetMeta
<1> QED BY <1>1, <1>5 DEF IInv, Typed, AtStart

LEMMA HSetMetaProgress ==
  ASSUME IInv, HSetMeta
  PROVE  Onward
<1>1. /\ AtStart /\ run \in Requests /\ cmd = "ISET" /\ NoSuchIndex(start, index)
  BY DEF IInv, Progress, Running, HSetMeta
<1>2. db' = CreateIndex(start, index)
  BY <1>1 DEF HSetMeta, AtStart
<1>3. WellFormed(db')
  BY <1>1, <1>2, RequestKinds, CreateIndexWellFormed DEF IInv, Typed
<1>4. Progress'
  BY Left DEF HSetMeta, Answer
<1>5. Wrote
  BY <1>1, <1>2 DEF HSetMeta, Answer, Wrote
<1> QED BY <1>3, <1>4, <1>5 DEF Onward

LEMMA ReadingProgress ==
  ASSUME IInv, HGetPolygon \/ HMGet \/ SUnion
  PROVE  WellFormed(db') /\ Progress'
  BY Left DEF HGetPolygon, HMGet, SUnion, Answer, Quiet, IInv, Typed

LEMMA HKeysProgress ==
  ASSUME IInv, HKeys
  PROVE  WellFormed(db') /\ Progress'
<1>1. /\ AtStart /\ run \in Requests /\ db' = db
      /\ IsIndex(start, index) /\ BodyError = "none"
  BY DEF IInv, Progress, Running, HKeys, Quiet
<1>2. (\E out : Answer(out)) => Progress'
  BY Left DEF Answer
<1>3. ASSUME cmd = "IDEL", ~ListFails(db, index), polygons' = ListPolygons(db, index),
             Goto(IF polygons' = {} THEN "DEL meta" ELSE "HDEL"),
             UNCHANGED <<polygon, cells>>
      PROVE  Progress'
  <2>1. /\ run' = run /\ start' = start /\ db' = start /\ cells' = {}
        /\ polygons' = Listed /\ at' = IF polygons' = {} THEN "DEL meta" ELSE "HDEL"
    BY <1>1, <1>3 DEF Goto, AtStart, NoLocals, Listed
  <2>2. /\ cmd' = "IDEL" /\ index' = index /\ Listed' = Listed
        /\ IsIndex(start, index)' /\ BodyError' = "none"
    BY <1>1, <1>3, <2>1, SameCommand
  <2>3. AtNext'
    <3>1. Deletable(start, index, {})
      BY DEF Deletable
    <3>2. start = DeletePolygons(start, index, {})
      BY <1>1, NoneDeleted, RequestKinds DEF IInv, Typed, WellFormed
    <3>3. Listed = Listed \ {}
      OBVIOUS
    <3>4. Deletable(start', index', {}) /\ db' = DeletePolygons(start', index', {})
      BY <2>1, <2>2, <3>1, <3>2
    <3>5. ~ListFails(start', index')
      BY <1>1, <1>3, <2>1, <2>2 DEF AtStart
    <3> QED BY <2>1, <2>2, <3>3, <3>4, <3>5 DEF AtNext
  <2>4. AtHDel' \/ polygons' = {}
    BY <2>3 DEF AtHDel
  <2> HIDE DEF AtNext, AtHDel
  <2> QED BY <1>1, <2>1, <2>2, <2>3, <2>4 DEF Progress, Places, Running
<1>4. Progress'
  BY <1>2, <1>3 DEF HKeys
<1> QED BY <1>1, <1>4 DEF IInv, Typed

LEMMA HSetPolygonProgress ==
  ASSUME IInv, HSetPolygon
  PROVE  Onward
<1>1. /\ run \in Requests /\ cmd = "POLYSET" /\ polygon = args[2] /\ db = start
      /\ polygons = {} /\ cells = {} /\ IsIndex(start, index) /\ BodyError = "none"
  BY DEF IInv, Progress, Running, HSetPolygon
<1>2. polygon \in Polygons /\ index \in Indexes /\ args[3] \in Bodies
  BY <1>1, RequestKinds
<1>3. /\ run' = run /\ start' = start /\ polygon' = polygon /\ polygons' = polygons
      /\ cells' = {} /\ at' = "SMEMBERS"
      /\ db' = SetPolygonBody(start, index, polygon, args[3])
  BY <1>1 DEF HSetPolygon, Goto
<1>4. AtPolygon({}) /\ Entered({}) = db'
  BY <1>1, <1>2, <1>3 DEF AtPolygon, Entered
<1>5. AtSMembers'
  <2>1. AtPolygon({})' /\ Entered({})' = Entered({})
    BY <1>3, <1>4, SameEntered, SamePolygon
  <2> QED BY <1>3, <1>4, <2>1 DEF AtSMembers
<1>6. Progress'
  <2>1. run' \in Requests /\ IsIndex(start, index)' /\ BodyError' = "none"
    BY <1>1, <1>3, SameCommand
  <2> HIDE DEF AtSMembers
  <2> QED BY <1>3, <1>5, <2>1 DEF Progress, Places, Running
<1>7. WellFormed(db')
  BY <1>2, <1>3, BodyCallsKeepCells DEF IInv, Typed
<1> QED BY <1>3, <1>6, <1>7 DEF Onward

LEMMA HDelProgress ==
  ASSUME IInv, HDel
  PROVE  Onward
<1>1. /\ run \in Requests /\ AtHDel /\ IsIndex(start, index) /\ BodyError = "none"
      /\ index \in Indexes
  BY RequestKinds DEF IInv, Progress, Running, HDel
<1>2. /\ run' = run /\ start' = start /\ at' = "SMEMBERS" /\ cells' = cells
      /\ db' = DeletePolygonBody(db, index, {polygon'})
  BY DEF HDel, Goto
<1>3. /\ cmd' = cmd /\ args' = args /\ index' = index /\ Listed' = Listed
      /\ run' \in Requests /\ IsIndex(start, index)' /\ BodyError' = "none"
  BY <1>1, <1>2, SameCommand
<1>4. cells' = {} /\ \E D \in SUBSET Polygons : AtPolygon(D)' /\ db' = Entered(D)'
  <2>1. CASE cmd = "POLYDEL"
    <3>1. polygon' = polygon /\ polygons' = polygons
      BY <2>1 DEF HDel
    <3>2. polygon = args[2] /\ db = start /\ polygons = {} /\ cells = {}
      BY <1>1, <2>1 DEF AtHDel, AtNext
    <3>3. AtPolygon({}) /\ Entered({}) = db'
      BY <1>1, <1>2, <2>1, <3>1, <3>2, RequestKinds DEF AtPolygon, Entered
    <3> QED BY <1>2, <3>1, <3>2, <3>3, SamePolygon, SameEntered
  <2>2. CASE cmd = "IDEL"
    <3>1. AtNext /\ polygon' \in polygons /\ polygons' = polygons \ {polygon'}
      BY <1>1, <2>2 DEF HDel, AtHDel
    <3>2. PICK D \in SUBSET Listed :
            /\ Deletable(start, index, D) /\ db = DeletePolygons(start, index, D)
            /\ polygons = Listed \ D /\ cells = {}
      BY <3>1 DEF AtNext
    <3>3. Listed \in SUBSET Polygons
      BY DEF Listed, ListPolygons
    <3>4. AtPolygon(D)'
      <4>1. /\ polygon' \in Listed' \ D /\ D \subseteq Listed' /\ cmd' = "IDEL"
            /\ polygons' = Listed' \ (D \cup {polygon'})
        BY <1>3, <2>2, <3>1, <3>2
      <4>2. Deletable(start', index', D) /\ ~ListFails(start', index')
        <5>1. ~ListFails(start, index)
          BY <3>1 DEF AtNext
        <5> QED BY <1>2, <1>3, <3>2, <5>1
      <4> QED BY <1>3, <3>3, <4>1, <4>2 DEF AtPolygon
    <3>5. db' = Entered(D)'
      <4>1. db' = DeletePolygonBody(DeletePolygons(start', index', D), index', {polygon'})
        BY <1>2, <1>3, <3>2
      <4> QED BY <1>3, <2>2, <4>1 DEF Entered
    <3> QED BY <1>2, <3>2, <3>3, <3>4, <3>5
  <2> QED BY <2>1, <2>2 DEF HDel
<1>5. AtSMembers'
  BY <1>4 DEF AtSMembers
<1>6. Progress'
  <2> HIDE DEF AtSMembers
  <2> QED BY <1>2, <1>3, <1>5 DEF Progress, Places, Running
<1>7. WellFormed(db')
  BY <1>1, <1>2, BodyCallsKeepCells DEF IInv, Typed
<1> QED BY <1>2, <1>6, <1>7 DEF Onward

\* DeletePolygonCells, found cells or not, when it is through.
LEMMA CellsDeletedProgress ==
  ASSUME IInv, at # "idle", run \in Requests, IsIndex(start, index), BodyError = "none",
         NEW D, AtPolygon(D), NEW found \in BOOLEAN, CellsDeleted(found),
         found <=> HasCells(Entered(D), index, polygon),
         db' = DeletePolygonCells(Entered(D), index, {polygon})
  PROVE  Onward
<1>1. index \in Indexes /\ polygon \in Polygons /\ D \in SUBSET Polygons
  BY RequestKinds DEF AtPolygon
<1>2. WellFormed(Entered(D)) /\ WellFormed(db')
  <2>1. WellFormed(Entered(D))
    BY EnteredWellFormed DEF IInv, Typed
  <2>2. {polygon} \in SUBSET Polygons
    BY <1>1
  <2> QED BY <1>1, <2>1, <2>2, DeletePolygonCellsWellFormed
<1>3. ASSUME cmd = "POLYSET" PROVE Progress' /\ at' # "idle"
  <2>1. /\ run' = run /\ start' = start /\ polygon' = polygon /\ polygons' = polygons
        /\ cells' = {} /\ at' = "SADD cellinfo"
    BY <1>3 DEF CellsDeleted, Goto
  <2>2. AtPolygon({}) /\ db' = Emptied
    BY <1>3, OnePolygonEntered DEF Emptied, IInv, Typed
  <2>3. /\ cmd' = cmd /\ index' = index /\ run' \in Requests
        /\ IsIndex(start, index)' /\ BodyError' = "none"
    BY <2>1, SameCommand
  <2>4. AtPolygon({})' /\ Emptied' = Emptied
    BY <2>1, <2>2, <2>3, SamePolygon, SameEntered DEF Emptied
  <2>5. AtSAddCellInfo'
    BY <1>3, <2>1, <2>2, <2>3, <2>4 DEF AtSAddCellInfo
  <2> HIDE DEF AtSAddCellInfo
  <2> QED BY <2>1, <2>3, <2>5 DEF Progress, Places, Running
<1>4. ASSUME cmd = "POLYDEL" PROVE Progress' /\ Wrote
  <2>1. Answer(<<"int", IF found THEN 1 ELSE 0>>)
    BY <1>4 DEF CellsDeleted
  <2>2. polygon = args[2] /\ Entered(D) = DeletePolygonBody(start, index, {polygon})
    BY <1>4 DEF AtPolygon, Entered
  <2>3. found <=> HasCells(start, index, args[2])
    BY <1>4, <2>2, OnePolygonEntered DEF HasCells, Found, IInv, Typed
  <2>4. (IF found THEN 1 ELSE 0) = IF HasCells(start, index, args[2]) THEN 1 ELSE 0
    BY <2>3
  <2>5. reply' = <<cmd, args, <<"int", IF HasCells(start, index, args[2]) THEN 1 ELSE 0>>>>
    BY <2>1, <2>4 DEF Answer
  <2> QED BY <1>4, <2>1, <2>2, <2>5, Left DEF Answer, Wrote
<1>5. ASSUME cmd = "IDEL", ~found PROVE Progress' /\ Wrote
  <2>1. Answer(<<"error", "failed to delete the index">>)
    BY <1>5 DEF CellsDeleted
  <2>2. polygon \in Listed /\ D \subseteq Listed \ {polygon} /\ Deletable(start, index, D)
    BY <1>5 DEF AtPolygon
  <2>3. StopsAt(start, index, D, polygon)
    BY <1>5, <2>2, OneOfManyEntered DEF StopsAt, Listed, IInv, Typed
  <2>4. db' = Entered(D)
    BY <1>1, <1>2, <1>5, NothingToTake DEF WellFormed
  <2>5. db' = DeleteIndexStopped(start, index, D, polygon)
    BY <1>5, <2>4 DEF Entered, DeleteIndexStopped
  <2>6. \E E \in SUBSET ListPolygons(start, index), q \in ListPolygons(start, index) :
          StopsAt(start, index, E, q) /\ db' = DeleteIndexStopped(start, index, E, q)
    BY <2>2, <2>3, <2>5 DEF Listed
  <2>7. ~ListFails(start, index)
    BY <1>5 DEF AtPolygon
  <2> QED BY <1>5, <2>1, <2>6, <2>7, Left DEF Answer, Wrote
<1>6. ASSUME cmd = "IDEL", found PROVE Progress' /\ at' # "idle"
  <2>1. /\ run' = run /\ start' = start /\ polygons' = polygons /\ cells' = {}
        /\ at' = IF polygons' = {} THEN "DEL meta" ELSE "HDEL"
    BY <1>6 DEF CellsDeleted, Goto
  <2>2. /\ cmd' = "IDEL" /\ index' = index /\ Listed' = Listed /\ run' \in Requests
        /\ IsIndex(start, index)' /\ BodyError' = "none"
    BY <1>6, <2>1, SameCommand
  <2>3. PICK E : E = D \cup {polygon}
    OBVIOUS
  <2>4. E \in SUBSET Listed /\ polygons' = Listed \ E
    BY <1>6, <2>1, <2>3 DEF AtPolygon
  <2>5. Deletable(start, index, E)
    BY <1>6, <2>3, OneOfManyEntered DEF IInv, Typed
  <2>6. db' = DeletePolygons(start, index, E)
    <3>1. polygon \notin D
      BY <1>6 DEF AtPolygon
    <3>2. \A q \in D : CStr[q] # CStr[polygon]
      BY <2>3, <2>5, <3>1 DEF Deletable
    <3>3. Entered(D) = DeletePolygonBody(DeletePolygons(start, index, D), index, {polygon})
      BY <1>6 DEF Entered
    <3> QED BY <1>1, <2>3, <3>2, <3>3, OneMoreDeleted DEF IInv, Typed, WellFormed
  <2>7. AtNext'
    <3>1. Deletable(start', index', E) /\ db' = DeletePolygons(start', index', E)
      BY <2>1, <2>2, <2>5, <2>6
    <3>2. ~ListFails(start', index')
      BY <1>6, <2>1, <2>2 DEF AtPolygon
    <3> QED BY <2>1, <2>2, <2>4, <3>1, <3>2 DEF AtNext
  <2>8. AtHDel' \/ polygons' = {}
    BY <2>7 DEF AtHDel
  <2> HIDE DEF AtNext, AtHDel
  <2> QED BY <2>1, <2>2, <2>7, <2>8 DEF Progress, Places, Running
<1> QED BY <1>2, <1>3, <1>4, <1>5, <1>6 DEF Onward, AtPolygon

LEMMA SMembersProgress ==
  ASSUME IInv, SMembers
  PROVE  Onward
<1>1. /\ run \in Requests /\ AtSMembers /\ IsIndex(start, index) /\ BodyError = "none"
      /\ db' = db /\ at # "idle"
  BY DEF IInv, Progress, Running, SMembers, Quiet
<1>2. PICK D \in SUBSET Polygons : AtPolygon(D) /\ db = Entered(D) /\ cells = {}
  BY <1>1 DEF AtSMembers
<1>3. polygon \in Polygons /\ index \in Indexes /\ WellFormed(db)
  BY <1>1, <1>2, RequestKinds DEF AtPolygon, IInv, Typed
<1>4. CASE ~HasCells(db, index, polygon) /\ CellsDeleted(FALSE)
  <2>1. db' = DeletePolygonCells(Entered(D), index, {polygon})
    BY <1>1, <1>2, <1>3, <1>4, NothingToTake DEF WellFormed
  <2>2. ~HasCells(Entered(D), index, polygon)
    BY <1>2, <1>4
  <2> QED BY <1>1, <1>2, <1>4, <2>1, <2>2, CellsDeletedProgress
<1>5. ASSUME Goto("DEL cellinfo") \/ Goto("DEL wrong cellinfo"),
             UNCHANGED <<polygon, polygons>>
      PROVE  /\ \E E \in SUBSET Polygons : AtPolygon(E)' /\ db' = Entered(E)' /\ Found(E)' = Found(D)
             /\ run' \in Requests /\ IsIndex(start, index)' /\ BodyError' = "none"
  BY <1>1, <1>2, <1>5, SameCommand, SameEntered, SamePolygon DEF Goto
<1>6. CASE /\ HasCells(db, index, polygon) /\ cells' = db.cellinfo[index][CStr[polygon]]
           /\ Goto("DEL cellinfo") /\ UNCHANGED <<polygon, polygons>>
  <2>1. cells' = Found(D) /\ cells' # {}
    BY <1>2, <1>6 DEF Found, HasCells
  <2>2. AtDelCellInfo'
    BY <1>5, <1>6, <2>1 DEF AtDelCellInfo
  <2>3. Progress'
    <3> HIDE DEF AtDelCellInfo
    <3> QED BY <1>5, <1>6, <2>2 DEF Progress, Places, Running, Goto
  <2> QED BY <1>1, <1>3, <1>6, <2>3 DEF Onward, Goto
<1>7. CASE Goto("DEL wrong cellinfo") /\ UNCHANGED <<polygon, polygons, cells>>
  <2>1. AtSMembers'
    BY <1>2, <1>5, <1>7 DEF AtSMembers
  <2>2. Progress'
    <3> HIDE DEF AtSMembers
    <3> QED BY <1>5, <1>7, <2>1 DEF Progress, Places, Running, Goto
  <2> QED BY <1>1, <1>3, <1>7, <2>2 DEF Onward, Goto
<1> QED BY <1>4, <1>6, <1>7 DEF SMembers

LEMMA DelCellInfoProgress ==
  ASSUME IInv, DelCellInfo
  PROVE  Onward
<1>1. /\ run \in Requests /\ AtDelCellInfo /\ IsIndex(start, index) /\ BodyError = "none"
  BY DEF IInv, Progress, Running, DelCellInfo
<1>2. PICK D \in SUBSET Polygons : AtPolygon(D) /\ db = Entered(D) /\ cells = Found(D) /\ cells # {}
  BY <1>1 DEF AtDelCellInfo
<1>3. /\ polygon \in Polygons /\ index \in Indexes /\ WellFormed(db) /\ CStr[polygon] \in CNames
  BY <1>1, <1>2, RequestKinds DEF AtPolygon, IInv, Typed, CNames
<1>4. /\ run' = run /\ start' = start /\ polygon' = polygon /\ polygons' = polygons
      /\ cells' = cells /\ at' = "SREM"
      /\ db' = [db EXCEPT !.cellinfo[index][CStr[polygon]] = {}]
  BY DEF DelCellInfo, Goto
<1>5. /\ index' = index /\ run' \in Requests /\ IsIndex(start, index)' /\ BodyError' = "none"
  BY <1>1, <1>4, SameCommand
<1>6. db' = Taking(Entered(D), index, polygon, cells)
  BY <1>2, <1>3, <1>4, TakingBegins DEF Found, WellFormed
<1>7. AtSRem'
  <2>1. AtPolygon(D)' /\ Entered(D)' = Entered(D) /\ Found(D)' = Found(D)
    BY <1>2, <1>4, SamePolygon, SameEntered
  <2>2. db' = Taking(Entered(D)', index', polygon', cells')
    BY <1>4, <1>5, <1>6, <2>1
  <2> QED BY <1>2, <1>4, <2>1, <2>2 DEF AtSRem
<1>8. Progress'
  <2> HIDE DEF AtSRem
  <2> QED BY <1>4, <1>5, <1>7 DEF Progress, Places, Running
<1>9. WellFormed(db')
  <2>1. Moved(db, db', index, CStr[polygon], {}, polygon, {}, {})
    BY <1>3, <1>4, CellInfoFields DEF WellFormed
  <2> QED BY <1>3, <2>1, MovedWellFormed
<1> QED BY <1>4, <1>8, <1>9 DEF Onward

LEMMA DelWrongCellInfoProgress ==
  ASSUME IInv, DelWrongCellInfo
  PROVE  Onward
  BY Left DEF DelWrongCellInfo, Die, Onward, IInv, Typed

LEMMA SRemProgress ==
  ASSUME IInv, SRem
  PROVE  Onward
<1>1. /\ run \in Requests /\ AtSRem /\ IsIndex(start, index) /\ BodyError = "none" /\ at # "idle"
  BY DEF IInv, Progress, Running, SRem
<1>2. PICK D \in SUBSET Polygons :
        /\ AtPolygon(D) /\ cells \subseteq Found(D)
        /\ db = Taking(Entered(D), index, polygon, cells)
  BY <1>1 DEF AtSRem
<1>3. PICK t \in cells :
        /\ db' = [db EXCEPT !.cells[index][t] = @ \ {polygon}]
        /\ \/ /\ cells # {t} /\ cells' = cells \ {t}
              /\ Goto("SREM") /\ UNCHANGED <<polygon, polygons>>
           \/ cells = {t} /\ CellsDeleted(TRUE)
  BY DEF SRem
<1>4. /\ polygon \in Polygons /\ index \in Indexes /\ WellFormed(Entered(D))
  BY <1>1, <1>2, RequestKinds, EnteredWellFormed DEF AtPolygon, IInv, Typed
<1>5. db' = Taking(Entered(D), index, polygon, cells \ {t})
  <2>1. cells \in SUBSET Entered(D).cellinfo[index][CStr[polygon]]
    BY <1>2 DEF Found
  <2> QED BY <1>2, <1>3, <1>4, <2>1, TakingGoesOn DEF WellFormed
<1>6. CASE /\ cells # {t} /\ cells' = cells \ {t}
           /\ Goto("SREM") /\ UNCHANGED <<polygon, polygons>>
  <2>1. run' = run /\ start' = start /\ polygon' = polygon /\ polygons' = polygons /\ at' = "SREM"
    BY <1>6 DEF Goto
  <2>2. /\ index' = index /\ run' \in Requests /\ IsIndex(start, index)' /\ BodyError' = "none"
    BY <1>1, <2>1, SameCommand
  <2>3. AtSRem'
    <3>1. AtPolygon(D)' /\ Entered(D)' = Entered(D) /\ Found(D)' = Found(D)
      BY <1>2, <2>1, SamePolygon, SameEntered
    <3>2. db' = Taking(Entered(D)', index', polygon', cells')
      BY <1>5, <1>6, <2>1, <2>2, <3>1
    <3>3. cells' # {} /\ cells' \subseteq Found(D)'
      BY <1>2, <1>6, <3>1
    <3> QED BY <3>1, <3>2, <3>3 DEF AtSRem
  <2>4. Progress'
    <3> HIDE DEF AtSRem
    <3> QED BY <2>1, <2>2, <2>3 DEF Progress, Places, Running
  <2>5. WellFormed(db')
    <3>1. PICK e, C : e = Entered(D) /\ C = cells \ {t}
      OBVIOUS
    <3>2. Moved(e, db', index, CStr[polygon], {}, polygon, e.cellinfo[index][CStr[polygon]] \ C, {})
      BY <1>4, <1>5, <3>1, TakingFields DEF WellFormed
    <3> QED BY <1>4, <3>1, <3>2, MovedWellFormed
  <2> QED BY <2>1, <2>4, <2>5 DEF Onward
<1>7. CASE cells = {t} /\ CellsDeleted(TRUE)
  <2>1. cells \ {t} = {}
    BY <1>7
  <2>2. db' = DeletePolygonCells(Entered(D), index, {polygon})
    BY <1>4, <1>5, <2>1, TakingEnds DEF WellFormed
  <2>3. HasCells(Entered(D), index, polygon)
    BY <1>2 DEF HasCells, Found
  <2> QED BY <1>1, <1>2, <1>7, <2>2, <2>3, CellsDeletedProgress
<1> QED BY <1>3, <1>6, <1>7

LEMMA SAddCellInfoProgress ==
  ASSUME IInv, SAddCellInfo
  PROVE  Onward
<1>0. PICK T : T = IndexPolygon[args[3]]
  OBVIOUS
<1>1. /\ run \in Requests /\ AtSAddCellInfo /\ IsIndex(start, index) /\ BodyError = "none"
  BY DEF IInv, Progress, Running, SAddCellInfo
<1>2. AtPolygon({}) /\ cmd = "POLYSET" /\ db = Emptied
  BY <1>1 DEF AtSAddCellInfo
<1>3. polygon \in Polygons /\ index \in Indexes /\ WellFormed(db)
  BY <1>1, <1>2, RequestKinds DEF AtPolygon, IInv, Typed
<1>4. T \in SUBSET Terms /\ T # {}
  <2>1. args[3] \in ValidBodies /\ T # {}
    BY <1>0, <1>1, <1>2 DEF BodyError
  <2> QED BY <1>0, <2>1, GeometryAssumption
<1>5. /\ run' = run /\ start' = start /\ polygon' = polygon /\ polygons' = polygons
      /\ cells' = T /\ at' = "SADD cell"
      /\ db' = [db EXCEPT !.cellinfo[index][CStr[polygon]] = @ \cup T]
  BY <1>0 DEF SAddCellInfo, Goto
<1>6. /\ cmd' = cmd /\ args' = args /\ index' = index /\ run' \in Requests
      /\ IsIndex(start, index)' /\ BodyError' = "none"
  BY <1>1, <1>5, SameCommand
<1>7. db' = Putting(Emptied, index, polygon, T, T)
  <2>1. db \in Keyspaces
    BY <1>3 DEF WellFormed
  <2>2. [db EXCEPT !.cellinfo[index][CStr[polygon]] = @ \cup T] = Putting(db, index, polygon, T, T)
    BY <1>3, <1>4, <2>1, PuttingBegins, Zenon
  <2> QED BY <1>2, <1>5, <2>2, Zenon
<1>8. AtSAddCell'
  <2>1. AtPolygon({})' /\ Emptied' = Emptied
    BY <1>2, <1>5, <1>6, SamePolygon, SameEntered DEF Emptied
  <2>2. T = IndexPolygon[args'[3]]
    BY <1>0, <1>6
  <2>3. db' = Putting(Emptied', index', polygon', T, cells')
    BY <1>5, <1>6, <1>7, <2>1
  <2> QED BY <1>2, <1>4, <1>5, <1>6, <2>1, <2>2, <2>3 DEF AtSAddCell
<1>9. Progress'
  <2> HIDE DEF AtSAddCell
  <2> QED BY <1>5, <1>6, <1>8 DEF Progress, Places, Running
<1>10. WellFormed(db')
  BY <1>2, <1>3, <1>4, <1>7, PuttingWellFormed
<1> QED BY <1>5, <1>9, <1>10 DEF Onward

LEMMA SAddCellProgress ==
  ASSUME IInv, SAddCell
  PROVE  Onward
<1>0. PICK T : T = IndexPolygon[args[3]]
  OBVIOUS
<1>1. /\ run \in Requests /\ AtSAddCell /\ IsIndex(start, index) /\ BodyError = "none"
  BY DEF IInv, Progress, Running, SAddCell
<1>2. /\ AtPolygon({}) /\ cmd = "POLYSET" /\ cells # {} /\ cells \subseteq T
      /\ db = Putting(Emptied, index, polygon, T, cells)
  BY <1>0, <1>1 DEF AtSAddCell
<1>3. PICK t \in cells :
        /\ db' = Added(db, index, t, polygon)
        /\ \/ /\ cells # {t} /\ cells' = cells \ {t}
              /\ Goto("SADD cell") /\ UNCHANGED <<polygon, polygons>>
           \/ cells = {t} /\ Answer(<<"int", 1>>)
  BY DEF SAddCell, Added
<1>4. /\ polygon \in Polygons /\ polygon = args[2] /\ index \in Indexes
      /\ args[3] \in ValidBodies /\ T \in SUBSET Terms
  BY <1>0, <1>1, <1>2, RequestKinds, GeometryAssumption DEF AtPolygon, BodyError
<1>5. WellFormed(Emptied)
  <2>1. WellFormed(Entered({}))
    BY <1>1, <1>2, EnteredWellFormed DEF IInv, Typed
  <2>2. {polygon} \in SUBSET Polygons
    BY <1>4
  <2> QED BY <1>4, <2>1, <2>2, DeletePolygonCellsWellFormed DEF Emptied
<1>6. db' = Putting(Emptied, index, polygon, T, cells \ {t})
  <2>1. /\ Emptied \in Keyspaces /\ cells \in SUBSET T /\ t \in cells
        /\ polygon \in Polygons /\ index \in Indexes /\ T \in SUBSET Terms
        /\ db = Putting(Emptied, index, polygon, T, cells)
    BY <1>2, <1>4, <1>5 DEF WellFormed
  <2>2. Added(db, index, t, polygon) = Putting(Emptied, index, polygon, T, cells \ {t})
    BY <2>1, PuttingGoesOn
  <2> QED BY <1>3, <2>2, Zenon
<1>7. WellFormed(db')
  BY <1>4, <1>5, <1>6, PuttingWellFormed
<1>8. CASE /\ cells # {t} /\ cells' = cells \ {t}
           /\ Goto("SADD cell") /\ UNCHANGED <<polygon, polygons>>
  <2>1. /\ run' = run /\ start' = start /\ polygon' = polygon /\ polygons' = polygons
        /\ at' = "SADD cell"
    BY <1>8 DEF Goto
  <2>2. /\ cmd' = cmd /\ args' = args /\ index' = index /\ run' \in Requests
        /\ IsIndex(start, index)' /\ BodyError' = "none"
    BY <1>1, <2>1, SameCommand
  <2>3. AtSAddCell'
    <3>1. AtPolygon({})' /\ Emptied' = Emptied
      BY <1>2, <2>1, <2>2, SamePolygon, SameEntered DEF Emptied
    <3>2. T = IndexPolygon[args'[3]]
      BY <1>0, <2>2
    <3>3. db' = Putting(Emptied', index', polygon', T, cells')
      BY <1>6, <1>8, <2>1, <2>2, <3>1
    <3>4. cells' # {} /\ cells' \subseteq T
      BY <1>2, <1>8
    <3> QED BY <1>2, <2>2, <3>1, <3>2, <3>3, <3>4 DEF AtSAddCell
  <2>4. Progress'
    <3> HIDE DEF AtSAddCell
    <3> QED BY <2>1, <2>2, <2>3 DEF Progress, Places, Running
  <2> QED BY <1>7, <2>1, <2>4 DEF Onward
<1>9. CASE cells = {t} /\ Answer(<<"int", 1>>)
  <2>1. cells \ {t} = {}
    BY <1>9
  <2>2. db' = SetPolygonCells(Emptied, index, args[2], T)
    BY <1>4, <1>5, <1>6, <2>1, PuttingEnds DEF WellFormed
  <2>3. Emptied = DeletePolygonCells(SetPolygonBody(start, index, args[2], args[3]),
                                     index, {args[2]})
    BY <1>2, <1>4 DEF Emptied, Entered
  <2>4. Wrote
    BY <1>0, <1>1, <1>2, <1>9, <2>2, <2>3 DEF Wrote, Answer
  <2>5. Progress'
    BY <1>9, Left DEF Answer
  <2> QED BY <1>7, <2>4, <2>5 DEF Onward
<1> QED BY <1>3, <1>8, <1>9

LEMMA DelMetaProgress ==
  ASSUME IInv, DelMeta
  PROVE  Onward
<1>1. /\ run \in Requests /\ AtNext /\ polygons = {} /\ IsIndex(start, index)
  BY DEF IInv, Progress, Running, DelMeta
<1>2. PICK D \in SUBSET Listed :
        /\ Deletable(start, index, D) /\ db = DeletePolygons(start, index, D)
        /\ cmd = "IDEL" /\ ~ListFails(start, index) /\ Listed \ D = {}
  BY <1>1 DEF AtNext
<1>3. D = ListPolygons(start, index)
  BY <1>2 DEF Listed
<1>4. db' = [db EXCEPT !.meta[index] = "none"] /\ Answer(<<"int", 1>>)
  BY DEF DelMeta
<1>5. Wrote
  BY <1>1, <1>2, <1>3, <1>4 DEF Wrote, Answer, DeleteIndex
<1>6. WellFormed(db')
  <2>1. db \in Keyspaces /\ index \in Indexes
    BY <1>1, RequestKinds DEF IInv, Typed, WellFormed
  <2>2. MetaSet(db, db', index, "none")
    BY <1>4, <2>1, MetaFields
  <2> QED BY <2>2, MetaWellFormed DEF IInv, Typed
<1>7. Progress'
  BY <1>4, Left DEF Answer
<1> QED BY <1>5, <1>6, <1>7 DEF Onward

-----------------------------------------------------------------------------
(* All calls, the host, and the invariant.                                 *)

LEMMA CallProgress ==
  ASSUME IInv, Call
  PROVE  /\ WellFormed(db') /\ Progress'
         /\ at' = "idle" => Atomic!Next /\ (db' = start \/ Changed(start, db'))
<1>1. ASSUME Onward, at # "idle", Running
      PROVE  /\ WellFormed(db') /\ Progress'
             /\ at' = "idle" => Atomic!Next /\ (db' = start \/ Changed(start, db'))
  <2>1. run \in Requests
    BY <1>1 DEF IInv, Progress
  <2> QED BY <1>1, <2>1, WroteIsCommand, WroteChanges DEF Onward
<1>2. CASE HGetMeta
  BY <1>2, HGetMetaProgress, ValidationIsCommand
<1>3. CASE HGetPolygon \/ HMGet \/ SUnion \/ HKeys
  <2>1. WellFormed(db') /\ Progress'
    BY <1>3, ReadingProgress, HKeysProgress
  <2>2. /\ run \in Requests /\ AtStart /\ IsIndex(start, index) /\ BodyError = "none"
        /\ \/ HGetPolygon /\ cmd = "POLYGET"
           \/ HMGet /\ cmd = "POLYMGET"
           \/ SUnion /\ cmd \in {"POLYSEARCH", "POINTSEARCH"}
           \/ HKeys /\ cmd \in {"IDEL", "POLYLIST"}
    BY <1>3 DEF HGetPolygon, HMGet, SUnion, HKeys, IInv, Typed, Progress, Running
  <2>3. start = db /\ IsIndex(db, index)
    BY <2>2 DEF AtStart
  <2> QED BY <2>1, <2>2, <2>3, ReadingIsCommand
<1>4. CASE HSetMeta
  BY <1>1, <1>4, HSetMetaProgress DEF HSetMeta, Running
<1>5. CASE HSetPolygon
  BY <1>1, <1>5, HSetPolygonProgress DEF HSetPolygon, Running
<1>6. CASE HDel
  BY <1>1, <1>6, HDelProgress DEF HDel, Running
<1>7. CASE SMembers
  BY <1>1, <1>7, SMembersProgress DEF SMembers, Running
<1>8. CASE DelCellInfo
  BY <1>1, <1>8, DelCellInfoProgress DEF DelCellInfo, Running
<1>9. CASE DelWrongCellInfo
  BY <1>1, <1>9, DelWrongCellInfoProgress DEF DelWrongCellInfo, Running
<1>10. CASE SRem
  BY <1>1, <1>10, SRemProgress DEF SRem, Running
<1>11. CASE SAddCellInfo
  BY <1>1, <1>11, SAddCellInfoProgress DEF SAddCellInfo, Running
<1>12. CASE SAddCell
  BY <1>1, <1>12, SAddCellProgress DEF SAddCell, Running
<1>13. CASE DelMeta
  BY <1>1, <1>13, DelMetaProgress DEF DelMeta, Running
<1> QED BY <1>2, <1>3, <1>4, <1>5, <1>6, <1>7, <1>8, <1>9, <1>10, <1>11, <1>12, <1>13 DEF Call

\* What a call leaves alone, and where it may leave the handler.
LEMMA CallFrame ==
  ASSUME Call
  PROVE  /\ image' = image /\ lost' = lost /\ faults' = faults
         /\ wrongInfo' \subseteq wrongInfo /\ at \notin {"idle", "down"}
         /\ \/ at' \in {"idle", "down"} /\ start' = db'
            \/ start' = start
<1>1. image' = image /\ lost' = lost /\ faults' = faults
  BY DEF Call, world
<1>2. wrongInfo' \subseteq wrongInfo
  BY DEF Call, HGetMeta, HSetMeta, HGetPolygon, HMGet, SUnion, HKeys, HSetPolygon, HDel,
         SMembers, DelCellInfo, DelWrongCellInfo, SRem, SAddCellInfo, SAddCell, DelMeta, Quiet
<1>3. at \notin {"idle", "down"}
  BY DEF Call, HGetMeta, HSetMeta, HGetPolygon, HMGet, SUnion, HKeys, HSetPolygon, HDel,
         SMembers, DelCellInfo, DelWrongCellInfo, SRem, SAddCellInfo, SAddCell, DelMeta
<1>4. \/ at' \in {"idle", "down"} /\ start' = db'
      \/ start' = start
  <2>1. ASSUME NEW call, Goto(call) PROVE start' = start
    BY <2>1 DEF Goto
  <2>2. ASSUME NEW out, Answer(out) PROVE at' \in {"idle", "down"} /\ start' = db'
    BY <2>2 DEF Answer
  <2>3. Die => at' \in {"idle", "down"} /\ start' = db'
    BY DEF Die
  <2>4. ASSUME NEW found, CellsDeleted(found)
        PROVE  (at' \in {"idle", "down"} /\ start' = db') \/ start' = start
    BY <2>1, <2>2, <2>4 DEF CellsDeleted
  <2> QED BY <2>1, <2>2, <2>3, <2>4
       DEF Call, HGetMeta, HSetMeta, HGetPolygon, HMGet, SUnion, HKeys, HSetPolygon, HDel,
         SMembers, DelCellInfo, DelWrongCellInfo, SRem, SAddCellInfo, SAddCell, DelMeta
<1> QED BY <1>1, <1>2, <1>3, <1>4

-----------------------------------------------------------------------------
(* What the loss of a key, or another value in it, leaves of a keyspace.   *)

\* e holds what d holds but for the key k, which holds nothing of it any more.
OnlyTakes(d, e, k) ==
  /\ WellFormed(e)
  /\ \A j \in Indexes, t \in Terms : e.cells[j][t] \subseteq d.cells[j][t]
  /\ \A j \in Indexes, c \in CNames :
       k # <<"cellinfo", j, c>> => e.cellinfo[j][c] = d.cellinfo[j][c]

\* The same of a keyspace with its wrongInfo.
Taken(dw, w, k) ==
  /\ w = <<w[1], w[2]>> /\ OnlyTakes(dw[1], w[1], k)
  /\ w[2] \subseteq dw[2] \cup (Indexes \X CNames)

LEMMA MetaTaken ==
  ASSUME NEW dw, WellFormed(dw[1]), NEW x \in Indexes, NEW k, k = <<"meta", x>>
  PROVE  Taken(dw, Without(dw, k), k) /\ Taken(dw, Overwritten(dw, k), k)
<1>1. PICK d : d = dw[1] /\ d \in Keyspaces
  BY DEF WellFormed
<1>2. ASSUME NEW f, WellFormed(f), f.cellinfo = d.cellinfo, f.cells = d.cells,
             NEW m \in {"none", "foreign"}, NEW e, e = [f EXCEPT !.meta[x] = m]
      PROVE  /\ WellFormed(e) /\ e.cellinfo = d.cellinfo /\ e.cells = d.cells
             /\ OnlyTakes(d, e, k)
  <2>1. MetaSet(f, e, x, m)
    BY <1>2, MetaFields DEF WellFormed
  <2>2. WellFormed(e)
    BY <1>2, <2>1, MetaWellFormed
  <2> QED BY <1>2, <2>1, <2>2 DEF MetaSet, SameBut, OnlyTakes
<1>3. PICK e : e = [d EXCEPT !.meta[x] = "none"]
  OBVIOUS
<1>4. PICK g : g = [e EXCEPT !.meta[x] = "foreign"]
  OBVIOUS
<1>5. Without(dw, k) = <<e, dw[2]>>
  BY <1>1, <1>3 DEF Without
<1>6. Overwritten(dw, k) = <<g, dw[2]>>
  BY <1>4, <1>5 DEF Overwritten
<1>7. WellFormed(e) /\ e.cellinfo = d.cellinfo /\ e.cells = d.cells /\ OnlyTakes(d, e, k)
  BY <1>1, <1>2, <1>3
<1>8. OnlyTakes(d, g, k)
  BY <1>2, <1>4, <1>7
<1> QED BY <1>1, <1>5, <1>6, <1>7, <1>8 DEF Taken

\* A key that holds nothing may as well be of another type.
LEMMA WrongHashWellFormed ==
  ASSUME NEW d, WellFormed(d), NEW x \in Indexes, d.polygons[x] = NoPolygons,
         NEW e, e = [d EXCEPT !.wrongHash = @ \cup {x}]
  PROVE  WellFormed(e) /\ e.cellinfo = d.cellinfo /\ e.cells = d.cells
<1>1. PICK W : W = d.wrongHash \cup {x}
  OBVIOUS
<1>2. e = [d EXCEPT !.wrongHash = W]
  BY <1>1
<1>3. W \in SUBSET Indexes
  BY <1>1 DEF WellFormed, Keyspaces
<1>4. /\ e \in Keyspaces /\ e.wrongHash = W /\ e.polygons = d.polygons
      /\ e.wrongSet = d.wrongSet /\ e.cells = d.cells /\ e.cellinfo = d.cellinfo
  BY <1>2, <1>3 DEF WellFormed, Keyspaces
<1> QED BY <1>1, <1>4 DEF WellFormed

LEMMA WrongSetWellFormed ==
  ASSUME NEW d, WellFormed(d), NEW x \in Indexes, NEW t \in Terms, d.cells[x][t] = {},
         NEW e, e = [d EXCEPT !.wrongSet = @ \cup {<<x, t>>}]
  PROVE  WellFormed(e) /\ e.cellinfo = d.cellinfo /\ e.cells = d.cells
<1>1. PICK W : W = d.wrongSet \cup {<<x, t>>}
  OBVIOUS
<1>2. e = [d EXCEPT !.wrongSet = W]
  BY <1>1
<1>3. W \in SUBSET (Indexes \X Terms)
  BY <1>1 DEF WellFormed, Keyspaces
<1>4. /\ e \in Keyspaces /\ e.wrongSet = W /\ e.polygons = d.polygons
      /\ e.wrongHash = d.wrongHash /\ e.cells = d.cells /\ e.cellinfo = d.cellinfo
  BY <1>2, <1>3 DEF WellFormed, Keyspaces
<1> QED BY <1>1, <1>4 DEF WellFormed

LEMMA PolygonsTaken ==
  ASSUME NEW dw, WellFormed(dw[1]), NEW x \in Indexes, NEW k, k = <<"polygons", x>>
  PROVE  Taken(dw, Without(dw, k), k) /\ Taken(dw, Overwritten(dw, k), k)
<1>1. PICK d : d = dw[1] /\ d \in Keyspaces
  BY DEF WellFormed
<1>2. PICK e : e = [d EXCEPT !.polygons[x] = NoPolygons, !.wrongHash = @ \ {x}]
  OBVIOUS
<1>3. PICK g : g = [e EXCEPT !.wrongHash = @ \cup {x}]
  OBVIOUS
<1>4. Without(dw, k) = <<e, dw[2]>>
  BY <1>1, <1>2 DEF Without
<1>5. Overwritten(dw, k) = <<g, dw[2]>>
  BY <1>3, <1>4 DEF Overwritten
<1>6. NoPolygons \in [Polygons -> Bodies \cup {NoBody}]
  BY DEF NoPolygons
<1>7. /\ e \in Keyspaces /\ e.wrongHash = d.wrongHash \ {x} /\ e.wrongSet = d.wrongSet
      /\ e.cells = d.cells /\ e.cellinfo = d.cellinfo
      /\ \A j \in Indexes : e.polygons[j] = IF j = x THEN NoPolygons ELSE d.polygons[j]
  BY <1>1, <1>2, <1>6 DEF Keyspaces
<1>8. WellFormed(e)
  BY <1>1, <1>7 DEF WellFormed, Keyspaces
<1>9. WellFormed(g) /\ g.cells = d.cells /\ g.cellinfo = d.cellinfo
  BY <1>3, <1>7, <1>8, WrongHashWellFormed
<1>10. OnlyTakes(d, e, k) /\ OnlyTakes(d, g, k)
  BY <1>7, <1>8, <1>9 DEF OnlyTakes
<1> QED BY <1>1, <1>4, <1>5, <1>10 DEF Taken

LEMMA CellInfoTaken ==
  ASSUME NEW dw, WellFormed(dw[1]), NEW x \in Indexes, NEW c \in CNames,
         NEW k, k = <<"cellinfo", x, c>>
  PROVE  Taken(dw, Without(dw, k), k) /\ Taken(dw, Overwritten(dw, k), k)
<1>1. PICK d : d = dw[1] /\ d \in Keyspaces
  BY DEF WellFormed
<1>2. PICK e : e = [d EXCEPT !.cellinfo[x][c] = {}]
  OBVIOUS
<1>3. PICK W : W = dw[2] \ {<<x, c>>} /\ Without(dw, k) = <<e, W>>
  BY <1>1, <1>2 DEF Without
<1>4. Overwritten(dw, k) = <<e, W \cup {<<x, c>>}>>
  <2>1. k[1] = "cellinfo" /\ k[2] = x /\ k[3] = c
    OBVIOUS
  <2>2. PICK w : w = Without(dw, k) /\ w[1] = e /\ w[2] = W
    BY <1>3
  <2>3. Overwritten(dw, k) = <<w[1], w[2] \cup {<<x, c>>}>>
    BY <2>1, <2>2 DEF Overwritten
  <2> QED BY <2>2, <2>3
<1>5. \A p : Moved(d, e, x, c, {}, p, {}, {})
  BY <1>1, <1>2, CellInfoFields
<1>6. WellFormed(e)
  BY <1>1, <1>5, MovedWellFormed
<1>7. OnlyTakes(d, e, k)
  <2>1. \A j \in Indexes, b \in CNames :
          k # <<"cellinfo", j, b>> => e.cellinfo[j][b] = d.cellinfo[j][b]
    BY <1>5 DEF Moved
  <2>2. ASSUME NEW j \in Indexes, NEW t \in Terms
        PROVE  e.cells[j][t] \subseteq d.cells[j][t]
    <3>1. e.cells[j][t] \subseteq Polygons
      BY <1>6 DEF WellFormed, Keyspaces
    <3> QED BY <1>5, <3>1 DEF Moved
  <2> QED BY <1>6, <2>1, <2>2 DEF OnlyTakes
<1> QED BY <1>1, <1>3, <1>4, <1>7 DEF Taken

LEMMA CellsTaken ==
  ASSUME NEW dw, WellFormed(dw[1]), NEW x \in Indexes, NEW u \in Terms,
         NEW k, k = <<"cells", x, u>>
  PROVE  Taken(dw, Without(dw, k), k) /\ Taken(dw, Overwritten(dw, k), k)
<1>1. PICK d : d = dw[1] /\ d \in Keyspaces
  BY DEF WellFormed
<1>2. PICK e : e = [d EXCEPT !.cells[x][u] = {}, !.wrongSet = @ \ {<<x, u>>}]
  OBVIOUS
<1>3. PICK g : g = [e EXCEPT !.wrongSet = @ \cup {<<x, u>>}]
  OBVIOUS
<1>4. Without(dw, k) = <<e, dw[2]>>
  BY <1>1, <1>2 DEF Without
<1>5. Overwritten(dw, k) = <<g, dw[2]>>
  <2>1. k[1] = "cells" /\ k[2] = x /\ k[3] = u
    OBVIOUS
  <2>2. PICK w : w = Without(dw, k) /\ w[1] = e /\ w[2] = dw[2]
    BY <1>4
  <2>3. Overwritten(dw, k) = <<[e EXCEPT !.wrongSet = @ \cup {<<x, u>>}], w[2]>>
    BY <2>1, <2>2 DEF Overwritten
  <2> QED BY <1>3, <2>2, <2>3
<1>6. /\ e \in Keyspaces /\ e.wrongHash = d.wrongHash /\ e.wrongSet = d.wrongSet \ {<<x, u>>}
      /\ e.polygons = d.polygons /\ e.cellinfo = d.cellinfo
      /\ \A j \in Indexes, t \in Terms :
           e.cells[j][t] = IF j = x /\ t = u THEN {} ELSE d.cells[j][t]
  BY <1>1, <1>2 DEF Keyspaces
<1>7. WellFormed(e)
  <2>1. ASSUME NEW it \in e.wrongSet PROVE e.cells[it[1]][it[2]] = {}
    <3>1. it \in d.wrongSet /\ it # <<x, u>>
      BY <1>6
    <3>2. PICK j \in Indexes, t \in Terms : it = <<j, t>>
      BY <1>1, <3>1 DEF Keyspaces
    <3>3. d.cells[j][t] = {}
      BY <1>1, <3>1, <3>2 DEF WellFormed
    <3> QED BY <1>6, <3>1, <3>2, <3>3
  <2> QED BY <1>1, <1>6, <2>1 DEF WellFormed
<1>8. e.cells[x][u] = {}
  BY <1>6
<1>9. WellFormed(g) /\ g.cells = e.cells /\ g.cellinfo = e.cellinfo
  BY <1>3, <1>7, <1>8, WrongSetWellFormed
<1>10. OnlyTakes(d, e, k) /\ OnlyTakes(d, g, k)
  BY <1>6, <1>7, <1>9 DEF OnlyTakes
<1> QED BY <1>1, <1>4, <1>5, <1>10 DEF Taken

LEMMA KeyTaken ==
  ASSUME NEW dw, WellFormed(dw[1]), NEW k \in Keys
  PROVE  Taken(dw, Without(dw, k), k) /\ Taken(dw, Overwritten(dw, k), k)
<1>1. \/ \E x \in Indexes : k = <<"meta", x>> \/ k = <<"polygons", x>>
      \/ \E x \in Indexes, c \in CNames : k = <<"cellinfo", x, c>>
      \/ \E x \in Indexes, t \in Terms : k = <<"cells", x, t>>
  BY DEF Keys, CellInfoKeys
<1> QED BY <1>1, MetaTaken, PolygonsTaken, CellInfoTaken, CellsTaken

\* What a fault does to the keyspace and to the image.
Faulty(k) ==
  \E w, m :
    /\ Taken(<<db, wrongInfo>>, w, k) /\ Taken(image, m, k) /\ Fault
    /\ db' = w[1] /\ wrongInfo' = w[2] /\ image' \in {image, m}
    /\ lost' = lost \cup ({k} \cap CellInfoKeys)
    /\ start' = db' /\ UNCHANGED <<reply, at, local>>

LEMMA FaultTakes ==
  ASSUME IInv, NEW k \in Keys, Lose(k) \/ Overwrite(k)
  PROVE  Faulty(k)
<1>1. PICK dw : dw = <<db, wrongInfo>>
  OBVIOUS
<1>2. WellFormed(dw[1]) /\ WellFormed(image[1])
  BY <1>1 DEF IInv, Typed
<1>3. ASSUME NEW w, NEW m, Befalls(k, w, m), Taken(dw, w, k), Taken(image, m, k)
      PROVE  Faulty(k)
  BY <1>1, <1>3 DEF Befalls, Faulty
<1>4. /\ Taken(dw, Without(dw, k), k) /\ Taken(dw, Overwritten(dw, k), k)
      /\ Taken(image, Without(image, k), k) /\ Taken(image, Overwritten(image, k), k)
  BY <1>2, KeyTaken
<1>5. \/ Befalls(k, Without(dw, k), Without(image, k))
      \/ Befalls(k, Overwritten(dw, k), Overwritten(image, k))
  BY <1>1 DEF Lose, Overwrite
<1> QED BY <1>3, <1>4, <1>5

LEMMA HostProgress ==
  ASSUME IInv, Host
  PROVE  Typed' /\ Progress' /\ (at' = "idle" => at \in {"idle", "down"})
<1>1. ASSUME Fault, start' = db', UNCHANGED <<at, local>>
      PROVE  Progress' /\ faults' \in Nat
  <2>1. at = "idle" /\ AtStart /\ faults \in Nat
    BY <1>1 DEF Fault, IInv, Typed, Progress, Running
  <2>2. AtStart' /\ at' = "idle"
    BY <1>1, <2>1 DEF AtStart, NoLocals, local
  <2>3. faults' \in Nat
    BY <1>1, <2>1 DEF Fault
  <2> HIDE DEF AtStart
  <2> QED BY <2>2, <2>3 DEF Progress, Places, Running
<1>2. ASSUME NEW k \in Keys, Lose(k) \/ Overwrite(k)
      PROVE  Typed' /\ Progress' /\ at' = at /\ at = "idle"
  <2>1. PICK w, m :
          /\ Taken(<<db, wrongInfo>>, w, k) /\ Taken(image, m, k) /\ Fault
          /\ db' = w[1] /\ wrongInfo' = w[2] /\ image' \in {image, m}
          /\ start' = db' /\ UNCHANGED <<reply, at, local>>
    BY <1>2, FaultTakes DEF Faulty
  <2>2. /\ WellFormed(w[1]) /\ w[2] \subseteq Indexes \X CNames
        /\ m = <<m[1], m[2]>> /\ WellFormed(m[1]) /\ m[2] \subseteq Indexes \X CNames
    BY <2>1 DEF Taken, OnlyTakes, IInv, Typed
  <2>3. Progress' /\ faults' \in Nat
    BY <1>1, <2>1
  <2> QED BY <2>1, <2>2, <2>3 DEF IInv, Typed, Fault
<1>4. ASSUME Snapshot
      PROVE  Typed' /\ Progress' /\ at' = at /\ at = "idle"
  <2>1. AtStart /\ at = "idle"
    BY <1>4 DEF Snapshot, IInv, Progress, Running
  <2>2. AtStart'
    BY <1>4, <2>1 DEF Snapshot, AtStart, NoLocals, local
  <2>3. Progress'
    <3> HIDE DEF AtStart
    <3> QED BY <1>4, <2>1, <2>2 DEF Snapshot, Progress, Places, Running
  <2>4. image'[1] = db /\ image'[2] = wrongInfo /\ image' = <<image'[1], image'[2]>>
    BY <1>4 DEF Snapshot
  <2> QED BY <1>4, <2>1, <2>3, <2>4 DEF Snapshot, IInv, Typed
<1>5. ASSUME Crash
      PROVE  Typed' /\ Progress' /\ at' = "down"
  BY <1>5, Left DEF Crash, Die, world, IInv, Typed
<1>6. ASSUME Restart
      PROVE  Typed' /\ Progress' /\ at = "down"
  <2>1. AtStart /\ at = "down" /\ at' = "idle" /\ start' = db' /\ db' = image[1]
    BY <1>6 DEF Restart, IInv, Progress, Running
  <2>2. AtStart'
    BY <1>6, <2>1 DEF Restart, AtStart, NoLocals, local
  <2>3. Progress'
    <3> HIDE DEF AtStart
    <3> QED BY <2>1, <2>2 DEF Progress, Places, Running
  <2> QED BY <1>6, <2>1, <2>3 DEF Restart, world, IInv, Typed
<1> QED BY <1>2, <1>4, <1>5, <1>6 DEF Host

LEMMA IInvInit ==
  ASSUME Init
  PROVE  IInv
<1>1. PICK F \in SUBSET Indexes : db = Atomic!LoadedInto(F)
  BY DEF Init
<1>2. PICK m \in [Indexes -> {"none", "foreign"}] :
        m = [i \in Indexes |-> IF i \in F THEN "foreign" ELSE "none"]
  OBVIOUS
<1>3. db = Unused(m)
  BY <1>1, <1>2 DEF Atomic!LoadedInto, Atomic!EmptyKeyspace, Atomic!NoPolygons, Atomic!NoTerms,
    Atomic!NoMembers, Atomic!CNames, CNames, Unused, EmptyKeyspace, NoPolygons, NoTerms, NoMembers
<1>4. WellFormed(db)
  BY <1>3, UnusedConsistent DEF Consistent, WellFormed, WellFormed
<1>5. Typed
  BY <1>4 DEF Init, Typed
<1>6. Progress
  BY DEF Init, Progress, AtStart, Places, Running
<1> QED BY <1>5, <1>6 DEF IInv

LEMMA Stuttering ==
  ASSUME IInv, UNCHANGED vars
  PROVE  IInv'
<1>1. /\ run' = run /\ start' = start /\ polygon' = polygon /\ polygons' = polygons
      /\ cells' = cells /\ db' = db /\ at' = at /\ wrongInfo' = wrongInfo
      /\ image' = image /\ faults' = faults
  BY DEF vars, local, world
<1>2. /\ cmd' = cmd /\ args' = args /\ index' = index /\ Listed' = Listed
      /\ BodyError' = BodyError /\ IsIndex(start, index)' = IsIndex(start, index)
  BY <1>1, SameCommand
<1>3. \A D : /\ AtPolygon(D)' = AtPolygon(D) /\ Entered(D)' = Entered(D)
             /\ Found(D)' = Found(D)
  BY <1>1, SameEntered, SamePolygon
<1>4. Emptied' = Emptied
  BY <1>1, <1>2, <1>3 DEF Emptied
<1>5. (AtStart => AtStart') /\ (AtNext => AtNext') /\ (AtHDel => AtHDel')
  <2>1. AtStart => AtStart'
    BY <1>1 DEF AtStart, NoLocals
  <2>2. AtNext => AtNext'
    BY <1>1, <1>2 DEF AtNext, Deletable, HasCells
  <2> HIDE DEF AtNext
  <2>3. AtHDel => AtHDel'
    BY <1>1, <1>2, <2>2 DEF AtHDel
  <2> QED BY <2>1, <2>2, <2>3
<1>6. (AtSMembers => AtSMembers') /\ (AtDelCellInfo => AtDelCellInfo')
  BY <1>1, <1>3 DEF AtSMembers, AtDelCellInfo
<1>7. AtSRem => AtSRem'
  <2> SUFFICES ASSUME AtSRem PROVE AtSRem'
    OBVIOUS
  <2>1. PICK D \in SUBSET Polygons :
          /\ AtPolygon(D) /\ cells \subseteq Found(D)
          /\ db = Taking(Entered(D), index, polygon, cells)
    BY DEF AtSRem
  <2>2. db' = Taking(Entered(D)', index', polygon', cells')
    BY <1>1, <1>2, <1>3, <2>1
  <2> QED BY <1>1, <1>3, <2>1, <2>2 DEF AtSRem
<1>8. (AtSAddCellInfo => AtSAddCellInfo') /\ (AtSAddCell => AtSAddCell')
  BY <1>1, <1>2, <1>3, <1>4 DEF AtSAddCellInfo, AtSAddCell
<1>9. Progress'
  <2> HIDE DEF AtStart, AtNext, AtHDel, AtSMembers, AtDelCellInfo, AtSRem, AtSAddCellInfo,
               AtSAddCell
  <2>1. /\ at' \in Places /\ (~Running => AtStart)' /\ (Running => run \in Requests)'
        /\ (at \notin {"idle", "down", "HGET meta", "HSET meta"} =>
               IsIndex(start, index) /\ BodyError = "none")'
    BY <1>1, <1>2, <1>5 DEF IInv, Progress, Places, Running
  <2>2. NoSuchIndex(start, index)' = NoSuchIndex(start, index)
    BY <1>1, <1>2 DEF NoSuchIndex
  <2>3. /\ (at = "HGET meta" => AtStart)'
        /\ (at = "HSET meta" => AtStart /\ cmd = "ISET" /\ NoSuchIndex(start, index))'
        /\ (at = "HGET polygon" => AtStart /\ cmd = "POLYGET")'
        /\ (at = "HMGET" => AtStart /\ cmd = "POLYMGET")'
        /\ (at = "SUNION" => AtStart /\ cmd \in {"POLYSEARCH", "POINTSEARCH"})'
        /\ (at = "HKEYS" => AtStart /\ cmd \in {"IDEL", "POLYLIST"})'
    <3> HIDE DEF NoSuchIndex
    <3> QED BY <1>1, <1>2, <1>5, <2>2 DEF IInv, Progress
  <2>4. (at = "HSET polygon" =>
           cmd = "POLYSET" /\ polygon = args[2] /\ db = start /\ polygons = {} /\ cells = {})'
    BY <1>1, <1>2 DEF IInv, Progress
  <2>5. /\ (at = "HDEL" => AtHDel)'
        /\ (at \in {"SMEMBERS", "DEL wrong cellinfo"} => AtSMembers)'
        /\ (at = "DEL cellinfo" => AtDelCellInfo)' /\ (at = "SREM" => AtSRem)'
        /\ (at = "SADD cellinfo" => AtSAddCellInfo)' /\ (at = "SADD cell" => AtSAddCell)'
        /\ (at = "DEL meta" => AtNext /\ polygons = {})'
    BY <1>1, <1>5, <1>6, <1>7, <1>8 DEF IInv, Progress
  <2> QED BY <2>1, <2>3, <2>4, <2>5 DEF Progress
<1> QED BY <1>1, <1>9 DEF IInv, Typed

LEMMA IInvNext ==
  ASSUME IInv, [Next]_vars
  PROVE  IInv'
<1>1. ASSUME NEW r \in Requests, Start(r)
      PROVE  IInv'
  <2>1. WellFormed(db') /\ Progress'
    BY <1>1, StartProgress
  <2> QED BY <1>1, <2>1 DEF Start, world, IInv, Typed
<1>2. CASE Call
  <2>1. WellFormed(db') /\ Progress'
    BY <1>2, CallProgress
  <2>2. /\ image' = image /\ faults' = faults /\ wrongInfo' \subseteq wrongInfo
        /\ start' = db' \/ start' = start
    BY <1>2, CallFrame
  <2> QED BY <2>1, <2>2 DEF IInv, Typed
<1>3. CASE Host
  BY <1>3, HostProgress DEF IInv
<1>4. CASE UNCHANGED vars
  BY <1>4, Stuttering
<1> QED BY <1>1, <1>2, <1>3, <1>4 DEF Next

LEMMA IInvHolds == Spec => []IInv
<1>1. Init => IInv
  BY IInvInit
<1>2. IInv /\ [Next]_vars => IInv'
  BY IInvNext
<1> QED BY <1>1, <1>2, PTL DEF Spec

-----------------------------------------------------------------------------
(* What the runs check, for every value of the constants.                  *)

\* Where a handler is tells what its locals hold.
LEMMA LocalsHold ==
  ASSUME IInv
  PROVE  CallsTypeOK
<1>1. CASE AtStart
  BY <1>1 DEF AtStart, NoLocals, CallsTypeOK, IInv, Typed, WellFormed, Progress, Running,
              AtSRem, AtDelCellInfo, AtSAddCell
<1>2. ASSUME NEW D, AtPolygon(D), run \in Requests
      PROVE  /\ polygon \in Polygons /\ polygons \subseteq Polygons
             /\ polygons # {} => cmd = "IDEL"
             /\ Found(D) \subseteq Terms
  <2>1. /\ index \in Indexes /\ polygon \in Polygons /\ CStr[polygon] \in CNames
        /\ Entered(D) \in Keyspaces
    BY <1>2, RequestKinds, EnteredWellFormed DEF AtPolygon, CNames, IInv, Typed, WellFormed
  <2>2. Found(D) \subseteq Terms
    <3> HIDE DEF Entered
    <3> QED BY <2>1 DEF Found, Keyspaces
  <2> QED BY <1>2, <2>1, <2>2 DEF AtPolygon, Listed, ListPolygons
<1>3. AtNext => polygons \subseteq Polygons /\ cmd = "IDEL" /\ cells = {}
  BY DEF AtNext, Listed, ListPolygons
<1>4. ASSUME NEW T, T = IndexPolygon[args[3]], cmd = "POLYSET", BodyError = "none"
      PROVE  T \subseteq Terms
  BY <1>4, GeometryAssumption DEF BodyError
<1>5. CASE ~AtStart
  <2>1. /\ Running /\ run \in Requests
        /\ at \notin {"idle", "down", "HGET meta", "HSET meta", "HGET polygon", "HMGET",
                      "SUNION", "HKEYS"}
        /\ at \in Places /\ BodyError = "none"
    BY <1>5 DEF IInv, Progress, Running
  <2>2. /\ polygons \subseteq Polygons /\ cells \subseteq Terms
        /\ at \in {"DEL cellinfo", "SREM", "SADD cell"} => cells # {} /\ polygon \in Polygons
        /\ cells # {} => at \in {"DEL cellinfo", "SREM", "SADD cell"}
        /\ polygons # {} => cmd = "IDEL"
    <3>1. CASE at \in {"HSET polygon", "HDEL", "DEL meta"}
      BY <1>3, <3>1 DEF IInv, Progress, AtHDel
    <3>2. CASE at \in {"SMEMBERS", "DEL wrong cellinfo"}
      BY <1>2, <2>1, <3>2 DEF IInv, Progress, AtSMembers
    <3>3. CASE at = "DEL cellinfo"
      BY <1>2, <2>1, <3>3 DEF IInv, Progress, AtDelCellInfo
    <3>4. CASE at = "SREM"
      <4>1. PICK D \in SUBSET Polygons : AtPolygon(D) /\ cells \subseteq Found(D) /\ cells # {}
        BY <3>4 DEF IInv, Progress, AtSRem
      <4> QED BY <1>2, <2>1, <3>4, <4>1
    <3>5. CASE at = "SADD cellinfo"
      BY <1>2, <2>1, <3>5 DEF IInv, Progress, AtSAddCellInfo
    <3>6. CASE at = "SADD cell"
      BY <1>2, <1>4, <2>1, <3>6 DEF IInv, Progress, AtSAddCell
    <3> QED BY <2>1, <3>1, <3>2, <3>3, <3>4, <3>5, <3>6 DEF Places
  <2> QED BY <2>1, <2>2 DEF CallsTypeOK, IInv, Typed, WellFormed
<1> QED BY <1>1, <1>5

\* CallsTypeOK: a handler is where its locals say it is.
THEOREM CallsTypeCorrect == Spec => []CallsTypeOK
<1>1. IInv => CallsTypeOK
  BY LocalsHold
<1> QED BY <1>1, IInvHolds, PTL

\* HandlersAreCommands: a handler that comes to its end, over however many
\* calls of module.cc and index.cc, has done one command of GeoCommands to the
\* keyspace it started on, whoever lost or overwrote keys before.
THEOREM HandlersMakeCommands == Spec => HandlersAreCommands
<1>1. IInv /\ [Next]_vars => [Running /\ at' = "idle" => Atomic!Next]_vars
  <2> SUFFICES ASSUME IInv, Next, Running, at' = "idle" PROVE Atomic!Next
    OBVIOUS
  <2>1. ASSUME NEW r, Start(r) PROVE at' # "idle"
    BY <2>1 DEF Start
  <2>2. Host => FALSE
    BY HostProgress DEF Running
  <2> QED BY <2>1, <2>2, CallProgress DEF Next
<1> QED BY <1>1, IInvHolds, PTL DEF Spec, HandlersAreCommands

-----------------------------------------------------------------------------
(* What a handler or the host may leave in cells without a cellinfo.       *)

\* A polygon is in a cell its cellinfo does not name only if that key was lost.
LossStrands(d, L) ==
  \A x \in Indexes, p \in Polygons, t \in Terms :
    p \in d.cells[x][t] /\ t \notin d.cellinfo[x][CStr[p]] => <<"cellinfo", x, CStr[p]>> \in L

LEMMA SameCellsNoneStranded ==
  ASSUME NothingStranded, at \notin {"down", "SREM"}, lost' = lost,
         db'.cellinfo = db.cellinfo, db'.cells = db.cells
  PROVE  NothingStranded'
  BY DEF NothingStranded

LEMMA DelCellInfoNoneStranded ==
  ASSUME DistinctCStrings, IInv, NothingStranded, lost' = lost, DelCellInfo
  PROVE  NothingStranded'
<1>1. /\ run \in Requests /\ AtDelCellInfo
  BY DEF IInv, Progress, Running, DelCellInfo
<1>2. PICK D \in SUBSET Polygons : AtPolygon(D) /\ db = Entered(D) /\ cells = Found(D)
  BY <1>1 DEF AtDelCellInfo
<1>3. /\ polygon \in Polygons /\ index \in Indexes /\ CStr[polygon] \in CNames
      /\ db \in Keyspaces /\ cells = db.cellinfo[index][CStr[polygon]]
  BY <1>1, <1>2, RequestKinds DEF AtPolygon, IInv, Typed, WellFormed, CNames, Found
<1>4. Moved(db, db', index, CStr[polygon], {}, polygon, {}, {})
  <2>1. db' = [db EXCEPT !.cellinfo[index][CStr[polygon]] = {}]
    BY DEF DelCellInfo
  <2> QED BY <1>3, <2>1, CellInfoFields
<1>5. /\ at = "DEL cellinfo" /\ at' = "SREM" /\ run' = run /\ polygon' = polygon /\ cells' = cells
  BY DEF DelCellInfo, Goto
<1>6. ASSUME NEW x \in Indexes, NEW p \in Polygons, NEW t \in Terms,
             p \in db'.cells[x][t], t \notin db'.cellinfo[x][CStr[p]]
      PROVE  <<"cellinfo", x, CStr[p]>> \in lost \/ (index = x /\ polygon = p /\ t \in cells)
  <2>1. p \in db.cells[x][t] /\ CStr[p] \in CNames
    BY <1>4, <1>6 DEF Moved, CNames
  <2>2. CASE x = index /\ CStr[p] = CStr[polygon]
    <3>1. p = polygon
      BY <1>3, <2>2 DEF DistinctCStrings
    <3> QED BY <1>3, <1>5, <2>1, <2>2, <3>1 DEF NothingStranded
  <2>3. CASE ~(x = index /\ CStr[p] = CStr[polygon])
    <3>1. db'.cellinfo[x][CStr[p]] = db.cellinfo[x][CStr[p]]
      BY <1>4, <2>1, <2>3 DEF Moved
    <3> QED BY <1>5, <1>6, <2>1, <3>1 DEF NothingStranded
  <2> QED BY <2>2, <2>3
<1>7. index' = index
  BY <1>5 DEF index, args
<1> QED BY <1>5, <1>6, <1>7 DEF NothingStranded

LEMMA SRemNoneStranded ==
  ASSUME IInv, NothingStranded, lost' = lost, SRem
  PROVE  NothingStranded'
<1>1. /\ run \in Requests /\ AtSRem /\ at = "SREM"
  BY DEF IInv, Progress, Running, SRem
<1>2. /\ polygon \in Polygons /\ index \in Indexes /\ db \in Keyspaces
      /\ CStr[polygon] \in CNames /\ cells \subseteq Terms
  BY <1>1, RequestKinds, LocalsHold DEF AtSRem, AtPolygon, IInv, Typed, WellFormed, CNames, CallsTypeOK
<1>3. PICK t \in cells :
        /\ db' = [db EXCEPT !.cells[index][t] = @ \ {polygon}]
        /\ \/ /\ cells # {t} /\ cells' = cells \ {t}
              /\ Goto("SREM") /\ UNCHANGED <<polygon, polygons>>
           \/ cells = {t} /\ CellsDeleted(TRUE)
  BY DEF SRem
<1>4. \E c : Moved(db, db', index, CStr[polygon], c, polygon, {t}, {})
             /\ c = db.cellinfo[index][CStr[polygon]]
  BY <1>2, <1>3, CellFields
<1>5. \A x \in Indexes, p \in Polygons, u \in Terms :
        /\ db'.cellinfo[x][CStr[p]] = db.cellinfo[x][CStr[p]]
        /\ p \in db'.cells[x][u] <=>
             p \in db.cells[x][u] /\ ~(x = index /\ p = polygon /\ u = t)
  BY <1>4 DEF Moved, CNames
<1>6. CASE /\ cells # {t} /\ cells' = cells \ {t}
           /\ Goto("SREM") /\ UNCHANGED <<polygon, polygons>>
  <2>1. index' = index /\ polygon' = polygon /\ at' = "SREM" /\ cells' = cells \ {t}
    BY <1>6 DEF Goto, index, args
  <2> QED BY <1>1, <1>5, <2>1 DEF NothingStranded
<1>7. CASE cells = {t}
  BY <1>1, <1>5, <1>7 DEF NothingStranded
<1> QED BY <1>3, <1>6, <1>7

LEMMA SAddCellInfoNoneStranded ==
  ASSUME IInv, NothingStranded, lost' = lost, SAddCellInfo
  PROVE  NothingStranded'
<1>1. /\ run \in Requests /\ AtSAddCellInfo /\ BodyError = "none" /\ at = "SADD cellinfo"
  BY DEF IInv, Progress, Running, SAddCellInfo
<1>2. PICK T : T = IndexPolygon[args[3]]
  OBVIOUS
<1>3. /\ polygon \in Polygons /\ index \in Indexes /\ CStr[polygon] \in CNames
      /\ db \in Keyspaces /\ T \in SUBSET Terms
  BY <1>1, <1>2, RequestKinds, GeometryAssumption
     DEF AtSAddCellInfo, AtPolygon, BodyError, IInv, Typed, WellFormed, CNames
<1>4. PICK U : U = db.cellinfo[index][CStr[polygon]] \cup T
  OBVIOUS
<1>5. Moved(db, db', index, CStr[polygon], U, polygon, {}, {})
  <2>1. db' = [db EXCEPT !.cellinfo[index][CStr[polygon]] = U]
    BY <1>2, <1>4 DEF SAddCellInfo
  <2>2. U \in SUBSET Terms
    BY <1>3, <1>4 DEF Keyspaces
  <2> QED BY <1>3, <2>1, <2>2, CellInfoFields
<1>6. \A x \in Indexes, p \in Polygons, t \in Terms :
        /\ db.cellinfo[x][CStr[p]] \subseteq db'.cellinfo[x][CStr[p]]
        /\ p \in db'.cells[x][t] <=> p \in db.cells[x][t]
  BY <1>4, <1>5 DEF Moved, CNames
<1> QED BY <1>1, <1>6 DEF NothingStranded

\* The cells a polygon is put in are in its cellinfo already.
LEMMA SAddCellNoneStranded ==
  ASSUME IInv, NothingStranded, lost' = lost, SAddCell
  PROVE  NothingStranded'
<1>1. /\ run \in Requests /\ AtSAddCell /\ BodyError = "none" /\ at = "SADD cell"
  BY DEF IInv, Progress, Running, SAddCell
<1>2. PICK T : T = IndexPolygon[args[3]]
  OBVIOUS
<1>3. /\ AtPolygon({}) /\ cmd = "POLYSET" /\ cells \subseteq T
      /\ db = Putting(Emptied, index, polygon, T, cells)
  BY <1>1, <1>2 DEF AtSAddCell
<1>4. /\ polygon \in Polygons /\ index \in Indexes /\ CStr[polygon] \in CNames
      /\ db \in Keyspaces /\ T \in SUBSET Terms
  BY <1>1, <1>2, <1>3, RequestKinds, GeometryAssumption
     DEF AtPolygon, BodyError, IInv, Typed, WellFormed, CNames
<1>5. T \subseteq db.cellinfo[index][CStr[polygon]]
  <2>1. Emptied \in Keyspaces
    <3>1. WellFormed(Entered({}))
      BY <1>1, <1>3, EnteredWellFormed DEF IInv, Typed
    <3> QED BY <1>4, <3>1, DeletePolygonCellsFields DEF WellFormed, CellsTakenOut, Emptied
  <2>2. PICK e : e = Emptied
    OBVIOUS
  <2>3. Moved(e, db, index, CStr[polygon], e.cellinfo[index][CStr[polygon]] \cup T,
              polygon, {}, Takers(e, index, T \ cells))
    BY <1>3, <1>4, <2>1, <2>2, PuttingFields
  <2> QED BY <1>4, <2>3 DEF Moved
<1>6. PICK t \in cells : db' = Added(db, index, t, polygon)
  BY DEF SAddCell, Added
<1>7. PICK c, C : /\ Moved(db, db', index, CStr[polygon], c, polygon, {}, C)
                  /\ c = db.cellinfo[index][CStr[polygon]] /\ C \subseteq {t}
  <2>1. Takers(db, index, {t}) \subseteq {t}
    BY DEF Takers
  <2> QED BY <1>3, <1>4, <1>6, <2>1, AddedFields
<1>8. \A x \in Indexes, p \in Polygons, u \in Terms :
        /\ db'.cellinfo[x][CStr[p]] = db.cellinfo[x][CStr[p]]
        /\ p \in db'.cells[x][u] =>
             p \in db.cells[x][u] \/ (x = index /\ p = polygon /\ u = t)
  BY <1>7 DEF Moved, CNames
<1>9. t \in db.cellinfo[index][CStr[polygon]]
  BY <1>3, <1>5
<1>10. ASSUME NEW x \in Indexes, NEW p \in Polygons, NEW u \in Terms,
              p \in db'.cells[x][u], u \notin db'.cellinfo[x][CStr[p]]
       PROVE  <<"cellinfo", x, CStr[p]>> \in lost
  <2>1. u \notin db.cellinfo[x][CStr[p]]
    BY <1>8, <1>10
  <2>2. p \in db.cells[x][u]
    BY <1>8, <1>9, <1>10, <2>1
  <2> QED BY <1>1, <2>1, <2>2 DEF NothingStranded
<1> QED BY <1>10 DEF NothingStranded

LEMMA CallNoneStranded ==
  ASSUME DistinctCStrings, IInv, NothingStranded, Call
  PROVE  NothingStranded'
<1>1. lost' = lost /\ at # "down"
  BY CallFrame
<1>2. WellFormed(db) /\ db \in Keyspaces
  BY DEF IInv, Typed, WellFormed
<1>3. CASE HGetMeta \/ HGetPolygon \/ HMGet \/ SUnion \/ HKeys \/ SMembers \/ DelWrongCellInfo
  <2>1. db' = db /\ at # "SREM"
    BY <1>3 DEF HGetMeta, HGetPolygon, HMGet, SUnion, HKeys, SMembers, DelWrongCellInfo, Quiet
  <2> QED BY <1>1, <2>1, SameCellsNoneStranded
<1>4. CASE HSetMeta \/ DelMeta
  <2>1. index \in Indexes
    BY <1>4, RequestKinds DEF HSetMeta, DelMeta, IInv, Progress, Running
  <2>2. db'.cellinfo = db.cellinfo /\ db'.cells = db.cells /\ at # "SREM"
    <3>1. CASE HSetMeta
      <4>1. MetaSet(db, db', index, "index") /\ at = "HSET meta"
        BY <1>2, <2>1, <3>1, CreateIndexFields DEF HSetMeta
      <4> QED BY <4>1 DEF MetaSet, SameBut
    <3>2. CASE DelMeta
      <4>1. MetaSet(db, db', index, "none") /\ at = "DEL meta"
        BY <1>2, <2>1, <3>2, MetaFields DEF DelMeta
      <4> QED BY <4>1 DEF MetaSet, SameBut
    <3> QED BY <1>4, <3>1, <3>2
  <2> QED BY <1>1, <2>2, SameCellsNoneStranded
<1>5. CASE HSetPolygon
  <2>1. /\ run \in Requests /\ cmd = "POLYSET" /\ polygon = args[2] /\ at = "HSET polygon"
        /\ db' = SetPolygonBody(db, index, polygon, args[3])
    BY <1>5 DEF HSetPolygon, IInv, Progress, Running
  <2>2. index \in Indexes /\ polygon \in Polygons /\ args[3] \in Bodies
    BY <2>1, RequestKinds
  <2>3. db'.cellinfo = db.cellinfo /\ db'.cells = db.cells
    BY <1>2, <2>1, <2>2, BodyCallsKeepCells
  <2> QED BY <1>1, <2>1, <2>3, SameCellsNoneStranded
<1>6. CASE HDel
  <2>1. index \in Indexes /\ at = "HDEL"
    BY <1>6, RequestKinds DEF HDel, IInv, Progress, Running
  <2>2. db'.cellinfo = db.cellinfo /\ db'.cells = db.cells
    BY <1>2, <1>6, <2>1, BodyCallsKeepCells DEF HDel
  <2> QED BY <1>1, <2>1, <2>2, SameCellsNoneStranded
<1>7. CASE DelCellInfo
  BY <1>1, <1>7, DelCellInfoNoneStranded
<1>8. CASE SRem
  BY <1>1, <1>8, SRemNoneStranded
<1>9. CASE SAddCellInfo
  BY <1>1, <1>9, SAddCellInfoNoneStranded
<1>10. CASE SAddCell
  BY <1>1, <1>10, SAddCellNoneStranded
<1> QED BY <1>3, <1>4, <1>5, <1>6, <1>7, <1>8, <1>9, <1>10 DEF Call

LEMMA TakenStrands ==
  ASSUME NEW d, NEW e, NEW k \in Keys, OnlyTakes(d, e, k), NEW L, LossStrands(d, L)
  PROVE  LossStrands(e, L \cup ({k} \cap CellInfoKeys))
<1> SUFFICES ASSUME NEW x \in Indexes, NEW p \in Polygons, NEW t \in Terms,
                    p \in e.cells[x][t], t \notin e.cellinfo[x][CStr[p]]
             PROVE  <<"cellinfo", x, CStr[p]>> \in L \cup ({k} \cap CellInfoKeys)
  BY DEF LossStrands
<1>1. CStr[p] \in CNames /\ p \in d.cells[x][t]
  BY DEF OnlyTakes, CNames
<1>2. CASE k = <<"cellinfo", x, CStr[p]>>
  BY <1>1, <1>2 DEF CellInfoKeys
<1>3. CASE k # <<"cellinfo", x, CStr[p]>>
  <2>1. e.cellinfo[x][CStr[p]] = d.cellinfo[x][CStr[p]]
    BY <1>1, <1>3 DEF OnlyTakes
  <2> QED BY <1>1, <2>1 DEF LossStrands
<1> QED BY <1>2, <1>3

\* The image a restart brings back strands no more than the keyspace does.
NoneStranded == NothingStranded /\ LossStrands(image[1], lost)

LEMMA HostNoneStranded ==
  ASSUME IInv, NoneStranded, Host
  PROVE  NoneStranded'
<1>2. \A d, L, M : LossStrands(d, L) /\ L \subseteq M => LossStrands(d, M)
  BY DEF LossStrands
<1>3. at = "idle" => LossStrands(db, lost)
  BY DEF NoneStranded, NothingStranded, LossStrands
<1>4. LossStrands(db', lost') => NothingStranded'
  BY DEF NothingStranded, LossStrands
<1>5. ASSUME NEW k \in Keys, Lose(k) \/ Overwrite(k)
      PROVE  NoneStranded'
  <2>1. PICK w, m :
          /\ Taken(<<db, wrongInfo>>, w, k) /\ Taken(image, m, k)
          /\ at = "idle" /\ db' = w[1] /\ image' \in {image, m}
          /\ lost' = lost \cup ({k} \cap CellInfoKeys)
    BY <1>5, FaultTakes DEF Faulty, Fault
  <2>2. OnlyTakes(db, w[1], k) /\ OnlyTakes(image[1], m[1], k)
    BY <2>1 DEF Taken
  <2>3. LossStrands(w[1], lost') /\ LossStrands(m[1], lost')
    BY <1>3, <2>1, <2>2, TakenStrands DEF NoneStranded
  <2>4. LossStrands(image[1], lost')
    BY <1>2, <2>1 DEF NoneStranded
  <2>5. LossStrands(image'[1], lost')
    BY <2>1, <2>3, <2>4
  <2> QED BY <1>4, <2>1, <2>3, <2>5 DEF NoneStranded, LossStrands
<1>7. CASE Snapshot
  <2>1. /\ at = "idle" /\ at' = at /\ db' = db /\ lost' = lost /\ image'[1] = db
    BY <1>7 DEF Snapshot
  <2> QED BY <1>3, <1>4, <2>1 DEF NoneStranded, LossStrands
<1>8. CASE Crash
  BY <1>8 DEF Crash, Die, world, NoneStranded, NothingStranded, LossStrands
<1>9. CASE Restart
  <2>1. lost' = lost /\ image' = image /\ db' = image[1]
    BY <1>9 DEF Restart, world
  <2> QED BY <1>4, <2>1 DEF NoneStranded, LossStrands
<1> QED BY <1>5, <1>7, <1>8, <1>9 DEF Host

\* NothingStranded: at every call of every handler, after every crash and
\* restart, a polygon left in a cells key its cellinfo does not name is the
\* work of whoever took the cellinfo key, or is about to be taken out.
THEOREM NothingEverStranded ==
  ASSUME DistinctCStrings
  PROVE  Spec => []NothingStranded
<1>1. Init => NoneStranded
  <2> SUFFICES ASSUME Init PROVE NoneStranded
    OBVIOUS
  <2>1. \A x \in Indexes, t \in Terms : db.cells[x][t] = {}
    BY DEF Init, Atomic!LoadedInto, Atomic!EmptyKeyspace, Atomic!NoMembers
  <2>2. image[1] = db
    BY DEF Init
  <2> QED BY <2>1, <2>2 DEF NoneStranded, NothingStranded, LossStrands
<1>2. IInv /\ NoneStranded /\ [Next]_vars => NoneStranded'
  <2> SUFFICES ASSUME IInv, NoneStranded, [Next]_vars PROVE NoneStranded'
    OBVIOUS
  <2>1. ASSUME NEW r \in Requests, Start(r) PROVE NoneStranded'
    <3>1. /\ at = "idle" /\ lost' = lost /\ image' = image
          /\ db'.cellinfo = db.cellinfo /\ db'.cells = db.cells
      BY <2>1 DEF Start, world
    <3>2. NothingStranded'
      BY <3>1, SameCellsNoneStranded DEF NoneStranded
    <3> QED BY <3>1, <3>2 DEF NoneStranded, LossStrands
  <2>2. CASE Call
    <3>1. NothingStranded'
      BY <2>2, CallNoneStranded DEF NoneStranded
    <3>2. image' = image /\ lost' = lost
      BY <2>2, CallFrame
    <3> QED BY <3>1, <3>2 DEF NoneStranded, LossStrands
  <2>3. CASE Host
    BY <2>3, HostNoneStranded
  <2>4. CASE UNCHANGED vars
    BY <2>4 DEF vars, local, world, NoneStranded, NothingStranded, LossStrands, index, args
  <2> QED BY <2>1, <2>2, <2>3, <2>4 DEF Next
<1>3. NoneStranded => NothingStranded
  BY DEF NoneStranded
<1> QED BY <1>1, <1>2, <1>3, IInvHolds, PTL DEF Spec

-----------------------------------------------------------------------------
(* What a crash between two calls may leave.                               *)

\* While nobody took a key, what the next command starts on, and what a
\* restart brings back, is the work of whole commands.
WholeInv ==
  faults = 0 => Consistent(image[1]) /\ (at # "down" => Consistent(start))

LEMMA WholeInvInit ==
  ASSUME Init
  PROVE  WholeInv
<1>1. PICK F \in SUBSET Indexes : db = Atomic!LoadedInto(F)
  BY DEF Init
<1>2. PICK m \in [Indexes -> {"none", "foreign"}] :
        m = [i \in Indexes |-> IF i \in F THEN "foreign" ELSE "none"]
  OBVIOUS
<1>3. db = Unused(m)
  BY <1>1, <1>2 DEF Atomic!LoadedInto, Atomic!EmptyKeyspace, Atomic!NoPolygons, Atomic!NoTerms,
    Atomic!NoMembers, Atomic!CNames, CNames, Unused, EmptyKeyspace, NoPolygons, NoTerms, NoMembers
<1>4. Consistent(db)
  BY <1>3, UnusedConsistent
<1> QED BY <1>4 DEF Init, WholeInv

LEMMA WholeInvNext ==
  ASSUME DistinctCStrings, IInv, WholeInv, [Next]_vars
  PROVE  WholeInv'
<1>0. /\ ~Running => start = db
      /\ faults \in Nat
  BY DEF IInv, Typed, Progress, AtStart
<1>1. ASSUME UNCHANGED <<image, faults>>, at' # "down" => Consistent(start') \/ faults # 0
      PROVE  WholeInv'
  BY <1>1 DEF WholeInv
<1>2. ASSUME NEW r \in Requests, Start(r) PROVE WholeInv'
  BY <1>0, <1>1, <1>2 DEF Start, world, WholeInv, Running
<1>3. CASE Call
  <2>1. /\ image' = image /\ faults' = faults /\ at \notin {"idle", "down"}
        /\ (at' \in {"idle", "down"} /\ start' = db') \/ start' = start
    BY <1>3, CallFrame
  <2>2. at' = "idle" => db' = start \/ Changed(start, db')
    BY <1>3, CallProgress
  <2>3. faults = 0 => Consistent(start)
    BY <2>1 DEF WholeInv
  <2>4. at' # "down" => Consistent(start') \/ faults # 0
    BY <2>1, <2>2, <2>3, ChangedConsistent
  <2> QED BY <1>1, <2>1, <2>4
<1>4. CASE Host
  <2>1. ASSUME Fault PROVE WholeInv'
    BY <1>0, <2>1 DEF Fault, WholeInv
  <2>2. CASE Snapshot
    BY <1>0, <2>2 DEF Snapshot, WholeInv, Running
  <2>3. CASE Crash
    BY <2>3 DEF Crash, Die, world, WholeInv
  <2>4. CASE Restart
    BY <2>4 DEF Restart, world, WholeInv
  <2> QED BY <1>4, <2>1, <2>2, <2>3, <2>4 DEF Host, Lose, Overwrite, Befalls
<1>5. CASE UNCHANGED vars
  BY <1>5 DEF vars, world, WholeInv
<1> QED BY <1>2, <1>3, <1>4, <1>5 DEF Next

\* NoHalfCommandSurvives: while nobody took a key, the server is between two
\* commands only with whole indexes, wherever between two calls it died before.
THEOREM NoHalfCommandEverSurvives ==
  ASSUME DistinctCStrings
  PROVE  Spec => []NoHalfCommandSurvives
<1>1. IInv /\ WholeInv => NoHalfCommandSurvives
  <2> SUFFICES ASSUME IInv, WholeInv, at = "idle", faults = 0
               PROVE  /\ Atomic!CellsMatchCellInfo /\ Atomic!StoredUnderItsBody
                      /\ Atomic!NoOrphans
    BY DEF NoHalfCommandSurvives
  <2>1. Consistent(db) /\ (IF at = "idle" THEN db ELSE start) = db
    BY DEF IInv, Progress, AtStart, Running, WholeInv
  <2>2. Atomic!CellsMatchCellInfo
    BY <2>1 DEF Consistent, Matching, Atomic!CellsMatchCellInfo
  <2>3. Atomic!StoredUnderItsBody
    BY <2>1 DEF Consistent, Atomic!StoredUnderItsBody
  <2>4. Atomic!NoOrphans
    <3>1. ASSUME NEW i \in Indexes, ~IsIndex(db, i)
          PROVE  /\ db.polygons[i] = NoPolygons /\ db.cellinfo[i] = NoTerms
                 /\ db.cells[i] = NoMembers
      <4>1. db.polygons[i] = NoPolygons
        BY <2>1, <3>1 DEF Consistent
      <4> QED BY <2>1, <4>1, ConsistentEmpty
    <3>2. /\ Atomic!NoPolygons = NoPolygons /\ Atomic!NoTerms = NoTerms
          /\ Atomic!NoMembers = NoMembers
      BY DEF Atomic!NoPolygons, NoPolygons, Atomic!NoTerms, NoTerms, Atomic!NoMembers,
             NoMembers, Atomic!CNames, CNames
    <3> QED BY <2>1, <3>1, <3>2 DEF Atomic!NoOrphans, Atomic!IsIndex, IsIndex
  <2> QED BY <2>2, <2>3, <2>4
<1> QED BY <1>1, WholeInvInit, WholeInvNext, IInvHolds, PTL DEF Spec

=============================================================================
