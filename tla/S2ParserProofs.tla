--------------------------- MODULE S2ParserProofs ---------------------------
(***************************************************************************)
(* What the parsers accept and return, for any numbers, any limit of       *)
(* points and bodies of any length.  The invariant says where in a body    *)
(* each state of the machine stands: how many tokens were read, and what   *)
(* they must have been.                                                    *)
(***************************************************************************)
EXTENDS S2Parser, SequenceTheorems, TLAPS

-----------------------------------------------------------------------------
(* The templates, a point at a time.                                       *)

\* t begins a polygon with n points, each after the first behind a comma.
RingOpen(t, n) ==
  /\ t[1] = "[" /\ t[2] = "["
  /\ \A j \in 1..n :
       /\ t[6*j-3] = "[" /\ t[6*j-2] \in Numbers /\ t[6*j-1] = "comma"
       /\ t[6*j] \in Numbers /\ t[6*j+1] = "]"
  /\ \A j \in 1..(n-1) : t[6*j+2] = "comma"

LEMMA PointPlaces ==
  ASSUME NEW n \in Nat, NEW j \in 1..n
  PROVE  /\ PolygonAt(n, 6*j-3) = {"["} /\ PolygonAt(n, 6*j-2) = Numbers
         /\ PolygonAt(n, 6*j-1) = {"comma"} /\ PolygonAt(n, 6*j) = Numbers
         /\ PolygonAt(n, 6*j+1) = {"]"}
<1>1. /\ (6*j-3-3) % 6 = 0 /\ (6*j-2-3) % 6 = 1 /\ (6*j-1-3) % 6 = 2
      /\ (6*j-3) % 6 = 3 /\ (6*j+1-3) % 6 = 4
  OBVIOUS
<1>2. /\ 2 < 6*j-3 /\ 2 < 6*j-2 /\ 2 < 6*j-1 /\ 2 < 6*j /\ 2 < 6*j+1
      /\ 6*j-3 <= 6*n+1 /\ 6*j-2 <= 6*n+1 /\ 6*j-1 <= 6*n+1 /\ 6*j <= 6*n+1 /\ 6*j+1 <= 6*n+1
  OBVIOUS
<1> QED BY <1>1, <1>2 DEF PolygonAt, Point

LEMMA CommaPlaces ==
  ASSUME NEW n \in Nat, NEW j \in Nat, 0 < j, j < n
  PROVE  PolygonAt(n, 6*j+2) = {"comma"}
<1>1. (6*j+2-3) % 6 = 5
  OBVIOUS
<1> QED BY <1>1 DEF PolygonAt, Point

LEMMA BracketPlaces ==
  ASSUME NEW n \in Nat, n > 0
  PROVE  /\ PolygonAt(n, 1) = {"["} /\ PolygonAt(n, 2) = {"["}
         /\ PolygonAt(n, 6*n+2) = {"]"} /\ PolygonAt(n, 6*n+3) = {"]"}
  BY DEF PolygonAt

LEMMA Limits == POINT_LIMIT \in Nat /\ POINT_LIMIT > 0 /\ Unset \notin Int
  BY ParserAssumption

LEMMA PointsOfPairs ==
  ASSUME NEW lat \in Numbers, NEW lng \in Numbers
  PROVE  ToPoint[<<lat, lng>>] \in S2Points
<1>1. <<lat, lng>> \in Numbers \X Numbers
  OBVIOUS
<1>2. ToPoint \in [Numbers \X Numbers -> S2Points]
  BY ParserAssumption
<1> QED BY <1>1, <1>2

LEMMA FullRing ==
  ASSUME NEW n \in RingSizes, NEW t, Len(t) = 6*n+3, DOMAIN t = 1..(6*n+3),
         RingOpen(t, n), t[6*n+2] = "]", t[6*n+3] = "]"
  PROVE  IsPolygonBody(t)
<1>0. n \in Nat /\ n > 0
  BY Limits DEF RingSizes
<1>1. ASSUME NEW k \in 1..(6*n+3) PROVE t[k] \in PolygonAt(n, k)
  <2>1. CASE k \in {1, 2, 6*n+2, 6*n+3}
    BY <1>0, <2>1, BracketPlaces DEF RingOpen
  <2>2. CASE k \in 3..(6*n+1)
    <3>1. PICK j \in 1..n : k \in {6*j-3, 6*j-2, 6*j-1, 6*j, 6*j+1} \/ (k = 6*j+2 /\ j < n)
      <4> DEFINE j == (k + 3) \div 6
      <4>1. j \in Int /\ 6*j <= k+3 /\ k+3 < 6*j+6
        BY <1>0, <2>2
      <4> HIDE DEF j
      <4>2. j \in 1..n
        BY <1>0, <2>2, <4>1
      <4>3. k \in {6*j-3, 6*j-2, 6*j-1, 6*j, 6*j+1} \/ (k = 6*j+2 /\ j < n)
        <5>1. \/ k = 6*j-3 \/ k = 6*j-2 \/ k = 6*j-1 \/ k = 6*j \/ k = 6*j+1
              \/ k = 6*j+2 /\ j < n
          BY <1>0, <2>2, <4>1, <4>2
        <5> QED BY <5>1
      <4> QED BY <4>2, <4>3
    <3>2. CASE k \in {6*j-3, 6*j-2, 6*j-1, 6*j, 6*j+1}
      <4>1. /\ t[6*j-3] \in PolygonAt(n, 6*j-3) /\ t[6*j-2] \in PolygonAt(n, 6*j-2)
            /\ t[6*j-1] \in PolygonAt(n, 6*j-1) /\ t[6*j] \in PolygonAt(n, 6*j)
            /\ t[6*j+1] \in PolygonAt(n, 6*j+1)
        BY <1>0, PointPlaces DEF RingOpen
      <4> QED BY <3>2, <4>1
    <3>3. CASE k = 6*j+2 /\ j < n
      BY <1>0, <3>3, CommaPlaces DEF RingOpen
    <3> QED BY <3>1, <3>2, <3>3
  <2> QED BY <1>0, <2>1, <2>2
<1> QED BY <1>0, <1>1 DEF IsPolygonBody, Fits

-----------------------------------------------------------------------------
\* The k-th point of a body.
PointOf(t, k) == ToPoint[<<t[6*k], t[6*k-2]>>]

Fresh == point_count = 0 /\ loop_count = 0 /\ vertices = <<>> /\ loops = <<>>

\* n points of the first ring were read, and are the vertices.
InRing(n) ==
  /\ n = point_count /\ n \in 0..POINT_LIMIT /\ loop_count = 0 /\ loops = <<>>
  /\ vertices \in Seq(S2Points) /\ Len(vertices) = n
  /\ \A k \in 1..n : vertices[k] = PointOf(read, k)
  /\ RingOpen(read, n)

\* ls is the one loop that a ring of n points becomes.
LoopOf(ls, t, n) ==
  /\ Len(ls) = 1 /\ ls[1] \in Seq(S2Points)
  /\ Len(ls[1]) = IF Equal(PointOf(t, 1), PointOf(t, n)) THEN n - 1 ELSE n
  /\ \A k \in 1..Len(ls[1]) : ls[1][k] = PointOf(t, k)

RingClosed(n) ==
  /\ n \in RingSizes /\ RingOpen(read, n) /\ read[6*n+2] = "]"
  /\ loop_count = 1 /\ LoopOf(loops, read, n)

\* In front of a point, or inside one.
InPoint(n) ==
  /\ InRing(n) /\ (n > 0 => read[6*n+2] = "comma")
  /\ \/ state = "POINT_START" /\ Len(read) = 6*n+2
     \/ /\ n < POINT_LIMIT /\ read[6*n+3] = "["
        /\ \/ state = "POINT_LON" /\ Len(read) = 6*n+3
           \/ /\ read[6*n+4] = longitude /\ longitude \in Numbers
              /\ \/ state = "POINT_DELIM" /\ Len(read) = 6*n+4
                 \/ /\ read[6*n+5] = "comma"
                    /\ \/ state = "POINT_LAT" /\ Len(read) = 6*n+5
                       \/ /\ state = "POINT_END" /\ Len(read) = 6*n+6
                          /\ read[6*n+6] = latitude /\ latitude \in Numbers

PolygonScan ==
  \/ state = "POLYGON_START" /\ Len(read) = 0 /\ Fresh
  \/ state = "LOOP_START" /\ Len(read) = 1 /\ read[1] = "[" /\ Fresh
  \/ InPoint(point_count)
  \/ state = "LOOP_DELIM" /\ point_count > 0 /\ InRing(point_count) /\ Len(read) = 6*point_count+1
  \/ \E n \in RingSizes :
       /\ RingClosed(n)
       /\ \/ state = "POLYGON_DELIM" /\ Len(read) = 6*n+2
          \/ state = "EOL" /\ Len(read) = 6*n+3 /\ read[6*n+3] = "]"
          \/ state = "LOOP_START" /\ Len(read) = 6*n+3 /\ read[6*n+3] = "comma"

PointScan ==
  /\ point_count = 0
  /\ \/ state = "POINT_START" /\ Len(read) = 0
     \/ /\ read[1] = "["
        /\ \/ state = "POINT_LON" /\ Len(read) = 1
           \/ /\ read[2] = longitude /\ longitude \in Numbers
              /\ \/ state = "POINT_DELIM" /\ Len(read) = 2
                 \/ /\ read[3] = "comma"
                    /\ \/ state = "POINT_LAT" /\ Len(read) = 3
                       \/ /\ read[4] = latitude /\ latitude \in Numbers
                          /\ \/ state = "POINT_END" /\ Len(read) = 4
                             \/ state = "EOL" /\ Len(read) = 5 /\ read[5] = "]"

Scan == IF kind = "polygon" THEN PolygonScan ELSE PointScan

Scanned ==
  /\ kind \in {"latlng", "polygon"} /\ read \in Seq(Tokens) /\ spaces \in Nat
  /\ ret = Unset => Scan
  /\ AcceptsTheGrammar /\ ResultIsWhatWasRead

-----------------------------------------------------------------------------
(* One token.                                                              *)

Case(c) ==
  \/ PolygonStart(c) \/ LoopStart(c) \/ PointStart(c) \/ PointLon(c)
  \/ PointDelim(c) \/ PointLat(c) \/ PointEnd(c) \/ LoopDelim(c)
  \/ PolygonDelim(c) \/ AfterEnd(c)

LEMMA OneCase ==
  ASSUME NEW c, Case(c)
  PROVE  /\ state = "POLYGON_START" => PolygonStart(c)
         /\ state = "LOOP_START" => LoopStart(c)
         /\ state = "POINT_START" => PointStart(c)
         /\ state = "POINT_LON" => PointLon(c)
         /\ state = "POINT_DELIM" => PointDelim(c)
         /\ state = "POINT_LAT" => PointLat(c)
         /\ state = "POINT_END" => PointEnd(c)
         /\ state = "LOOP_DELIM" => LoopDelim(c)
         /\ state = "POLYGON_DELIM" => PolygonDelim(c)
         /\ state = "EOL" => AfterEnd(c)
  BY DEF Case, PolygonStart, LoopStart, PointStart, PointLon, PointDelim, PointLat,
         PointEnd, LoopDelim, PolygonDelim, AfterEnd

\* The token c is read next.
Reads(c) == ret = Unset /\ read' = Append(read, c) /\ kind' = kind /\ spaces' = spaces

LEMMA Reading ==
  ASSUME read \in Seq(Tokens), NEW c \in Tokens, Reads(c)
  PROVE  /\ read' \in Seq(Tokens) /\ Len(read) \in Nat /\ Len(read') = Len(read) + 1
         /\ \A k \in 1..Len(read) : read'[k] = read[k]
         /\ read'[Len(read) + 1] = c /\ DOMAIN read' = 1..Len(read')
  BY AppendProperties DEF Reads

LEMMA RingSizesFact ==
  ASSUME NEW n \in RingSizes
  PROVE  n \in Nat /\ n >= 4 /\ n <= POINT_LIMIT
  BY Limits DEF RingSizes

\* ParseS2Polygon reads on, or it gives up, and gives up on nothing.
GoesOn == ret' = Unset /\ PolygonScan'

GivesUp == ret' # Unset /\ ret' # 0 /\ ~StartsPolygonBody(read')

LEMMA Failing ==
  ASSUME read \in Seq(Tokens), spaces \in Nat, Fail
  PROVE  ret' # Unset /\ ret' # 0
<1>1. Len(read) \in Nat /\ ret' = -(Len(read) + spaces) - 1
  BY DEF Fail
<1>2. ret' \in Int /\ ret' < 0
  BY <1>1
<1> QED BY <1>2, Limits

LEMMA Hopeless ==
  ASSUME NEW t,
         \A n \in RingSizes : Len(t) <= 6*n+3 =>
           \E k \in DOMAIN t : t[k] \notin PolygonAt(n, k)
  PROVE  ~StartsPolygonBody(t)
  BY DEF StartsPolygonBody, Fits

\* The places of a ring that is longer than the p points before them.
LEMMA NextPlaces ==
  ASSUME NEW n \in Nat, NEW p \in Nat, p < n
  PROVE  /\ PolygonAt(n, 6*p+3) = {"["} /\ PolygonAt(n, 6*p+4) = Numbers
         /\ PolygonAt(n, 6*p+5) = {"comma"} /\ PolygonAt(n, 6*p+6) = Numbers
         /\ PolygonAt(n, 6*p+7) = {"]"}
         /\ p > 0 => PolygonAt(n, 6*p+2) = {"comma"}
<1> DEFINE j == p + 1
<1>1. /\ j \in 1..n /\ 6*p+3 = 6*j-3 /\ 6*p+4 = 6*j-2 /\ 6*p+5 = 6*j-1
      /\ 6*p+6 = 6*j /\ 6*p+7 = 6*j+1
  OBVIOUS
<1>2. /\ PolygonAt(n, 6*j-3) = {"["} /\ PolygonAt(n, 6*j-2) = Numbers
      /\ PolygonAt(n, 6*j-1) = {"comma"} /\ PolygonAt(n, 6*j) = Numbers
      /\ PolygonAt(n, 6*j+1) = {"]"}
  BY <1>1, PointPlaces
<1>3. p > 0 => PolygonAt(n, 6*p+2) = {"comma"}
  BY CommaPlaces
<1> HIDE DEF j
<1> QED BY <1>1, <1>2, <1>3

LEMMA AtPolygonStart ==
  ASSUME read \in Seq(Tokens), spaces \in Nat, NEW c \in Tokens, Reads(c), Case(c),
         state = "POLYGON_START", Len(read) = 0, Fresh
  PROVE  GoesOn \/ GivesUp
<1>1. PolygonStart(c)
  BY OneCase
<1>2. /\ Len(read') = 1 /\ read'[1] = c /\ DOMAIN read' = 1..1
  BY Reading
<1>3. CASE c = "["
  BY <1>1, <1>2, <1>3 DEF PolygonStart, Goto, PolygonScan, Fresh, scan, Reads, GoesOn
<1>4. CASE c # "["
  <2>1. ~StartsPolygonBody(read')
    <3>1. \A n \in RingSizes : read'[1] \notin PolygonAt(n, 1)
      BY <1>2, <1>4, RingSizesFact, BracketPlaces
    <3> QED BY <1>2, <3>1, Hopeless
  <2> QED BY <1>1, <1>4, <2>1, Failing DEF PolygonStart, GivesUp
<1> QED BY <1>3, <1>4

LEMMA AtLoopStart ==
  ASSUME read \in Seq(Tokens), spaces \in Nat, NEW c \in Tokens, Reads(c), Case(c),
         LOOP_LIMIT = 1,
         state = "LOOP_START", Len(read) = 1, read[1] = "[", Fresh
  PROVE  GoesOn \/ GivesUp
<1>1. LoopStart(c)
  BY OneCase
<1>2. Len(read') = 2 /\ read'[1] = "[" /\ read'[2] = c /\ DOMAIN read' = 1..2
  BY Reading
<1>3. CASE c = "["
  <2>1. /\ ret' = Unset /\ state' = "POINT_START" /\ point_count' = 0 /\ loop_count' = 0
        /\ vertices' = <<>> /\ loops' = <<>>
    BY <1>1, <1>3 DEF LoopStart, Goto, Fresh, scan, Reads
  <2>2. RingOpen(read', 0)
    BY <1>2, <1>3 DEF RingOpen
  <2>3. InPoint(0)'
    BY <1>2, <2>1, <2>2, Limits DEF InPoint, InRing
  <2> QED BY <2>1, <2>3 DEF PolygonScan, GoesOn
<1>4. CASE c # "["
  <2>1. ~StartsPolygonBody(read')
    <3>1. \A n \in RingSizes : read'[2] \notin PolygonAt(n, 2)
      BY <1>2, <1>4, RingSizesFact, BracketPlaces
    <3> QED BY <1>2, <3>1, Hopeless
  <2> QED BY <1>1, <1>4, <2>1, Failing DEF LoopStart, GivesUp
<1> QED BY <1>3, <1>4

\* What was read stays read.
LEMMA RingKept ==
  ASSUME NEW n \in Nat, RingOpen(read, n), Len(read) \in Nat, 2 <= Len(read), 6*n+1 <= Len(read),
         \A k \in 1..Len(read) : read'[k] = read[k]
  PROVE  RingOpen(read', n) /\ \A k \in 1..n : PointOf(read', k) = PointOf(read, k)
<1>1. read'[1] = read[1] /\ read'[2] = read[2]
  OBVIOUS
<1>2. ASSUME NEW j \in 1..n
      PROVE  /\ read'[6*j-3] = read[6*j-3] /\ read'[6*j-2] = read[6*j-2]
             /\ read'[6*j-1] = read[6*j-1] /\ read'[6*j] = read[6*j]
             /\ read'[6*j+1] = read[6*j+1]
  OBVIOUS
<1>3. \A j \in 1..(n-1) : read'[6*j+2] = read[6*j+2]
  OBVIOUS
<1>4. RingOpen(read', n)
  BY <1>1, <1>2, <1>3 DEF RingOpen
<1>5. \A k \in 1..n : PointOf(read', k) = PointOf(read, k)
  BY <1>2 DEF PointOf
<1> QED BY <1>4, <1>5

LEMMA RingGrown ==
  ASSUME NEW n \in Nat, NEW t, RingOpen(t, n), n > 0 => t[6*n+2] = "comma",
         t[6*n+3] = "[", t[6*n+4] \in Numbers, t[6*n+5] = "comma",
         t[6*n+6] \in Numbers, t[6*n+7] = "]"
  PROVE  RingOpen(t, n+1)
<1> DEFINE m == n + 1
<1>1. ASSUME NEW j \in 1..m
      PROVE  /\ t[6*j-3] = "[" /\ t[6*j-2] \in Numbers /\ t[6*j-1] = "comma"
             /\ t[6*j] \in Numbers /\ t[6*j+1] = "]"
  <2>1. CASE j \in 1..n
    BY <2>1 DEF RingOpen
  <2>2. CASE j = m
    <3>1. 6*j-3 = 6*n+3 /\ 6*j-2 = 6*n+4 /\ 6*j-1 = 6*n+5 /\ 6*j = 6*n+6 /\ 6*j+1 = 6*n+7
      BY <2>2
    <3> QED BY <3>1
  <2> QED BY <2>1, <2>2
<1>2. ASSUME NEW j \in 1..(m-1) PROVE t[6*j+2] = "comma"
  BY <1>2 DEF RingOpen
<1> QED BY <1>1, <1>2 DEF RingOpen

LEMMA InRingKept ==
  ASSUME NEW n \in Nat, InRing(n), Len(read) \in Nat, 2 <= Len(read), 6*n+1 <= Len(read),
         \A k \in 1..Len(read) : read'[k] = read[k],
         UNCHANGED <<point_count, loop_count, vertices, loops>>
  PROVE  InRing(n)'
<1>1. RingOpen(read, n)
  BY DEF InRing
<1>2. RingOpen(read', n) /\ \A k \in 1..n : PointOf(read', k) = PointOf(read, k)
  BY <1>1, RingKept
<1>3. \A k \in 1..n : vertices'[k] = PointOf(read', k)
  BY <1>2 DEF InRing
<1> QED BY <1>2, <1>3 DEF InRing, PointOf

LEMMA AtPointStart ==
  ASSUME read \in Seq(Tokens), spaces \in Nat, NEW c \in Tokens, Reads(c), Case(c),
         kind = "polygon", NEW p, p = point_count, InPoint(p), state = "POINT_START"
  PROVE  GoesOn \/ GivesUp
<1>1. PointStart(c)
  BY OneCase
<1>2. /\ InRing(p) /\ p \in Nat /\ p <= POINT_LIMIT /\ Len(read) = 6*p+2
      /\ p > 0 => read[6*p+2] = "comma"
  BY Limits DEF InPoint, InRing
<1>3. /\ Len(read') = 6*p+3 /\ read'[6*p+3] = c /\ DOMAIN read' = 1..(6*p+3)
      /\ \A k \in 1..(6*p+2) : read'[k] = read[k]
  BY <1>2, Reading
<1>4. CASE c = "[" /\ p < POINT_LIMIT
  <2>1. ret' = Unset /\ state' = "POINT_LON" /\ UNCHANGED scan
    BY <1>1, <1>2, <1>4, Limits DEF PointStart, Goto, Reads
  <2>2. InRing(p)'
    <3>1. UNCHANGED <<point_count, loop_count, vertices, loops>>
      BY <2>1 DEF scan
    <3> QED BY <1>2, <1>3, <3>1, InRingKept
  <2>3. p > 0 => read'[6*p+2] = "comma"
    BY <1>2, <1>3
  <2>4. InPoint(p)' /\ p = point_count'
    BY <1>3, <1>4, <2>1, <2>2, <2>3 DEF InPoint, scan
  <2> QED BY <2>1, <2>4 DEF PolygonScan, GoesOn
<1>5. CASE ~(c = "[" /\ p < POINT_LIMIT)
  <2>1. ASSUME NEW n \in RingSizes, 6*p+3 <= 6*n+3
        PROVE  \E k \in DOMAIN read' : read'[k] \notin PolygonAt(n, k)
    <3>1. n \in Nat /\ n >= 4 /\ n <= POINT_LIMIT /\ p <= n
      BY <1>2, <2>1, RingSizesFact
    <3>2. CASE p = n
      <4>1. read'[6*p+2] = "comma" /\ PolygonAt(n, 6*p+2) = {"]"}
        BY <1>2, <1>3, <3>1, <3>2, BracketPlaces
      <4>2. 6*p+2 \in DOMAIN read'
        BY <1>2, <1>3
      <4> QED BY <4>1, <4>2
    <3>3. CASE p < n
      <4>1. PolygonAt(n, 6*p+3) = {"["} /\ p < POINT_LIMIT
        BY <1>2, <3>1, <3>3, NextPlaces, Limits
      <4>2. 6*p+3 \in DOMAIN read'
        BY <1>2, <1>3
      <4> QED BY <1>3, <1>5, <4>1, <4>2
    <3> QED BY <1>2, <3>1, <3>2, <3>3
  <2>2. ~StartsPolygonBody(read')
    BY <1>3, <2>1, Hopeless
  <2>3. Fail \/ ret' = POINT_LIMIT
    BY <1>1, <1>2, <1>5, Limits DEF PointStart, Return
  <2>4. ret' # Unset /\ ret' # 0
    BY <2>3, Failing, Limits
  <2> QED BY <2>2, <2>4 DEF GivesUp
<1> QED BY <1>4, <1>5

\* The token at place 6p+r, inside a point, is the one that fits no body.
LEMMA WrongInPoint ==
  ASSUME NEW p \in Nat, NEW r \in 4..7, Len(read') = 6*p+r, DOMAIN read' = 1..(6*p+r),
         \A n \in RingSizes : p < n => read'[6*p+r] \notin PolygonAt(n, 6*p+r)
  PROVE  ~StartsPolygonBody(read')
<1>1. ASSUME NEW n \in RingSizes, Len(read') <= 6*n+3
      PROVE  \E k \in DOMAIN read' : read'[k] \notin PolygonAt(n, k)
  <2>1. p < n /\ 6*p+r \in DOMAIN read'
    BY <1>1, RingSizesFact
  <2> QED BY <2>1
<1> QED BY <1>1, Hopeless

LEMMA AtPointLon ==
  ASSUME read \in Seq(Tokens), spaces \in Nat, NEW c \in Tokens, Reads(c), Case(c),
         kind = "polygon", NEW p, p = point_count, InPoint(p), state = "POINT_LON"
  PROVE  GoesOn \/ GivesUp
<1>1. PointLon(c)
  BY OneCase
<1>2. /\ InRing(p) /\ p \in Nat /\ p < POINT_LIMIT /\ Len(read) = 6*p+3
      /\ (p > 0 => read[6*p+2] = "comma") /\ read[6*p+3] = "["
  BY Limits DEF InPoint, InRing
<1>3. /\ Len(read') = 6*p+4 /\ read'[6*p+4] = c /\ DOMAIN read' = 1..(6*p+4)
      /\ \A k \in 1..(6*p+3) : read'[k] = read[k]
  BY <1>2, Reading
<1>4. CASE c \in Numbers
  <2>1. /\ ret' = Unset /\ state' = "POINT_DELIM"
        /\ UNCHANGED <<point_count, loop_count, vertices, loops>>
        /\ longitude' = c
    BY <1>1, <1>4 DEF PointLon, Goto, Reads, scan
  <2>2. InRing(p)'
    BY <1>2, <1>3, <2>1, InRingKept
  <2>3. \A k \in 2..3 : read'[6*p+k] = read[6*p+k]
    BY <1>2, <1>3
  <2>4. InPoint(p)' /\ p = point_count'
    BY <1>2, <1>3, <1>4, <2>1, <2>2, <2>3 DEF InPoint
  <2> QED BY <2>1, <2>4 DEF PolygonScan, GoesOn
<1>5. CASE ~(c \in Numbers)
  <2>1. \A n \in RingSizes : p < n => read'[6*p+4] \notin PolygonAt(n, 6*p+4)
    BY <1>2, <1>3, <1>5, NextPlaces, RingSizesFact
  <2>2. ~StartsPolygonBody(read')
    BY <1>2, <1>3, <2>1, WrongInPoint
  <2> QED BY <1>1, <1>5, <2>2, Failing DEF PointLon, GivesUp
<1> QED BY <1>4, <1>5

LEMMA AtPointDelim ==
  ASSUME read \in Seq(Tokens), spaces \in Nat, NEW c \in Tokens, Reads(c), Case(c),
         kind = "polygon", NEW p, p = point_count, InPoint(p), state = "POINT_DELIM"
  PROVE  GoesOn \/ GivesUp
<1>1. PointDelim(c)
  BY OneCase
<1>2. /\ InRing(p) /\ p \in Nat /\ p < POINT_LIMIT /\ Len(read) = 6*p+4
      /\ (p > 0 => read[6*p+2] = "comma") /\ read[6*p+3] = "["
      /\ read[6*p+4] = longitude /\ longitude \in Numbers
  BY Limits DEF InPoint, InRing
<1>3. /\ Len(read') = 6*p+5 /\ read'[6*p+5] = c /\ DOMAIN read' = 1..(6*p+5)
      /\ \A k \in 1..(6*p+4) : read'[k] = read[k]
  BY <1>2, Reading
<1>4. CASE c = "comma"
  <2>1. /\ ret' = Unset /\ state' = "POINT_LAT"
        /\ UNCHANGED <<point_count, loop_count, vertices, loops>>
        /\ longitude' = longitude
    BY <1>1, <1>4 DEF PointDelim, Goto, Reads, scan
  <2>2. InRing(p)'
    BY <1>2, <1>3, <2>1, InRingKept
  <2>3. \A k \in 2..4 : read'[6*p+k] = read[6*p+k]
    BY <1>2, <1>3
  <2>4. InPoint(p)' /\ p = point_count'
    BY <1>2, <1>3, <1>4, <2>1, <2>2, <2>3 DEF InPoint
  <2> QED BY <2>1, <2>4 DEF PolygonScan, GoesOn
<1>5. CASE ~(c = "comma")
  <2>1. \A n \in RingSizes : p < n => read'[6*p+5] \notin PolygonAt(n, 6*p+5)
    BY <1>2, <1>3, <1>5, NextPlaces, RingSizesFact
  <2>2. ~StartsPolygonBody(read')
    BY <1>2, <1>3, <2>1, WrongInPoint
  <2> QED BY <1>1, <1>5, <2>2, Failing DEF PointDelim, GivesUp
<1> QED BY <1>4, <1>5

LEMMA AtPointLat ==
  ASSUME read \in Seq(Tokens), spaces \in Nat, NEW c \in Tokens, Reads(c), Case(c),
         kind = "polygon", NEW p, p = point_count, InPoint(p), state = "POINT_LAT"
  PROVE  GoesOn \/ GivesUp
<1>1. PointLat(c)
  BY OneCase
<1>2. /\ InRing(p) /\ p \in Nat /\ p < POINT_LIMIT /\ Len(read) = 6*p+5
      /\ (p > 0 => read[6*p+2] = "comma") /\ read[6*p+3] = "["
      /\ read[6*p+4] = longitude /\ longitude \in Numbers /\ read[6*p+5] = "comma"
  BY Limits DEF InPoint, InRing
<1>3. /\ Len(read') = 6*p+6 /\ read'[6*p+6] = c /\ DOMAIN read' = 1..(6*p+6)
      /\ \A k \in 1..(6*p+5) : read'[k] = read[k]
  BY <1>2, Reading
<1>4. CASE c \in Numbers
  <2>1. /\ ret' = Unset /\ state' = "POINT_END"
        /\ UNCHANGED <<point_count, loop_count, vertices, loops>>
        /\ longitude' = longitude /\ latitude' = c
    BY <1>1, <1>4 DEF PointLat, Goto, Reads, scan
  <2>2. InRing(p)'
    BY <1>2, <1>3, <2>1, InRingKept
  <2>3. \A k \in 2..5 : read'[6*p+k] = read[6*p+k]
    BY <1>2, <1>3
  <2>4. InPoint(p)' /\ p = point_count'
    BY <1>2, <1>3, <1>4, <2>1, <2>2, <2>3 DEF InPoint
  <2> QED BY <2>1, <2>4 DEF PolygonScan, GoesOn
<1>5. CASE ~(c \in Numbers)
  <2>1. \A n \in RingSizes : p < n => read'[6*p+6] \notin PolygonAt(n, 6*p+6)
    BY <1>2, <1>3, <1>5, NextPlaces, RingSizesFact
  <2>2. ~StartsPolygonBody(read')
    BY <1>2, <1>3, <2>1, WrongInPoint
  <2> QED BY <1>1, <1>5, <2>2, Failing DEF PointLat, GivesUp
<1> QED BY <1>4, <1>5

LEMMA AtPointEnd ==
  ASSUME read \in Seq(Tokens), spaces \in Nat, NEW c \in Tokens, Reads(c), Case(c),
         kind = "polygon", NEW p, p = point_count, InPoint(p), state = "POINT_END"
  PROVE  GoesOn \/ GivesUp
<1>1. PointEnd(c)
  BY OneCase
<1>2. /\ InRing(p) /\ p \in Nat /\ p < POINT_LIMIT /\ Len(read) = 6*p+6
      /\ (p > 0 => read[6*p+2] = "comma") /\ read[6*p+3] = "["
      /\ read[6*p+4] = longitude /\ longitude \in Numbers /\ read[6*p+5] = "comma"
      /\ read[6*p+6] = latitude /\ latitude \in Numbers
  BY Limits DEF InPoint, InRing
<1>3. /\ Len(read') = 6*p+7 /\ read'[6*p+7] = c /\ DOMAIN read' = 1..(6*p+7)
      /\ \A k \in 1..(6*p+6) : read'[k] = read[k]
  BY <1>2, Reading
<1>4. CASE c = "]"
  <2>1. /\ ret' = Unset /\ state' = "LOOP_DELIM" /\ point_count' = p + 1
        /\ vertices' = Append(vertices, ToPoint[<<latitude, longitude>>])
        /\ loop_count' = loop_count /\ loops' = loops
    BY <1>1, <1>4 DEF PointEnd, Goto, Reads
  <2>2. /\ RingOpen(read', p) /\ \A k \in 1..p : PointOf(read', k) = PointOf(read, k)
    <3>1. RingOpen(read, p) /\ Len(read) \in Nat /\ 2 <= Len(read) /\ 6*p+1 <= Len(read)
      BY <1>2 DEF InRing
    <3> QED BY <1>2, <1>3, <3>1, RingKept
  <2>3. \A k \in 2..6 : read'[6*p+k] = read[6*p+k]
    BY <1>2, <1>3
  <2>4. RingOpen(read', p+1)
    <3>1. /\ read'[6*p+3] = "[" /\ read'[6*p+4] \in Numbers /\ read'[6*p+5] = "comma"
          /\ read'[6*p+6] \in Numbers /\ read'[6*p+7] = "]"
      BY <1>2, <1>3, <1>4, <2>3
    <3>2. p > 0 => read'[6*p+2] = "comma"
      BY <1>2, <2>3
    <3> QED BY <1>2, <2>2, <3>1, <3>2, RingGrown
  <2>5. /\ vertices' \in Seq(S2Points) /\ Len(vertices') = p + 1
        /\ \A k \in 1..p : vertices'[k] = vertices[k]
        /\ vertices'[p+1] = ToPoint[<<latitude, longitude>>]
    <3>1. vertices \in Seq(S2Points) /\ Len(vertices) = p
      BY <1>2 DEF InRing
    <3>2. ToPoint[<<latitude, longitude>>] \in S2Points
      BY <1>2, PointsOfPairs
    <3> QED BY <2>1, <3>1, <3>2, AppendProperties
  <2>6. PointOf(read', p+1) = ToPoint[<<latitude, longitude>>]
    <3>1. 6*(p+1) = 6*p+6 /\ 6*(p+1)-2 = 6*p+4
      BY <1>2
    <3>2. read'[6*p+6] = latitude /\ read'[6*p+4] = longitude
      BY <1>2, <2>3
    <3>3. read'[6*(p+1)] = latitude /\ read'[6*(p+1)-2] = longitude
      BY <3>1, <3>2
    <3> QED BY <3>3 DEF PointOf
  <2>7. \A k \in 1..(p+1) : vertices'[k] = PointOf(read', k)
    <3>1. \A k \in 1..p : vertices'[k] = PointOf(read', k)
      BY <1>2, <2>2, <2>5 DEF InRing
    <3>2. vertices'[p+1] = PointOf(read', p+1)
      BY <2>5, <2>6
    <3>3. \A k \in 1..(p+1) : k \in 1..p \/ k = p+1
      BY <1>2
    <3> QED BY <3>1, <3>2, <3>3
  <2>8. InRing(p+1)'
    <3>1. p+1 = point_count' /\ p+1 \in 0..POINT_LIMIT /\ loop_count' = 0 /\ loops' = <<>>
      BY <1>2, <2>1, Limits DEF InRing
    <3> QED BY <2>4, <2>5, <2>7, <3>1 DEF InRing, PointOf
  <2>9. point_count' > 0 /\ Len(read') = 6*point_count'+1 /\ InRing(point_count)'
    BY <1>2, <1>3, <2>1, <2>8
  <2> QED BY <2>1, <2>9 DEF PolygonScan, GoesOn
<1>5. CASE c # "]"
  <2>1. \A n \in RingSizes : p < n => read'[6*p+7] \notin PolygonAt(n, 6*p+7)
    BY <1>2, <1>3, <1>5, NextPlaces, RingSizesFact
  <2>2. ~StartsPolygonBody(read')
    BY <1>2, <1>3, <2>1, WrongInPoint
  <2> QED BY <1>1, <1>5, <2>2, Failing DEF PointEnd, GivesUp
<1> QED BY <1>4, <1>5

\* The loop of a ring: without its last point if that repeats the first.
LEMMA Opened ==
  ASSUME NEW n \in Nat, n >= 4, NEW t, NEW vs \in Seq(S2Points), Len(vs) = n,
         \A k \in 1..n : vs[k] = PointOf(t, k)
  PROVE  LoopOf(Append(<<>>, OpenRing(vs)), t, n)
<1> DEFINE l == OpenRing(vs)
<1>1. /\ l \in Seq(S2Points)
      /\ Len(l) = IF Equal(vs[1], vs[n]) THEN n - 1 ELSE n
      /\ \A k \in 1..Len(l) : l[k] = vs[k]
  <2>1. CASE Equal(vs[1], vs[n])
    <3>1. l = SubSeq(vs, 1, n - 1)
      BY <2>1 DEF OpenRing
    <3>2. \A k \in 1..(n-1) : vs[k] \in S2Points
      BY ElementOfSeq
    <3>3. /\ l \in Seq(S2Points) /\ Len(l) = n - 1
          /\ \A k \in 1..(n-1) : l[k] = vs[k]
      <4> HIDE DEF l
      <4> QED BY <3>1, <3>2, SubSeqProperties
    <3> HIDE DEF l
    <3> QED BY <2>1, <3>3
  <2>2. CASE ~Equal(vs[1], vs[n])
    BY <2>2 DEF OpenRing
  <2> QED BY <2>1, <2>2
<1>2. Len(Append(<<>>, l)) = 1 /\ Append(<<>>, l)[1] = l
  <2> HIDE DEF l
  <2> QED OBVIOUS
<1>3. vs[1] = PointOf(t, 1) /\ vs[n] = PointOf(t, n)
  OBVIOUS
<1> HIDE DEF l
<1>4. LoopOf(Append(<<>>, l), t, n)
  BY <1>1, <1>2, <1>3 DEF LoopOf
<1> QED BY <1>4 DEF l

LEMMA AtLoopDelim ==
  ASSUME read \in Seq(Tokens), spaces \in Nat, NEW c \in Tokens, Reads(c), Case(c),
         kind = "polygon", NEW p, p = point_count, InRing(p), p > 0,
         state = "LOOP_DELIM", Len(read) = 6*p+1
  PROVE  GoesOn \/ GivesUp
<1>1. LoopDelim(c)
  BY OneCase
<1>2. p \in Nat /\ p <= POINT_LIMIT /\ Len(vertices) = p
  BY Limits DEF InRing
<1>3. /\ Len(read') = 6*p+2 /\ read'[6*p+2] = c /\ DOMAIN read' = 1..(6*p+2)
      /\ \A k \in 1..(6*p+1) : read'[k] = read[k]
  BY <1>2, Reading
<1>4. CASE c = "comma"
  <2>1. ret' = Unset /\ state' = "POINT_START" /\ UNCHANGED scan
    BY <1>1, <1>4 DEF LoopDelim, Goto, Reads
  <2>2. UNCHANGED <<point_count, loop_count, vertices, loops>>
    BY <2>1 DEF scan
  <2>3. InRing(p)'
    BY <1>2, <1>3, <2>2, InRingKept
  <2>4. InPoint(p)' /\ p = point_count'
    BY <1>3, <1>4, <2>1, <2>2, <2>3 DEF InPoint
  <2> QED BY <2>1, <2>4 DEF PolygonScan, GoesOn
<1>5. CASE c = "]" /\ p >= 4
  <2>1. /\ ret' = Unset /\ state' = "POLYGON_DELIM" /\ loop_count' = 1
        /\ loops' = Append(<<>>, OpenRing(vertices))
    BY <1>1, <1>2, <1>5 DEF LoopDelim, Goto, Reads, InRing
  <2>2. RingOpen(read', p) /\ \A k \in 1..p : PointOf(read', k) = PointOf(read, k)
    <3>1. RingOpen(read, p) /\ Len(read) \in Nat /\ 2 <= Len(read) /\ 6*p+1 <= Len(read)
      BY <1>2 DEF InRing
    <3> QED BY <1>2, <1>3, <3>1, RingKept
  <2>3. /\ vertices \in Seq(S2Points)
        /\ \A k \in 1..p : vertices[k] = PointOf(read', k)
    BY <2>2 DEF InRing
  <2>4. LoopOf(loops', read', p)
    BY <1>2, <1>5, <2>1, <2>3, Opened
  <2>5. p \in RingSizes
    BY <1>2, <1>5, Limits DEF RingSizes
  <2>6. RingClosed(p)'
    BY <1>3, <1>5, <2>1, <2>2, <2>4, <2>5 DEF RingClosed
  <2> QED BY <1>3, <2>1, <2>5, <2>6 DEF PolygonScan, GoesOn
<1>6. CASE ~(c = "comma") /\ ~(c = "]" /\ p >= 4)
  <2>1. ASSUME NEW n \in RingSizes, Len(read') <= 6*n+3
        PROVE  \E k \in DOMAIN read' : read'[k] \notin PolygonAt(n, k)
    <3>1. n \in Nat /\ n >= 4 /\ p <= n /\ 6*p+2 \in DOMAIN read'
      BY <1>2, <1>3, <2>1, RingSizesFact
    <3>2. p < n => PolygonAt(n, 6*p+2) = {"comma"}
      BY <1>2, <3>1, NextPlaces
    <3>3. p = n => PolygonAt(n, 6*p+2) = {"]"}
      BY <3>1, BracketPlaces
    <3> QED BY <1>2, <1>3, <1>6, <3>1, <3>2, <3>3
  <2>2. ~StartsPolygonBody(read')
    BY <2>1, Hopeless
  <2>3. Fail
    BY <1>1, <1>2, <1>6 DEF LoopDelim
  <2> QED BY <2>2, <2>3, Failing DEF GivesUp
<1> QED BY <1>4, <1>5, <1>6

LEMMA AtRingClosed ==
  ASSUME read \in Seq(Tokens), spaces \in Nat, NEW c \in Tokens, Reads(c), Case(c),
         kind = "polygon", LOOP_LIMIT = 1, NEW n \in RingSizes, RingClosed(n),
         \/ state = "POLYGON_DELIM" /\ Len(read) = 6*n+2
         \/ state = "EOL" /\ Len(read) = 6*n+3
         \/ state = "LOOP_START" /\ Len(read) = 6*n+3
  PROVE  GoesOn \/ GivesUp
<1>1. n \in Nat /\ n >= 4 /\ n <= POINT_LIMIT
  BY RingSizesFact
<1>2. /\ Len(read) \in Nat /\ Len(read) >= 6*n+2 /\ Len(read') = Len(read) + 1
      /\ DOMAIN read' = 1..Len(read') /\ read'[Len(read')] = c
      /\ \A k \in 1..Len(read) : read'[k] = read[k]
  BY <1>1, Reading
<1>3. read'[6*n+2] = "]" /\ 6*n+2 \in DOMAIN read'
  BY <1>1, <1>2 DEF RingClosed
<1>4. ASSUME NEW m \in RingSizes, n < m
      PROVE  \E k \in DOMAIN read' : read'[k] \notin PolygonAt(m, k)
  <2>1. PolygonAt(m, 6*n+2) = {"comma"}
    BY <1>1, <1>4, NextPlaces, RingSizesFact
  <2> QED BY <1>3, <2>1
<1>5. CASE state = "POLYGON_DELIM" /\ Len(read) = 6*n+2 /\ c \in {"comma", "]"}
  <2>1. /\ ret' = Unset /\ UNCHANGED scan
        /\ state' = IF c = "comma" THEN "LOOP_START" ELSE "EOL"
    BY <1>5, OneCase DEF PolygonDelim, Goto, Reads
  <2>2. RingOpen(read', n) /\ \A k \in 1..n : PointOf(read', k) = PointOf(read, k)
    <3>1. RingOpen(read, n) /\ 2 <= Len(read) /\ 6*n+1 <= Len(read)
      BY <1>1, <1>2 DEF RingClosed
    <3> QED BY <1>1, <1>2, <3>1, RingKept
  <2>3. LoopOf(loops', read', n) /\ loop_count' = 1
    <3>1. loops' = loops /\ loop_count' = 1
      BY <2>1 DEF scan, RingClosed
    <3>2. 1 \in 1..n /\ n \in 1..n
      BY <1>1
    <3>3. LoopOf(loops, read, n)
      BY DEF RingClosed
    <3>4. Len(loops[1]) \in Nat /\ Len(loops[1]) <= n
      BY <1>1, <3>3 DEF LoopOf
    <3>5. \A k \in 1..Len(loops[1]) : k \in 1..n
      BY <1>1, <3>4
    <3> QED BY <2>2, <3>1, <3>2, <3>3, <3>5 DEF LoopOf
  <2>4. RingClosed(n)'
    BY <1>3, <2>2, <2>3 DEF RingClosed
  <2>5. Len(read') = 6*n+3 /\ read'[6*n+3] = c
    BY <1>1, <1>2, <1>5
  <2> QED BY <1>5, <2>1, <2>4, <2>5 DEF PolygonScan, GoesOn
<1>6. CASE ~(state = "POLYGON_DELIM" /\ Len(read) = 6*n+2 /\ c \in {"comma", "]"})
  <2>1. ASSUME NEW m \in RingSizes, Len(read') <= 6*m+3
        PROVE  \E k \in DOMAIN read' : read'[k] \notin PolygonAt(m, k)
    <3>1. m \in Nat /\ n <= m
      BY <1>1, <1>2, <2>1, RingSizesFact
    <3>2. CASE n = m
      <4>1. state = "POLYGON_DELIM" /\ Len(read) = 6*n+2 /\ c # "]"
        BY <1>1, <1>2, <1>6, <2>1, <3>2
      <4>2. read'[6*n+3] = c /\ 6*n+3 \in DOMAIN read' /\ PolygonAt(m, 6*n+3) = {"]"}
        BY <1>1, <1>2, <3>2, <4>1, BracketPlaces
      <4> QED BY <4>1, <4>2
    <3> QED BY <1>1, <1>4, <3>1, <3>2
  <2>2. ~StartsPolygonBody(read')
    BY <2>1, Hopeless
  <2>3. Fail \/ ret' = PARSE_ERR_LOOP_LIMIT
    <3>1. loop_count = 1
      BY DEF RingClosed
    <3>2. CASE state = "POLYGON_DELIM"
      BY <1>6, <3>2, OneCase DEF PolygonDelim
    <3>3. CASE state = "EOL"
      BY <3>3, OneCase DEF AfterEnd
    <3>4. CASE state = "LOOP_START"
      BY <3>1, <3>4, OneCase DEF LoopStart, Return
    <3> QED BY <3>2, <3>3, <3>4
  <2>4. ret' # Unset /\ ret' # 0
    <3>1. PARSE_ERR_LOOP_LIMIT \in Nat \ {0}
      BY ParserAssumption
    <3> QED BY <2>3, <3>1, Failing, Limits
  <2> QED BY <2>2, <2>4 DEF GivesUp
<1> QED BY <1>5, <1>6

LEMMA PolygonToken ==
  ASSUME read \in Seq(Tokens), spaces \in Nat, NEW c \in Tokens, Reads(c), Case(c),
         kind = "polygon", LOOP_LIMIT = 1, PolygonScan
  PROVE  GoesOn \/ GivesUp
<1>1. CASE state = "POLYGON_START" /\ Len(read) = 0 /\ Fresh
  BY <1>1, AtPolygonStart
<1>2. CASE state = "LOOP_START" /\ Len(read) = 1 /\ read[1] = "[" /\ Fresh
  BY <1>2, AtLoopStart
<1>3. CASE InPoint(point_count)
  <2>1. state \in {"POINT_START", "POINT_LON", "POINT_DELIM", "POINT_LAT", "POINT_END"}
    BY <1>3 DEF InPoint
  <2> QED BY <1>3, <2>1, AtPointStart, AtPointLon, AtPointDelim, AtPointLat, AtPointEnd
<1>4. CASE /\ state = "LOOP_DELIM" /\ point_count > 0 /\ InRing(point_count)
           /\ Len(read) = 6*point_count+1
  BY <1>4, AtLoopDelim
<1>5. CASE \E n \in RingSizes :
             /\ RingClosed(n)
             /\ \/ state = "POLYGON_DELIM" /\ Len(read) = 6*n+2
                \/ state = "EOL" /\ Len(read) = 6*n+3
                \/ state = "LOOP_START" /\ Len(read) = 6*n+3
  BY <1>5, AtRingClosed
<1> QED BY <1>1, <1>2, <1>3, <1>4, <1>5 DEF PolygonScan

LEMMA PointToken ==
  ASSUME read \in Seq(Tokens), spaces \in Nat, NEW c \in Tokens, Reads(c), Case(c),
         kind = "latlng", PointScan
  PROVE  \/ ret' = Unset /\ PointScan'
         \/ ret' # Unset /\ ret' # 0 /\ ~StartsPointBody(read')
<1>1. /\ Len(read) \in Nat /\ Len(read') = Len(read) + 1 /\ DOMAIN read' = 1..Len(read')
      /\ \A k \in 1..Len(read) : read'[k] = read[k]
      /\ read'[Len(read) + 1] = c
  BY Reading
<1>2. ASSUME NEW k \in Nat, Len(read) = k, k <= 5, Fail,
             k < 5 => c \notin Point[k+1]
      PROVE  ret' # Unset /\ ret' # 0 /\ ~StartsPointBody(read')
  <2>1. ~StartsPointBody(read')
    BY <1>1, <1>2 DEF StartsPointBody
  <2> QED BY <1>2, <2>1, Failing
<1>3. CASE state = "POINT_START" /\ Len(read) = 0
  <2>1. PointStart(c) /\ point_count = 0 /\ point_count < POINT_LIMIT
    BY <1>3, OneCase, Limits DEF PointScan
  <2>2. CASE c = "["
    BY <1>1, <1>3, <2>1, <2>2, Limits DEF PointStart, Goto, Reads, PointScan, scan
  <2>3. CASE c # "["
    BY <1>2, <1>3, <2>1, <2>3 DEF PointStart, Point
  <2> QED BY <2>2, <2>3
<1>4. CASE state = "POINT_LON" /\ Len(read) = 1
  <2>1. PointLon(c) /\ read[1] = "["
    BY <1>4, OneCase DEF PointScan
  <2>2. CASE c \in Numbers
    BY <1>1, <1>4, <2>1, <2>2 DEF PointLon, Goto, Reads, PointScan
  <2>3. CASE c \notin Numbers
    BY <1>2, <1>4, <2>1, <2>3 DEF PointLon, Point
  <2> QED BY <2>2, <2>3
<1>5. CASE state = "POINT_DELIM" /\ Len(read) = 2
  <2>1. PointDelim(c) /\ read[1] = "[" /\ read[2] = longitude /\ longitude \in Numbers
    BY <1>5, OneCase DEF PointScan
  <2>2. CASE c = "comma"
    BY <1>1, <1>5, <2>1, <2>2 DEF PointDelim, Goto, Reads, PointScan, scan
  <2>3. CASE c # "comma"
    BY <1>2, <1>5, <2>1, <2>3 DEF PointDelim, Point
  <2> QED BY <2>2, <2>3
<1>6. CASE state = "POINT_LAT" /\ Len(read) = 3
  <2>1. /\ PointLat(c) /\ read[1] = "[" /\ read[2] = longitude /\ longitude \in Numbers
        /\ read[3] = "comma"
    BY <1>6, OneCase DEF PointScan
  <2>2. CASE c \in Numbers
    BY <1>1, <1>6, <2>1, <2>2 DEF PointLat, Goto, Reads, PointScan
  <2>3. CASE c \notin Numbers
    BY <1>2, <1>6, <2>1, <2>3 DEF PointLat, Point
  <2> QED BY <2>2, <2>3
<1>7. CASE state = "POINT_END" /\ Len(read) = 4
  <2>1. /\ PointEnd(c) /\ read[1] = "[" /\ read[2] = longitude /\ longitude \in Numbers
        /\ read[3] = "comma" /\ read[4] = latitude /\ latitude \in Numbers
    BY <1>7, OneCase DEF PointScan
  <2>2. CASE c = "]"
    BY <1>1, <1>7, <2>1, <2>2 DEF PointEnd, Goto, Reads, PointScan, scan
  <2>3. CASE c # "]"
    BY <1>2, <1>7, <2>1, <2>3 DEF PointEnd, Point
  <2> QED BY <2>2, <2>3
<1>8. CASE state = "EOL" /\ Len(read) = 5
  <2>1. Fail
    BY <1>8, OneCase DEF AfterEnd
  <2> QED BY <1>2, <1>8, <2>1
<1> QED BY <1>3, <1>4, <1>5, <1>6, <1>7, <1>8 DEF PointScan

-----------------------------------------------------------------------------
(* The end of the body.                                                    *)

LEMMA UnfinishedPolygon ==
  ASSUME read \in Seq(Tokens), PolygonScan, state # "EOL"
  PROVE  ~IsPolygonBody(read)
<1> SUFFICES ASSUME NEW n \in RingSizes, Fits(read, n), Len(read) = 6*n+3
             PROVE  FALSE
  BY DEF IsPolygonBody
<1>1. n \in Nat /\ n >= 4
  BY RingSizesFact
<1>2. read[6*n+3] = "]"
  <2>1. 6*n+3 \in DOMAIN read /\ PolygonAt(n, 6*n+3) = {"]"}
    BY <1>1, BracketPlaces
  <2> QED BY <2>1 DEF Fits
<1>3. CASE InPoint(point_count)
  <2>1. point_count \in Nat
    BY <1>3, Limits DEF InPoint, InRing
  <2>2. 6*n+3 = 6*point_count+3 /\ read[6*point_count+3] = "["
    BY <1>1, <1>3, <2>1 DEF InPoint
  <2> QED BY <1>2, <2>2
<1>4. CASE InRing(point_count) /\ Len(read) = 6*point_count+1
  <2>1. point_count \in Nat
    BY <1>4, Limits DEF InRing
  <2> QED BY <1>1, <1>4, <2>1
<1>5. ASSUME NEW m \in RingSizes,
             \/ Len(read) = 6*m+2
             \/ Len(read) = 6*m+3 /\ read[6*m+3] = "comma"
      PROVE  FALSE
  <2>1. m \in Nat
    BY RingSizesFact
  <2> QED BY <1>1, <1>2, <1>5, <2>1
<1>6. Len(read) \notin {0, 1}
  BY <1>1
<1> QED BY <1>3, <1>4, <1>5, <1>6 DEF PolygonScan

\* At the end of an accepted body of n points.
LEMMA FinishedPolygon ==
  ASSUME read \in Seq(Tokens), PolygonScan, state = "EOL"
  PROVE  \E n \in RingSizes :
           /\ Len(read) = 6*n+3 /\ LoopOf(loops, read, n) /\ IsPolygonBody(read)
<1>1. PICK n \in RingSizes : RingClosed(n) /\ Len(read) = 6*n+3 /\ read[6*n+3] = "]"
  BY DEF PolygonScan, InPoint
<1>2. DOMAIN read = 1..(6*n+3)
  BY <1>1
<1> QED BY <1>1, <1>2, FullRing DEF RingClosed

LEMMA PointEnds ==
  ASSUME read \in Seq(Tokens), PointScan
  PROVE  /\ state # "EOL" => ~IsPointBody(read)
         /\ state = "EOL" =>
              /\ read[4] = latitude /\ read[2] = longitude
              /\ IsPointBody(read) <=> <<latitude, longitude>> \in ValidLatLngs
<1>1. ASSUME state # "EOL" PROVE ~IsPointBody(read)
  <2>1. Len(read) = 0 \/ Len(read) = 1 \/ Len(read) = 2 \/ Len(read) = 3 \/ Len(read) = 4
    BY <1>1, Zenon DEF PointScan
  <2>2. IsPointBody(read) => Len(read) = 5
    BY DEF IsPointBody
  <2>3. 5 # 0 /\ 5 # 1 /\ 5 # 2 /\ 5 # 3 /\ 5 # 4
    OBVIOUS
  <2> QED BY <2>1, <2>2, <2>3, Zenon
<1>2. CASE state = "EOL"
  <2>1. /\ Len(read) = 5 /\ read[1] = "[" /\ read[2] = longitude /\ longitude \in Numbers
        /\ read[3] = "comma" /\ read[4] = latitude /\ latitude \in Numbers /\ read[5] = "]"
    BY <1>2 DEF PointScan
  <2>2. StartsPointBody(read)
    BY <2>1 DEF StartsPointBody, Point
  <2> QED BY <1>2, <2>1, <2>2 DEF IsPointBody
<1> QED BY <1>1, <1>2

-----------------------------------------------------------------------------
(* The invariant.                                                          *)

LEMMA TokenStep ==
  ASSUME LOOP_LIMIT = 1, Scanned, Token
  PROVE  /\ Scanned'
         /\ ret' # Unset =>
              ~(IF kind = "polygon" THEN StartsPolygonBody(read') ELSE StartsPointBody(read'))
<1>1. PICK c \in Tokens : Reads(c) /\ Case(c)
  BY DEF Token, Reads, Case
<1>2. /\ read \in Seq(Tokens) /\ spaces \in Nat /\ kind \in {"latlng", "polygon"}
      /\ ret = Unset /\ Scan
  BY <1>1 DEF Scanned, Reads
<1>3. kind' = kind /\ spaces' = spaces /\ read' \in Seq(Tokens)
  BY <1>1, <1>2, Reading DEF Reads
<1>4. CASE kind = "polygon"
  <2>1. GoesOn \/ GivesUp
    BY <1>1, <1>2, <1>4, PolygonToken DEF Scan
  <2>2. IsPolygonBody(read') => StartsPolygonBody(read')
    BY DEF IsPolygonBody, StartsPolygonBody
  <2>3. CASE GoesOn
    <3>1. ret' # 0
      BY <2>3, Limits DEF GoesOn
    <3> QED BY <1>2, <1>3, <1>4, <2>3, <3>1
          DEF GoesOn, Scanned, Scan, AcceptsTheGrammar, ResultIsWhatWasRead
  <2>4. CASE GivesUp
    BY <1>2, <1>3, <1>4, <2>2, <2>4
       DEF GivesUp, Scanned, AcceptsTheGrammar, ResultIsWhatWasRead
  <2> QED BY <2>1, <2>3, <2>4
<1>5. CASE kind = "latlng"
  <2>1. \/ ret' = Unset /\ PointScan'
        \/ ret' # Unset /\ ret' # 0 /\ ~StartsPointBody(read')
    BY <1>1, <1>2, <1>5, PointToken DEF Scan
  <2>2. IsPointBody(read') => StartsPointBody(read')
    BY DEF IsPointBody
  <2>3. CASE ret' = Unset /\ PointScan'
    <3>1. ret' # 0
      BY <2>3, Limits
    <3> QED BY <1>2, <1>3, <1>5, <2>3, <3>1
          DEF Scanned, Scan, AcceptsTheGrammar, ResultIsWhatWasRead
  <2>4. CASE ret' # Unset /\ ret' # 0 /\ ~StartsPointBody(read')
    BY <1>2, <1>3, <1>5, <2>2, <2>4
       DEF Scanned, AcceptsTheGrammar, ResultIsWhatWasRead
  <2> QED BY <2>1, <2>3, <2>4
<1> QED BY <1>2, <1>4, <1>5

LEMMA EndStep ==
  ASSUME Scanned, EndOfBody
  PROVE  Scanned'
<1>1. /\ read \in Seq(Tokens) /\ spaces \in Nat /\ kind \in {"latlng", "polygon"}
      /\ ret = Unset /\ Scan /\ UNCHANGED <<kind, read, spaces>>
  BY DEF Scanned, EndOfBody
<1>2. Fail => ret' # Unset /\ ret' # 0
  BY <1>1, Failing
<1>3. CASE kind = "polygon" /\ state # "EOL"
  <2>1. ~IsPolygonBody(read) /\ Fail
    BY <1>1, <1>3, UnfinishedPolygon DEF Scan, EndOfBody
  <2> QED BY <1>1, <1>2, <1>3, <2>1 DEF Scanned, AcceptsTheGrammar, ResultIsWhatWasRead
<1>4. CASE kind = "polygon" /\ state = "EOL"
  <2>1. PICK n \in RingSizes :
          Len(read) = 6*n+3 /\ LoopOf(loops, read, n) /\ IsPolygonBody(read)
    BY <1>1, <1>4, FinishedPolygon DEF Scan
  <2>2. result' = loops /\ ret' = 0
    BY <1>4 DEF EndOfBody
  <2>3. AcceptsTheGrammar'
    BY <1>1, <1>4, <2>1, <2>2 DEF AcceptsTheGrammar
  <2>4. ResultIsWhatWasRead'
    <3>1. n \in Nat /\ n >= 4 /\ (Len(read) - 3) \div 6 = n
      BY <2>1, RingSizesFact
    <3> DEFINE ring == [k \in 1..n |-> ToPoint[<<read[6 * k], read[6 * k - 2]>>]]
               loop == loops[1]
    <3>2. /\ Len(loops) = 1 /\ loop \in Seq(S2Points)
          /\ Len(loop) = IF Equal(PointOf(read, 1), PointOf(read, n)) THEN n - 1 ELSE n
          /\ \A k \in 1..Len(loop) : loop[k] = PointOf(read, k)
      BY <2>1 DEF LoopOf
    <3>3. \A k \in 1..n : ring[k] = PointOf(read, k)
      BY DEF PointOf
    <3> HIDE DEF ring, loop
    <3>4. Len(loop) >= 3 /\ Len(loop) <= n /\ DOMAIN loop = 1..Len(loop)
      BY <3>1, <3>2
    <3>5. \A k \in DOMAIN loop : loop[k] = ring[k]
      BY <3>1, <3>2, <3>3, <3>4
    <3>6. Len(loop) = IF ring[n] = ring[1] /\ ring[1] \notin NaNPoints THEN n - 1 ELSE n
      BY <3>1, <3>2, <3>3 DEF Equal
    <3> QED BY <1>1, <1>4, <2>2, <3>1, <3>2, <3>4, <3>5, <3>6
          DEF ResultIsWhatWasRead, ring, loop
  <2> QED BY <1>1, <2>2, <2>3, <2>4, Limits DEF Scanned
<1>5. CASE kind = "latlng" /\ state # "EOL"
  <2>1. ~IsPointBody(read) /\ Fail
    BY <1>1, <1>5, PointEnds DEF Scan, EndOfBody
  <2> QED BY <1>1, <1>2, <1>5, <2>1 DEF Scanned, AcceptsTheGrammar, ResultIsWhatWasRead
<1>6. CASE kind = "latlng" /\ state = "EOL"
  <2>1. /\ read[4] = latitude /\ read[2] = longitude
        /\ IsPointBody(read) <=> <<latitude, longitude>> \in ValidLatLngs
    BY <1>1, <1>6, PointEnds DEF Scan
  <2>2. CASE <<latitude, longitude>> \in ValidLatLngs
    <3>1. result' = <<latitude, longitude>> /\ ret' = 0
      BY <1>6, <2>2 DEF EndOfBody
    <3> QED BY <1>1, <1>6, <2>1, <2>2, <3>1, Limits
          DEF Scanned, AcceptsTheGrammar, ResultIsWhatWasRead
  <2>3. CASE <<latitude, longitude>> \notin ValidLatLngs
    <3>1. Fail
      BY <1>6, <2>3 DEF EndOfBody
    <3> QED BY <1>1, <1>2, <1>6, <2>1, <2>3, <3>1
          DEF Scanned, AcceptsTheGrammar, ResultIsWhatWasRead
  <2> QED BY <2>2, <2>3
<1> QED BY <1>1, <1>3, <1>4, <1>5, <1>6

LEMMA ScanKept ==
  ASSUME Scanned, UNCHANGED <<kind, read, state, scan, result, ret>>, spaces' \in Nat
  PROVE  Scanned'
<1>1. /\ UNCHANGED kind /\ UNCHANGED read /\ UNCHANGED state /\ UNCHANGED result /\ UNCHANGED ret
      /\ UNCHANGED longitude /\ UNCHANGED latitude /\ UNCHANGED point_count
      /\ UNCHANGED loop_count /\ UNCHANGED vertices /\ UNCHANGED loops
  BY DEF scan
<1>2. Scan => Scan'
  BY <1>1 DEF Scan, PolygonScan, PointScan, InPoint, InRing, RingClosed, RingOpen,
              LoopOf, PointOf, Fresh
<1>3. /\ AcceptsTheGrammar => AcceptsTheGrammar'
      /\ ResultIsWhatWasRead => ResultIsWhatWasRead'
  BY <1>1 DEF AcceptsTheGrammar, ResultIsWhatWasRead
<1> QED BY <1>1, <1>2, <1>3 DEF Scanned

LEMMA AlwaysScanned ==
  ASSUME LOOP_LIMIT = 1
  PROVE  Spec => []Scanned
<1>1. Init => Scanned
  BY Limits DEF Init, Scanned, Scan, PolygonScan, PointScan, Fresh,
                AcceptsTheGrammar, ResultIsWhatWasRead
<1>2. Scanned /\ [Next]_vars => Scanned'
  <2> SUFFICES ASSUME Scanned, [Next]_vars PROVE Scanned'
    OBVIOUS
  <2>1. spaces \in Nat
    BY DEF Scanned
  <2>2. CASE Token
    BY <2>2, TokenStep
  <2>3. CASE Space
    BY <2>1, <2>3, ScanKept DEF Space
  <2>4. CASE EndOfBody
    BY <2>4, EndStep
  <2>5. CASE UNCHANGED vars
    BY <2>1, <2>5, ScanKept DEF vars
  <2> QED BY <2>2, <2>3, <2>4, <2>5 DEF Next
<1> QED BY <1>1, <1>2, PTL DEF Spec

(* With the code's limit of one loop, the bodies that are accepted are the *)
(* arrays of one ring, closed or not, of four to POINT_LIMIT points, and   *)
(* those of one point on the sphere: for any limit of points, any numbers. *)
THEOREM AcceptsExactlyTheGrammar ==
  ASSUME LOOP_LIMIT = 1
  PROVE  Spec => []AcceptsTheGrammar
<1>1. Scanned => AcceptsTheGrammar
  BY DEF Scanned
<1> QED BY <1>1, AlwaysScanned, PTL

(* What an accepted body becomes is what was read: for any numbers,        *)
(* infinities and NaNs among them, and whatever points ToPoint() makes of  *)
(* them, a ring's closing point is dropped exactly when the code's own     *)
(* equality of points takes it for the first.                              *)
THEOREM ReturnsWhatWasRead ==
  ASSUME LOOP_LIMIT = 1
  PROVE  Spec => []ResultIsWhatWasRead
<1>1. Scanned => ResultIsWhatWasRead
  BY DEF Scanned
<1> QED BY <1>1, AlwaysScanned, PTL

(* No body is given up on that might still have been accepted.             *)
THEOREM GivesUpOnNothing ==
  ASSUME LOOP_LIMIT = 1
  PROVE  Spec => RejectsOnlyTheHopeless
<1> DEFINE A == Token /\ ret' # Unset =>
       ~(IF kind = "polygon" THEN StartsPolygonBody(read') ELSE StartsPointBody(read'))
<1>1. Scanned /\ [Next]_vars => A \/ UNCHANGED vars
  BY TokenStep
<1>2. RejectsOnlyTheHopeless <=> [][A]_vars
  BY DEF RejectsOnlyTheHopeless
<1> HIDE DEF A
<1> QED BY <1>1, <1>2, AlwaysScanned, PTL DEF Spec
=============================================================================
