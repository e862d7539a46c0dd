------------------------------ MODULE S2Parser ------------------------------
(***************************************************************************)
(* The body parsers, src/parser.cc: ParseS2LatLng and ParseS2Polygon, two  *)
(* character-driven machines over one set of states.  The body arrives     *)
(* token by token - a bracket, a comma, a number as strtod reads it, or    *)
(* anything else - and offsets count tokens.  A vertex is the S2Point that *)
(* ToPoint() makes of a latitude and a longitude: two pairs may give one   *)
(* point (any longitude at a pole), and a pair with an infinity or a NaN,  *)
(* which strtod reads too, gives a point with NaNs, equal to none.  Points *)
(* that are == are one here.                                               *)
(***************************************************************************)
EXTENDS Integers, Sequences

CONSTANTS
  Numbers,        \* what strtod returns
  ValidLatLngs,   \* the pairs <<latitude, longitude>> that are on the sphere
  S2Points,       \* what ToPoint() returns
  NaNPoints,      \* those of them with a coordinate that is not a number
  ToPoint,        \* the point of a pair <<latitude, longitude>>
  LOOP_LIMIT, POINT_LIMIT,
  PARSE_ERR_LOOP_LIMIT,
  MaxSpaces,      \* bound: most spaces in a body
  Unset           \* the value of a double nobody assigned, and of no result

ASSUME ParserAssumption ==
  /\ LOOP_LIMIT \in Nat \ {0} /\ POINT_LIMIT \in Nat \ {0}
  /\ PARSE_ERR_LOOP_LIMIT \in Nat \ {0}
  /\ ValidLatLngs \subseteq Numbers \X Numbers
  /\ NaNPoints \subseteq S2Points
  /\ ToPoint \in [Numbers \X Numbers -> S2Points]
  /\ {"[", "]", "comma", "junk", Unset} \cap Numbers = {} /\ Unset \notin Int

\* "comma" stands for the character.
Tokens == {"[", "]", "comma", "junk"} \cup Numbers

VARIABLES
  kind,        \* the function that runs: "latlng" or "polygon"
  read,        \* the tokens looked at so far, spaces left out
  spaces,      \* how many spaces there were
  state, longitude, latitude, point_count, loop_count, vertices, loops,
  result,      \* *latLng or *polygon
  ret          \* what the function returned, or Unset

scan == <<longitude, latitude, point_count, loop_count, vertices, loops>>

vars == <<kind, read, spaces, state, scan, result, ret>>

Init ==
  /\ kind \in {"latlng", "polygon"}
  /\ state = IF kind = "polygon" THEN "POLYGON_START" ELSE "POINT_START"
  /\ read = <<>> /\ spaces = 0
  /\ longitude = Unset /\ latitude = Unset
  /\ point_count = 0 /\ loop_count = 0
  /\ vertices = <<>> /\ loops = <<>>
  /\ result = Unset /\ ret = Unset

\* "return -i - 1", with i the offset of the token that does not fit.
Fail ==
  /\ ret' = -(Len(read) + spaces) - 1
  /\ UNCHANGED <<state, scan, result>>

Return(code) == ret' = code /\ UNCHANGED <<state, scan, result>>

Goto(s) == state' = s /\ UNCHANGED <<result, ret>>

-----------------------------------------------------------------------------
(* One action per case of the switch; c is the token at hand.              *)

PolygonStart(c) ==
  /\ state = "POLYGON_START"
  /\ \/ c = "[" /\ Goto("LOOP_START") /\ UNCHANGED scan
     \/ c # "[" /\ Fail

LoopStart(c) ==
  /\ state = "LOOP_START"
  /\ \/ c = "[" /\ loop_count >= LOOP_LIMIT /\ Return(PARSE_ERR_LOOP_LIMIT)
     \/ c = "[" /\ loop_count < LOOP_LIMIT /\ Goto("POINT_START") /\ UNCHANGED scan
     \/ c # "[" /\ Fail

\* Slips the runs must notice: one point too few, one point too many.
PointStartOneLess(c) ==
  /\ state = "POINT_START"
  /\ \/ c = "[" /\ point_count + 1 >= POINT_LIMIT /\ Return(POINT_LIMIT)
     \/ c = "[" /\ point_count + 1 < POINT_LIMIT /\ Goto("POINT_LON") /\ UNCHANGED scan
     \/ c # "[" /\ Fail

PointStartOneMore(c) ==
  /\ state = "POINT_START"
  /\ \/ c = "[" /\ point_count > POINT_LIMIT /\ Return(POINT_LIMIT)
     \/ c = "[" /\ point_count <= POINT_LIMIT /\ Goto("POINT_LON") /\ UNCHANGED scan
     \/ c # "[" /\ Fail

\* The limit is the polygon's; ParseS2LatLng is here once, with no point yet.
\* What is returned is the limit: PARSE_ERR_POINT_LIMIT of parser.h is not used.
PointStart(c) ==
  /\ state = "POINT_START"
  /\ \/ c = "[" /\ point_count >= POINT_LIMIT /\ Return(POINT_LIMIT)
     \/ c = "[" /\ point_count < POINT_LIMIT /\ Goto("POINT_LON") /\ UNCHANGED scan
     \/ c # "[" /\ Fail

PointLon(c) ==
  /\ state = "POINT_LON"
  /\ \/ /\ c \in Numbers /\ longitude' = c /\ Goto("POINT_DELIM")
        /\ UNCHANGED <<latitude, point_count, loop_count, vertices, loops>>
     \/ c \notin Numbers /\ Fail

PointDelim(c) ==
  /\ state = "POINT_DELIM"
  /\ \/ c = "comma" /\ Goto("POINT_LAT") /\ UNCHANGED scan
     \/ c # "comma" /\ Fail

PointLat(c) ==
  /\ state = "POINT_LAT"
  /\ \/ /\ c \in Numbers /\ latitude' = c /\ Goto("POINT_END")
        /\ UNCHANGED <<longitude, point_count, loop_count, vertices, loops>>
     \/ c \notin Numbers /\ Fail

PointEnd(c) ==
  /\ state = "POINT_END"
  /\ \/ kind = "latlng" /\ c = "]" /\ Goto("EOL") /\ UNCHANGED scan
     \/ /\ kind = "polygon" /\ c = "]" /\ Goto("LOOP_DELIM")
        /\ point_count' = point_count + 1
        /\ vertices' = Append(vertices, ToPoint[<<latitude, longitude>>])
        /\ UNCHANGED <<longitude, latitude, loop_count, loops>>
     \/ c # "]" /\ Fail

\* S2Point's operator==.
Equal(p, q) == p = q /\ p \notin NaNPoints

\* A slip the runs must notice: the closing point is always dropped.
OpenRingAlways(vs) == SubSeq(vs, 1, Len(vs) - 1)

\* A closed ring repeats its first point at the end; a loop does not.
OpenRing(vs) == IF Equal(vs[1], vs[Len(vs)]) THEN SubSeq(vs, 1, Len(vs) - 1) ELSE vs

LoopDelim(c) ==
  /\ state = "LOOP_DELIM"
  /\ \/ c = "comma" /\ Goto("POINT_START") /\ UNCHANGED scan
     \/ c = "]" /\ Len(vertices) < 4 /\ Fail
     \/ /\ c = "]" /\ Len(vertices) >= 4 /\ Goto("POLYGON_DELIM")
        /\ loops' = Append(loops, OpenRing(vertices))
        /\ loop_count' = loop_count + 1
        /\ vertices' = <<>> /\ point_count' = 0
        /\ UNCHANGED <<longitude, latitude>>
     \/ c \notin {"comma", "]"} /\ Fail

PolygonDelim(c) ==
  /\ state = "POLYGON_DELIM"
  /\ \/ c = "comma" /\ Goto("LOOP_START") /\ UNCHANGED scan
     \/ c = "]" /\ Goto("EOL") /\ UNCHANGED scan
     \/ c \notin {"comma", "]"} /\ Fail

AfterEnd(c) == state = "EOL" /\ Fail

Token ==
  /\ ret = Unset
  /\ \E c \in Tokens :
       /\ read' = Append(read, c) /\ UNCHANGED <<kind, spaces>>
       /\ \/ PolygonStart(c) \/ LoopStart(c) \/ PointStart(c) \/ PointLon(c)
          \/ PointDelim(c) \/ PointLat(c) \/ PointEnd(c) \/ LoopDelim(c)
          \/ PolygonDelim(c) \/ AfterEnd(c)

\* Spaces are skipped in every state, behind the last bracket too.
Space ==
  /\ ret = Unset /\ spaces < MaxSpaces
  /\ spaces' = spaces + 1
  /\ UNCHANGED <<kind, read, state, scan, result, ret>>

\* The NUL that ends the body.  A polygon that got to EOL has a loop, so the
\* last test of ParseS2Polygon (loops.size() < 1) never strikes.
EndOfBody ==
  /\ ret = Unset
  /\ UNCHANGED <<kind, read, spaces>>
  /\ \/ state # "EOL" /\ Fail
     \/ /\ state = "EOL" /\ kind = "latlng" /\ <<latitude, longitude>> \notin ValidLatLngs
        /\ Fail
     \/ /\ state = "EOL" /\ kind = "latlng" /\ <<latitude, longitude>> \in ValidLatLngs
        /\ result' = <<latitude, longitude>> /\ ret' = 0
        /\ UNCHANGED <<state, scan>>
     \/ /\ state = "EOL" /\ kind = "polygon"
        /\ result' = loops /\ ret' = 0
        /\ UNCHANGED <<state, scan>>

Next == Token \/ Space \/ EndOfBody

Spec == Init /\ [][Next]_vars

-----------------------------------------------------------------------------
(* The grammar the code decides, as templates: the tokens a body of n      *)
(* points may have at place k.  It is the code's own: the README asks for  *)
(* GeoJSON polygons, whose rings are closed and may be several.            *)

\* A point and the comma behind it.
Point == <<{"["}, Numbers, {"comma"}, Numbers, {"]"}, {"comma"}>>

\* Two brackets, the points - behind the last one the ring's bracket for the
\* comma - and the polygon's bracket.
PolygonAt(n, k) ==
  IF k <= 2 THEN {"["} ELSE IF k > 6 * n + 1 THEN {"]"} ELSE Point[((k - 3) % 6) + 1]

RingSizes == 4..POINT_LIMIT

Fits(t, n) == Len(t) <= 6 * n + 3 /\ \A k \in DOMAIN t : t[k] \in PolygonAt(n, k)

IsPolygonBody(t) == \E n \in RingSizes : Fits(t, n) /\ Len(t) = 6 * n + 3

StartsPolygonBody(t) == \E n \in RingSizes : Fits(t, n)

StartsPointBody(t) == Len(t) <= 5 /\ \A k \in DOMAIN t : t[k] \in Point[k]

IsPointBody(t) ==
  Len(t) = 5 /\ StartsPointBody(t) /\ <<t[4], t[2]>> \in ValidLatLngs

(* Of all the bodies the parsers look at to the end or give up on, those   *)
(* that return 0 are exactly the one-dimensional array of a point on the   *)
(* sphere, and the array of one ring of 4 to POINT_LIMIT points, closed or *)
(* not: nothing behind the last bracket, no empty element, no second ring, *)
(* no point too many or too few.                                           *)
AcceptsTheGrammar ==
  ret # Unset =>
    (ret = 0 <=> IF kind = "polygon" THEN IsPolygonBody(read) ELSE IsPointBody(read))

(* A parser that gives up at a token gives up on nothing: no body that may *)
(* be accepted begins with what it has read by then.                       *)
RejectsOnlyTheHopeless ==
  [][Token /\ ret' # Unset =>
       ~(IF kind = "polygon" THEN StartsPolygonBody(read') ELSE StartsPointBody(read'))]_vars

(* What an accepted body becomes: latitude and longitude the right way     *)
(* round, and for a polygon one loop with the ring's points in their       *)
(* order, the closing one dropped exactly when it is the point of the      *)
(* first and no NaN, and at least three left.  No coordinate is a double   *)
(* nobody assigned.                                                        *)
ResultIsWhatWasRead ==
  ret = 0 =>
    IF kind = "latlng" THEN result = <<read[4], read[2]>>
    ELSE LET n == (Len(read) - 3) \div 6
             ring == [k \in 1..n |-> ToPoint[<<read[6 * k], read[6 * k - 2]>>]]
             loop == result[1]
             closed == ring[n] = ring[1] /\ ring[1] \notin NaNPoints
         IN /\ Len(result) = 1 /\ Len(loop) >= 3
            /\ \A k \in DOMAIN loop : loop[k] = ring[k]
            /\ Len(loop) = IF closed THEN n - 1 ELSE n
=============================================================================
