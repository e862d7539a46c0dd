SPECIFICATION TestSpec
CONSTANTS
  NoBody = NoBody
  Any = Any
  kTestIndexName = "testindex"
  Indexes = {"testindex", "other"}
  Polygons = {"red", "green", "blue", "yellow", "mine"}
  BadNames = {}
  Bodies = {"red", "green", "blue", "yellow", "wide"}
  ValidBodies = {"red", "green", "blue", "yellow", "wide"}
  Points = {"circle", "triangle", "square"}
  ValidPoints = {"circle", "triangle", "square"}
  Terms = {"r", "g", "b", "rg", "ry", "o"}
  IndexPolygon <- MCIndexPolygon
  IndexPolygonForOverlapTest <- MCIndexPolygon
  IndexPoint <- MCIndexPoint
  CStr <- MCCStr
  MaxNames = 1
  ClientRequests <- MCClientRequests
INVARIANT NoFalseAlarm
PROPERTY NoTrace PopulatedWhole
