SPECIFICATION Spec
CONSTANTS
  p1 = p1 p2 = p2 red = red green = green empty = empty dot = dot t1 = t1 t2 = t2
  NoBody = NoBody
  Indexes = {i1}
  Polygons = {p1, p2}
  BadNames = {}
  Bodies = {red, green, empty}
  ValidBodies = {red, green, empty}
  Points = {dot}
  ValidPoints = {dot}
  Terms <- MCTerms
  IndexPolygon <- MCIndexPolygon
  IndexPolygonForOverlapTest <- MCIndexPolygon
  IndexPoint <- MCIndexPoint
  CStr <- MCCStr
  MaxNames = 1
  MaxFaults = 1
INVARIANT CallsTypeOK NothingStranded NoHalfCommandSurvives
PROPERTY HandlersAreCommands EveryCommandEnds
