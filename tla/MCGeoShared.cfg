SPECIFICATION SharedSpec
CONSTANTS
  p1 = p1 p2 = p2 red = red green = green dot = dot t1 = t1 t2 = t2
  NoBody = NoBody
  Indexes = {i1}
  Polygons = {p1, p2}
  BadNames = {}
  Bodies = {red, green}
  ValidBodies = {red, green}
  Points = {dot}
  ValidPoints = {dot}
  Terms <- MCTerms
  IndexPolygon <- MCIndexPolygon
  IndexPolygonForOverlapTest <- MCOverlapTest
  IndexPoint <- MCIndexPoint
  CStr <- MCCStr
  MaxNames = 1
  MaxFaults = 2
INVARIANT StrandedOnlyByLoss LeftoversOnlyByLoss
PROPERTY MissesOnlyLostCells FailedDeleteProgress
