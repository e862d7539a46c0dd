SPECIFICATION Spec
CONSTANTS
  p1 = p1 p2 = p2 red = red green = green torn = torn
  empty = empty dot = dot smudge = smudge t1 = t1 t2 = t2 t3 = t3
  NoBody = NoBody
  Indexes = {i1}
  Polygons = {p1, p2}
  BadNames = {bad}
  Bodies <- MCBodies
  ValidBodies <- MCValidBodies
  Points <- MCPoints
  ValidPoints = {dot}
  Terms <- MCTerms
  IndexPolygon <- MCIndexPolygon
  IndexPolygonForOverlapTest <- MCOverlapTest
  IndexPoint <- MCIndexPoint
  CStr <- MCSharedCStr
  MaxNames = 2
INVARIANT NoOrphans
