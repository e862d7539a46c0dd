SPECIFICATION Spec
CONSTANTS
  i1 = i1 i2 = i2 p1 = p1 p2 = p2
  NoBody = NoBody
  Indexes = {i1, i2}
  Polygons = {p1, p2}
  BadNames = {}
  Bodies = {"block", "leaf", "far", "nothing", "torn"}
  ValidBodies = {"block", "leaf", "far", "nothing"}
  Points = {"inside", "beside", "outside"}
  ValidPoints = {"inside", "beside", "outside"}
  Covering <- Deep
  LeafOf <- PointLeaves
  Terms <- MCTerms
  IndexPolygon <- MCIndexPolygon
  IndexPolygonForOverlapTest <- MCOverlapTest
  IndexPoint <- MCIndexPoint
  CStr <- MCCStr
  MaxNames = 1
  Faces = {"0", "1"}
  Digits = {"0", "1", "2", "3"}
  MaxLevel = 3
PROPERTY AnswersByGeometry
SYMMETRY MCSymmetry
