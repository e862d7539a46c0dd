SPECIFICATION LookupSpec
CONSTANTS
  Faces <- MCFaces
  Digits <- MCDigits
  MaxLevel = 4
INVARIANT PolygonLookupExact PointLookupExact FacesMeetOnlyThemselves
