SPECIFICATION Spec
CONSTANTS
  Chars = {"x", "y", ":", "0"}
  ENTITY_DELIM = ":"
  Nul = "0"
  INDEX_META_SUFFIX <- MCMeta
  INDEX_POLYGONS_SUFFIX <- MCPolygons
  INDEX_CELLS_SUFFIX <- MCCells
  POLYGON_CELLINFO_SUFFIX <- MCCellinfo
  Names <- MCNames
INVARIANT KeysTellApart PatternFindsTheIndex
CHECK_DEADLOCK FALSE
