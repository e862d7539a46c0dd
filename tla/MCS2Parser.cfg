SPECIFICATION Spec
CONSTANTS
  near = near far = far pole = pole place = place nan = nan Unset = Unset
  Numbers <- MCNumbers
  ValidLatLngs <- MCValidLatLngs
  S2Points <- MCS2Points
  NaNPoints <- MCNaNPoints
  ToPoint <- MCToPoint
  LOOP_LIMIT = 1
  POINT_LIMIT = 5
  PARSE_ERR_LOOP_LIMIT = 1
  MaxSpaces = 1
INVARIANT AcceptsTheGrammar ResultIsWhatWasRead
PROPERTY RejectsOnlyTheHopeless
CHECK_DEADLOCK FALSE
