SPECIFICATION Spec
CONSTANTS
  Colors = {teal, plum, navy}
  default = teal
  Labels = {label, title}
  Rows = {row1, row2}
  none = none
  MaxTaps = 3
INVARIANTS
  TopIsStored
  PartsFollow
  MarkedIsPrimary
PROPERTIES
  ChosenOnce
