SPECIFICATION FairSpec
CONSTANTS
  Names = {ann, bob}
  Ids = {i1, i2}
  none = none
  MaxWait = 3
INVARIANTS
  FoundIsARecord
  SettledShowsText
PROPERTIES
  AskedIsShown
