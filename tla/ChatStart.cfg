SPECIFICATION FairSpec
CONSTANTS
  a = a
  b = b
  none = none
  MaxTime = 2
  MaxSends = 2
INVARIANTS
  ListEntryResolves
  WritesToRealRoom
  MessageIsReachable
PROPERTIES
  IsRoomBook
  BothLearn
  CreatorRejoins
