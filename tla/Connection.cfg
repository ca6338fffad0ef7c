SPECIFICATION FairSpec
CONSTANTS
  Queries = {q1, q2}
  none = none
  MaxPuts = 2
  MaxLine = 3
  MaxFails = 1
INVARIANTS
  TypeOK
  OneWayUp
  UnackedCounts
  SubscribedAsRemembered
PROPERTIES
  CallbackAfterListens
  IsOutbox
  EveryWriteTold
