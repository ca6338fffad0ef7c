SPECIFICATION FairSpec
CONSTANTS
  Names = {ann, bob}
  me = ann
  Bios = {b1, b2}
  none = none
  MaxPend = 2
  MaxEvents = 2
INVARIANTS
  TypeOK
  UndoGoesBack
  IdleShowsRecord
PROPERTIES
  OwnRecordStays
  StoredGetsShown
