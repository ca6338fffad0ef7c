SPECIFICATION Spec
CONSTANTS
  MaxId = 3
  MaxCommits = 3
  PeerIds = {}
  MaxEntries = 3
INVARIANTS
  NoThirdCopy
CONSTRAINT OneRow
