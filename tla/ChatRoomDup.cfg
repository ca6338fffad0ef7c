SPECIFICATION Spec
CONSTANTS
  MaxId = 3
  MaxCommits = 3
  PeerIds = {1, 2, 3}
  MaxEntries = 1
PROPERTIES
  RemovesOnlyDuplicates
