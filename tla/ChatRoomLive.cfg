SPECIFICATION FairSpec
CONSTANTS
  MaxId = 2
  MaxCommits = 2
  PeerIds = {2}
  MaxEntries = 2
PROPERTIES
  RowCatchesUp
  OwnSendsAppear
