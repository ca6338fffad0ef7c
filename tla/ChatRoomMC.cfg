SPECIFICATION Spec
CONSTANTS
  MaxId = 3
  MaxCommits = 2
  PeerIds = {2}
  MaxEntries = 2
INVARIANTS
  TypeOK
  RowTracksView
  OncePerRow
  LastObserverHasScreen
PROPERTIES
  OrderedTranscriptOnlyGrows
  RowIsFeed
