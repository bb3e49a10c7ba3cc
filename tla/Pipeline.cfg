CONSTANTS
  Junk = Junk
  Default = Default
  Null = Null
  NumWorkers = 2
  NumFrames = 8
  buffer_size = 2
  Item <- MCItem
  TypeBytes <- MCTypeBytes
SPECIFICATION FairSpec
INVARIANTS TypeOK DealtInTurn ReadsNearby NothingLeftBehind
PROPERTIES ImplementsChannelBuffer PrintsUnlessCloseMissed
