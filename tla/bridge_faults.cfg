SPECIFICATION FairSpec
CONSTANTS
  Clients = {1, 2, 3}
  Expected = 3
  Threshold = 2
  NumChunks = 2
  Misfits = {3}
  MockWaits = FALSE
  MaxFaults = 1
  MaxNotes = 1
  MaxDups = 1
  MaxOddKeys = 1
  MaxMishaps = 4
INVARIANTS TypeOK AggregateIsWhole OnlyKeylessSkipped SingleAggregator
PROPERTIES ServiceSpec RegisteredAreServed
CHECK_DEADLOCK FALSE
