SPECIFICATION FairSpec
CONSTANTS
  Clients = {1, 2}
  Expected = 2
  Threshold = 2
  NumChunks = 1
  Misfits = {}
  MockWaits = TRUE
  MaxFaults = 0
  MaxNotes = 0
  MaxDups = 0
  MaxOddKeys = 0
  MaxMishaps = 0
PROPERTIES AggregationReached
CHECK_DEADLOCK FALSE
