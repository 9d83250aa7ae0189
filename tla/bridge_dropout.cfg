SPECIFICATION FairSpec
CONSTANTS
  Clients = {1, 2, 3}
  Expected = 3
  Threshold = 2
  NumChunks = 1
  Misfits = {}
  MockWaits = FALSE
  MaxFaults = 0
  MaxNotes = 1
  MaxDups = 0
  MaxOddKeys = 0
  MaxMishaps = 1
PROPERTIES DropoutResilience
CHECK_DEADLOCK FALSE
