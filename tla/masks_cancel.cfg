SPECIFICATION MCSpec
CONSTANTS
  Clients = {1, 2, 3}
  MaxChunks = 2
  FitClients = 2
  Shapes <- MCShapes
  Examples = {3, 3329}
  Values <- MCValues
  ChunkSize = 2
  MaxRounds = 2
  Payloads <- MCPayloads
  SampleCounts = {100}
INVARIANT MasksCancel
CHECK_DEADLOCK FALSE
