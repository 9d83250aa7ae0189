SPECIFICATION FairSpec
CONSTANTS
  OwnId = 1
  PeerIds = {0, 1}
  MaxPeers = 2
  IdxMod = 3
  MaxElementBytes = 4
  RoundParams <- MCRoundParams
  Spill <- MCSpill
  MsgLens = {1, 2}
  StateTimeout = 0
  DropoutTimeout = 1
  TimerPrios = {1, 2, 3}
  MaxChunks = 4
INVARIANTS TypeOK SeededBeforeMasking StreamOrder
PROPERTIES ErrorSticky DroppedStaysOut LifecycleSpec SilentClientFails
