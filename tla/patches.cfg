SPECIFICATION Spec
CONSTANTS
  Scripts <- AllScripts
  MaxRuns = 3
INVARIANTS PatchesTypeOK   RerunIsNoOp
PROPERTY LiteralStays
CHECK_DEADLOCK FALSE
