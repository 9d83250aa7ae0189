SPECIFICATION Spec
CONSTANTS
  N = 5
  Thresholds = {2, 3}
  Secrets = {17, 3328, 6700, 62207, 65535}
  Coeffs = {0, 1789, 3328}
  ByteApis = {TRUE, FALSE}
  MaxHeld = 4
INVARIANTS TypeOK HostRecovers  OneShareTellsTheWindow
CHECK_DEADLOCK FALSE
