SPECIFICATION Spec
CONSTANTS
  N = 5
  Thresholds = {3}
  Secrets = {17}
  Coeffs = {1, 1789}
  ByteApis = {FALSE}
  MaxHeld = 3
INVARIANT DeviceRecovers
CHECK_DEADLOCK FALSE
