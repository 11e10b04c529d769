SPECIFICATION Spec
CONSTANTS
  Sizes = {1, 2}
  MaxUnits = 4
  NetCap = 2
  LaneCap = 2
  SndWnd = 3
  RcvWnd = 3
  PendingCap = 3
  RmtInit = 3
  BufLen = 2
  DeadLink = 3
INVARIANT TooSmallIsTrue
