SPECIFICATION BurstSpec
CONSTANTS
  Sizes = {1, 2}
  MaxUnits = 5
  NetCap = 2
  LaneCap = 1
  SndWnd = 2
  RcvWnd = 2
  PendingCap = 2
  RmtInit = 2
  BufLen = 2
  DeadLink = 3
PROPERTY AllArrives
