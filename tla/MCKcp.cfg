SPECIFICATION Spec
CONSTANTS
  Sizes = {1, 2}
  MaxUnits = 4
  NetCap = 2
  LaneCap = 2
  SndWnd = 3
  RcvWnd = 2
  PendingCap = 2
  RmtInit = 3
  BufLen = 2
  DeadLink = 3
INVARIANT TypeOK
INVARIANT InOrder
INVARIANT NothingForgotten
INVARIANT WholeMessages
INVARIANT WindowBounded
