SPECIFICATION Spec
CONSTANTS
  None = None
  Scene = {s1, s2}
  MaxReg = 2
  MaxVer = 2
  MaxDown = 0
  MaxFail = 0
INVARIANTS
  ReadsSaved
CHECK_DEADLOCK FALSE
