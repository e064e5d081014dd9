SPECIFICATION Spec
CONSTANTS
  None = None
  Scene = {s1, s2}
  MaxReg = 3
  MaxVer = 3
  MaxDown = 1
  MaxFail = 1
INVARIANTS
  TypeOK
  OneOwner
PROPERTIES
  NoLostUpdate
CHECK_DEADLOCK FALSE
