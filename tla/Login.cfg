SPECIFICATION LiveSpec
CONSTANTS
  None = None
  a1 = a1
  Account = {a1}
  Login = {i1, i2}
  accid <- MCaccid
  Gateway = {g1, g2}
  MaxLoss = 1
INVARIANTS
  TypeOK
  OkayIsLoggedIn
  PlaysOnce
  
  

  
  
CHECK_DEADLOCK FALSE
