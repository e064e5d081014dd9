SPECIFICATION Spec
CONSTANTS
  None = None
  Free = Free
  Account = {a1}
  MaxTid = 3
INVARIANTS
  TypeOK
  PaidOnce
  BusyIsAwaited

  
CHECK_DEADLOCK FALSE
