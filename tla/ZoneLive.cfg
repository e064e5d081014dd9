SPECIFICATION LiveSpec
CONSTANTS
  None = 0
  r1 = r1
  r2 = r2
  s = s
  m = m
  c = c
  Procs = {m, c}
  ProcType <- MCProcType
  Crashable = {m}
  ServerID = {4, 5}
  TypeOf <- MCTypeOf
  serverSequence <- MCSequence
  Required <- MCRequired
  Reasks <- MCReasks
  Tasks = {1, 2, 3}
INVARIANTS
  TypeOK
PROPERTIES
  
  KnownAgain
CHECK_DEADLOCK FALSE
