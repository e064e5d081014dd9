SPECIFICATION Spec
CONSTANTS
  None = 0
  r1 = r1
  r2 = r2
  s = s
  m = m
  c = c
  Procs = {r1, r2, s}
  ProcType <- MCProcType
  Crashable = {}
  ServerID = {1, 2, 3}
  TypeOf <- MCTypeOf
  serverSequence <- MCSequence
  Required <- MCRequired
  Reasks <- MCReasks
  Tasks = {1, 2, 3, 4}
SYMMETRY Sym
INVARIANTS
  UniqueNumbers
  DependencyKnows
CHECK_DEADLOCK FALSE
