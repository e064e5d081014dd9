SPECIFICATION Spec
CONSTANTS
  Conn = {c1, c2}
  ServerID = {id1}
  NoID = NoID
  VerifyThread = {v1}
  SyncThread = SyncThread
  RecycleThread = RecycleThread
  maxThreadCount = 2
  connPerThread = 1
  Server = "Session"
  GarbageFlags = {FALSE}
CHECK_DEADLOCK FALSE
SYMMETRY Symmetry
INVARIANTS
  TypeOK
  LiveIsRegistered
  SweptAlive
  NoDanglingUser
