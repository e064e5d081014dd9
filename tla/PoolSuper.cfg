SPECIFICATION Spec
CONSTANTS
  Conn = {c1, c2}
  ServerID = {id1, id2}
  NoID = NoID
  VerifyThread = {v1, v2}
  SyncThread = SyncThread
  RecycleThread = RecycleThread
  maxThreadCount = 1
  connPerThread = 1
  Server = "Super"
  GarbageFlags = {FALSE}
SYMMETRY Symmetry
CHECK_DEADLOCK FALSE
INVARIANTS
  OneThreadPerTask
  
  LeftInInboxes

  
