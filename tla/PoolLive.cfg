SPECIFICATION FairSpec
CONSTANTS
  Conn = {c1}
  ServerID = {id1}
  NoID = NoID
  VerifyThread = {v1}
  SyncThread = SyncThread
  RecycleThread = RecycleThread
  maxThreadCount = 1
  connPerThread = 1
  Server = "Bill"
  GarbageFlags = {FALSE}
CHECK_DEADLOCK FALSE
PROPERTIES
  VerifyEnds
  ClosedIsReclaimed
  FinalReturnsOrStuck
