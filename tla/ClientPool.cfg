SPECIFICATION FairSpec
CONSTANTS
  Conn = {c1, c2}
  Timer = Timer
  Wait = Wait
  MaxMain = 2
  connPerThread = 1
  GarbageEvents = {"none"}
CHECK_DEADLOCK FALSE
INVARIANTS
  TypeOK
  OnePlace
  OkayIsListed
PROPERTIES
  BrokenIsClosed
