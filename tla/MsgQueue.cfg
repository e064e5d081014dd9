\* The ring of two slots and buffers for five commands, so that it wraps, fills and overflows: safety and the refinement.
SPECIFICATION LiveSpec
CONSTANTS
  None = None
  QueueSize = 2
  Bufs = {b1, b2, b3, b4, b5}
INVARIANTS
  BuffersAccounted
PROPERTIES
  RefinesFifo
  Delivered
