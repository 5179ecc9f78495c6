CONSTANTS
  Greenlet = {g1, g2, g3, g4, g5}
  NoOne = NoOne
SPECIFICATION FairSpec
INVARIANTS
  MutualExclusion
  FreeMeansIdle
PROPERTIES
  NoStarvation
  ImplementsFifoLock
