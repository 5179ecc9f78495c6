SPECIFICATION Spec
CONSTANTS
  Task = {t1, t2, t3}
  Job = {j1, j2}
  Automatic = TRUE
  LoadOnStart = TRUE
  MaxTimers = 2
  NoOne = NoOne
SYMMETRY Symmetry
 
PROPERTIES HeadFirst StartedOnce Kept  ImplementsFifoLock
