SPECIFICATION Spec
CONSTANTS
  File = {f1, f2, f3}
  Bad = {f3}
  NoFile = NoFile
  Deaf = FALSE
  Ahead = 2
  Hasty = FALSE
INVARIANTS BadNotPrinted CancelIsSent 
