SPECIFICATION Spec
CONSTANTS
  File = {f1, f2, f3}
  Bad = {f3}
  NoFile = NoFile
  Deaf = TRUE
  Ahead = 0
  Hasty = FALSE
INVARIANTS BadNotPrinted
