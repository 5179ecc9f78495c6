CONSTANTS
  Client = {c1, c2}
  File = {f1}
  NoFile = NoFile
  NoOne = NoOne
  Work = Work
  Sensor = Sensor
  FileLines = 2
  ClientCommand = {"PAUSE", "RESUME", "CANCEL_PRINT", "SDCARD_PRINT_FILE", "SDCARD_RESET_FILE", "M23", "M24", "M25", "M26", "CLEAR_PAUSE"}
  LineCommand = {"MOVE", "FAIL", "PAUSE", "RESUME", "CANCEL_PRINT", "SDCARD_RESET_FILE", "CLEAR_PAUSE", "M25", "M24"}
  Runout = TRUE
  ReadErrors = TRUE
  MayShutdown = TRUE
SYMMETRY ClientSymmetry
SPECIFICATION Spec
INVARIANTS
  HandlerOwnsJob
  PrintingIsTrue
  CmdFromSd
  NoMutualWait
  FileStaysOpen
PROPERTIES
  CompleteAtEnd
  ImplementsPrintJob
