CONSTANTS
  Client = {c1, c2, c3}
  File = {f1}
  NoFile = NoFile
  NoOne = NoOne
  Work = Work
  Sensor = Sensor
  FileLines = 2
  ClientCommand = {"PAUSE", "RESUME", "CANCEL_PRINT", "SDCARD_PRINT_FILE", "SDCARD_RESET_FILE"}
  LineCommand = {"MOVE", "FAIL", "PAUSE", "CANCEL_PRINT", "CLEAR_PAUSE"}
  Runout = FALSE
  ReadErrors = FALSE
  MayShutdown = TRUE
SPECIFICATION Spec
PROPERTIES
  PauseStopsJob
  CancelEndsJob
