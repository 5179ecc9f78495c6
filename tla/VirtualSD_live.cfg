CONSTANTS
  Client = {c1}
  File = {f1}
  NoFile = NoFile
  NoOne = NoOne
  Work = Work
  Sensor = Sensor
  FileLines = 2
  ClientCommand = {"PAUSE", "RESUME", "CANCEL_PRINT", "SDCARD_PRINT_FILE", "SDCARD_RESET_FILE"}
  LineCommand = {"MOVE", "FAIL", "PAUSE", "CANCEL_PRINT", "CLEAR_PAUSE"}
  Runout = TRUE
  ReadErrors = TRUE
  MayShutdown = TRUE
SPECIFICATION FairSpec
PROPERTIES
  WaitEnds
  StopTakesEffect
  CommandAnswered
