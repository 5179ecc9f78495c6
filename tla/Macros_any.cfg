CONSTANTS
  File = {f1}
  NoFile = NoFile
  Layers = 2
  ClientCommand = {"PAUSE", "RESUME", "CANCEL_PRINT", "M25", "SDCARD_PRINT_FILE", "SDCARD_RESET_FILE", "M104", "G28", "SET_PAUSE_NEXT_LAYER", "SET_PAUSE_AT_LAYER", "_CLIENT_LINEAR_MOVE"}
  Runout = TRUE
  Careful = FALSE
SPECIFICATION Spec
INVARIANTS
  ProtectedWhilePrinting
  HomedWhilePrinting
PROPERTIES
  LayerPause
  ImplementsPrintJob
