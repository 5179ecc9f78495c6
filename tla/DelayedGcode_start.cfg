CONSTANTS
  Client = {c1, c2}
  Handler = h
  Timer = {motor, reboot, dialogs}
  NoOne = NoOne
  AnyoneCancels = FALSE
SPECIFICATION FairSpec
INVARIANTS
  OneRun
PROPERTIES
  AsAsked
  AskedRuns
