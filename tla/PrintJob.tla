------------------------------- MODULE PrintJob -------------------------------
(***************************************************************************)
(* What the print job engine promises to everything that looks at it (the  *)
(* macros, Moonraker, the web interfaces): the life of a job as            *)
(* print_stats reports it, the file that is loaded, and the line the job   *)
(* has reached.  VirtualSD implements it.                                  *)
(***************************************************************************)
EXTENDS Naturals

CONSTANTS File, NoFile, FileLines

VARIABLES status, file, line

jobVars == <<status, file, line>>

Init == status = "standby" /\ file = NoFile /\ line = 0

\* A file is loaded, or the loaded one is unloaded, but never under a job
\* that prints.
Load ==
  /\ status # "printing"
  /\ status' = "standby"
  /\ file' \in File \cup {NoFile}
  /\ line' = 0

\* The position of a job that does not print may be moved.
Seek ==
  /\ status # "printing"
  /\ line' \in 0 .. FileLines
  /\ UNCHANGED <<status, file>>

\* A job starts, and is continued after a pause or an error, where it was.
Start ==
  /\ status # "printing"
  /\ file # NoFile
  /\ status' = "printing"
  /\ UNCHANGED <<file, line>>

Advance ==
  /\ status = "printing"
  /\ line' = line + 1
  /\ line' < FileLines
  /\ UNCHANGED <<status, file>>

\* The line under way when a pause is asked for is still executed.
Pause ==
  /\ status = "printing"
  /\ status' = "paused"
  /\ line' \in {line, line + 1}
  /\ UNCHANGED file

Complete ==
  /\ status = "printing"
  /\ line + 1 >= FileLines
  /\ status' = "complete"
  /\ file' = NoFile /\ line' = 0

Fail ==
  /\ status = "printing"
  /\ status' = "error"
  /\ UNCHANGED <<file, line>>

Cancel ==
  /\ status \in {"printing", "paused"}
  /\ status' = "cancelled"
  /\ file' = NoFile /\ line' = 0

\* The file of a job that is over, or was never started, is dropped.
Drop ==
  /\ status \notin {"printing", "paused"}
  /\ file' = NoFile /\ line' = 0
  /\ UNCHANGED status

\* What takes the lines of a file in their order.
InOrder == \/ Load \/ Start \/ Advance \/ Pause
           \/ Complete \/ Fail \/ Cancel \/ Drop

Next == InOrder \/ Seek

Spec == Init /\ [][Next]_jobVars

-----------------------------------------------------------------------------
(* The job as the macros see it between two commands: no macro moves the   *)
(* position of a file, and two commands take two of the steps above each.  *)

\* SDCARD_PRINT_FILE loads a file and starts it.
LoadAndStart ==
  /\ status # "printing"
  /\ status' = "printing"
  /\ file' \in File
  /\ line' = 0

\* SDCARD_RESET_FILE stops a job that prints and unloads its file.
StopAndUnload ==
  /\ status = "printing"
  /\ status' = "standby"
  /\ file' = NoFile /\ line' = 0

CommandSpec == Init /\ [][InOrder \/ LoadAndStart \/ StopAndUnload]_jobVars
=============================================================================
