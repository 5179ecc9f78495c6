--------------------------- MODULE VirtualSDProofs ---------------------------
(***************************************************************************)
(* The print job engine is safe for any number of clients, any files of    *)
(* any length and any of the commands, with runouts, read errors and       *)
(* shutdowns.  It implements the life of a print job, completes a job only *)
(* at the end of its file, and, without a filament sensor, never becomes   *)
(* paused over a job that prints on.  Where PAUSE alone stops a job that   *)
(* is to go on, CANCEL_PRINT ends every job.                               *)
(***************************************************************************)
EXTENDS VirtualSD, SequenceLemmas

\* The G-code mutex is a queue without repetition, and a greenlet that holds
\* it or waits for it has a command to execute.
Queue ==
  /\ Distinct(waiting)
  /\ ~Occurs(owner, waiting)
  /\ ~Occurs(NoOne, waiting)
  /\ owner = NoOne => waiting = <<>>

Commanded ==
  \A g \in Client \cup {Sensor} :
    /\ owner = g => pc[g] \in Command \cup Outcomes
    /\ Occurs(g, waiting) => pc[g] \in Command

\* The handler holds the mutex for a line, and asks again for the error script.
HandlersMutex ==
  /\ work_timer = "line" <=> pc[Work] # "idle"
  /\ pc[Work] \in Command \cup Outcomes \cup {"idle"}
  /\ work_timer = "line" => owner = Work
  /\ owner = Work => work_timer \in {"line", "on_error"}
  /\ Occurs(Work, waiting) => work_timer = "on_error"

\* The sensor sends no command but PAUSE.
SensorPauses == pc[Sensor] \in {"idle", "RUNOUT", "DELAY", "PAUSE"} \cup Outcomes

\* Who is in do_pause, and what the handler does while the owner of the mutex is.
Spinning ==
  /\ Work \notin spinning
  /\ \A c \in Client : c \in spinning =>
        /\ owner = c
        /\ pc[c] \in {"PAUSE", "CANCEL_PRINT", "SDCARD_RESET_FILE", "M25"}
  /\ Sensor \in spinning =>
        \/ pc[Sensor] = "RUNOUT"
        \/ owner = Sensor /\ pc[Sensor] = "PAUSE"

OwnerSpins ==
  owner \in spinning => /\ work_timer \in {"none", "armed", "loop"}
                        /\ Active => must_pause_work

\* print_start_time is set exactly for a job that is under way.
Started == started <=> state \in {"printing", "paused"}

\* A job cancelled by its own line, or under the error script, has been told
\* to stop and is over.
UnderGcode ==
  work_timer \in {"line", "on_error"} =>
    IF current_file = NoFile THEN must_pause_work /\ ~started ELSE state = "printing"

\* The line under way is the one at file_position.
LineAt ==
  work_timer = "line" /\ current_file # NoFile =>
    next_file_position = file_position + 1 /\ file_position < FileLines

\* The inductive invariant: who holds and waits for the mutex and what for,
\* and what the handler, print_stats and the file agree on.
LockInv ==
  /\ Queue /\ Commanded /\ HandlersMutex /\ SensorPauses
  /\ Spinning /\ OwnerSpins /\ FileStaysOpen

JobInv ==
  /\ CmdFromSd /\ HandlerOwnsJob /\ PrintingIsTrue
  /\ Started /\ UnderGcode /\ LineAt

IInv == TypeOK /\ LockInv /\ JobInv

-----------------------------------------------------------------------------
(* The invariant holds at the start, and is about the variables only.      *)

LEMMA InitIInv == Init => IInv
  <1> SUFFICES ASSUME Init PROVE IInv
    OBVIOUS
  <1>1. waiting = <<>> /\ owner = NoOne /\ waiting \in Seq(Greenlet) /\ 1 .. Len(waiting) = {}
    BY DEF Init, Mutex!Init
  <1>2. TypeOK
    BY <1>1, FileAssumption DEF Init, TypeOK, Timer, PrintState, Activity
  <1>3. NoOne \notin Greenlet /\ \A e : ~Occurs(e, waiting)
    BY <1>1, GreenletAssumption DEF Occurs
  <1>4. LockInv
    BY <1>1, <1>3 DEF Init, LockInv, Queue, Commanded, HandlersMutex, SensorPauses,
       Spinning, OwnerSpins, FileStaysOpen, Distinct, Greenlet
  <1>5. JobInv
    BY DEF Init, JobInv, CmdFromSd, HandlerOwnsJob, PrintingIsTrue, Started,
       UnderGcode, LineAt
  <1> QED BY <1>2, <1>4, <1>5 DEF IInv

LEMMA StutterIInv == IInv /\ UNCHANGED vars => IInv'
  <1> SUFFICES ASSUME IInv, UNCHANGED vars PROVE IInv'
    OBVIOUS
  <1> USE DEF vars, lockVars, sdVars, fileVars, pauseVars, statVars
  <1>1. TypeOK'
    BY DEF IInv, TypeOK
  <1>2. LockInv'
    BY DEF IInv, LockInv, Queue, Commanded, HandlersMutex, SensorPauses,
       Spinning, OwnerSpins, FileStaysOpen, Active
  <1>3. JobInv'
    BY DEF IInv, JobInv, CmdFromSd, HandlerOwnsJob, PrintingIsTrue, Started,
       UnderGcode, LineAt
  <1> QED BY <1>1, <1>2, <1>3 DEF IInv

-----------------------------------------------------------------------------
(* What all commands have in common.                                       *)

LEMMA Greenlets ==
  /\ Work \in Greenlet /\ Sensor \in Greenlet /\ Work # Sensor
  /\ NoOne \notin Greenlet
  /\ \A c \in Client : c \in Greenlet /\ c # Work /\ c # Sensor
  /\ \A g \in Greenlet : g \in Client \/ g = Work \/ g = Sensor
  BY GreenletAssumption DEF Greenlet

\* The owner of the mutex ends its command, which may have armed the handler.
LEMMA CommandEnds ==
  ASSUME IInv, NEW g \in Greenlet, owner = g, pc[g] \in Command,
         NEW r \in Outcomes, Outcome(g, r), UNCHANGED lockVars,
         spinning' = spinning \ {g},
         \/ work_timer' = work_timer
         \/ work_timer = "none" /\ work_timer' = "armed"
  PROVE  LockInv' /\ pc' \in [Greenlet -> Activity] /\ spinning' \in SUBSET Greenlet
  <1>1. /\ pc \in [Greenlet -> Activity] /\ spinning \in SUBSET Greenlet
        /\ pc' = [pc EXCEPT ![g] = r] /\ r \in Activity
        /\ r \notin {"idle", "RUNOUT", "DELAY", "PAUSE", "CANCEL_PRINT",
                    "SDCARD_RESET_FILE", "M25"}
        /\ owner' = owner /\ waiting' = waiting
    BY DEF IInv, TypeOK, Outcome, lockVars, Activity, Outcomes
  <1>2. pc' \in [Greenlet -> Activity] /\ spinning' \in SUBSET Greenlet
    BY <1>1
  <1>3. \A h \in Greenlet : pc'[h] = IF h = g THEN r ELSE pc[h]
    BY <1>1
  <1>4. Queue'
    BY <1>1 DEF IInv, LockInv, Queue
  <1>5. Commanded'
    BY <1>1, <1>3, Greenlets DEF IInv, LockInv, Commanded, Queue
  <1>6. HandlersMutex'
    BY <1>1, <1>3, Greenlets DEF IInv, LockInv, HandlersMutex, Command
  <1>7. SensorPauses'
    BY <1>1, <1>3, Greenlets DEF IInv, LockInv, SensorPauses
  <1>8. Spinning'
    BY <1>1, <1>3, Greenlets DEF IInv, LockInv, Spinning
  <1>9. OwnerSpins'
    BY <1>1 DEF OwnerSpins
  <1>10. FileStaysOpen'
    <2>1. \A h \in Greenlet : h \in spinning' => h = Sensor
      BY <1>1, Greenlets DEF IInv, LockInv, Spinning
    <2> QED BY <1>7, <2>1 DEF FileStaysOpen, SensorPauses, Outcomes
  <1> QED BY <1>2, <1>4, <1>5, <1>6, <1>7, <1>8, <1>9, <1>10 DEF LockInv

\* The owner of the mutex begins to wait for the handler in do_pause.
LEMMA StopBeginsIInv ==
  ASSUME IInv, NEW g \in Greenlet,
         NEW c \in {"PAUSE", "CANCEL_PRINT", "SDCARD_RESET_FILE", "M25"},
         StopBegins(g, c), sd_paused' \in BOOLEAN,
         c \in {"CANCEL_PRINT", "SDCARD_RESET_FILE"} => current_file # NoFile
  PROVE  IInv'
  <1> USE DEF lockVars, fileVars, statVars
  <1>1. /\ owner = g /\ pc[g] = c
        /\ spinning' = spinning \cup {g} /\ must_pause_work'
        /\ owner' = owner /\ waiting' = waiting /\ pc' = pc
        /\ current_file' = current_file /\ file_position' = file_position
        /\ next_file_position' = next_file_position
        /\ work_timer' = work_timer /\ cmd_from_sd' = cmd_from_sd
        /\ state' = state /\ started' = started
        /\ is_paused' = is_paused /\ pause_command_sent' = pause_command_sent
        /\ shutdown' = shutdown /\ must_pause_work' \in BOOLEAN
    BY DEF StopBegins, Executes
  <1>2. work_timer \in {"armed", "loop"}
    BY DEF StopBegins, WaitsForHandler, Active, IInv, TypeOK, Timer, JobInv, CmdFromSd
  <1>3. g # Work
    BY <1>1, <1>2 DEF IInv, LockInv, HandlersMutex
  <1>4. g = Sensor => c = "PAUSE"
    BY <1>1 DEF IInv, LockInv, SensorPauses, Outcomes
  <1>5. TypeOK'
    BY <1>1 DEF IInv, TypeOK
  <1>6. Queue' /\ Commanded' /\ HandlersMutex' /\ SensorPauses'
    BY <1>1 DEF IInv, LockInv, Queue, Commanded, HandlersMutex, SensorPauses
  <1>7. Spinning'
    BY <1>1, <1>3, <1>4, Greenlets DEF IInv, LockInv, Spinning
  <1>8. OwnerSpins'
    BY <1>1, <1>2 DEF OwnerSpins
  <1>9. FileStaysOpen'
    BY <1>1 DEF FileStaysOpen, IInv, LockInv
  <1>10. JobInv'
    BY <1>1 DEF IInv, JobInv, CmdFromSd, HandlerOwnsJob, PrintingIsTrue, Started,
       UnderGcode, LineAt
  <1> QED BY <1>5, <1>6, <1>7, <1>8, <1>9, <1>10 DEF IInv, LockInv

\* A command that leaves the job as it is.
LEMMA JobUntouched ==
  ASSUME IInv, UNCHANGED sdVars, UNCHANGED statVars
  PROVE  JobInv'
  BY DEF IInv, JobInv, CmdFromSd, HandlerOwnsJob, PrintingIsTrue, Started,
     UnderGcode, LineAt, sdVars, fileVars, statVars

\* When do_pause returns, nobody feeds the job on: the handler is gone, or
\* inside a line or the error script and told to stop.
LEMMA StopReturned ==
  ASSUME IInv, NEW g \in Greenlet, NEW c \in Command, StopReturns(g, c)
  PROVE  /\ owner = g /\ pc[g] = c /\ spinning' = spinning \ {g}
         /\ owner' = owner /\ waiting' = waiting /\ shutdown' = shutdown
         /\ work_timer' = work_timer /\ cmd_from_sd' = cmd_from_sd
         /\ must_pause_work' \in BOOLEAN
         /\ work_timer \in {"none", "line", "on_error"}
         /\ g \in spinning => work_timer = "none"
         /\ work_timer # "none" => must_pause_work'
  <1>1. work_timer \in {"none", "line", "on_error"}
    BY DEF StopReturns, WaitsForHandler, Active, IInv, JobInv, CmdFromSd
  <1>2. g \in spinning => work_timer = "none"
    BY <1>1 DEF StopReturns, IInv, LockInv, OwnerSpins
  <1>3. work_timer # "none" => must_pause_work'
    BY <1>2 DEF StopReturns, Active
  <1> QED BY <1>1, <1>2, <1>3 DEF StopReturns, lockVars, IInv, TypeOK

\* Only these commands call do_pause.
LEMMA NotSpinning ==
  ASSUME IInv, NEW g \in Greenlet, owner = g,
         pc[g] \notin {"PAUSE", "CANCEL_PRINT", "SDCARD_RESET_FILE", "M25", "RUNOUT"}
  PROVE  g \notin spinning
  BY Greenlets DEF IInv, LockInv, Spinning

\* The command ended and neither the file nor print_stats changed.
LEMMA StoppedIInv ==
  ASSUME IInv, NEW g \in Greenlet, NEW c \in Command, StopReturns(g, c),
         NEW r \in Outcomes, Outcome(g, r), UNCHANGED <<fileVars, statVars>>,
         is_paused' \in BOOLEAN, sd_paused' \in BOOLEAN, pause_command_sent' \in BOOLEAN
  PROVE  IInv'
  <1> USE DEF fileVars, statVars, lockVars
  <1>1. LockInv' /\ pc' \in [Greenlet -> Activity] /\ spinning' \in SUBSET Greenlet
    <2>1. /\ owner = g /\ pc[g] \in Command /\ UNCHANGED lockVars
          /\ spinning' = spinning \ {g} /\ work_timer' = work_timer
      BY StopReturned DEF lockVars
    <2> QED BY <2>1, CommandEnds
  <1>2. TypeOK'
    BY <1>1, StopReturned DEF IInv, TypeOK
  <1>3. JobInv'
    BY StopReturned DEF IInv, JobInv, CmdFromSd, HandlerOwnsJob, PrintingIsTrue,
       Started, UnderGcode, LineAt
  <1> QED BY <1>1, <1>2, <1>3 DEF IInv

\* The command ended at once and left the job as it is.
LEMMA EndsAtOnceIInv ==
  ASSUME IInv, NEW g \in Greenlet, owner = g, pc[g] \in Command, g \notin spinning,
         NEW r \in Outcomes, Outcome(g, r),
         UNCHANGED <<lockVars, sdVars, statVars, spinning>>,
         is_paused' \in BOOLEAN, sd_paused' \in BOOLEAN,
         pause_command_sent' \in BOOLEAN, shutdown' \in BOOLEAN
  PROVE  IInv'
  <1>1. LockInv' /\ pc' \in [Greenlet -> Activity] /\ spinning' \in SUBSET Greenlet
    <2>1. UNCHANGED lockVars /\ spinning' = spinning \ {g} /\ work_timer' = work_timer
      BY DEF sdVars
    <2> QED BY <2>1, CommandEnds
  <1>2. TypeOK'
    BY <1>1 DEF IInv, TypeOK, lockVars, sdVars, fileVars, statVars
  <1>3. JobInv'
    BY JobUntouched
  <1> QED BY <1>1, <1>2, <1>3 DEF IInv

-----------------------------------------------------------------------------
(* The commands, one by one.                                               *)

LEMMA PauseIInv ==
  ASSUME IInv, NEW g \in Greenlet, Pause(g)
  PROVE  IInv'
  <1> USE DEF pauseVars
  <1>1. /\ "PAUSE" \in Command /\ {"ok", "error"} \subseteq Outcomes
        /\ is_paused \in BOOLEAN /\ sd_paused \in BOOLEAN
        /\ pause_command_sent \in BOOLEAN /\ shutdown \in BOOLEAN
    BY DEF Command, Outcomes, IInv, TypeOK
  <1>2. CASE PauseRefused(g)
    BY <1>1, <1>2, EndsAtOnceIInv DEF PauseRefused, Executes
  <1>3. CASE PauseAlreadySent(g)
    BY <1>1, <1>3, EndsAtOnceIInv DEF PauseAlreadySent, Executes
  <1>4. CASE PauseBegins(g)
    BY <1>4, StopBeginsIInv DEF PauseBegins
  <1>5. CASE PauseSent(g)
    <2>1. sd_paused' \in BOOLEAN /\ is_paused' \in BOOLEAN /\ pause_command_sent' \in BOOLEAN
      BY <1>1, <1>5 DEF PauseSent, Active
    <2> QED BY <1>1, <1>5, <2>1, StoppedIInv DEF PauseSent
  <1> QED BY <1>2, <1>3, <1>4, <1>5 DEF Pause

LEMMA ClearPauseIInv ==
  ASSUME IInv, NEW g \in Greenlet, ClearPause(g)
  PROVE  IInv'
  <1>1. /\ owner = g /\ pc[g] \in Command /\ g \notin spinning /\ "ok" \in Outcomes
        /\ sd_paused \in BOOLEAN /\ shutdown \in BOOLEAN
    BY NotSpinning DEF ClearPause, Executes, Command, Outcomes, IInv, TypeOK
  <1> QED BY <1>1, EndsAtOnceIInv DEF ClearPause

\* do_resume: the handler is registered, with no job of its own yet.
LEMMA ArmedIInv ==
  ASSUME IInv, NEW g \in Greenlet, owner = g, pc[g] \in Command, g \notin spinning,
         Arm, Outcome(g, "ok"), UNCHANGED <<lockVars, next_file_position, spinning, shutdown>>,
         current_file' \in File \cup {NoFile}, file_position' \in Nat,
         UNCHANGED statVars \/ ResetStats,
         is_paused' \in BOOLEAN, sd_paused' \in BOOLEAN, pause_command_sent' \in BOOLEAN
  PROVE  IInv'
  <1>1. work_timer = "none" /\ work_timer' = "armed" /\ ~must_pause_work'
        /\ cmd_from_sd' = cmd_from_sd /\ must_pause_work' \in BOOLEAN
    BY DEF Arm, Active
  <1>2. LockInv' /\ pc' \in [Greenlet -> Activity] /\ spinning' \in SUBSET Greenlet
    BY <1>1, CommandEnds DEF Outcomes
  <1>3. /\ state' \in PrintState /\ started' \in BOOLEAN
        /\ state' # "printing" /\ (started' <=> state' \in {"printing", "paused"})
    <2>1. state \in PrintState /\ started \in BOOLEAN /\ state # "printing"
          /\ (started <=> state \in {"printing", "paused"})
      BY <1>1 DEF IInv, TypeOK, JobInv, Started, PrintingIsTrue
    <2>2. CASE UNCHANGED statVars
      BY <2>1, <2>2 DEF statVars
    <2>3. CASE ResetStats
      BY <2>3 DEF ResetStats, PrintState
    <2> QED BY <2>2, <2>3
  <1>4. TypeOK'
    BY <1>1, <1>2, <1>3 DEF IInv, TypeOK, Timer, lockVars
  <1>5. JobInv'
    BY <1>1, <1>3 DEF IInv, JobInv, CmdFromSd, HandlerOwnsJob, PrintingIsTrue,
       Started, UnderGcode, LineAt
  <1> QED BY <1>2, <1>4, <1>5 DEF IInv

LEMMA ResumeIInv ==
  ASSUME IInv, NEW g \in Greenlet, Resume(g)
  PROVE  IInv'
  <1>1. /\ owner = g /\ pc[g] \in Command /\ g \notin spinning /\ {"ok", "error"} \subseteq Outcomes
        /\ is_paused \in BOOLEAN /\ sd_paused \in BOOLEAN
        /\ pause_command_sent \in BOOLEAN /\ shutdown \in BOOLEAN
        /\ current_file \in File \cup {NoFile} /\ file_position \in Nat
        /\ UNCHANGED <<lockVars, statVars, spinning, shutdown>>
    BY NotSpinning DEF Resume, Executes, Command, Outcomes, IInv, TypeOK
  <1>2. CASE UNCHANGED <<sdVars, sd_paused>> /\ Outcome(g, "ok")
             /\ is_paused' \in BOOLEAN /\ pause_command_sent' \in BOOLEAN
    BY <1>1, <1>2, EndsAtOnceIInv
  <1>3. CASE UNCHANGED <<sdVars, pauseVars>> /\ Outcome(g, "error")
    BY <1>1, <1>3, EndsAtOnceIInv DEF pauseVars
  <1>4. CASE Arm /\ Outcome(g, "ok") /\ UNCHANGED fileVars
             /\ sd_paused' = FALSE /\ pause_command_sent' = FALSE /\ is_paused' = FALSE
    BY <1>1, <1>4, ArmedIInv DEF fileVars
  <1> QED BY <1>1, <1>2, <1>3, <1>4 DEF Resume, pauseVars

\* The file is closed and the job is over: nobody feeds it on.
LEMMA ClosedIInv ==
  ASSUME IInv, NEW g \in Greenlet, NEW c \in Command, StopReturns(g, c),
         Outcome(g, "ok"), CloseFile, UNCHANGED next_file_position,
         NoteFinish("cancelled") \/ (ResetStats /\ work_timer = "none"),
         is_paused' \in BOOLEAN, sd_paused' \in BOOLEAN, pause_command_sent' \in BOOLEAN
  PROVE  IInv'
  <1>1. LockInv' /\ pc' \in [Greenlet -> Activity] /\ spinning' \in SUBSET Greenlet
    <2>1. /\ owner = g /\ pc[g] \in Command /\ UNCHANGED lockVars
          /\ spinning' = spinning \ {g} /\ work_timer' = work_timer
          /\ "ok" \in Outcomes
      BY StopReturned DEF lockVars, Outcomes
    <2> QED BY <2>1, CommandEnds
  <1>2. /\ state' \in PrintState /\ ~started'
        /\ state' \notin {"printing", "paused"}
        /\ state' = "standby" => state = "standby" \/ work_timer = "none"
    BY DEF NoteFinish, ResetStats, statVars, IInv, TypeOK, PrintState, JobInv, Started
  <1>3. TypeOK'
    <2>1. /\ owner' = owner /\ waiting' = waiting /\ shutdown' = shutdown
          /\ work_timer' = work_timer /\ cmd_from_sd' = cmd_from_sd
          /\ must_pause_work' \in BOOLEAN
          /\ current_file' = NoFile /\ file_position' = 0
          /\ next_file_position' = next_file_position /\ started' = FALSE
      BY <1>2, StopReturned DEF CloseFile, NoteFinish, ResetStats, statVars, IInv, TypeOK
    <2> QED BY <1>1, <1>2, <2>1 DEF IInv, TypeOK
  <1>4. JobInv'
    BY <1>2, StopReturned DEF IInv, JobInv, CmdFromSd, HandlerOwnsJob, PrintingIsTrue,
       Started, UnderGcode, LineAt, CloseFile
  <1> QED BY <1>1, <1>3, <1>4 DEF IInv

\* No file is open: only the position and the statistics of an idle job
\* change.
LEMMA NoFileIInv ==
  ASSUME IInv, NEW g \in Greenlet, owner = g, pc[g] \in Command, g \notin spinning,
         Outcome(g, "ok"), current_file = NoFile, file_position' = 0,
         UNCHANGED statVars \/ ResetStats,
         UNCHANGED <<lockVars, current_file, next_file_position, work_timer,
                     must_pause_work, cmd_from_sd, sd_paused, spinning, shutdown>>,
         is_paused' \in BOOLEAN, pause_command_sent' \in BOOLEAN
  PROVE  IInv'
  <1>1. LockInv' /\ pc' \in [Greenlet -> Activity] /\ spinning' \in SUBSET Greenlet
    <2>1. UNCHANGED lockVars /\ spinning' = spinning \ {g} /\ work_timer' = work_timer
          /\ "ok" \in Outcomes
      BY DEF Outcomes
    <2> QED BY <2>1, CommandEnds
  <1>2. /\ state' \in PrintState /\ started' \in BOOLEAN
        /\ started' <=> state' \in {"printing", "paused"}
        /\ state' = "printing" => state = "printing"
        /\ started' => started
    <2>1. CASE UNCHANGED statVars
      BY <2>1 DEF statVars, IInv, TypeOK, JobInv, Started
    <2>2. CASE ResetStats
      BY <2>2 DEF ResetStats, PrintState
    <2> QED BY <2>1, <2>2
  <1>3. TypeOK'
    BY <1>1, <1>2 DEF IInv, TypeOK, lockVars
  <1>4. JobInv'
    BY <1>2 DEF IInv, JobInv, CmdFromSd, HandlerOwnsJob, PrintingIsTrue,
       Started, UnderGcode, LineAt
  <1> QED BY <1>1, <1>3, <1>4 DEF IInv

LEMMA CancelPrintIInv ==
  ASSUME IInv, NEW g \in Greenlet, CancelPrint(g)
  PROVE  IInv'
  <1>1. /\ "CANCEL_PRINT" \in Command /\ "ok" \in Outcomes
        /\ sd_paused \in BOOLEAN /\ shutdown \in BOOLEAN
    BY DEF Command, Outcomes, IInv, TypeOK
  <1>2. CASE CancelNothing(g)
    BY <1>1, <1>2, EndsAtOnceIInv DEF CancelNothing, Executes
  <1>3. CASE CancelNoFile(g)
    BY <1>1, <1>3, NoFileIInv DEF CancelNoFile, Executes
  <1>4. CASE CancelBegins(g)
    BY <1>1, <1>4, StopBeginsIInv DEF CancelBegins
  <1>5. CASE CancelFile(g)
    BY <1>1, <1>5, ClosedIInv DEF CancelFile
  <1> QED BY <1>2, <1>3, <1>4, <1>5 DEF CancelPrint

LEMMA SdcardResetFileIInv ==
  ASSUME IInv, NEW g \in Greenlet, SdcardResetFile(g)
  PROVE  IInv'
  <1>1. /\ "SDCARD_RESET_FILE" \in Command /\ {"ok", "error"} \subseteq Outcomes
        /\ is_paused \in BOOLEAN /\ sd_paused \in BOOLEAN
        /\ pause_command_sent \in BOOLEAN /\ shutdown \in BOOLEAN
    BY DEF Command, Outcomes, IInv, TypeOK
  <1>2. CASE ResetRefused(g)
    BY <1>1, <1>2, EndsAtOnceIInv DEF ResetRefused, Executes, pauseVars
  <1>3. CASE ResetNoFile(g)
    BY <1>1, <1>3, NoFileIInv DEF ResetNoFile, Executes, pauseVars
  <1>4. CASE ResetBegins(g)
    BY <1>1, <1>4, StopBeginsIInv DEF ResetBegins
  <1>5. CASE ResetFile(g)
    <2>1. work_timer = "none"
      BY <1>1, <1>5, StopReturned DEF ResetFile, IInv, JobInv, CmdFromSd
    <2> QED BY <1>1, <1>5, <2>1, ClosedIInv DEF ResetFile, pauseVars
  <1> QED BY <1>2, <1>3, <1>4, <1>5 DEF SdcardResetFile

LEMMA BusyIInv ==
  ASSUME IInv, NEW g \in Greenlet, NEW c \in {"SDCARD_PRINT_FILE", "M23", "M24", "M26"},
         Busy(g, c)
  PROVE  IInv'
  <1>1. /\ owner = g /\ pc[g] \in Command /\ g \notin spinning /\ "error" \in Outcomes
        /\ is_paused \in BOOLEAN /\ sd_paused \in BOOLEAN
        /\ pause_command_sent \in BOOLEAN /\ shutdown \in BOOLEAN
    BY NotSpinning DEF Busy, Executes, Command, Outcomes, IInv, TypeOK
  <1> QED BY <1>1, EndsAtOnceIInv DEF Busy, pauseVars

\* A command of an idle job: no handler is there, and none is armed.
LEMMA IdleJobIInv ==
  ASSUME IInv, NEW g \in Greenlet, owner = g, pc[g] \in Command, g \notin spinning,
         NEW r \in Outcomes, Outcome(g, r), ~Active,
         UNCHANGED <<lockVars, next_file_position, work_timer, must_pause_work,
                     cmd_from_sd, pauseVars, spinning, shutdown>>,
         current_file' \in File \cup {NoFile}, file_position' \in Nat,
         UNCHANGED statVars \/ ResetStats
  PROVE  IInv'
  <1>1. LockInv' /\ pc' \in [Greenlet -> Activity] /\ spinning' \in SUBSET Greenlet
    <2>1. UNCHANGED lockVars /\ spinning' = spinning \ {g} /\ work_timer' = work_timer
      OBVIOUS
    <2> QED BY <2>1, CommandEnds
  <1>2. /\ state' \in PrintState /\ started' \in BOOLEAN /\ state' # "printing"
        /\ started' <=> state' \in {"printing", "paused"}
    <2>1. CASE UNCHANGED statVars
      BY <2>1 DEF statVars, IInv, TypeOK, JobInv, Started, PrintingIsTrue, Active
    <2>2. CASE ResetStats
      BY <2>2 DEF ResetStats, PrintState
    <2> QED BY <2>1, <2>2
  <1>3. TypeOK'
    BY <1>1, <1>2 DEF IInv, TypeOK, lockVars, pauseVars
  <1>4. JobInv'
    BY <1>2 DEF IInv, JobInv, CmdFromSd, HandlerOwnsJob, PrintingIsTrue,
       Started, UnderGcode, LineAt, Active
  <1> QED BY <1>1, <1>3, <1>4 DEF IInv

LEMMA LoadFileIInv ==
  ASSUME IInv, NEW g \in Greenlet, NEW c \in {"SDCARD_PRINT_FILE", "M23"}, LoadFile(g, c)
  PROVE  IInv'
  <1>1. /\ owner = g /\ pc[g] \in Command /\ g \notin spinning /\ ~Active
        /\ {"ok", "error"} \subseteq Outcomes
        /\ is_paused \in BOOLEAN /\ sd_paused \in BOOLEAN /\ pause_command_sent \in BOOLEAN
        /\ file_position' = 0 /\ ResetStats
        /\ UNCHANGED <<lockVars, next_file_position, pauseVars, spinning, shutdown>>
    BY NotSpinning DEF LoadFile, Executes, Command, Outcomes, IInv, TypeOK
  <1>2. CASE Outcome(g, "ok") /\ Arm /\ current_file' \in File
    BY <1>1, <1>2, ArmedIInv DEF pauseVars
  <1>3. CASE /\ \E r \in {"ok", "error"} : Outcome(g, r)
             /\ current_file' \in File \cup {NoFile}
             /\ UNCHANGED <<work_timer, must_pause_work, cmd_from_sd>>
    BY <1>1, <1>3, IdleJobIInv
  <1> QED BY <1>2, <1>3 DEF LoadFile

LEMMA M24IInv ==
  ASSUME IInv, NEW g \in Greenlet, M24(g)
  PROVE  IInv'
  <1>1. /\ owner = g /\ pc[g] \in Command /\ g \notin spinning
        /\ is_paused \in BOOLEAN /\ sd_paused \in BOOLEAN /\ pause_command_sent \in BOOLEAN
        /\ current_file \in File \cup {NoFile} /\ file_position \in Nat
    BY NotSpinning DEF M24, Executes, Command, IInv, TypeOK
  <1> QED BY <1>1, ArmedIInv DEF M24, fileVars, pauseVars

LEMMA M25IInv ==
  ASSUME IInv, NEW g \in Greenlet, M25Begins(g) \/ M25Returns(g)
  PROVE  IInv'
  <1>1. /\ "M25" \in Command /\ "ok" \in Outcomes
        /\ is_paused \in BOOLEAN /\ sd_paused \in BOOLEAN /\ pause_command_sent \in BOOLEAN
    BY DEF Command, Outcomes, IInv, TypeOK
  <1>2. CASE M25Begins(g)
    BY <1>1, <1>2, StopBeginsIInv DEF M25Begins
  <1>3. CASE M25Returns(g)
    BY <1>1, <1>3, StoppedIInv DEF M25Returns, pauseVars
  <1> QED BY <1>2, <1>3

LEMMA M26IInv ==
  ASSUME IInv, NEW g \in Greenlet, M26(g)
  PROVE  IInv'
  <1>1. /\ owner = g /\ pc[g] \in Command /\ g \notin spinning /\ "ok" \in Outcomes
        /\ current_file \in File \cup {NoFile} /\ file_position' \in Nat
    BY NotSpinning, FileAssumption DEF M26, Executes, Command, Outcomes, IInv, TypeOK
  <1> QED BY <1>1, IdleJobIInv DEF M26

LEMMA OtherCommandIInv ==
  ASSUME IInv, NEW g \in Greenlet, OtherCommand(g)
  PROVE  IInv'
  <1>1. /\ owner = g /\ pc[g] \in Command /\ g \notin spinning
        /\ \E r \in Outcomes : Outcome(g, r)
        /\ is_paused \in BOOLEAN /\ sd_paused \in BOOLEAN
        /\ pause_command_sent \in BOOLEAN /\ shutdown \in BOOLEAN
    BY NotSpinning DEF OtherCommand, Command, Outcomes, IInv, TypeOK
  <1> QED BY <1>1, EndsAtOnceIInv DEF OtherCommand, pauseVars

\* A shutdown tells the handler to stop, and changes nothing else.
LEMMA ToldToStop ==
  ASSUME IInv, UNCHANGED <<fileVars, work_timer, cmd_from_sd, statVars>>,
         must_pause_work' = (must_pause_work \/ Active)
  PROVE  JobInv'
  BY DEF IInv, TypeOK, JobInv, CmdFromSd, HandlerOwnsJob, PrintingIsTrue, Started,
     UnderGcode, LineAt, fileVars, statVars

LEMMA CrashIInv ==
  ASSUME IInv, NEW g \in Greenlet, Crash(g)
  PROVE  IInv'
  <1>1. LockInv' /\ pc' \in [Greenlet -> Activity] /\ spinning' \in SUBSET Greenlet
    <2>1. /\ owner = g /\ pc[g] \in Command /\ UNCHANGED lockVars
          /\ spinning' = spinning \ {g} /\ work_timer' = work_timer
          /\ "crash" \in Outcomes /\ Outcome(g, "crash")
      BY NotSpinning DEF Crash, Command, Outcomes
    <2> QED BY <2>1, CommandEnds
  <1>2. TypeOK'
    BY <1>1 DEF Crash, Active, IInv, TypeOK, lockVars, fileVars, pauseVars, statVars
  <1>3. JobInv'
    BY ToldToStop DEF Crash
  <1> QED BY <1>1, <1>2, <1>3 DEF IInv

LEMMA ExecuteIInv ==
  ASSUME IInv, NEW g \in Greenlet, Execute(g)
  PROVE  IInv'
  BY PauseIInv, ResumeIInv, ClearPauseIInv, CancelPrintIInv, SdcardResetFileIInv,
     BusyIInv, LoadFileIInv, M24IInv, M25IInv, M26IInv, OtherCommandIInv, CrashIInv
  DEF Execute

-----------------------------------------------------------------------------
(* The mutex changes hands.                                                *)

LEMMA Requested ==
  ASSUME IInv, NEW g \in Greenlet, Mutex!Request(g)
  PROVE  /\ Queue' /\ waiting' \in Seq(Greenlet) /\ owner' \in Greenlet \cup {NoOne}
         /\ owner # g /\ ~Occurs(g, waiting)
         /\ \/ owner = NoOne /\ owner' = g /\ waiting' = waiting
            \/ /\ owner # NoOne /\ owner' = owner
               /\ \A h : Occurs(h, waiting') <=> h = g \/ Occurs(h, waiting)
  <1>1. /\ waiting \in Seq(Greenlet) /\ owner \in Greenlet \cup {NoOne}
        /\ owner # g /\ ~Occurs(g, waiting) /\ g # NoOne
        /\ Distinct(waiting) /\ ~Occurs(owner, waiting) /\ ~Occurs(NoOne, waiting)
    BY Greenlets DEF IInv, TypeOK, LockInv, Queue, Mutex!Request, Mutex!Waits, Occurs
  <1>2. CASE owner = NoOne
    BY <1>1, <1>2 DEF Mutex!Request, Queue
  <1>3. CASE owner # NoOne
    <2>1. owner' = owner /\ waiting' = Append(waiting, g)
      BY <1>3 DEF Mutex!Request
    <2>2. /\ waiting' \in Seq(Greenlet) /\ Distinct(waiting')
          /\ \A h : Occurs(h, waiting') <=> h = g \/ Occurs(h, waiting)
      BY <1>1, <2>1, Joins
    <2> QED BY <1>1, <1>3, <2>1, <2>2 DEF Queue
  <1> QED BY <1>2, <1>3

LEMMA Released ==
  ASSUME IInv, NEW g \in Greenlet, Mutex!Release(g)
  PROVE  /\ Queue' /\ waiting' \in Seq(Greenlet) /\ owner' \in Greenlet \cup {NoOne}
         /\ owner = g /\ owner' # g
         /\ owner' = NoOne \/ Occurs(owner', waiting)
         /\ \A h : Occurs(h, waiting') <=> h # owner' /\ Occurs(h, waiting)
  <1>1. /\ waiting \in Seq(Greenlet) /\ owner = g /\ g # NoOne
        /\ Distinct(waiting) /\ ~Occurs(owner, waiting) /\ ~Occurs(NoOne, waiting)
    BY Greenlets DEF IInv, TypeOK, LockInv, Queue, Mutex!Release
  <1>2. CASE waiting = <<>>
    BY <1>1, <1>2 DEF Mutex!Release, Queue
  <1>3. CASE waiting # <<>>
    <2>1. /\ owner' = Head(waiting) /\ waiting' = Tail(waiting)
          /\ owner' \in Greenlet /\ waiting' \in Seq(Greenlet) /\ Occurs(owner', waiting)
      BY <1>1, <1>3, HeadIsFirst DEF Mutex!Release
    <2>2. Distinct(waiting') /\ \A h : Occurs(h, waiting') <=> h # owner' /\ Occurs(h, waiting)
      BY <1>1, <1>3, <2>1, Leaves
    <2>3. owner' # NoOne
      BY <2>1, Greenlets
    <2> QED BY <1>1, <2>1, <2>2, <2>3 DEF Queue
  <1> QED BY <1>2, <1>3

\* A client or the sensor asks for the mutex with a command to execute.
LEMMA RequestIInv ==
  ASSUME IInv, NEW g \in Client \cup {Sensor}, NEW c \in Command, Mutex!Request(g),
         pc[g] \in {"idle", "DELAY"}, Outcome(g, c), g = Sensor => c = "PAUSE",
         UNCHANGED <<sdVars, pauseVars, statVars, spinning, shutdown>>
  PROVE  IInv'
  <1>1. /\ g \in Greenlet /\ g # Work /\ c \in Activity
        /\ pc' = [pc EXCEPT ![g] = c] /\ pc \in [Greenlet -> Activity]
        /\ spinning' = spinning /\ work_timer' = work_timer
        /\ must_pause_work' = must_pause_work /\ current_file' = current_file
    BY Greenlets DEF Outcome, IInv, TypeOK, Activity, sdVars, fileVars
  <1>2. \A h \in Greenlet : pc'[h] = IF h = g THEN c ELSE pc[h]
    BY <1>1
  <1>3. g \notin spinning
    BY Greenlets DEF IInv, LockInv, Spinning
  <1>4. TypeOK'
    BY <1>1, Requested DEF IInv, TypeOK, sdVars, fileVars, pauseVars, statVars
  <1>5. Queue'
    BY <1>1, Requested
  <1>6. Commanded'
    BY <1>1, <1>2, Requested, Greenlets DEF IInv, LockInv, Commanded
  <1>7. HandlersMutex'
    BY <1>1, <1>2, Requested, Greenlets DEF IInv, LockInv, HandlersMutex
  <1>8. SensorPauses'
    BY <1>1, <1>2, Greenlets DEF IInv, LockInv, SensorPauses
  <1>9. Spinning'
    <2>1. \A h \in Greenlet : owner = h => owner' = h
      BY <1>1, Requested, Greenlets
    <2> QED BY <1>1, <1>2, <1>3, <2>1, Greenlets DEF IInv, LockInv, Spinning
  <1>10. OwnerSpins'
    BY <1>1, <1>3, Requested DEF IInv, LockInv, OwnerSpins, Active
  <1>11. FileStaysOpen'
    BY <1>1, <1>2, <1>3 DEF IInv, LockInv, FileStaysOpen
  <1>12. JobInv'
    BY JobUntouched
  <1> QED BY <1>4, <1>5, <1>6, <1>7, <1>8, <1>9, <1>10, <1>11, <1>12 DEF IInv, LockInv

LEMMA SendIInv ==
  ASSUME IInv, NEW c \in Client, Send(c)
  PROVE  IInv'
  <1>1. PICK command \in ClientCommand : Outcome(c, command)
    BY DEF Send
  <1>2. command \in Command /\ c # Sensor
    BY Greenlets, CommandAssumption
  <1> QED BY <1>1, <1>2, RequestIInv DEF Send

\* Once the mutex is let go of, nobody in do_pause owns it.
LEMMA SpinsWithout ==
  ASSUME IInv, NEW g \in Greenlet, Mutex!Release(g), pc[g] \notin Command
  PROVE  /\ \A h \in Greenlet : h \in spinning => h = Sensor /\ pc[h] = "RUNOUT" /\ h # g
         /\ owner' \notin spinning
  <1>1. owner = g /\ (owner' = NoOne \/ Occurs(owner', waiting))
        /\ owner' \in Greenlet \cup {NoOne}
    BY Released
  <1>2. \A c \in {"PAUSE", "CANCEL_PRINT", "SDCARD_RESET_FILE", "M25"} : pc[g] # c
    BY DEF Command
  <1>3. \A h \in Greenlet : h \in spinning => h = Sensor /\ pc[h] = "RUNOUT"
    BY <1>1, <1>2, Greenlets DEF IInv, LockInv, Spinning
  <1>4. owner' \notin spinning
    <2>1. CASE owner' = NoOne
      BY <2>1, Greenlets DEF IInv, TypeOK
    <2>2. CASE owner' \in Greenlet /\ Occurs(owner', waiting)
      BY <2>2, <1>3, Greenlets DEF IInv, LockInv, Commanded, Command
    <2> QED BY <1>1, <2>1, <2>2
  <1>5. g \in spinning => FALSE
    BY <1>1, <1>3, Greenlets DEF IInv, LockInv, Commanded, Command, Outcomes
  <1> QED BY <1>3, <1>4, <1>5

LEMMA FinishIInv ==
  ASSUME IInv, NEW g \in Client \cup {Sensor}, Finish(g)
  PROVE  IInv'
  <1>1. /\ g \in Greenlet /\ g # Work /\ pc[g] \in Outcomes /\ pc[g] \notin Command
        /\ pc' = [pc EXCEPT ![g] = "idle"] /\ pc \in [Greenlet -> Activity]
        /\ Mutex!Release(g) /\ "idle" \in Activity
        /\ UNCHANGED <<sdVars, pauseVars, statVars, spinning, shutdown>>
        /\ spinning' = spinning /\ work_timer' = work_timer
        /\ must_pause_work' = must_pause_work
    BY Greenlets DEF Finish, Outcome, Outcomes, Command, IInv, TypeOK, Activity, sdVars
  <1>2. \A h \in Greenlet : pc'[h] = IF h = g THEN "idle" ELSE pc[h]
    BY <1>1
  <1>3. TypeOK'
    BY <1>1, Released DEF IInv, TypeOK, sdVars, fileVars, pauseVars, statVars
  <1>4. Queue'
    BY <1>1, Released
  <1>5. Commanded'
    <2>1. \A h \in Client \cup {Sensor} :
            (owner' = h \/ Occurs(h, waiting')) => h # g /\ Occurs(h, waiting)
      BY <1>1, Released, Greenlets DEF IInv, LockInv, Queue
    <2> QED BY <1>1, <1>2, <2>1, Greenlets DEF IInv, LockInv, Commanded
  <1>6. HandlersMutex'
    BY <1>1, <1>2, Released, Greenlets DEF IInv, LockInv, HandlersMutex
  <1>7. SensorPauses'
    BY <1>1, <1>2, Greenlets DEF IInv, LockInv, SensorPauses
  <1>8. Spinning' /\ OwnerSpins' /\ FileStaysOpen'
    BY <1>1, <1>2, SpinsWithout, Greenlets DEF Spinning, OwnerSpins, FileStaysOpen
  <1>9. JobInv'
    BY <1>1, JobUntouched
  <1> QED BY <1>3, <1>4, <1>5, <1>6, <1>7, <1>8, <1>9 DEF IInv, LockInv

-----------------------------------------------------------------------------
(* The runout event.                                                       *)

\* The sensor goes on without the mutex; it may tell the handler to stop.
LEMMA SensorGoesOn ==
  ASSUME IInv, NEW a \in {"RUNOUT", "DELAY"}, pc[Sensor] \in {"idle", "RUNOUT"},
         Outcome(Sensor, a),
         spinning' = IF a = "RUNOUT" THEN spinning \cup {Sensor} ELSE spinning \ {Sensor},
         UNCHANGED <<lockVars, fileVars, work_timer, cmd_from_sd, is_paused, statVars, shutdown>>,
         must_pause_work' = must_pause_work \/ must_pause_work' = TRUE,
         sd_paused' \in BOOLEAN, pause_command_sent' \in BOOLEAN
  PROVE  IInv'
  <1>1. /\ pc' = [pc EXCEPT ![Sensor] = a] /\ pc \in [Greenlet -> Activity] /\ a \in Activity
        /\ owner' = owner /\ waiting' = waiting /\ work_timer' = work_timer
        /\ current_file' = current_file
        /\ must_pause_work => must_pause_work'
        /\ must_pause_work' \in BOOLEAN
    BY DEF Outcome, IInv, TypeOK, Activity, lockVars, fileVars
  <1>2. \A h \in Greenlet : pc'[h] = IF h = Sensor THEN a ELSE pc[h]
    BY <1>1, Greenlets
  <1>3. owner # Sensor /\ ~Occurs(Sensor, waiting)
    BY Greenlets DEF IInv, LockInv, Commanded, Command, Outcomes
  <1>4. TypeOK'
    <2>1. spinning' \in SUBSET Greenlet
      BY Greenlets DEF IInv, TypeOK
    <2> QED BY <1>1, <2>1 DEF IInv, TypeOK, fileVars, statVars
  <1>5. Queue' /\ Commanded' /\ HandlersMutex' /\ SensorPauses'
    BY <1>1, <1>2, <1>3, Greenlets DEF IInv, LockInv, Queue, Commanded, HandlersMutex,
       SensorPauses
  <1>6. Spinning'
    BY <1>1, <1>2, Greenlets DEF IInv, LockInv, Spinning
  <1>7. OwnerSpins'
    BY <1>1, <1>3 DEF IInv, LockInv, OwnerSpins, Active
  <1>8. FileStaysOpen'
    BY <1>1, <1>2 DEF IInv, LockInv, FileStaysOpen
  <1>9. JobInv'
    BY <1>1 DEF IInv, JobInv, CmdFromSd, HandlerOwnsJob, PrintingIsTrue, Started,
       UnderGcode, LineAt, fileVars, statVars
  <1> QED BY <1>4, <1>5, <1>6, <1>7, <1>8, <1>9 DEF IInv, LockInv

LEMMA RunoutIInv ==
  ASSUME IInv, RunoutEvent
  PROVE  IInv'
  <1> USE DEF sdVars, pauseVars
  <1>1. /\ sd_paused \in BOOLEAN /\ pause_command_sent \in BOOLEAN
        /\ Sensor \in spinning => pc[Sensor] \in {"RUNOUT", "PAUSE"}
    BY DEF IInv, TypeOK, LockInv, Spinning
  <1>2. CASE RunoutWhilePaused
    <2>1. spinning' = spinning \ {Sensor}
      BY <1>1, <1>2 DEF RunoutWhilePaused
    <2> QED BY <1>1, <1>2, <2>1, SensorGoesOn DEF RunoutWhilePaused
  <1>3. CASE RunoutBegins
    BY <1>1, <1>3, SensorGoesOn DEF RunoutBegins
  <1>4. CASE RunoutAtOnce
    <2>1. /\ spinning' = spinning \ {Sensor}
          /\ must_pause_work' = must_pause_work \/ must_pause_work' = TRUE
          /\ sd_paused' \in BOOLEAN
      BY <1>1, <1>4 DEF RunoutAtOnce, Active, IInv, TypeOK
    <2> QED BY <1>1, <1>4, <2>1, SensorGoesOn DEF RunoutAtOnce
  <1>5. CASE RunoutWaited
    BY <1>1, <1>5, SensorGoesOn DEF RunoutWaited
  <1>6. CASE RunoutScript
    <2>1. "PAUSE" \in Command
      BY DEF Command
    <2> QED BY <1>6, <2>1, RequestIInv DEF RunoutScript
  <1> QED BY <1>2, <1>3, <1>4, <1>5, <1>6 DEF RunoutEvent

-----------------------------------------------------------------------------
(* The handler.                                                            *)

\* Steps of the handler outside run_script: it does not touch the mutex.
LEMMA HandlerAlone ==
  ASSUME IInv, UNCHANGED <<lockVars, pc, spinning, must_pause_work>>,
         work_timer \in {"armed", "loop"}, work_timer' \in {"none", "loop"},
         current_file' = current_file \/ ~must_pause_work
  PROVE  LockInv'
  <1> USE DEF lockVars
  <1>1. Queue' /\ Commanded' /\ SensorPauses' /\ Spinning'
    BY DEF IInv, LockInv, Queue, Commanded, SensorPauses, Spinning
  <1>2. HandlersMutex'
    BY DEF IInv, LockInv, HandlersMutex
  <1>3. OwnerSpins'
    BY DEF IInv, LockInv, OwnerSpins, Active
  <1>4. FileStaysOpen'
    <2>1. CASE current_file' = current_file
      BY <2>1 DEF IInv, LockInv, FileStaysOpen
    <2>2. CASE ~must_pause_work
      <3>1. owner \notin spinning
        BY <2>2 DEF IInv, LockInv, OwnerSpins, Active
      <3>2. \A g \in Greenlet : g \in spinning => g = Sensor
        BY <3>1, Greenlets DEF IInv, LockInv, Spinning
      <3> QED BY <3>2 DEF IInv, LockInv, FileStaysOpen, SensorPauses, Outcomes
    <2> QED BY <2>1, <2>2
  <1> QED BY <1>1, <1>2, <1>3, <1>4 DEF LockInv

\* However the handler leaves, print_stats tells what became of the job.
LEMMA HandlerLeft ==
  ASSUME IInv, NEW failed \in BOOLEAN, HandlerLeaves(failed),
         current_file' \in File \cup {NoFile},
         work_timer \in {"loop", "line", "on_error"},
         work_timer = "loop" => current_file # NoFile,
         current_file' = current_file \/ current_file' = NoFile
  PROVE  JobInv' /\ work_timer' \in Timer /\ cmd_from_sd' \in BOOLEAN
         /\ state' \in PrintState /\ started' \in BOOLEAN
  <1>1. /\ work_timer' = "none" /\ cmd_from_sd' = FALSE
        /\ state \in PrintState /\ started \in BOOLEAN
        /\ started <=> state \in {"printing", "paused"}
        /\ current_file # NoFile => state = "printing"
        /\ current_file = NoFile => ~started
    BY DEF HandlerLeaves, IInv, TypeOK, JobInv, Started, HandlerOwnsJob, UnderGcode
  <1>2. /\ state' \in PrintState /\ started' \in BOOLEAN /\ state' # "printing"
        /\ started' <=> state' \in {"printing", "paused"}
    <2>1. CASE failed
      BY <1>1, <2>1 DEF HandlerLeaves, NoteFinish, statVars, PrintState
    <2>2. CASE ~failed /\ current_file' # NoFile
      BY <1>1, <2>2 DEF HandlerLeaves, NotePause, PrintState
    <2>3. CASE ~failed /\ current_file' = NoFile
      BY <1>1, <2>3 DEF HandlerLeaves, NoteFinish, statVars, PrintState
    <2> QED BY <2>1, <2>2, <2>3
  <1> QED BY <1>1, <1>2 DEF JobInv, CmdFromSd, HandlerOwnsJob, PrintingIsTrue, Started,
       UnderGcode, LineAt, Timer

LEMMA HandlerStartsIInv ==
  ASSUME IInv, HandlerStarts
  PROVE  IInv'
  <1> USE DEF lockVars, fileVars, pauseVars, statVars
  <1>1. LockInv'
    BY HandlerAlone DEF HandlerStarts
  <1>2. TypeOK'
    <2>1. /\ work_timer' \in Timer /\ state' \in PrintState /\ started' \in BOOLEAN
      BY DEF HandlerStarts, NoteStart, IInv, TypeOK, Timer, PrintState
    <2>2. UNCHANGED <<lockVars, fileVars, must_pause_work, cmd_from_sd, pauseVars,
                      pc, spinning, shutdown>>
      BY DEF HandlerStarts
    <2> QED BY <2>1, <2>2 DEF IInv, TypeOK
  <1>3. JobInv'
    BY DEF HandlerStarts, NoteStart, IInv, JobInv, CmdFromSd, HandlerOwnsJob,
       PrintingIsTrue, Started, UnderGcode, LineAt
  <1> QED BY <1>1, <1>2, <1>3 DEF IInv

LEMMA HandlerEndsIInv ==
  ASSUME IInv, HandlerStops \/ ReadFails \/ EndOfFile
  PROVE  IInv'
  <1>1. /\ work_timer = "loop" /\ current_file # NoFile /\ HandlerLeaves(FALSE)
        /\ current_file \in File
        /\ current_file' = current_file \/ (current_file' = NoFile /\ ~must_pause_work)
        /\ UNCHANGED <<lockVars, file_position, next_file_position, must_pause_work,
                       pauseVars, pc, spinning, shutdown>>
    BY DEF HandlerStops, ReadFails, EndOfFile, fileVars, IInv, TypeOK, JobInv, HandlerOwnsJob
  <1>2. JobInv' /\ work_timer' \in Timer /\ cmd_from_sd' \in BOOLEAN
        /\ state' \in PrintState /\ started' \in BOOLEAN
    BY <1>1, HandlerLeft
  <1>3. LockInv'
    BY <1>1, HandlerAlone DEF HandlerLeaves
  <1>4. TypeOK'
    BY <1>1, <1>2 DEF IInv, TypeOK, lockVars, pauseVars
  <1> QED BY <1>2, <1>3, <1>4 DEF IInv

LEMMA DispatchIInv ==
  ASSUME IInv, Dispatch
  PROVE  IInv'
  <1>1. PICK c \in Command : Outcome(Work, c)
    BY CommandAssumption DEF Dispatch
  <1>2. /\ pc' = [pc EXCEPT ![Work] = c] /\ pc \in [Greenlet -> Activity] /\ c \in Activity
        /\ owner = NoOne /\ Mutex!Request(Work) /\ Work \in Greenlet
        /\ spinning' = spinning /\ work_timer = "loop" /\ work_timer' = "line" /\ cmd_from_sd'
        /\ current_file' = current_file /\ ~must_pause_work
        /\ c \notin Outcomes \cup {"idle"}
    BY <1>1, Greenlets DEF Dispatch, Outcome, IInv, TypeOK, Activity, Command, Outcomes
  <1>3. \A h \in Greenlet : pc'[h] = IF h = Work THEN c ELSE pc[h]
    BY <1>2
  <1>4. Queue' /\ waiting' \in Seq(Greenlet) /\ owner' = Work /\ waiting' = waiting
        /\ waiting = <<>> /\ \A h : ~Occurs(h, waiting)
    BY <1>2, Requested, EmptyQueue DEF IInv, LockInv, Queue, Occurs
  <1>5. TypeOK'
    BY <1>2, <1>4, Greenlets DEF Dispatch, IInv, TypeOK, Timer, pauseVars, statVars
  <1>6. Commanded' /\ HandlersMutex' /\ SensorPauses'
    BY <1>2, <1>3, <1>4, Greenlets DEF IInv, LockInv, Commanded, HandlersMutex, SensorPauses
  <1>7. Spinning' /\ OwnerSpins' /\ FileStaysOpen'
    BY <1>2, <1>3, <1>4, Greenlets DEF IInv, LockInv, Spinning, OwnerSpins, FileStaysOpen
  <1>8. JobInv'
    BY <1>2 DEF Dispatch, statVars, IInv, JobInv, CmdFromSd, HandlerOwnsJob,
       PrintingIsTrue, Started, UnderGcode, LineAt
  <1> QED BY <1>4, <1>5, <1>6, <1>7, <1>8 DEF IInv, LockInv

\* The handler is done with the mutex: after a line, a crash or the error
\* script.
LEMMA HandlerReleases ==
  ASSUME IInv, Mutex!Release(Work), pc[Work] \in Outcomes \cup {"idle"},
         pc' = [pc EXCEPT ![Work] = "idle"], spinning' = spinning,
         work_timer' \in {"none", "loop"}
  PROVE  LockInv' /\ waiting' \in Seq(Greenlet) /\ owner' \in Greenlet \cup {NoOne}
         /\ pc' \in [Greenlet -> Activity]
  <1>1. /\ pc \in [Greenlet -> Activity] /\ "idle" \in Activity /\ Work \in Greenlet
        /\ pc[Work] \notin Command
    BY Greenlets DEF IInv, TypeOK, Activity, Command, Outcomes
  <1>2. \A h \in Greenlet : pc'[h] = IF h = Work THEN "idle" ELSE pc[h]
    BY <1>1
  <1>3. /\ Queue' /\ waiting' \in Seq(Greenlet) /\ owner' \in Greenlet \cup {NoOne}
        /\ owner = Work /\ owner' # Work /\ ~Occurs(Work, waiting')
    BY <1>1, Released DEF IInv, LockInv, Queue
  <1>4. Commanded'
    <2>1. \A h \in Client \cup {Sensor} :
            (owner' = h \/ Occurs(h, waiting')) => h # Work /\ Occurs(h, waiting)
      BY <1>1, Released, Greenlets DEF IInv, LockInv, Queue
    <2> QED BY <1>2, <2>1, Greenlets DEF IInv, LockInv, Commanded
  <1>5. HandlersMutex'
    BY <1>1, <1>2, <1>3 DEF HandlersMutex
  <1>6. SensorPauses'
    BY <1>2, Greenlets DEF IInv, LockInv, SensorPauses
  <1>7. Spinning' /\ OwnerSpins' /\ FileStaysOpen'
    BY <1>1, <1>2, SpinsWithout, Greenlets DEF Spinning, OwnerSpins, FileStaysOpen
  <1> QED BY <1>1, <1>3, <1>4, <1>5, <1>6, <1>7 DEF LockInv

LEMMA LineDoneIInv ==
  ASSUME IInv, LineDone
  PROVE  IInv'
  <1>1. /\ Mutex!Release(Work) /\ pc[Work] \in Outcomes \cup {"idle"}
        /\ pc' = [pc EXCEPT ![Work] = "idle"] /\ spinning' = spinning
        /\ work_timer = "line" /\ must_pause_work' = must_pause_work
        /\ file_position' = next_file_position /\ next_file_position' = next_file_position
        /\ UNCHANGED <<pauseVars, shutdown>>
        /\ current_file \in File \cup {NoFile}
        /\ ~must_pause_work => current_file # NoFile /\ state = "printing"
    BY DEF LineDone, Outcome, Outcomes, IInv, TypeOK, JobInv, UnderGcode
  <1>2. CASE HandlerLeaves(FALSE) /\ (current_file' = current_file \/ current_file' = NoFile)
    <2>1. JobInv' /\ work_timer' \in Timer /\ cmd_from_sd' \in BOOLEAN
          /\ state' \in PrintState /\ started' \in BOOLEAN
      BY <1>1, <1>2, HandlerLeft
    <2>2. LockInv' /\ waiting' \in Seq(Greenlet) /\ owner' \in Greenlet \cup {NoOne}
          /\ pc' \in [Greenlet -> Activity]
      BY <1>1, <1>2, HandlerReleases DEF HandlerLeaves
    <2> QED BY <1>1, <1>2, <2>1, <2>2 DEF IInv, TypeOK, pauseVars
  <1>3. CASE /\ ~must_pause_work /\ work_timer' = "loop" /\ cmd_from_sd' = FALSE
             /\ UNCHANGED <<current_file, statVars>>
    <2>1. LockInv' /\ waiting' \in Seq(Greenlet) /\ owner' \in Greenlet \cup {NoOne}
          /\ pc' \in [Greenlet -> Activity]
      BY <1>1, <1>3, HandlerReleases
    <2>2. TypeOK'
      BY <1>1, <1>3, <2>1 DEF IInv, TypeOK, Timer, pauseVars, statVars
    <2>3. JobInv'
      BY <1>1, <1>3 DEF statVars, IInv, JobInv, CmdFromSd, HandlerOwnsJob,
         PrintingIsTrue, Started, UnderGcode, LineAt
    <2> QED BY <2>1, <2>2, <2>3 DEF IInv
  <1> QED BY <1>1, <1>2, <1>3 DEF LineDone

LEMMA LineCrashedIInv ==
  ASSUME IInv, LineCrashed
  PROVE  IInv'
  <1>1. /\ Mutex!Release(Work) /\ pc[Work] \in Outcomes \cup {"idle"}
        /\ pc' = [pc EXCEPT ![Work] = "idle"] /\ spinning' = spinning
        /\ work_timer = "line" /\ HandlerLeaves(FALSE) /\ work_timer' = "none"
        /\ current_file' = current_file /\ current_file \in File \cup {NoFile}
    BY DEF LineCrashed, Outcome, Outcomes, HandlerLeaves, fileVars, IInv, TypeOK
  <1>2. JobInv' /\ work_timer' \in Timer /\ cmd_from_sd' \in BOOLEAN
        /\ state' \in PrintState /\ started' \in BOOLEAN
    BY <1>1, HandlerLeft
  <1>3. LockInv' /\ waiting' \in Seq(Greenlet) /\ owner' \in Greenlet \cup {NoOne}
        /\ pc' \in [Greenlet -> Activity]
    BY <1>1, HandlerReleases
  <1>4. TypeOK'
    BY <1>1, <1>2, <1>3 DEF LineCrashed, IInv, TypeOK, fileVars, pauseVars
  <1> QED BY <1>2, <1>3, <1>4 DEF IInv

LEMMA ErrorHandledIInv ==
  ASSUME IInv, ErrorHandled
  PROVE  IInv'
  <1>1. /\ Mutex!Release(Work) /\ pc[Work] \in Outcomes \cup {"idle"} /\ pc \in [Greenlet -> Activity]
        /\ pc' = [pc EXCEPT ![Work] = "idle"] /\ spinning' = spinning
        /\ work_timer = "on_error" /\ HandlerLeaves(TRUE) /\ work_timer' = "none"
        /\ current_file' = current_file /\ current_file \in File \cup {NoFile}
    <2>1. pc[Work] = "idle" /\ pc \in [Greenlet -> Activity] /\ pc' = pc
      BY Greenlets DEF ErrorHandled, IInv, TypeOK, LockInv, HandlersMutex
    <2> QED BY <2>1 DEF ErrorHandled, HandlerLeaves, fileVars, IInv, TypeOK
  <1>2. JobInv' /\ work_timer' \in Timer /\ cmd_from_sd' \in BOOLEAN
        /\ state' \in PrintState /\ started' \in BOOLEAN
    BY <1>1, HandlerLeft
  <1>3. LockInv' /\ waiting' \in Seq(Greenlet) /\ owner' \in Greenlet \cup {NoOne}
        /\ pc' \in [Greenlet -> Activity]
    BY <1>1, HandlerReleases
  <1>4. TypeOK'
    BY <1>1, <1>2, <1>3 DEF ErrorHandled, IInv, TypeOK, fileVars, pauseVars
  <1> QED BY <1>2, <1>3, <1>4 DEF IInv

\* The handler lets go of the mutex and asks for it again: if others wait it
\* becomes the last of them.
LEMMA LineFailedIInv ==
  ASSUME IInv, LineFailed
  PROVE  IInv'
  <1>1. /\ pc' = [pc EXCEPT ![Work] = "idle"] /\ pc \in [Greenlet -> Activity]
        /\ pc[Work] = "error" /\ Work \in Greenlet /\ "idle" \in Activity
        /\ work_timer = "line" /\ work_timer' = "on_error" /\ spinning' = spinning
        /\ current_file' = current_file
        /\ waiting \in Seq(Greenlet) /\ owner = Work /\ Distinct(waiting)
        /\ ~Occurs(Work, waiting) /\ ~Occurs(NoOne, waiting)
    BY Greenlets DEF LineFailed, Outcome, IInv, TypeOK, LockInv, Queue, HandlersMutex,
       Activity, fileVars
  <1>2. \A h \in Greenlet : pc'[h] = IF h = Work THEN "idle" ELSE pc[h]
    BY <1>1
  <1>3. /\ Queue' /\ waiting' \in Seq(Greenlet) /\ owner' \in Greenlet
        /\ owner' = Work \/ Occurs(owner', waiting)
        /\ \A h : Occurs(h, waiting') => h = Work \/ Occurs(h, waiting)
    <2>1. CASE waiting = <<>>
      BY <1>1, <2>1 DEF LineFailed, lockVars, IInv, LockInv, Queue
    <2>2. CASE waiting # <<>>
      <3>1. /\ owner' = Head(waiting) /\ waiting' = Append(Tail(waiting), Work)
        BY <2>2 DEF LineFailed
      <3>2. /\ Head(waiting) \in Greenlet /\ Tail(waiting) \in Seq(Greenlet)
            /\ Occurs(Head(waiting), waiting) /\ Distinct(Tail(waiting))
            /\ \A h : Occurs(h, Tail(waiting)) <=> h # Head(waiting) /\ Occurs(h, waiting)
        BY <1>1, <2>2, HeadIsFirst, Leaves
      <3>3. /\ waiting' \in Seq(Greenlet) /\ Distinct(waiting')
            /\ \A h : Occurs(h, waiting') <=> h = Work \/ Occurs(h, Tail(waiting))
        BY <1>1, <3>1, <3>2, Joins
      <3>4. owner' # Work /\ owner' # NoOne
        BY <1>1, <3>1, <3>2
      <3> QED BY <1>1, <3>1, <3>2, <3>3, <3>4, Greenlets DEF Queue
    <2> QED BY <2>1, <2>2
  <1>4. TypeOK'
    BY <1>1, <1>3 DEF LineFailed, IInv, TypeOK, Timer, fileVars, pauseVars, statVars
  <1>5. Commanded'
    BY <1>2, <1>3, Greenlets DEF IInv, LockInv, Commanded
  <1>6. HandlersMutex' /\ SensorPauses'
    BY <1>1, <1>2, Greenlets DEF IInv, LockInv, HandlersMutex, SensorPauses
  <1>7. \A h \in Greenlet : h \in spinning => h = Sensor /\ pc[h] = "RUNOUT"
    BY <1>1, Greenlets DEF IInv, LockInv, Spinning
  <1>8. owner' \notin spinning
    BY <1>3, <1>7, Greenlets DEF IInv, LockInv, Commanded, Command
  <1>9. Spinning' /\ OwnerSpins' /\ FileStaysOpen'
    BY <1>1, <1>2, <1>7, <1>8, Greenlets DEF Spinning, OwnerSpins, FileStaysOpen
  <1>10. JobInv'
    BY <1>1 DEF LineFailed, fileVars, statVars, IInv, JobInv, CmdFromSd, HandlerOwnsJob,
       PrintingIsTrue, Started, UnderGcode, LineAt
  <1> QED BY <1>3, <1>4, <1>5, <1>6, <1>9, <1>10 DEF IInv, LockInv

LEMMA ShutdownIInv ==
  ASSUME IInv, Shutdown
  PROVE  IInv'
  <1> USE DEF Shutdown, lockVars, fileVars, pauseVars, statVars
  <1>1. TypeOK'
    BY DEF IInv, TypeOK, Active
  <1>2. LockInv'
    BY DEF IInv, LockInv, Queue, Commanded, HandlersMutex, SensorPauses, Spinning,
       OwnerSpins, FileStaysOpen, Active
  <1>3. JobInv'
    BY ToldToStop
  <1> QED BY <1>1, <1>2, <1>3 DEF IInv

LEMMA NextIInv == IInv /\ [Next]_vars => IInv'
  <1> SUFFICES ASSUME IInv, [Next]_vars PROVE IInv'
    OBVIOUS
  <1>1. CASE \E c \in Client : Send(c)
    BY <1>1, SendIInv
  <1>2. CASE \E g \in Client \cup {Sensor} : Finish(g)
    BY <1>2, FinishIInv
  <1>3. CASE \E g \in Greenlet : Execute(g)
    BY <1>3, ExecuteIInv
  <1>4. CASE RunoutEvent
    BY <1>4, RunoutIInv
  <1>5. CASE Handler
    BY <1>5, HandlerStartsIInv, HandlerEndsIInv, DispatchIInv, LineDoneIInv,
       LineCrashedIInv, LineFailedIInv, ErrorHandledIInv DEF Handler
  <1>6. CASE Shutdown
    BY <1>6, ShutdownIInv
  <1>7. CASE UNCHANGED vars
    BY <1>7, StutterIInv
  <1> QED BY <1>1, <1>2, <1>3, <1>4, <1>5, <1>6, <1>7 DEF Next

\* Every step of every greenlet keeps the inductive invariant.
THEOREM Invariance == Spec => []IInv
  BY InitIInv, NextIInv, PTL DEF Spec

\* The variables keep their types, the handler feeds only the open file of a
\* job that print_stats shows as printing, no job is shown as printing that
\* nobody works on, cmd_from_sd tells a handler inside run_script, and no
\* command closes a file that is already closed.
THEOREM EngineIsSafe ==
  Spec => [](TypeOK /\ HandlerOwnsJob /\ PrintingIsTrue /\ CmdFromSd /\ FileStaysOpen)
  <1>1. IInv => TypeOK /\ HandlerOwnsJob /\ PrintingIsTrue /\ CmdFromSd /\ FileStaysOpen
    BY DEF IInv, LockInv, JobInv
  <1> QED BY <1>1, Invariance, PTL

\* A command that waits in do_pause never waits for a handler that waits for
\* the mutex the command holds.
THEOREM NobodyWaitsMutually == Spec => []NoMutualWait
  <1>1. IInv => NoMutualWait
    <2> SUFFICES ASSUME IInv, NEW g \in Client, g \in spinning
                 PROVE  /\ owner = g
                        /\ (\E i \in 1 .. Len(waiting) : waiting[i] = Work) => ~WaitsForHandler
      BY DEF NoMutualWait
    <2>1. owner = g
      BY DEF IInv, LockInv, Spinning
    <2>2. ASSUME \E i \in 1 .. Len(waiting) : waiting[i] = Work PROVE ~WaitsForHandler
      <3>1. work_timer = "on_error"
        BY <2>2 DEF IInv, LockInv, HandlersMutex, Occurs
      <3> QED BY <3>1 DEF WaitsForHandler, IInv, JobInv, CmdFromSd
    <2> QED BY <2>1, <2>2
  <1> QED BY <1>1, Invariance, PTL

-----------------------------------------------------------------------------
(* The life of a print job: what each step of the engine does to it.       *)

Line == IF current_file = NoFile THEN 0 ELSE file_position

\* A step that changes neither the statistics nor the file nor the line.
JobStutters == state' = state /\ current_file' = current_file /\ Line' = Line

JobStep == [Job!Next]_(Job!jobVars)

LEMMA Stutters == JobStutters => JobStep
  BY DEF JobStutters, JobStep, Job!jobVars, Line

-----------------------------------------------------------------------------
(* Commands.                                                               *)

LEMMA PauseStep ==
  ASSUME IInv, NEW g \in Greenlet, Pause(g)
  PROVE  JobStutters
  BY DEF Pause, PauseRefused, PauseAlreadySent, PauseBegins, PauseSent, StopBegins,
     sdVars, fileVars, statVars, JobStutters, Line

LEMMA ResumeStep ==
  ASSUME IInv, NEW g \in Greenlet, Resume(g) \/ ClearPause(g)
  PROVE  JobStutters
  BY DEF Resume, ClearPause, sdVars, fileVars, statVars, JobStutters, Line

LEMMA CancelStep ==
  ASSUME IInv, NEW g \in Greenlet, CancelPrint(g)
  PROVE  JobStutters \/ Job!Cancel \/ Job!Drop
  <1>1. CASE CancelNothing(g) \/ CancelNoFile(g) \/ CancelBegins(g)
    BY <1>1 DEF CancelNothing, CancelNoFile, CancelBegins, StopBegins, sdVars,
       fileVars, statVars, JobStutters, Line
  <1>2. CASE CancelFile(g)
    <2>1. started <=> state \in {"printing", "paused"}
      BY DEF IInv, JobInv, Started
    <2> QED BY <1>2, <2>1 DEF CancelFile, CloseFile, NoteFinish, statVars, Job!Cancel, Job!Drop
  <1> QED BY <1>1, <1>2 DEF CancelPrint

LEMMA ResetStep ==
  ASSUME IInv, NEW g \in Greenlet, SdcardResetFile(g)
  PROVE  JobStutters \/ Job!Load
  <1>1. CASE ResetRefused(g) \/ ResetBegins(g)
    BY <1>1 DEF ResetRefused, ResetBegins, StopBegins, sdVars, fileVars, statVars,
       JobStutters, Line
  <1>2. CASE ResetNoFile(g)
    BY <1>2 DEF ResetNoFile, ResetStats, IInv, JobInv, PrintingIsTrue, Job!Load
  <1>3. CASE ResetFile(g)
    <2>1. "SDCARD_RESET_FILE" \in Command
      BY DEF Command
    <2>2. state # "printing"
      BY <1>3, <2>1, StopReturned DEF ResetFile, IInv, JobInv, CmdFromSd, PrintingIsTrue
    <2> QED BY <1>3, <2>2 DEF ResetFile, CloseFile, ResetStats, Job!Load
  <1> QED BY <1>1, <1>2, <1>3 DEF SdcardResetFile

LEMMA LoadStep ==
  ASSUME IInv, NEW g \in Greenlet, NEW c \in Command, Busy(g, c) \/ LoadFile(g, c)
  PROVE  JobStutters \/ Job!Load
  <1>1. CASE Busy(g, c)
    BY <1>1 DEF Busy, sdVars, fileVars, statVars, JobStutters, Line
  <1>2. CASE LoadFile(g, c)
    <2>1. state # "printing"
      BY <1>2 DEF LoadFile, Active, IInv, JobInv, PrintingIsTrue
    <2>2. current_file' \in File \cup {NoFile} /\ file_position' = 0 /\ state' = "standby"
      BY <1>2 DEF LoadFile, ResetStats
    <2> QED BY <2>1, <2>2 DEF Job!Load
  <1> QED BY <1>1, <1>2

LEMMA M2xStep ==
  ASSUME IInv, NEW g \in Greenlet, M24(g) \/ M25Begins(g) \/ M25Returns(g) \/ M26(g)
  PROVE  JobStutters \/ Job!Seek
  <1>1. CASE M24(g) \/ M25Begins(g) \/ M25Returns(g)
    BY <1>1 DEF M24, M25Begins, M25Returns, StopBegins, fileVars, statVars, JobStutters, Line
  <1>2. CASE M26(g)
    <2>1. state # "printing" /\ file_position' \in 0 .. FileLines
          /\ state' = state /\ current_file' = current_file
      BY <1>2 DEF M26, Active, statVars, IInv, JobInv, PrintingIsTrue
    <2> QED BY <2>1 DEF Job!Seek, JobStutters, Line
  <1> QED BY <1>1, <1>2

LEMMA ExecuteStep ==
  ASSUME IInv, NEW g \in Greenlet, Execute(g)
  PROVE  JobStutters \/ Job!Cancel \/ Job!Drop \/ Job!Load \/ Job!Seek
  <1>1. {"SDCARD_PRINT_FILE", "M23", "M24", "M26"} \subseteq Command
    BY DEF Command
  <1>2. OtherCommand(g) \/ Crash(g) => JobStutters
    BY DEF OtherCommand, Crash, sdVars, fileVars, statVars, JobStutters, Line
  <1> QED BY <1>1, <1>2, PauseStep, ResumeStep, CancelStep, ResetStep, LoadStep, M2xStep
          DEF Execute

-----------------------------------------------------------------------------
(* The handler.                                                            *)

\* What the handler knows of its job while it feeds it.
LEMMA HandlersJob ==
  ASSUME IInv
  PROVE  /\ started <=> state \in {"printing", "paused"}
         /\ work_timer = "loop" => current_file # NoFile /\ state = "printing"
         /\ work_timer \in {"line", "on_error"} =>
              IF current_file = NoFile THEN must_pause_work /\ ~started
                                       ELSE state = "printing"
         /\ work_timer = "line" /\ current_file # NoFile =>
              next_file_position = file_position + 1 /\ file_position < FileLines
         /\ state = "printing" => work_timer \in {"loop", "line", "on_error"}
         /\ file_position \in Nat /\ FileLines \in Nat
  BY FileAssumption DEF IInv, TypeOK, JobInv, Started, HandlerOwnsJob, UnderGcode, LineAt,
     PrintingIsTrue

LEMMA HandlerStartsStep ==
  ASSUME IInv, HandlerStarts
  PROVE  JobStutters \/ Job!Start
  <1>1. state # "printing"
    BY HandlersJob DEF HandlerStarts
  <1> QED BY <1>1 DEF HandlerStarts, NoteStart, fileVars, statVars, JobStutters, Line, Job!Start

LEMMA HandlerEndsStep ==
  ASSUME IInv, HandlerStops \/ ReadFails \/ EndOfFile
  PROVE  Job!Pause \/ Job!Complete
  <1>1. /\ started /\ state = "printing" /\ current_file # NoFile /\ HandlerLeaves(FALSE)
        /\ file_position' = file_position
    BY HandlersJob DEF HandlerStops, ReadFails, EndOfFile, fileVars
  <1>2. CASE HandlerStops \/ ReadFails
    BY <1>1, <1>2 DEF HandlerStops, ReadFails, HandlerLeaves, NotePause, fileVars, Job!Pause
  <1>3. CASE EndOfFile
    BY <1>1, <1>3, HandlersJob DEF EndOfFile, HandlerLeaves, NoteFinish, Job!Complete
  <1> QED BY <1>2, <1>3

LEMMA LineDoneStep ==
  ASSUME IInv, LineDone
  PROVE  JobStutters \/ Job!Pause \/ Job!Complete \/ Job!Advance
  <1>1. work_timer = "line" /\ file_position' = next_file_position
    BY DEF LineDone
  <1>2. CASE must_pause_work /\ UNCHANGED current_file /\ HandlerLeaves(FALSE)
    <2>1. CASE current_file = NoFile
      BY <1>1, <1>2, <2>1, HandlersJob
         DEF HandlerLeaves, NoteFinish, statVars, JobStutters, Line
    <2>2. CASE current_file # NoFile
      BY <1>1, <1>2, <2>2, HandlersJob DEF HandlerLeaves, NotePause, Job!Pause
    <2> QED BY <2>1, <2>2
  <1>3. CASE /\ ~must_pause_work /\ next_file_position >= FileLines
             /\ current_file' = NoFile /\ HandlerLeaves(FALSE)
    BY <1>1, <1>3, HandlersJob DEF HandlerLeaves, NoteFinish, Job!Complete
  <1>4. CASE /\ ~must_pause_work /\ next_file_position < FileLines
             /\ UNCHANGED <<current_file, statVars>>
    BY <1>1, <1>4, HandlersJob DEF statVars, Job!Advance
  <1> QED BY <1>2, <1>3, <1>4 DEF LineDone

LEMMA LineCrashedStep ==
  ASSUME IInv, LineCrashed
  PROVE  JobStutters \/ Job!Pause
  <1>1. /\ work_timer = "line" /\ HandlerLeaves(FALSE)
        /\ current_file' = current_file /\ file_position' = file_position
    BY DEF LineCrashed, fileVars
  <1>2. CASE current_file = NoFile
    BY <1>1, <1>2, HandlersJob DEF HandlerLeaves, NoteFinish, statVars, JobStutters, Line
  <1>3. CASE current_file # NoFile
    BY <1>1, <1>3, HandlersJob DEF HandlerLeaves, NotePause, Job!Pause
  <1> QED BY <1>2, <1>3

LEMMA ErrorHandledStep ==
  ASSUME IInv, ErrorHandled
  PROVE  JobStutters \/ Job!Fail
  <1>1. /\ work_timer = "on_error" /\ HandlerLeaves(TRUE)
        /\ current_file' = current_file /\ file_position' = file_position
    BY DEF ErrorHandled, fileVars
  <1>2. CASE current_file = NoFile
    BY <1>1, <1>2, HandlersJob DEF HandlerLeaves, NoteFinish, statVars, JobStutters, Line
  <1>3. CASE current_file # NoFile
    BY <1>1, <1>3, HandlersJob DEF HandlerLeaves, NoteFinish, Job!Fail
  <1> QED BY <1>2, <1>3

-----------------------------------------------------------------------------
(* The refinement.                                                         *)

LEMMA NextStep ==
  ASSUME IInv, [Next]_vars
  PROVE  JobStep
  <1>1. CASE \E g \in Greenlet : Execute(g)
    BY <1>1, ExecuteStep, Stutters DEF JobStep, Job!Next, Job!InOrder
  <1>2. CASE Handler
    <2>1. CASE Dispatch \/ LineFailed
      BY <2>1, Stutters DEF Dispatch, LineFailed, fileVars, statVars, JobStutters, Line
    <2>2. CASE ~(Dispatch \/ LineFailed)
      BY <1>2, <2>2, HandlerStartsStep, HandlerEndsStep, LineDoneStep, LineCrashedStep,
         ErrorHandledStep, Stutters DEF Handler, JobStep, Job!Next, Job!InOrder
    <2> QED BY <2>1, <2>2
  <1>3. CASE RunoutEvent
    BY <1>3, Stutters DEF RunoutEvent, RunoutWhilePaused, RunoutBegins, RunoutAtOnce,
       RunoutWaited, RunoutScript, sdVars, fileVars, statVars, JobStutters, Line
  <1>4. CASE \/ \E c \in Client : Send(c)
             \/ \E g \in Client \cup {Sensor} : Finish(g)
             \/ Shutdown \/ UNCHANGED vars
    BY <1>4, Stutters DEF Send, Finish, Shutdown, vars, sdVars, fileVars, statVars,
       JobStutters, Line
  <1> QED BY <1>1, <1>2, <1>3, <1>4 DEF Next

\* Whatever the commands of clients, the lines of the file, a runout and a
\* shutdown do between each other, the job that print_stats shows moves only
\* along the steps of PrintJob.
THEOREM Refinement == Spec => ImplementsPrintJob
  <1>1. Init => Job!Init
    BY DEF Init, Job!Init
  <1>2. IInv /\ [Next]_vars => [Job!Next]_(Job!jobVars)
    BY NextStep DEF JobStep
  <1> QED BY <1>1, <1>2, Invariance, PTL DEF Spec, ImplementsPrintJob, Job!Spec

-----------------------------------------------------------------------------
(* Completion.                                                             *)

\* A job is complete only when the handler has fed its last line: neither a
\* cancelled nor a paused nor a failed job is ever shown as complete.
THEOREM CompletesAtEnd == Spec => CompleteAtEnd
  <1>1. ASSUME IInv, [Next]_vars, state' = "complete", state # "complete"
        PROVE  state = "printing" /\ file_position' >= FileLines
    <2>1. CASE EndOfFile \/ LineDone
      <3>1. CASE EndOfFile
        BY <1>1, <3>1, HandlersJob DEF EndOfFile
      <3>2. CASE LineDone
        <4>1. work_timer = "line" /\ file_position' = next_file_position
          BY <3>2 DEF LineDone
        <4>2. CASE must_pause_work
          <5>1. UNCHANGED current_file /\ HandlerLeaves(FALSE)
            BY <3>2, <4>2 DEF LineDone
          <5> QED BY <1>1, <4>1, <5>1, HandlersJob DEF HandlerLeaves, NoteFinish, NotePause, statVars
        <4>3. CASE ~must_pause_work
          <5>1. state = "printing"
            BY <1>1, <4>1, <4>3, HandlersJob
          <5>2. next_file_position >= FileLines
            BY <1>1, <3>2, <4>3 DEF LineDone, statVars
          <5> QED BY <4>1, <5>1, <5>2
        <4> QED BY <4>2, <4>3
      <3> QED BY <2>1, <3>1, <3>2
    <2>2. CASE \E g \in Greenlet : Execute(g)
      BY <1>1, <2>2, ExecuteStep DEF JobStutters, Job!Cancel, Job!Drop, Job!Load, Job!Seek
    <2>3. CASE Handler /\ ~(EndOfFile \/ LineDone)
      <3>1. CASE HandlerStops \/ ReadFails
        BY <1>1, <3>1, HandlersJob DEF HandlerStops, ReadFails, HandlerLeaves, NotePause, fileVars
      <3>2. CASE HandlerStarts \/ LineCrashed \/ ErrorHandled
        BY <1>1, <3>2, HandlerStartsStep, LineCrashedStep, ErrorHandledStep
           DEF JobStutters, Job!Start, Job!Pause, Job!Fail
      <3>3. CASE Dispatch \/ LineFailed
        BY <1>1, <3>3 DEF Dispatch, LineFailed, statVars
      <3> QED BY <2>3, <3>1, <3>2, <3>3 DEF Handler
    <2>4. CASE RunoutEvent
      BY <1>1, <2>4 DEF RunoutEvent, RunoutWhilePaused, RunoutBegins, RunoutAtOnce,
         RunoutWaited, RunoutScript, statVars
    <2>5. CASE \/ \E c \in Client : Send(c)
               \/ \E g \in Client \cup {Sensor} : Finish(g)
               \/ Shutdown \/ UNCHANGED vars
      BY <1>1, <2>5 DEF Send, Finish, Shutdown, vars, statVars
    <2> QED BY <1>1, <2>1, <2>2, <2>3, <2>4, <2>5 DEF Next
  <1>2. IInv /\ [Next]_vars
          => [state' = "complete" /\ state # "complete"
                => state = "printing" /\ file_position' >= FileLines]_vars
    BY <1>1
  <1> QED BY <1>2, Invariance, PTL DEF Spec, CompleteAtEnd

-----------------------------------------------------------------------------
(* Pausing, on a printer without a filament sensor.                        *)

\* A pause is sent only by a PAUSE command, which then pauses the printer,
\* unless the printer is shut down.
SentIsPaused == pause_command_sent => is_paused \/ shutdown

NoRunout == ~Runout /\ pc[Sensor] = "idle"

PInv == IInv /\ NoRunout /\ SentIsPaused

\* A command ends with an outcome, or begins to wait for the handler.
LEMMA ExecuteOutcome ==
  ASSUME NEW g \in Greenlet, Execute(g)
  PROVE  /\ owner = g
         /\ \/ pc' = pc /\ ~shutdown /\ WaitsForHandler
            \/ \E r \in Outcomes : Outcome(g, r)
         /\ Crash(g) \/ pc' = pc \/ Outcome(g, "ok") \/ Outcome(g, "error")
         /\ shutdown => shutdown'
  <1> USE DEF Executes, Outcomes, StopBegins, StopReturns
  <1>1. CASE Pause(g)
    BY <1>1 DEF Pause, PauseRefused, PauseAlreadySent, PauseBegins, PauseSent
  <1>2. CASE Resume(g) \/ ClearPause(g)
    BY <1>2 DEF Resume, ClearPause
  <1>3. CASE CancelPrint(g)
    BY <1>3 DEF CancelPrint, CancelNothing, CancelNoFile, CancelBegins, CancelFile
  <1>4. CASE SdcardResetFile(g)
    BY <1>4 DEF SdcardResetFile, ResetRefused, ResetNoFile, ResetBegins, ResetFile
  <1>5. CASE \E c \in Command : Busy(g, c) \/ LoadFile(g, c)
    BY <1>5 DEF Busy, LoadFile
  <1>6. CASE M24(g) \/ M25Begins(g) \/ M25Returns(g) \/ M26(g)
    BY <1>6 DEF M24, M25Begins, M25Returns, M26
  <1>7. CASE OtherCommand(g) \/ Crash(g)
    BY <1>7 DEF OtherCommand, Crash
  <1> QED BY <1>1, <1>2, <1>3, <1>4, <1>5, <1>6, <1>7 DEF Execute, Command

\* The sensor stays idle.
LEMMA NoRunoutStep ==
  ASSUME IInv, NoRunout, [Next]_vars
  PROVE  NoRunout' /\ ~RunoutEvent
  <1> USE DEF NoRunout
  <1>1. pc \in [Greenlet -> Activity] /\ owner # Sensor /\ "idle" \notin Outcomes
    BY Greenlets DEF IInv, TypeOK, LockInv, Commanded, Command, Outcomes
  <1>2. ~RunoutEvent
    BY DEF RunoutEvent, RunoutWhilePaused, RunoutBegins, RunoutAtOnce, RunoutWaited,
       RunoutScript
  <1>3. \A g \in Greenlet : Execute(g) => g # Sensor /\
            (pc' = pc \/ \E r \in Outcomes : Outcome(g, r))
    BY <1>1, ExecuteOutcome
  <1>4. CASE \E g \in Greenlet : Execute(g)
    BY <1>1, <1>2, <1>3, <1>4, Greenlets DEF Outcome
  <1>5. CASE \E c \in Client : Send(c)
    BY <1>1, <1>2, <1>5, Greenlets DEF Send, Outcome
  <1>6. CASE \E g \in Client \cup {Sensor} : Finish(g)
    BY <1>1, <1>2, <1>6, Greenlets DEF Finish, Outcome
  <1>7. CASE Handler
    BY <1>1, <1>2, <1>7, Greenlets DEF Handler, HandlerStarts, HandlerStops, ReadFails,
       EndOfFile, Dispatch, LineDone, LineCrashed, LineFailed, ErrorHandled, Outcome
  <1>8. CASE Shutdown \/ UNCHANGED vars
    BY <1>2, <1>8 DEF Shutdown, vars
  <1> QED BY <1>2, <1>4, <1>5, <1>6, <1>7, <1>8 DEF Next

\* What a command does to the pause state: only PAUSE sets it.
LEMMA PauseState ==
  ASSUME PInv, NEW g \in Greenlet, Execute(g)
  PROVE  /\ SentIsPaused'
         /\ ~is_paused /\ is_paused' => ~Active' \/ must_pause_work'
  <1>1. "PAUSE" \in Command /\ is_paused \in BOOLEAN /\ shutdown \in BOOLEAN
    BY DEF Command, PInv, IInv, TypeOK
  <1>2. CASE Pause(g)
    <2>1. CASE PauseRefused(g)
      BY <2>1 DEF PauseRefused, pauseVars, PInv, SentIsPaused
    <2>2. CASE PauseAlreadySent(g)
      BY <2>2 DEF PauseAlreadySent, Executes, PInv, SentIsPaused
    <2>3. CASE PauseBegins(g)
      BY <2>3 DEF PauseBegins, StopBegins, PInv, SentIsPaused
    <2>4. CASE PauseSent(g)
      <3>1. work_timer' # "none" => must_pause_work'
        BY <1>1, <2>4, StopReturned DEF PauseSent, PInv
      <3> QED BY <1>1, <2>4, <3>1 DEF PauseSent, StopReturns, SentIsPaused, Active
    <2> QED BY <1>2, <2>1, <2>2, <2>3, <2>4 DEF Pause
  <1>3. CASE Resume(g)
    BY <1>1, <1>3 DEF Resume, pauseVars, PInv, SentIsPaused
  <1>4. CASE ClearPause(g)
    BY <1>4 DEF ClearPause, SentIsPaused
  <1>5. CASE CancelPrint(g)
    <2>1. CASE CancelBegins(g)
      BY <2>1 DEF CancelBegins, StopBegins, PInv, SentIsPaused
    <2>2. CASE CancelNothing(g) \/ CancelNoFile(g) \/ CancelFile(g)
      BY <2>2 DEF CancelNothing, CancelNoFile, CancelFile, SentIsPaused
    <2> QED BY <1>5, <2>1, <2>2 DEF CancelPrint
  <1>6. CASE SdcardResetFile(g)
    BY <1>6 DEF SdcardResetFile, ResetRefused, ResetNoFile, ResetBegins, ResetFile,
       StopBegins, StopReturns, pauseVars, PInv, SentIsPaused
  <1>7. CASE \E c \in Command : Busy(g, c) \/ LoadFile(g, c)
    BY <1>7 DEF Busy, LoadFile, pauseVars, PInv, SentIsPaused
  <1>8. CASE M24(g) \/ M25Begins(g) \/ M25Returns(g) \/ M26(g)
    BY <1>8 DEF M24, M25Begins, M25Returns, M26, StopBegins, StopReturns, pauseVars,
       PInv, SentIsPaused
  <1>9. CASE OtherCommand(g) \/ Crash(g)
    BY <1>9 DEF OtherCommand, Crash, pauseVars, PInv, SentIsPaused
  <1> QED BY <1>2, <1>3, <1>4, <1>5, <1>6, <1>7, <1>8, <1>9 DEF Execute, Command

LEMMA PauseStateElsewhere ==
  ASSUME PInv, [Next]_vars, ~ \E g \in Greenlet : Execute(g)
  PROVE  SentIsPaused' /\ is_paused' = is_paused
  <1>1. ~RunoutEvent
    BY NoRunoutStep DEF PInv
  <1>2. CASE \/ \E c \in Client : Send(c)
             \/ \E g \in Client \cup {Sensor} : Finish(g)
             \/ Shutdown \/ UNCHANGED vars
    BY <1>2 DEF Send, Finish, Shutdown, vars, pauseVars, PInv, SentIsPaused
  <1>3. CASE Handler
    <2>1. UNCHANGED <<pauseVars, shutdown>>
      BY <1>3 DEF Handler, HandlerStarts, HandlerStops, ReadFails, EndOfFile, Dispatch,
         LineDone, LineCrashed, LineFailed, ErrorHandled
    <2> QED BY <2>1 DEF pauseVars, PInv, SentIsPaused
  <1> QED BY <1>1, <1>2, <1>3 DEF Next

\* Without a filament sensor, PAUSE leaves no job printing on behind it: when
\* the printer becomes paused the handler is gone or told to stop.
THEOREM PauseStops == ~Runout /\ Spec => PauseStopsJob
  <1>1. ~Runout /\ Init => PInv
    BY InitIInv, Greenlets DEF PInv, NoRunout, SentIsPaused, Init
  <1>2. PInv /\ [Next]_vars => PInv'
    BY NextIInv, NoRunoutStep, PauseState, PauseStateElsewhere DEF PInv
  <1>3. PInv /\ [Next]_vars
          => [~is_paused /\ is_paused' => ~Active' \/ must_pause_work']_vars
    BY PauseState, PauseStateElsewhere
  <1> QED BY <1>1, <1>2, <1>3, PTL DEF Spec, PauseStopsJob
-----------------------------------------------------------------------------
(* Cancelling, on a printer without a filament sensor and with a card that *)
(* can be read, when PAUSE is the one way to stop a job that goes on later *)
(* and clients do not take a pause back behind its job.                    *)

PausesOnly ==
  /\ ~Runout /\ ~ReadErrors
  /\ ClientCommand \cap {"CLEAR_PAUSE", "M25"} = {}
  /\ "M25" \notin LineCommand

CommandsSent ==
  /\ \A c \in Client : pc[c] \notin {"CLEAR_PAUSE", "M25"}
  /\ pc[Work] # "M25"

\* The printer is paused with a job, or the one who stops it is about to say so.
Halted == (sd_paused /\ is_paused) \/ spinning # {}

SpinnersMark == \A g \in spinning : pc[g] = "PAUSE" => sd_paused

CrashShutsDown == pc[Work] = "crash" => shutdown

\* A line is not executed any more once its job is told to stop.
LineNotStopped == ~shutdown /\ pc[Work] \in Command => ~must_pause_work

PausedHasFile == state = "paused" => current_file # NoFile

\* A job that is told to stop, or that has stopped, can be resumed or is
\* being cancelled.
StopIsPause ==
  ~shutdown =>
    /\ Active /\ must_pause_work /\ current_file # NoFile => Halted
    /\ ~Active /\ state = "paused" => Halted

JobPaused == PausedHasFile /\ StopIsPause /\ SpinnersMark

\* The inductive invariant that lets CANCEL_PRINT find every job.
CInv == PInv /\ CommandsSent /\ CrashShutsDown /\ LineNotStopped /\ JobPaused

\* Who does not wait for the handler owns the mutex, or nobody waits for it.
LEMMA AloneInPause ==
  ASSUME CInv
  PROVE  /\ \A g \in spinning : g = owner /\ pc[g] \in {"PAUSE", "CANCEL_PRINT", "SDCARD_RESET_FILE"}
         /\ owner \notin spinning => spinning = {}
         /\ spinning \subseteq Greenlet
         /\ \A g \in Greenlet : g \in Client \/ g = Work \/ g = Sensor
         /\ Work \notin spinning /\ Sensor \notin spinning /\ owner # Sensor
  <1>1. spinning \subseteq Greenlet
    BY DEF CInv, PInv, IInv, TypeOK
  <1>2. Work \notin spinning /\ Sensor \notin spinning /\ owner # Sensor
    BY DEF CInv, PInv, NoRunout, IInv, LockInv, Spinning, Commanded, Command, Outcomes
  <1>3. ASSUME NEW g \in spinning
        PROVE  g = owner /\ pc[g] \in {"PAUSE", "CANCEL_PRINT", "SDCARD_RESET_FILE"}
    BY <1>1, <1>2, Greenlets DEF CInv, PInv, IInv, LockInv, Spinning, CommandsSent
  <1> QED BY <1>1, <1>2, <1>3, Greenlets

\* The state of a job while a command or the handler leaves it alone.
LEMMA JobPausedStays ==
  ASSUME JobPaused, UNCHANGED <<state, current_file, sd_paused, is_paused, spinning,
                                must_pause_work, work_timer>>,
         shutdown => shutdown', \A g \in spinning : pc'[g] = pc[g]
  PROVE  JobPaused'
  BY DEF JobPaused, PausedHasFile, StopIsPause, SpinnersMark, Halted, Active

\* A command that is refused, or has nothing to do with the job.
LEMMA EndsInPeace ==
  ASSUME CInv, NEW g \in Greenlet, owner = g, g \notin spinning,
         UNCHANGED <<sdVars, pauseVars, statVars, spinning>>, shutdown => shutdown'
  PROVE  JobPaused'
  <1>1. spinning = {}
    BY AloneInPause
  <1> QED BY <1>1, JobPausedStays DEF CInv, sdVars, fileVars, pauseVars, statVars

LEMMA PauseKeepsJob ==
  ASSUME CInv, NEW g \in Greenlet, Pause(g)
  PROVE  JobPaused'
  <1>1. CASE PauseRefused(g)
    BY <1>1, EndsInPeace DEF PauseRefused, Executes
  <1>2. CASE PauseAlreadySent(g)
    <2>1. spinning = {} /\ ~Halted
      BY <1>2, AloneInPause DEF PauseAlreadySent, Executes, Halted
    <2> QED BY <1>2, <2>1 DEF PauseAlreadySent, Executes, CInv, JobPaused, PausedHasFile,
            StopIsPause, SpinnersMark, sdVars, fileVars, statVars, Active
  <1>3. CASE PauseBegins(g)
    <2>1. spinning' # {} /\ sd_paused' = TRUE /\ state' = state /\ current_file' = current_file
      BY <1>3 DEF PauseBegins, StopBegins, statVars, fileVars
    <2> QED BY <2>1 DEF CInv, JobPaused, PausedHasFile, StopIsPause, SpinnersMark, Halted
  <1>4. CASE PauseSent(g)
    <2>1. spinning' = {} /\ state' = state /\ current_file' = current_file
          /\ work_timer' = work_timer /\ shutdown' = shutdown
      BY <1>4, AloneInPause DEF PauseSent, StopReturns, statVars, fileVars
    <2>2. CASE shutdown
      BY <2>1, <2>2 DEF CInv, JobPaused, PausedHasFile, StopIsPause, SpinnersMark
    <2>3. CASE ~shutdown /\ g \in spinning
      <3>1. is_paused' = TRUE /\ sd_paused' = TRUE
        BY <1>4, <2>3 DEF PauseSent, StopReturns, CInv, JobPaused, SpinnersMark
      <3> QED BY <2>1, <3>1 DEF CInv, JobPaused, PausedHasFile, StopIsPause, SpinnersMark,
              Halted
    <2>4. CASE ~shutdown /\ g \notin spinning
      <3>1. spinning = {} /\ ~Halted
        BY <1>4, <2>4, AloneInPause DEF PauseSent, StopReturns, Halted
      <3>2. is_paused' = TRUE /\ (Active => sd_paused' = TRUE)
        BY <1>4, <2>4 DEF PauseSent
      <3>3. StopIsPause'
        BY <2>1, <2>4, <3>1, <3>2 DEF CInv, JobPaused, StopIsPause, Halted, Active
      <3> QED BY <2>1, <3>3 DEF CInv, JobPaused, PausedHasFile, SpinnersMark
    <2> QED BY <2>2, <2>3, <2>4 DEF CInv, PInv, IInv, TypeOK
  <1> QED BY <1>1, <1>2, <1>3, <1>4 DEF Pause

\* A job that is armed is not told to stop yet.
LEMMA ArmedJob ==
  ASSUME CInv, work_timer' = "armed", must_pause_work' = FALSE, spinning' = {},
         \/ state' = state /\ current_file' = current_file
         \/ state' = "standby"
  PROVE  JobPaused'
  BY DEF CInv, JobPaused, PausedHasFile, StopIsPause, SpinnersMark, Active

LEMMA ResumeKeepsJob ==
  ASSUME CInv, NEW g \in Greenlet, Resume(g)
  PROVE  JobPaused'
  <1>1. owner = g /\ g \notin spinning /\ spinning = {} /\ spinning' = {} /\ shutdown' = shutdown
        /\ state' = state
    BY AloneInPause DEF Resume, Executes, statVars
  <1>2. CASE UNCHANGED <<sdVars, pauseVars>>
    BY <1>1, <1>2, EndsInPeace DEF Resume
  <1>3. CASE Arm /\ UNCHANGED fileVars
    BY <1>1, <1>3, ArmedJob DEF Arm, fileVars
  <1>4. CASE ~sd_paused /\ UNCHANGED <<sdVars, sd_paused>>
    <2>1. ~Halted
      BY <1>1, <1>4 DEF Halted
    <2> QED BY <1>1, <1>4, <2>1 DEF CInv, JobPaused, PausedHasFile, StopIsPause,
            SpinnersMark, sdVars, fileVars, Active
  <1> QED BY <1>2, <1>3, <1>4 DEF Resume

LEMMA ClearKeepsJob ==
  ASSUME CInv, NEW g \in Greenlet, ClearPause(g)
  PROVE  JobPaused'
  <1>1. owner = g /\ g \notin spinning /\ spinning = {} /\ pc[g] = "CLEAR_PAUSE" /\ ~shutdown
    BY AloneInPause DEF ClearPause, Executes
  <1>2. g = Work
    BY <1>1, AloneInPause DEF CInv, CommandsSent
  <1>3. Active /\ ~must_pause_work
    BY <1>1, <1>2 DEF CInv, LineNotStopped, Command, PInv, IInv, LockInv, HandlersMutex, Active
  <1> QED BY <1>1, <1>3 DEF ClearPause, CInv, JobPaused, PausedHasFile, StopIsPause,
          SpinnersMark, sdVars, fileVars, statVars, Active

\* A job whose file is closed and whose end is noted is not paused.
LEMMA ClosedJob ==
  ASSUME CInv, spinning' = {}, current_file' = NoFile, state' # "paused"
  PROVE  JobPaused'
  BY DEF JobPaused, PausedHasFile, StopIsPause, SpinnersMark

LEMMA FinishEndsJob ==
  ASSUME CInv, NEW outcome \in {"complete", "cancelled", "error"}, NoteFinish(outcome)
  PROVE  state' \notin {"printing", "paused"}
  BY DEF CInv, PInv, IInv, JobInv, Started, NoteFinish, statVars

LEMMA WaitKeepsJob ==
  ASSUME CInv, NEW g \in Greenlet, NEW c, c # "PAUSE", StopBegins(g, c), UNCHANGED sd_paused
  PROVE  JobPaused'
  <1>1. spinning' # {} /\ state' = state /\ current_file' = current_file
        /\ \A h \in spinning' : pc'[h] = "PAUSE" => h \in spinning /\ pc[h] = "PAUSE"
    BY DEF StopBegins, Executes, statVars, fileVars
  <1> QED BY <1>1 DEF CInv, JobPaused, PausedHasFile, StopIsPause, SpinnersMark, Halted

LEMMA CancelKeepsJob ==
  ASSUME CInv, NEW g \in Greenlet, CancelPrint(g)
  PROVE  /\ JobPaused'
         /\ pc'[g] = "ok" => state' \notin {"printing", "paused"}
  <1>1. CASE CancelNothing(g)
    <2>1. spinning = {} /\ ~Halted /\ ~shutdown /\ ~Active
      BY <1>1, AloneInPause DEF CancelNothing, Executes, Halted
    <2>2. state \notin {"printing", "paused"}
      BY <2>1 DEF CInv, JobPaused, StopIsPause, PInv, IInv, JobInv, PrintingIsTrue, Active
    <2> QED BY <1>1, <2>1, <2>2 DEF CancelNothing, CInv, JobPaused, PausedHasFile,
            StopIsPause, SpinnersMark, sdVars, fileVars, statVars, Active
  <1>2. CASE CancelNoFile(g)
    <2>1. spinning = {} /\ current_file = NoFile
      BY <1>2, AloneInPause DEF CancelNoFile, Executes
    <2>2. state \notin {"printing", "paused"}
      BY <2>1 DEF CInv, JobPaused, PausedHasFile, PInv, IInv, JobInv, PrintingIsTrue
    <2> QED BY <1>2, <2>1, <2>2, ClosedJob DEF CancelNoFile, statVars
  <1>3. CASE CancelBegins(g)
    <2>1. JobPaused'
      BY <1>3, WaitKeepsJob DEF CancelBegins
    <2>2. pc'[g] = "CANCEL_PRINT"
      BY <1>3 DEF CancelBegins, StopBegins, Executes
    <2> QED BY <2>1, <2>2
  <1>4. CASE CancelFile(g)
    <2>1. spinning' = {} /\ current_file' = NoFile
      BY <1>4, AloneInPause DEF CancelFile, StopReturns, CloseFile
    <2>2. state' \notin {"printing", "paused"}
      BY <1>4, FinishEndsJob DEF CancelFile
    <2> QED BY <2>1, <2>2, ClosedJob
  <1> QED BY <1>1, <1>2, <1>3, <1>4 DEF CancelPrint

LEMMA ResetKeepsJob ==
  ASSUME CInv, NEW g \in Greenlet, SdcardResetFile(g)
  PROVE  JobPaused'
  <1>1. CASE ResetRefused(g)
    BY <1>1, EndsInPeace DEF ResetRefused, Executes
  <1>2. CASE ResetNoFile(g)
    BY <1>2, AloneInPause, ClosedJob DEF ResetNoFile, Executes, ResetStats
  <1>3. CASE ResetBegins(g)
    BY <1>3, WaitKeepsJob DEF ResetBegins
  <1>4. CASE ResetFile(g)
    BY <1>4, AloneInPause, ClosedJob DEF ResetFile, StopReturns, CloseFile, ResetStats
  <1> QED BY <1>1, <1>2, <1>3, <1>4 DEF SdcardResetFile

LEMMA FileKeepsJob ==
  ASSUME CInv, NEW g \in Greenlet, NEW c \in {"SDCARD_PRINT_FILE", "M23", "M24", "M26"},
         Busy(g, c) \/ LoadFile(g, c) \/ M24(g) \/ M26(g)
  PROVE  JobPaused'
  <1>1. owner = g /\ g \notin spinning /\ spinning = {} /\ spinning' = {} /\ shutdown' = shutdown
    BY AloneInPause DEF Busy, LoadFile, M24, M26, Executes
  <1>2. CASE Busy(g, c)
    BY <1>1, <1>2, EndsInPeace DEF Busy
  <1>3. CASE LoadFile(g, c)
    BY <1>1, <1>3 DEF LoadFile, ResetStats, Arm, JobPaused, PausedHasFile, StopIsPause,
       SpinnersMark, Active
  <1>4. CASE M24(g)
    BY <1>1, <1>4, ArmedJob DEF M24, Arm, fileVars, statVars
  <1>5. CASE M26(g)
    BY <1>1, <1>5, JobPausedStays DEF M26, pauseVars, statVars, CInv
  <1> QED BY <1>2, <1>3, <1>4, <1>5

LEMMA ExecuteKeepsJob ==
  ASSUME CInv, NEW g \in Greenlet, Execute(g)
  PROVE  JobPaused'
  <1>1. CASE Pause(g) \/ Resume(g) \/ ClearPause(g) \/ CancelPrint(g) \/ SdcardResetFile(g)
    BY <1>1, PauseKeepsJob, ResumeKeepsJob, ClearKeepsJob, CancelKeepsJob, ResetKeepsJob
  <1>2. CASE \E c \in {"SDCARD_PRINT_FILE", "M23", "M24", "M26"} :
               Busy(g, c) \/ LoadFile(g, c) \/ M24(g) \/ M26(g)
    BY <1>2, FileKeepsJob
  <1>3. CASE M25Begins(g) \/ M25Returns(g)
    <2>1. owner = g /\ pc[g] = "M25"
      BY <1>3 DEF M25Begins, M25Returns, StopBegins, StopReturns, Executes
    <2> QED BY <2>1, AloneInPause DEF CInv, CommandsSent
  <1>4. CASE OtherCommand(g)
    <2>1. owner = g /\ shutdown' = shutdown
      BY <1>4 DEF OtherCommand
    <2>2. g \notin spinning
      BY <1>4, AloneInPause DEF OtherCommand
    <2> QED BY <1>4, <2>1, <2>2, EndsInPeace DEF OtherCommand
  <1>5. CASE Crash(g)
    <2>1. shutdown' /\ state' = state /\ current_file' = current_file /\ spinning = {}
          /\ spinning' = spinning
      BY <1>5, AloneInPause DEF Crash, statVars, fileVars
    <2> QED BY <2>1 DEF CInv, JobPaused, PausedHasFile, StopIsPause, SpinnersMark
  <1> QED BY <1>1, <1>2, <1>3, <1>4, <1>5 DEF Execute
\* What a command leaves of the facts about who executes what.
LEMMA ExecuteKeepsRest ==
  ASSUME CInv, NEW g \in Greenlet, Execute(g)
  PROVE  CommandsSent' /\ CrashShutsDown' /\ LineNotStopped'
  <1>1. /\ owner = g /\ pc \in [Greenlet -> Activity] /\ (shutdown => shutdown')
        /\ \/ pc' = pc /\ ~shutdown /\ WaitsForHandler
           \/ \E r \in Outcomes : Outcome(g, r)
    BY ExecuteOutcome DEF CInv, PInv, IInv, TypeOK
  <1>2. CommandsSent'
    BY <1>1, Greenlets DEF CInv, CommandsSent, Outcome, Outcomes
  <1>3. CrashShutsDown'
    <2>1. CASE Crash(g)
      BY <2>1 DEF Crash, CrashShutsDown
    <2>2. CASE ~Crash(g)
      <3>1. pc' = pc \/ Outcome(g, "ok") \/ Outcome(g, "error")
        BY <2>2, ExecuteOutcome
      <3> QED BY <1>1, <3>1, Greenlets DEF CInv, CrashShutsDown, Outcome
    <2> QED BY <2>1, <2>2
  <1>4. LineNotStopped'
    <2>1. CASE g = Work
      <3>1. ~WaitsForHandler
        BY <1>1, <2>1 DEF CInv, PInv, IInv, LockInv, JobInv, HandlersMutex, CmdFromSd,
           WaitsForHandler
      <3>2. pc'[Work] \in Outcomes
        BY <1>1, <2>1, <3>1, Greenlets DEF Outcome
      <3> QED BY <3>2 DEF LineNotStopped, Command, Outcomes
    <2>2. CASE g # Work
      <3>1. pc[Work] \notin Command /\ pc'[Work] = pc[Work]
        BY <1>1, <2>2, Greenlets DEF CInv, PInv, IInv, LockInv, HandlersMutex, Outcome,
           Command
      <3> QED BY <3>1 DEF LineNotStopped
    <2> QED BY <2>1, <2>2
  <1> QED BY <1>2, <1>3, <1>4

\* What steps that are not the handler's and execute nothing leave.
LEMMA OutsideKeepsJob ==
  ASSUME CInv, PausesOnly,
         \/ \E c \in Client : Send(c)
         \/ \E g \in Client \cup {Sensor} : Finish(g)
         \/ Shutdown \/ UNCHANGED vars
  PROVE  CommandsSent' /\ CrashShutsDown' /\ LineNotStopped' /\ JobPaused'
  <1>1. pc \in [Greenlet -> Activity]
    BY DEF CInv, PInv, IInv, TypeOK
  <1>2. ASSUME NEW c \in Client, Send(c)
        PROVE  CommandsSent' /\ CrashShutsDown' /\ LineNotStopped' /\ JobPaused'
    <2>1. PICK command \in ClientCommand : Outcome(c, command)
      BY <1>2 DEF Send
    <2>2. command \notin {"CLEAR_PAUSE", "M25"} /\ pc[c] = "idle" /\ c \notin spinning
          /\ UNCHANGED <<sdVars, pauseVars, statVars, spinning, shutdown>>
      BY <1>2, AloneInPause DEF PausesOnly, Send
    <2>3. \A h \in Greenlet : h # c => pc'[h] = pc[h]
      BY <1>1, <2>1 DEF Outcome
    <2>4. pc'[c] = command
      BY <1>1, <2>1, Greenlets DEF Outcome
    <2>5. CommandsSent' /\ CrashShutsDown' /\ LineNotStopped'
      BY <2>2, <2>3, <2>4, Greenlets DEF CInv, CommandsSent, CrashShutsDown, LineNotStopped,
         sdVars
    <2>6. JobPaused'
      BY <2>2, <2>3, AloneInPause, JobPausedStays DEF CInv, sdVars, fileVars, pauseVars, statVars
    <2> QED BY <2>5, <2>6
  <1>3. ASSUME NEW g \in Client \cup {Sensor}, Finish(g)
        PROVE  CommandsSent' /\ CrashShutsDown' /\ LineNotStopped' /\ JobPaused'
    <2>1. pc[g] \in Outcomes /\ g \notin spinning /\ g # Work /\ g \in Greenlet
          /\ UNCHANGED <<sdVars, pauseVars, statVars, spinning, shutdown>>
      BY <1>3, AloneInPause, Greenlets DEF Finish, Outcomes
    <2>3. (\A h \in Greenlet : h # g => pc'[h] = pc[h]) /\ pc'[g] = "idle"
      BY <1>1, <1>3, <2>1 DEF Finish, Outcome
    <2>5. CommandsSent' /\ CrashShutsDown' /\ LineNotStopped'
      BY <2>1, <2>3, Greenlets DEF CInv, CommandsSent, CrashShutsDown, LineNotStopped,
         sdVars
    <2>6. JobPaused'
      BY <2>1, <2>3, AloneInPause, JobPausedStays DEF CInv, sdVars, fileVars, pauseVars, statVars
    <2> QED BY <2>5, <2>6
  <1>4. CASE Shutdown
    <2>1. shutdown' /\ pc' = pc /\ UNCHANGED <<state, current_file, sd_paused, spinning>>
      BY <1>4 DEF Shutdown, statVars, fileVars, pauseVars
    <2> QED BY <2>1 DEF CInv, CommandsSent, CrashShutsDown, LineNotStopped, JobPaused,
            PausedHasFile, StopIsPause, SpinnersMark
  <1>5. CASE UNCHANGED vars
    BY <1>5, JobPausedStays DEF CInv, CommandsSent, CrashShutsDown, LineNotStopped, vars,
       sdVars, fileVars, pauseVars, statVars
  <1> QED BY <1>2, <1>3, <1>4, <1>5

\* The handler leaves: a job that stops was told to, and is paused.
LEMMA LeftJob ==
  ASSUME CInv, NEW failed \in BOOLEAN, HandlerLeaves(failed), Active,
         UNCHANGED <<pauseVars, spinning, shutdown>>,
         \A g \in spinning : pc'[g] = pc[g],
         failed \/ current_file' = NoFile \/ shutdown
           \/ (must_pause_work /\ current_file' = current_file)
  PROVE  JobPaused'
  <1>1. work_timer' = "none" /\ SpinnersMark'
    BY DEF HandlerLeaves, CInv, JobPaused, SpinnersMark, pauseVars
  <1>2. Halted' = Halted
    BY DEF Halted, pauseVars
  <1>3. CASE failed
    <2>1. state' # "paused"
      BY <1>3, FinishEndsJob DEF HandlerLeaves
    <2> QED BY <1>1, <2>1 DEF JobPaused, PausedHasFile, StopIsPause, Active
  <1>4. CASE ~failed /\ current_file' = NoFile
    <2>1. state' # "paused"
      BY <1>4, FinishEndsJob DEF HandlerLeaves
    <2> QED BY <1>1, <2>1 DEF JobPaused, PausedHasFile, StopIsPause, Active
  <1>5. CASE ~failed /\ current_file' # NoFile
    BY <1>1, <1>2, <1>5 DEF CInv, JobPaused, PausedHasFile, StopIsPause, Active
  <1> QED BY <1>3, <1>4, <1>5

LEMMA HandlerKeepsJob ==
  ASSUME CInv, PausesOnly, Handler
  PROVE  CommandsSent' /\ CrashShutsDown' /\ LineNotStopped' /\ JobPaused'
  <1>1. /\ pc \in [Greenlet -> Activity] /\ shutdown' = shutdown /\ UNCHANGED pauseVars
        /\ spinning' = spinning /\ must_pause_work' = must_pause_work
    BY DEF Handler, HandlerStarts, HandlerStops, ReadFails, EndOfFile, Dispatch,
       LineDone, LineCrashed, LineFailed, ErrorHandled, CInv, PInv, IInv, TypeOK
  <1>2. \/ pc' = pc \/ Outcome(Work, "idle")
        \/ ~must_pause_work /\ \E command \in LineCommand : Outcome(Work, command)
    BY DEF Handler, HandlerStarts, HandlerStops, ReadFails, EndOfFile, Dispatch,
       LineDone, LineCrashed, LineFailed, ErrorHandled
  <1>3. \A h \in Greenlet : h # Work => pc'[h] = pc[h]
    BY <1>1, <1>2 DEF Outcome
  <1>4. \/ pc'[Work] = pc[Work] \/ pc'[Work] = "idle"
        \/ ~must_pause_work /\ pc'[Work] \in LineCommand
    BY <1>1, <1>2, Greenlets DEF Outcome
  <1>5. CommandsSent' /\ CrashShutsDown' /\ LineNotStopped'
    <2>1. "M25" \notin LineCommand /\ "crash" \notin LineCommand
      BY CommandAssumption DEF PausesOnly, Command
    <2> QED BY <1>1, <1>3, <1>4, <2>1, Greenlets DEF CInv, CommandsSent, CrashShutsDown,
            LineNotStopped, Command
  <1> SUFFICES JobPaused'
    BY <1>5
  <1>6. \A h \in spinning : pc'[h] = pc[h]
    BY <1>3, AloneInPause
  <1>7. CASE HandlerStarts
    <2>1. CASE current_file = NoFile
      <3>1. state' = state /\ current_file' = NoFile /\ work_timer' = "none"
        BY <1>7, <2>1 DEF HandlerStarts, statVars, fileVars
      <3> QED BY <1>1, <1>6, <3>1, <2>1 DEF CInv, JobPaused, PausedHasFile, StopIsPause,
              SpinnersMark, pauseVars
    <2>2. CASE current_file # NoFile
      <3>1. state' = "printing" /\ current_file' = current_file /\ work_timer' = "loop" /\ Active
        BY <1>7, <2>2 DEF HandlerStarts, NoteStart, fileVars, Active
      <3> QED BY <1>1, <1>6, <3>1 DEF CInv, JobPaused, PausedHasFile, StopIsPause,
              SpinnersMark, pauseVars, Halted, Active
    <2> QED BY <2>1, <2>2
  <1>8. CASE HandlerStops
    BY <1>1, <1>6, <1>8, LeftJob DEF HandlerStops, fileVars, Active
  <1>9. CASE ReadFails
    BY <1>9 DEF ReadFails, PausesOnly
  <1>10. CASE EndOfFile
    BY <1>1, <1>6, <1>10, LeftJob DEF EndOfFile, Active
  <1>11. CASE Dispatch
    BY <1>1, <1>6, <1>11 DEF Dispatch, CInv, JobPaused, PausedHasFile, StopIsPause,
       SpinnersMark, pauseVars, statVars, Active
  <1>12. CASE LineDone
    <2>1. Active
      BY <1>12 DEF LineDone, Active
    <2>2. CASE /\ HandlerLeaves(FALSE)
               /\ current_file' = NoFile \/ (must_pause_work /\ current_file' = current_file)
      BY <1>1, <1>6, <2>1, <2>2, LeftJob
    <2>3. CASE ~must_pause_work /\ work_timer' = "loop" /\ UNCHANGED <<current_file, statVars>>
      BY <1>1, <1>6, <2>3 DEF CInv, JobPaused, PausedHasFile, StopIsPause,
         SpinnersMark, pauseVars, statVars, Active
    <2> QED BY <1>12, <2>2, <2>3 DEF LineDone
  <1>13. CASE LineCrashed
    <2>1. shutdown /\ Active
      BY <1>13 DEF LineCrashed, CInv, CrashShutsDown, Active
    <2> QED BY <1>1, <1>6, <1>13, <2>1, LeftJob DEF LineCrashed
  <1>14. CASE LineFailed
    BY <1>1, <1>6, <1>14 DEF LineFailed, CInv, JobPaused, PausedHasFile, StopIsPause,
       SpinnersMark, pauseVars, statVars, fileVars, Halted, Active
  <1>15. CASE ErrorHandled
    BY <1>1, <1>6, <1>15, LeftJob DEF ErrorHandled, Active
  <1> QED
    BY <1>7, <1>8, <1>9, <1>10, <1>11, <1>12, <1>13, <1>14, <1>15 DEF Handler

LEMMA CancelInvariant == ASSUME PausesOnly PROVE Spec => []CInv
  <1>1. Init => CInv
    <2>1. Init => PInv
      BY InitIInv, Greenlets DEF PInv, NoRunout, SentIsPaused, Init, PausesOnly
    <2>2. Init => CommandsSent /\ CrashShutsDown /\ LineNotStopped
      BY Greenlets DEF Init, CommandsSent, CrashShutsDown, LineNotStopped, Command
    <2>3. Init => JobPaused
      BY DEF Init, JobPaused, PausedHasFile, StopIsPause, SpinnersMark, Active
    <2> QED BY <2>1, <2>2, <2>3 DEF CInv
  <1>2. ASSUME CInv, [Next]_vars PROVE CInv'
    <2>1. PInv' /\ ~RunoutEvent
      BY <1>2, NextIInv, NoRunoutStep, PauseState, PauseStateElsewhere DEF PInv, CInv
    <2>2. CommandsSent' /\ CrashShutsDown' /\ LineNotStopped' /\ JobPaused'
      BY <1>2, <2>1, ExecuteKeepsJob, ExecuteKeepsRest, OutsideKeepsJob, HandlerKeepsJob
         DEF Next
    <2> QED BY <2>1, <2>2 DEF CInv
  <1>3. CInv /\ [Next]_vars => CInv'
    BY <1>2
  <1> QED BY <1>1, <1>3, PTL DEF Spec

\* A command is answered by its own step only.
LEMMA CancelAnswered ==
  ASSUME CInv, [Next]_vars, NEW g \in Greenlet, pc[g] = "CANCEL_PRINT", pc'[g] = "ok"
  PROVE  CancelPrint(g)
  <1>1. pc \in [Greenlet -> Activity]
    BY DEF CInv, PInv, IInv, TypeOK
  <1>2. Execute(g)
    <2>1. ~RunoutEvent
      BY NoRunoutStep DEF CInv, PInv
    <2>2. ~ \E h \in Greenlet : h # g /\ Execute(h)
      BY <1>1, ExecuteOutcome DEF Outcome
    <2>3. ~Shutdown /\ ~UNCHANGED vars
      BY DEF Shutdown, vars
    <2>4. ~ \E c \in Client : Send(c)
      BY <1>1, Greenlets, CommandAssumption DEF Send, Outcome, Command
    <2>5. ~ \E h \in Client \cup {Sensor} : Finish(h)
      BY <1>1, Greenlets DEF Finish, Outcome
    <2>6. ~Handler
      <3>1. ASSUME Handler PROVE pc'[g] # "ok"
        BY <1>1, <3>1, CommandAssumption DEF Handler, HandlerStarts, HandlerStops, ReadFails,
           EndOfFile, Dispatch, LineDone, LineCrashed, LineFailed, ErrorHandled, Outcome,
           Command
      <3> QED BY <3>1
    <2> QED BY <2>1, <2>2, <2>3, <2>4, <2>5, <2>6 DEF Next
  <1>3. ~Pause(g) /\ ~Resume(g) /\ ~ClearPause(g)
    BY DEF Pause, PauseRefused, PauseAlreadySent, PauseBegins, PauseSent, StopBegins,
       StopReturns, Resume, ClearPause, Executes
  <1>4. ~SdcardResetFile(g) /\ ~M25Begins(g) /\ ~M25Returns(g)
    BY DEF SdcardResetFile, ResetRefused, ResetNoFile, ResetBegins, ResetFile, M25Begins,
       M25Returns, StopBegins, StopReturns, Executes
  <1>5. \A c \in {"SDCARD_PRINT_FILE", "M23", "M24", "M26"} :
          ~Busy(g, c) /\ ~LoadFile(g, c) /\ ~M24(g) /\ ~M26(g)
    BY DEF Busy, LoadFile, M24, M26, Executes
  <1>6. ~OtherCommand(g) /\ ~Crash(g)
    <2>1. ASSUME OtherCommand(g) PROVE Outcome(g, "error")
      BY <2>1 DEF OtherCommand
    <2>2. ~Outcome(g, "error")
      BY <1>1 DEF Outcome
    <2>3. ~Crash(g)
      BY DEF Crash
    <2> QED BY <2>1, <2>2, <2>3
  <1> QED BY <1>2, <1>3, <1>4, <1>5, <1>6 DEF Execute

\* Where PAUSE is the only way to stop a job that is to go on, a job that was
\* cancelled is gone: CANCEL_PRINT finds it whether it prints, is about to
\* stop or is paused (pause_resume.py:89-101, virtual_sdcard.py:110-127).
THEOREM CancelIsFinal == PausesOnly /\ Spec => CancelEndsJob
  <1> SUFFICES ASSUME PausesOnly PROVE Spec => CancelEndsJob
    OBVIOUS
  <1>1. ASSUME CInv, [Next]_vars, NEW g \in Greenlet, pc[g] = "CANCEL_PRINT", pc'[g] = "ok"
        PROVE  state' \notin {"printing", "paused"}
    BY <1>1, CancelAnswered, CancelKeepsJob
  <1>2. CInv /\ [Next]_vars
          => [\A g \in Greenlet : pc[g] = "CANCEL_PRINT" /\ pc'[g] = "ok"
                => state' \notin {"printing", "paused"}]_vars
    BY <1>1
  <1> QED BY <1>2, CancelInvariant, PTL DEF Spec, CancelEndsJob

-----------------------------------------------------------------------------
(* Nobody is overtaken.                                                    *)

\* The error script gives way to all who wait already.
HandlerGivesWay ==
  waiting # <<>> /\ owner' = Head(waiting) /\ waiting' = Append(Tail(waiting), Work)

LEMMA ExecuteKeepsLock ==
  ASSUME NEW g \in Greenlet, Execute(g)
  PROVE  UNCHANGED lockVars
  <1>1. Pause(g) => UNCHANGED lockVars
    BY DEF Pause, PauseRefused, PauseAlreadySent, PauseBegins, PauseSent, StopBegins,
       StopReturns
  <1>2. Resume(g) \/ ClearPause(g) => UNCHANGED lockVars
    BY DEF Resume, ClearPause
  <1>3. CancelPrint(g) => UNCHANGED lockVars
    BY DEF CancelPrint, CancelNothing, CancelNoFile, CancelBegins, CancelFile, StopBegins,
       StopReturns
  <1>4. SdcardResetFile(g) => UNCHANGED lockVars
    BY DEF SdcardResetFile, ResetRefused, ResetNoFile, ResetBegins, ResetFile, StopBegins,
       StopReturns
  <1>5. \A c : Busy(g, c) \/ LoadFile(g, c) => UNCHANGED lockVars
    BY DEF Busy, LoadFile
  <1>6. M24(g) \/ M25Begins(g) \/ M25Returns(g) \/ M26(g) => UNCHANGED lockVars
    BY DEF M24, M25Begins, M25Returns, M26, StopBegins, StopReturns
  <1>7. OtherCommand(g) \/ Crash(g) => UNCHANGED lockVars
    BY DEF OtherCommand, Crash
  <1> QED BY <1>1, <1>2, <1>3, <1>4, <1>5, <1>6, <1>7 DEF Execute

LEMMA LockMoves ==
  ASSUME [Next]_vars
  PROVE  \/ UNCHANGED lockVars \/ HandlerGivesWay
         \/ \E c \in Greenlet : Mutex!Request(c) \/ Mutex!Release(c)
  <1>1. CASE \E g \in Greenlet : Execute(g)
    BY <1>1, ExecuteKeepsLock
  <1>2. CASE \/ \E c \in Client : Send(c)
             \/ \E g \in Client \cup {Sensor} : Finish(g)
    BY <1>2, Greenlets DEF Send, Finish
  <1>3. CASE RunoutEvent
    BY <1>3, Greenlets DEF RunoutEvent, RunoutWhilePaused, RunoutBegins, RunoutAtOnce,
       RunoutWaited, RunoutScript
  <1>4. CASE Handler
    <2>1. CASE HandlerStarts \/ HandlerStops \/ ReadFails \/ EndOfFile
      BY <2>1 DEF HandlerStarts, HandlerStops, ReadFails, EndOfFile
    <2>2. CASE Dispatch \/ LineDone \/ LineCrashed \/ ErrorHandled
      BY <2>2, Greenlets DEF Dispatch, LineDone, LineCrashed, ErrorHandled
    <2>3. CASE LineFailed
      BY <2>3 DEF LineFailed, HandlerGivesWay
    <2> QED BY <1>4, <2>1, <2>2, <2>3 DEF Handler
  <1>5. CASE Shutdown \/ UNCHANGED vars
    BY <1>5 DEF Shutdown, vars
  <1> QED BY <1>1, <1>2, <1>3, <1>4, <1>5 DEF Next

LEMMA StepInOrder ==
  ASSUME IInv, [Next]_vars, NEW g \in Greenlet, NEW h \in Greenlet, Mutex!Before(g, h)
  PROVE  owner' = g \/ Mutex!Before(g, h)'
  <1>1. Precedes(g, h, waiting) /\ waiting \in Seq(Greenlet)
    BY DEF IInv, TypeOK, Mutex!Before, Precedes
  <1>2. waiting # <<>> /\ (Head(waiting) = g \/ Precedes(g, h, Tail(waiting)))
    BY <1>1, LeavesInOrder
  <1>3. CASE UNCHANGED lockVars
    BY <1>3 DEF lockVars, Mutex!Before
  <1>4. ASSUME NEW c \in Greenlet, Mutex!Request(c) PROVE Mutex!Before(g, h)'
    <2>1. waiting' = waiting \/ waiting' = Append(waiting, c)
      BY <1>4 DEF Mutex!Request
    <2>2. Precedes(g, h, waiting')
      BY <1>1, <2>1, JoinsBehind
    <2> QED BY <2>2 DEF Mutex!Before, Precedes
  <1>5. ASSUME NEW c \in Greenlet, Mutex!Release(c) PROVE owner' = g \/ Mutex!Before(g, h)'
    <2>1. owner' = Head(waiting) /\ waiting' = Tail(waiting)
      BY <1>2, <1>5 DEF Mutex!Release
    <2> QED BY <1>2, <2>1 DEF Mutex!Before, Precedes
  <1>6. CASE HandlerGivesWay
    <2>1. Tail(waiting) \in Seq(Greenlet) /\ Work \in Greenlet
      BY <1>1, <1>2, HeadIsFirst, Greenlets
    <2>2. owner' = g \/ Precedes(g, h, waiting')
      BY <1>2, <1>6, <2>1, JoinsBehind DEF HandlerGivesWay
    <2> QED BY <2>2 DEF Mutex!Before, Precedes
  <1> QED BY <1>3, <1>4, <1>5, <1>6, LockMoves

\* Commands, the runout's script and the lines of the file run in the order
\* they asked for the mutex: not even the error script of a failed line, for
\* which the handler asks once more, gets it before one that waits already
\* (virtual_sdcard.py work_handler, reactor.py:79-114).
THEOREM InOrder == Spec => Mutex!NoOvertaking
  <1>1. IInv /\ [Next]_vars =>
          [\A g, h \in Greenlet :
             Mutex!Before(g, h) => owner' = g \/ Mutex!Before(g, h)']_(Mutex!lockVars)
    BY StepInOrder
  <1> QED BY <1>1, Invariance, PTL DEF Spec, Mutex!NoOvertaking
==============================================================================
