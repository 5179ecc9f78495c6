------------------------------ MODULE VirtualSD ------------------------------
(***************************************************************************)
(* The print job engine the macros drive: extras/virtual_sdcard.py (the    *)
(* work handler that feeds the lines of a file to the G-code parser),      *)
(* extras/pause_resume.py, extras/print_stats.py and the filament runout   *)
(* event of extras/filament_switch_sensor.py, all greenlets of one         *)
(* reactor.  An action is what a greenlet does between two points where it *)
(* may give up control: waiting for the G-code mutex, waiting in do_pause, *)
(* or waiting inside a command for the machine.                            *)
(***************************************************************************)
EXTENDS Integers, Sequences

CONSTANTS Client,           \* consoles and API connections that send commands
          File,             \* files on the virtual SD card
          NoFile,           \* current_file = None
          NoOne,            \* the owner of the free G-code mutex
          Work, Sensor,     \* the work handler's greenlet, the sensor's greenlet
          FileLines,        \* number of lines of a file
          ClientCommand,    \* commands the clients send
          LineCommand,      \* commands the files hold
          Runout,           \* whether a filament sensor is active
          ReadErrors,       \* whether reading the file may fail
          MayShutdown       \* whether the printer may go to shutdown

Greenlet == Client \cup {Work, Sensor}

Command == {"PAUSE", "RESUME", "CLEAR_PAUSE", "CANCEL_PRINT",
            "SDCARD_PRINT_FILE", "SDCARD_RESET_FILE",
            "M23", "M24", "M25", "M26",
            "MOVE",        \* any command that leaves the job alone
            "FAIL"}        \* any command that raises an error

ASSUME GreenletAssumption ==
  /\ NoOne \notin Greenlet
  /\ Work \notin Client /\ Sensor \notin Client /\ Work # Sensor
ASSUME FileAssumption == NoFile \notin File /\ FileLines \in Nat
ASSUME CommandAssumption ==
  /\ ClientCommand \in SUBSET (Command \ {"MOVE", "FAIL"})
  /\ LineCommand \in SUBSET Command
  /\ Runout \in BOOLEAN /\ ReadErrors \in BOOLEAN /\ MayShutdown \in BOOLEAN

VARIABLES
  owner, waiting,                             \* the G-code mutex
  current_file, file_position, next_file_position,
  work_timer,                                 \* see Timer below
  must_pause_work, cmd_from_sd,               \* virtual_sdcard
  is_paused, sd_paused, pause_command_sent,   \* pause_resume
  state, started,                             \* print_stats: state, and whether
                                              \* print_start_time is set
  pc,             \* what each greenlet is doing
  spinning,       \* the greenlets inside the wait loop of do_pause
  shutdown        \* whether the printer is shut down

lockVars  == <<owner, waiting>>
fileVars  == <<current_file, file_position, next_file_position>>
sdVars    == <<fileVars, work_timer, must_pause_work, cmd_from_sd>>
pauseVars == <<is_paused, sd_paused, pause_command_sent>>
statVars  == <<state, started>>
vars == <<lockVars, sdVars, pauseVars, statVars, pc, spinning, shutdown>>

Mutex == INSTANCE FifoLock

\* self.work_timer and the point the handler has reached: no timer, timer
\* registered, between two lines, inside run_script of a line, or inside
\* run_script of the error script.
Timer == {"none", "armed", "loop", "line", "on_error"}

PrintState == {"standby", "printing", "paused", "complete", "cancelled", "error"}

\* A greenlet is idle, executes a command (or waits for the mutex to do so),
\* or has the outcome of its command: it ended, it raised a G-code error, or
\* an exception nobody expected, which shuts the printer down.  The sensor first pauses the job
\* without the mutex ("RUNOUT") and then sleeps for pause_delay ("DELAY").
Outcomes == {"ok", "error", "crash"}

Activity == Command \cup Outcomes \cup {"idle", "RUNOUT", "DELAY"}

TypeOK ==
  /\ owner \in Greenlet \cup {NoOne}
  /\ waiting \in Seq(Greenlet)
  /\ current_file \in File \cup {NoFile}
  /\ file_position \in Nat
  /\ next_file_position \in Nat
  /\ work_timer \in Timer
  /\ must_pause_work \in BOOLEAN
  /\ cmd_from_sd \in BOOLEAN
  /\ is_paused \in BOOLEAN
  /\ sd_paused \in BOOLEAN
  /\ pause_command_sent \in BOOLEAN
  /\ state \in PrintState
  /\ started \in BOOLEAN
  /\ pc \in [Greenlet -> Activity]
  /\ spinning \in SUBSET Greenlet
  /\ shutdown \in BOOLEAN

Init ==
  /\ Mutex!Init
  /\ current_file = NoFile
  /\ file_position = 0
  /\ next_file_position = 0
  /\ work_timer = "none"
  /\ must_pause_work = FALSE
  /\ cmd_from_sd = FALSE
  /\ is_paused = FALSE
  /\ sd_paused = FALSE
  /\ pause_command_sent = FALSE
  /\ state = "standby"
  /\ started = FALSE
  /\ pc = [g \in Greenlet |-> "idle"]
  /\ spinning = {}
  /\ shutdown = FALSE

Active == work_timer # "none"                        \* is_active

\* Faults of do_pause's wait loop: it is not there, or looks at the timer only.
WaitsForNothing == FALSE
WaitsForTimer == Active

WaitsForHandler == Active /\ ~cmd_from_sd            \* do_pause's wait loop

-----------------------------------------------------------------------------
(* print_stats.py                                                          *)

NoteStart == state' = "printing" /\ started' = TRUE

NotePause ==
  /\ state' = IF state = "error" THEN state ELSE "paused"
  /\ UNCHANGED started

\* Fault: a job that was never started, or is over, is finished again.
NoteFinishAlways(outcome) == state' = outcome /\ started' = FALSE

NoteFinish(outcome) ==
  IF started THEN state' = outcome /\ started' = FALSE ELSE UNCHANGED statVars

ResetStats == state' = "standby" /\ started' = FALSE

-----------------------------------------------------------------------------
(* Commands.  A command is executed by the greenlet that owns the mutex,   *)
(* ends with an outcome, and Finish lets go of the mutex.                  *)

Executes(g, c) == owner = g /\ pc[g] = c /\ ~shutdown

Outcome(g, result) == pc' = [pc EXCEPT ![g] = result]

\* do_pause on behalf of command c: it has to wait for the handler ...
StopBegins(g, c) ==
  /\ Executes(g, c)
  /\ g \notin spinning
  /\ WaitsForHandler
  /\ must_pause_work' = TRUE
  /\ spinning' = spinning \cup {g}
  /\ UNCHANGED <<lockVars, fileVars, work_timer, cmd_from_sd, is_paused,
                 pause_command_sent, statVars, pc, shutdown>>

\* Fault: the handler is told to stop only by those who can wait for it.
StopReturnsUnmarked(g, c) ==
  /\ owner = g /\ pc[g] = c
  /\ ~shutdown \/ g \in spinning
  /\ ~WaitsForHandler
  /\ spinning' = spinning \ {g}
  /\ UNCHANGED <<must_pause_work, work_timer, cmd_from_sd, shutdown, lockVars>>

\* ... or it returns: at once, or when the wait is over.  The wait is not
\* broken off by a shutdown.
StopReturns(g, c) ==
  /\ owner = g /\ pc[g] = c
  /\ ~shutdown \/ g \in spinning
  /\ ~WaitsForHandler
  /\ must_pause_work' = (must_pause_work \/ (Active /\ g \notin spinning))
  /\ spinning' = spinning \ {g}
  /\ UNCHANGED <<work_timer, cmd_from_sd, shutdown, lockVars>>

\* do_resume
Arm ==
  /\ ~Active
  /\ must_pause_work' = FALSE
  /\ work_timer' = "armed"
  /\ UNCHANGED cmd_from_sd

CloseFile == current_file' = NoFile /\ file_position' = 0

\* cmd_PAUSE: refused when paused; otherwise send_pause_command, unless an
\* event has sent it already, and then the printer is paused.  A shutdown
\* during the wait makes SAVE_GCODE_STATE fail before is_paused is set.
PauseRefused(g) ==
  /\ Executes(g, "PAUSE") /\ g \notin spinning
  /\ is_paused
  /\ Outcome(g, "ok")
  /\ UNCHANGED <<lockVars, sdVars, pauseVars, statVars, spinning, shutdown>>

PauseAlreadySent(g) ==
  /\ Executes(g, "PAUSE") /\ g \notin spinning
  /\ ~is_paused /\ pause_command_sent
  /\ is_paused' = TRUE
  /\ Outcome(g, "ok")
  /\ UNCHANGED <<lockVars, sdVars, sd_paused, pause_command_sent, statVars,
                 spinning, shutdown>>

PauseBegins(g) ==
  /\ StopBegins(g, "PAUSE")
  /\ ~is_paused /\ ~pause_command_sent
  /\ sd_paused' = TRUE

PauseSent(g) ==
  /\ StopReturns(g, "PAUSE")
  /\ g \notin spinning => ~is_paused /\ ~pause_command_sent
  /\ sd_paused' = IF g \in spinning THEN sd_paused ELSE Active
  /\ pause_command_sent' = TRUE
  /\ is_paused' = ~shutdown
  /\ Outcome(g, IF shutdown THEN "error" ELSE "ok")
  /\ UNCHANGED <<fileVars, statVars>>

Pause(g) == \/ PauseRefused(g) \/ PauseAlreadySent(g)
            \/ PauseBegins(g) \/ PauseSent(g)

\* cmd_RESUME: the way back to where the job was paused may fail (the axes
\* are not homed any more), and do_resume raises when the handler is still
\* there; the printer stays paused then.
Resume(g) ==
  /\ Executes(g, "RESUME")
  /\ \/ /\ ~is_paused
        /\ Outcome(g, "ok")
        /\ UNCHANGED <<sdVars, pauseVars>>
     \/ /\ is_paused
        /\ Outcome(g, "error")
        /\ UNCHANGED <<sdVars, pauseVars>>
     \/ /\ is_paused /\ sd_paused
        /\ Arm
        /\ sd_paused' = FALSE /\ pause_command_sent' = FALSE /\ is_paused' = FALSE
        /\ Outcome(g, "ok")
        /\ UNCHANGED fileVars
     \/ /\ is_paused /\ ~sd_paused
        /\ pause_command_sent' = FALSE /\ is_paused' = FALSE
        /\ Outcome(g, "ok")
        /\ UNCHANGED <<sdVars, sd_paused>>
  /\ UNCHANGED <<lockVars, statVars, spinning, shutdown>>

\* cmd_CLEAR_PAUSE
ClearPause(g) ==
  /\ Executes(g, "CLEAR_PAUSE")
  /\ is_paused' = FALSE /\ pause_command_sent' = FALSE
  /\ Outcome(g, "ok")
  /\ UNCHANGED <<lockVars, sdVars, sd_paused, statVars, spinning, shutdown>>

\* cmd_CANCEL_PRINT and do_cancel: a job that is active, or paused from the
\* SD card, is stopped, its file closed and its cancellation noted.
CancelOnlyActive(g) ==      \* fault: a paused job is not looked for
  /\ Executes(g, "CANCEL_PRINT") /\ g \notin spinning
  /\ ~Active
  /\ is_paused' = FALSE /\ pause_command_sent' = FALSE
  /\ Outcome(g, "ok")
  /\ UNCHANGED <<lockVars, sdVars, sd_paused, statVars, spinning, shutdown>>

CancelNothing(g) ==
  /\ Executes(g, "CANCEL_PRINT") /\ g \notin spinning
  /\ ~Active /\ ~sd_paused
  /\ is_paused' = FALSE /\ pause_command_sent' = FALSE
  /\ Outcome(g, "ok")
  /\ UNCHANGED <<lockVars, sdVars, sd_paused, statVars, spinning, shutdown>>

CancelNoFile(g) ==
  /\ Executes(g, "CANCEL_PRINT") /\ g \notin spinning
  /\ Active \/ sd_paused
  /\ current_file = NoFile
  /\ file_position' = 0
  /\ is_paused' = FALSE /\ pause_command_sent' = FALSE
  /\ Outcome(g, "ok")
  /\ UNCHANGED <<lockVars, current_file, next_file_position, work_timer,
                 must_pause_work, cmd_from_sd, sd_paused, statVars, spinning,
                 shutdown>>

CancelBegins(g) ==
  /\ StopBegins(g, "CANCEL_PRINT")
  /\ current_file # NoFile
  /\ UNCHANGED sd_paused

CancelFile(g) ==
  /\ StopReturns(g, "CANCEL_PRINT")
  /\ g \notin spinning => (Active \/ sd_paused) /\ current_file # NoFile
  /\ CloseFile
  /\ NoteFinish("cancelled")
  /\ is_paused' = FALSE /\ pause_command_sent' = FALSE
  /\ Outcome(g, "ok")
  /\ UNCHANGED <<next_file_position, sd_paused>>

CancelPrint(g) == \/ CancelNothing(g) \/ CancelNoFile(g)
                  \/ CancelBegins(g) \/ CancelFile(g)

\* cmd_SDCARD_RESET_FILE and _reset_file.
ResetRefused(g) ==
  /\ Executes(g, "SDCARD_RESET_FILE") /\ g \notin spinning
  /\ cmd_from_sd
  /\ Outcome(g, "error")
  /\ UNCHANGED <<lockVars, sdVars, pauseVars, statVars, spinning, shutdown>>

ResetBegins(g) ==
  /\ StopBegins(g, "SDCARD_RESET_FILE")
  /\ current_file # NoFile
  /\ UNCHANGED sd_paused

ResetNoFile(g) ==
  /\ Executes(g, "SDCARD_RESET_FILE") /\ g \notin spinning
  /\ ~cmd_from_sd
  /\ current_file = NoFile
  /\ file_position' = 0
  /\ ResetStats
  /\ Outcome(g, "ok")
  /\ UNCHANGED <<lockVars, current_file, next_file_position, work_timer,
                 must_pause_work, cmd_from_sd, pauseVars, spinning, shutdown>>

ResetFile(g) ==
  /\ StopReturns(g, "SDCARD_RESET_FILE")
  /\ g \notin spinning => ~cmd_from_sd /\ current_file # NoFile
  /\ CloseFile
  /\ ResetStats
  /\ Outcome(g, "ok")
  /\ UNCHANGED <<next_file_position, pauseVars>>

SdcardResetFile(g) == \/ ResetRefused(g) \/ ResetNoFile(g)
                      \/ ResetBegins(g) \/ ResetFile(g)

\* cmd_SDCARD_PRINT_FILE and cmd_M23 load a file, unless the handler is
\* there.  Loading resets the statistics; when it fails no file is loaded.
Busy(g, c) ==
  /\ Executes(g, c)
  /\ Active
  /\ Outcome(g, "error")
  /\ UNCHANGED <<lockVars, sdVars, pauseVars, statVars, spinning, shutdown>>

LoadFile(g, c) ==
  /\ Executes(g, c)
  /\ ~Active
  /\ \/ /\ current_file' \in File
        /\ Outcome(g, "ok")
        /\ IF c = "SDCARD_PRINT_FILE"
             THEN Arm
             ELSE UNCHANGED <<work_timer, must_pause_work, cmd_from_sd>>
     \/ /\ current_file' = NoFile
        /\ Outcome(g, "error")
        /\ UNCHANGED <<work_timer, must_pause_work, cmd_from_sd>>
  /\ file_position' = 0
  /\ ResetStats
  /\ UNCHANGED <<lockVars, next_file_position, pauseVars, spinning, shutdown>>

\* cmd_M24: do_resume.
M24(g) ==
  /\ Executes(g, "M24")
  /\ Arm
  /\ Outcome(g, "ok")
  /\ UNCHANGED <<lockVars, fileVars, pauseVars, statVars, spinning, shutdown>>

\* cmd_M25: do_pause.
M25Begins(g) ==
  /\ StopBegins(g, "M25")
  /\ UNCHANGED sd_paused

M25Returns(g) ==
  /\ StopReturns(g, "M25")
  /\ Outcome(g, "ok")
  /\ UNCHANGED <<fileVars, pauseVars, statVars>>

\* cmd_M26: set the position of an idle job.
M26(g) ==
  /\ Executes(g, "M26")
  /\ ~Active
  /\ file_position' \in 0 .. FileLines
  /\ Outcome(g, "ok")
  /\ UNCHANGED <<lockVars, current_file, next_file_position, work_timer,
                 must_pause_work, cmd_from_sd, pauseVars, statVars, spinning,
                 shutdown>>

\* A command raises an exception that is not a G-code error.
Crash(g) ==
  /\ MayShutdown
  /\ owner = g /\ pc[g] \in {"MOVE", "FAIL"} /\ ~shutdown
  /\ shutdown' = TRUE
  /\ must_pause_work' = (must_pause_work \/ Active)
  /\ Outcome(g, "crash")
  /\ UNCHANGED <<lockVars, fileVars, work_timer, cmd_from_sd, pauseVars,
                 statVars, spinning>>

\* A command that leaves the job alone and may fail, and any command once
\* the printer is shut down and its handlers are gone.
OtherCommand(g) ==
  /\ owner = g
  /\ \/ pc[g] = "MOVE" /\ ~shutdown /\ Outcome(g, "ok")
     \/ pc[g] = "FAIL" /\ ~shutdown /\ Outcome(g, "error")
     \/ pc[g] \in Command /\ shutdown /\ g \notin spinning /\ Outcome(g, "error")
  /\ UNCHANGED <<lockVars, sdVars, pauseVars, statVars, spinning, shutdown>>

Execute(g) ==
  \/ Pause(g) \/ Resume(g) \/ ClearPause(g) \/ CancelPrint(g)
  \/ SdcardResetFile(g)
  \/ \E c \in {"SDCARD_PRINT_FILE", "M23"} : Busy(g, c) \/ LoadFile(g, c)
  \/ Busy(g, "M24") \/ M24(g) \/ M25Begins(g) \/ M25Returns(g)
  \/ Busy(g, "M26") \/ M26(g)
  \/ OtherCommand(g) \/ Crash(g)

-----------------------------------------------------------------------------
(* Greenlets that send commands: gcode.py run_script.                      *)

\* A client sends a command, and waits for the mutex if it is held.
Send(c) ==
  /\ pc[c] = "idle"
  /\ \E command \in ClientCommand : Outcome(c, command)
  /\ Mutex!Request(c)
  /\ UNCHANGED <<sdVars, pauseVars, statVars, spinning, shutdown>>

\* The script of a client or of the sensor is over.
FinishKeepsLock(g) ==       \* fault: an error leaves the mutex locked
  /\ pc[g] \in Outcomes
  /\ Outcome(g, "idle")
  /\ IF pc[g] = "ok" THEN Mutex!Release(g) ELSE UNCHANGED lockVars
  /\ UNCHANGED <<sdVars, pauseVars, statVars, spinning, shutdown>>

Finish(g) ==
  /\ pc[g] \in Outcomes
  /\ Outcome(g, "idle")
  /\ Mutex!Release(g)
  /\ UNCHANGED <<sdVars, pauseVars, statVars, spinning, shutdown>>

-----------------------------------------------------------------------------
(* The runout event: _runout_event_handler pauses the job in the event     *)
(* itself, without the mutex, sleeps, and then runs PAUSE as a script.     *)

RunoutWhilePaused ==
  /\ Runout /\ pc[Sensor] = "idle"
  /\ pause_command_sent
  /\ Outcome(Sensor, "DELAY")
  /\ UNCHANGED <<lockVars, sdVars, pauseVars, statVars, spinning, shutdown>>

RunoutBegins ==
  /\ Runout /\ pc[Sensor] = "idle"
  /\ ~pause_command_sent
  /\ WaitsForHandler
  /\ sd_paused' = TRUE
  /\ must_pause_work' = TRUE
  /\ spinning' = spinning \cup {Sensor}
  /\ Outcome(Sensor, "RUNOUT")
  /\ UNCHANGED <<lockVars, fileVars, work_timer, cmd_from_sd, is_paused,
                 pause_command_sent, statVars, shutdown>>

RunoutAtOnce ==
  /\ Runout /\ pc[Sensor] = "idle"
  /\ ~pause_command_sent
  /\ ~WaitsForHandler
  /\ sd_paused' = Active
  /\ must_pause_work' = (must_pause_work \/ Active)
  /\ pause_command_sent' = TRUE
  /\ Outcome(Sensor, "DELAY")
  /\ UNCHANGED <<lockVars, fileVars, work_timer, cmd_from_sd, is_paused,
                 statVars, spinning, shutdown>>

RunoutWaited ==
  /\ pc[Sensor] = "RUNOUT"
  /\ ~WaitsForHandler
  /\ spinning' = spinning \ {Sensor}
  /\ pause_command_sent' = TRUE
  /\ Outcome(Sensor, "DELAY")
  /\ UNCHANGED <<lockVars, sdVars, is_paused, sd_paused, statVars, shutdown>>

RunoutScript ==
  /\ pc[Sensor] = "DELAY"
  /\ Outcome(Sensor, "PAUSE")
  /\ Mutex!Request(Sensor)
  /\ UNCHANGED <<sdVars, pauseVars, statVars, spinning, shutdown>>

-----------------------------------------------------------------------------
(* work_handler                                                            *)

\* Faults of the handler's last lines: the error is not noted, or a stop is
\* taken for the end of the file.
HandlerLeavesQuietly(failed) ==
  /\ work_timer' = "none"
  /\ cmd_from_sd' = FALSE
  /\ IF failed THEN UNCHANGED statVars
     ELSE IF current_file' # NoFile THEN NotePause
     ELSE NoteFinish("complete")

HandlerLeavesComplete(failed) ==
  /\ work_timer' = "none"
  /\ cmd_from_sd' = FALSE
  /\ NoteFinish(IF failed THEN "error" ELSE "complete")

\* The handler leaves: its last lines.
HandlerLeaves(failed) ==
  /\ work_timer' = "none"
  /\ cmd_from_sd' = FALSE
  /\ IF failed THEN NoteFinish("error")
     ELSE IF current_file' # NoFile THEN NotePause
     ELSE NoteFinish("complete")

\* The timer fires: without a file the seek fails and the handler is gone.
HandlerStarts ==
  /\ work_timer = "armed"
  /\ IF current_file = NoFile
       THEN work_timer' = "none" /\ UNCHANGED statVars
       ELSE work_timer' = "loop" /\ NoteStart
  /\ UNCHANGED <<lockVars, fileVars, must_pause_work, cmd_from_sd, pauseVars,
                 pc, spinning, shutdown>>

\* Between two lines the handler is asked to stop, or it cannot read on.
HandlerStops ==
  /\ work_timer = "loop"
  /\ must_pause_work
  /\ UNCHANGED <<lockVars, fileVars, must_pause_work, pauseVars, pc, spinning,
                 shutdown>>
  /\ HandlerLeaves(FALSE)

ReadFails ==
  /\ ReadErrors
  /\ work_timer = "loop"
  /\ ~must_pause_work
  /\ UNCHANGED <<lockVars, fileVars, must_pause_work, pauseVars, pc, spinning,
                 shutdown>>
  /\ HandlerLeaves(FALSE)

\* There is no line at the position the job is started from.
EndOfFileAnyway ==          \* fault: the file is read before the stop is seen
  /\ work_timer = "loop"
  /\ file_position >= FileLines
  /\ current_file' = NoFile
  /\ HandlerLeaves(FALSE)
  /\ UNCHANGED <<lockVars, file_position, next_file_position, must_pause_work,
                 pauseVars, pc, spinning, shutdown>>

EndOfFile ==
  /\ work_timer = "loop"
  /\ ~must_pause_work
  /\ file_position >= FileLines
  /\ current_file' = NoFile
  /\ HandlerLeaves(FALSE)
  /\ UNCHANGED <<lockVars, file_position, next_file_position, must_pause_work,
                 pauseVars, pc, spinning, shutdown>>

\* Dispatch of the next line, only when the mutex is free.
Dispatch ==
  /\ work_timer = "loop"
  /\ ~must_pause_work
  /\ file_position < FileLines
  /\ owner = NoOne
  /\ cmd_from_sd' = TRUE
  /\ next_file_position' = file_position + 1
  /\ work_timer' = "line"
  /\ \E command \in LineCommand : Outcome(Work, command)
  /\ Mutex!Request(Work)
  /\ UNCHANGED <<current_file, file_position, must_pause_work, pauseVars,
                 statVars, spinning, shutdown>>

\* The line is done.  The handler leaves if it was asked to meanwhile or if
\* this was the last line, and goes on otherwise.
LineDone ==
  /\ work_timer = "line" /\ pc[Work] = "ok"
  /\ Outcome(Work, "idle")
  /\ Mutex!Release(Work)
  /\ file_position' = next_file_position
  /\ \/ /\ must_pause_work
        /\ UNCHANGED current_file
        /\ HandlerLeaves(FALSE)
     \/ /\ ~must_pause_work
        /\ next_file_position >= FileLines
        /\ current_file' = NoFile
        /\ HandlerLeaves(FALSE)
     \/ /\ ~must_pause_work
        /\ next_file_position < FileLines
        /\ work_timer' = "loop" /\ cmd_from_sd' = FALSE
        /\ UNCHANGED <<current_file, statVars>>
  /\ UNCHANGED <<next_file_position, must_pause_work, pauseVars, spinning,
                 shutdown>>

\* The line crashed: the handler leaves without a word about the error.
LineCrashed ==
  /\ work_timer = "line" /\ pc[Work] = "crash"
  /\ Outcome(Work, "idle")
  /\ Mutex!Release(Work)
  /\ UNCHANGED <<fileVars, must_pause_work, pauseVars, spinning, shutdown>>
  /\ HandlerLeaves(FALSE)

LineFailedClears ==         \* fault: the flag is cleared before the error script
  /\ work_timer = "line" /\ pc[Work] = "error"
  /\ work_timer' = "on_error"
  /\ cmd_from_sd' = FALSE
  /\ Outcome(Work, "idle")
  /\ IF waiting = <<>>
       THEN UNCHANGED lockVars
       ELSE owner' = Head(waiting) /\ waiting' = Append(Tail(waiting), Work)
  /\ UNCHANGED <<fileVars, must_pause_work, pauseVars, statVars, spinning, shutdown>>

\* The line raised an error: the mutex is released and asked for again to
\* run the error script, with cmd_from_sd still set.
LineFailed ==
  /\ work_timer = "line" /\ pc[Work] = "error"
  /\ work_timer' = "on_error"
  /\ Outcome(Work, "idle")
  /\ IF waiting = <<>>
       THEN UNCHANGED lockVars
       ELSE owner' = Head(waiting) /\ waiting' = Append(Tail(waiting), Work)
  /\ UNCHANGED <<fileVars, must_pause_work, cmd_from_sd, pauseVars, statVars,
                 spinning, shutdown>>

\* The error script has turned off the heaters (or failed): the job failed.
ErrorHandled ==
  /\ work_timer = "on_error"
  /\ Mutex!Release(Work)
  /\ HandlerLeaves(TRUE)
  /\ UNCHANGED <<fileVars, must_pause_work, pauseVars, pc, spinning, shutdown>>

\* handle_shutdown, and the loss of the command handlers in gcode.py.
Shutdown ==
  /\ MayShutdown /\ ~shutdown
  /\ shutdown' = TRUE
  /\ must_pause_work' = (must_pause_work \/ Active)
  /\ UNCHANGED <<lockVars, fileVars, work_timer, cmd_from_sd, pauseVars,
                 statVars, pc, spinning>>

-----------------------------------------------------------------------------
Handler == \/ HandlerStarts \/ HandlerStops \/ ReadFails \/ EndOfFile
           \/ Dispatch \/ LineDone \/ LineCrashed \/ LineFailed
           \/ ErrorHandled

RunoutEvent == \/ RunoutWhilePaused \/ RunoutBegins \/ RunoutAtOnce
               \/ RunoutWaited \/ RunoutScript

Next ==
  \/ \E c \in Client : Send(c)
  \/ \E g \in Client \cup {Sensor} : Finish(g)
  \/ \E g \in Greenlet : Execute(g)
  \/ RunoutEvent
  \/ Handler
  \/ Shutdown

Spec == Init /\ [][Next]_vars

\* The reactor runs every greenlet whose timer is due, and every command
\* ends.  Sending commands, runouts and shutdowns are not fair.
FairSpec ==
  /\ Spec
  /\ WF_vars(Handler)
  /\ \A g \in Greenlet : WF_vars(Execute(g))
  /\ \A g \in Client \cup {Sensor} : WF_vars(Finish(g))
  /\ WF_vars(RunoutWaited) /\ WF_vars(RunoutScript)

-----------------------------------------------------------------------------
(* Safety.                                                                 *)

\* The handler reads only from a file that is open, and only for a job that
\* print_stats shows as printing: nobody closes the file, or cancels or
\* resets the job, under a handler that goes on.
HandlerOwnsJob ==
  work_timer = "loop" => current_file # NoFile /\ state = "printing"

\* print_stats never shows a job as printing that nothing works on.
PrintingIsTrue ==
  state = "printing" => /\ work_timer \in {"loop", "line", "on_error"}
                        /\ current_file # NoFile

\* do_pause relies on cmd_from_sd to tell a handler that runs G-code, which
\* it must not wait for, from one that will leave on its own: the flag is
\* set exactly while the handler is inside run_script.
CmdFromSd == cmd_from_sd <=> work_timer \in {"line", "on_error"}

\* Nobody waits for the handler while the handler waits for the mutex: a
\* command inside do_pause and the error script never wait for each other.
NoMutualWait ==
  \A g \in Client : g \in spinning =>
     /\ owner = g
     /\ (\E i \in 1 .. Len(waiting) : waiting[i] = Work) => ~WaitsForHandler

\* The file a command is about to close is still open when its wait is over:
\* current_file.close() on None would crash the printer in the middle of
\* CANCEL_PRINT.
FileStaysOpen ==
  \A g \in Greenlet :
    g \in spinning /\ pc[g] \in {"CANCEL_PRINT", "SDCARD_RESET_FILE"}
      => current_file # NoFile

\* A job is reported complete only when its last line was executed or its
\* position was put at the end; a cancelled job never turns into one.
CompleteAtEnd ==
  [][state' = "complete" /\ state # "complete"
       => state = "printing" /\ file_position' >= FileLines]_vars

\* The printer becomes paused only when its SD card job is idle or has been
\* told to stop: no job prints on behind a pause.
PauseStopsJob ==
  [][~is_paused /\ is_paused' => ~Active' \/ must_pause_work']_vars

\* A cancelled job is gone: once CANCEL_PRINT has been executed no job is
\* left that RESUME or M24 could continue.
CancelEndsJob ==
  [][\A g \in Greenlet :
       pc[g] = "CANCEL_PRINT" /\ pc'[g] = "ok" => state' \notin {"printing", "paused"}]_vars

-----------------------------------------------------------------------------
(* Liveness.                                                               *)

\* A client that waits in do_pause for the handler goes on in the end.
WaitEnds == \A c \in Client : c \in spinning ~> c \notin spinning

\* A job that is told to stop stops.
StopTakesEffect == Active /\ must_pause_work ~> ~Active

\* A client's command is answered.
CommandAnswered == \A c \in Client : pc[c] # "idle" ~> pc[c] = "idle"

-----------------------------------------------------------------------------
(* The job everybody sees.  Without a file its position means nothing.     *)

Job == INSTANCE PrintJob
         WITH status <- state, file <- current_file,
              line <- IF current_file = NoFile THEN 0 ELSE file_position

\* The engine implements the life of a print job: whatever the commands of
\* clients, the lines of the file, a runout and a shutdown do between each
\* other, the job moves only along the steps of PrintJob.
ImplementsPrintJob == Job!Spec
=============================================================================
