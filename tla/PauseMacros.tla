------------------------------ MODULE PauseMacros ------------------------------
(***************************************************************************)
(* The macros around a print without the native screen: client.cfg and     *)
(* display_off.cfg, with the start of a print, its layers and its end from *)
(* base.cfg, the idle timeout of the printer and the filament sensor.      *)
(*                                                                         *)
(* A macro runs under the G-code mutex from its first command to its last, *)
(* so a macro is one action; what interleaves with it is what needs no     *)
(* mutex, and what the macros leave behind.  The commands underneath are   *)
(* those of VirtualSD with the waits left out.                             *)
(***************************************************************************)
EXTENDS Naturals

CONSTANTS File, NoFile,
          Layers,           \* number of layers of a file
          ClientCommand,    \* what the consoles and web interfaces send
          Runout,           \* whether the filament may run out
          Careful           \* whether clients send only what makes sense in
                            \* the state they see, and wait for it to settle

Command == {"PAUSE", "RESUME", "CANCEL_PRINT", "M24", "M25",
            "SDCARD_PRINT_FILE", "SDCARD_RESET_FILE", "M104", "G28",
            "SET_PAUSE_NEXT_LAYER", "SET_PAUSE_AT_LAYER",
            "_CLIENT_LINEAR_MOVE"}

ASSUME FileAssumption == NoFile \notin File /\ Layers \in Nat
ASSUME CommandAssumption ==
  ClientCommand \in SUBSET Command /\ Runout \in BOOLEAN /\ Careful \in BOOLEAN

\* A file: START_PRINT, for every layer SET_PRINT_STATS_INFO and a move that
\* extrudes, END_PRINT.
LastLine == 2 * Layers + 1

Info(n) == 2 * n - 1        \* the line that announces layer n

VARIABLES
  state, file, line,                          \* the job, as in PrintJob
  is_paused, sd_paused, pause_command_sent,   \* pause_resume
  target, bed,            \* whether extruder and bed are set to the print's
                          \* temperature; they are off otherwise
  hot,                    \* can_extrude
  zcontrol,               \* whether a blow to the nozzle stops the printer
  homed,
  head, saved_head,       \* "job": where the job left it, or "away"; the
                          \* place saved in PAUSE_STATE
  last_extruder_temp,     \* what PAUSE saved for RESUME
  restore_idle_timeout, long_timeout,         \* whether each was set by PAUSE
  idle,                   \* idle_timeout's state
  stop_motor,             \* the delayed G-code _STOP_MOTOR is under way
  filament, sensor,       \* the filament, and the runout event's delay
  pause_next_layer, pause_at_layer            \* 0 is no layer

jobVars     == <<state, file, line>>
pauseVars   == <<is_paused, sd_paused, pause_command_sent>>
heatVars    == <<target, bed>>
moveVars    == <<homed, head>>
timeoutVars == <<restore_idle_timeout, long_timeout>>
layerVars   == <<pause_next_layer, pause_at_layer>>
sensorVars  == <<filament, sensor>>
vars == <<jobVars, pauseVars, heatVars, hot, zcontrol, moveVars, saved_head,
          last_extruder_temp, timeoutVars, idle, stop_motor, sensorVars,
          layerVars>>

TypeOK ==
  /\ state \in {"standby", "printing", "paused", "complete", "cancelled", "error"}
  /\ file \in File \cup {NoFile}
  /\ line \in 0 .. LastLine
  /\ is_paused \in BOOLEAN /\ sd_paused \in BOOLEAN
  /\ pause_command_sent \in BOOLEAN
  /\ target \in BOOLEAN /\ bed \in BOOLEAN /\ hot \in BOOLEAN
  /\ zcontrol \in BOOLEAN /\ homed \in BOOLEAN
  /\ head \in {"job", "away"} /\ saved_head \in {"job", "away"}
  /\ last_extruder_temp \in [restore : BOOLEAN, temp : BOOLEAN, bed : BOOLEAN]
  /\ restore_idle_timeout \in BOOLEAN /\ long_timeout \in BOOLEAN
  /\ idle \in {"Idle", "Ready", "Printing"}
  /\ stop_motor \in BOOLEAN /\ filament \in BOOLEAN /\ sensor \in BOOLEAN
  /\ pause_next_layer \in BOOLEAN
  /\ pause_at_layer \in 0 .. Layers + 1

Init ==
  /\ state = "standby" /\ file = NoFile /\ line = 0
  /\ is_paused = FALSE /\ sd_paused = FALSE /\ pause_command_sent = FALSE
  /\ target = FALSE /\ bed = FALSE /\ hot = FALSE
  /\ zcontrol = FALSE
  /\ homed = FALSE /\ head = "away" /\ saved_head = "away"
  /\ last_extruder_temp = [restore |-> FALSE, temp |-> FALSE, bed |-> TRUE]
  /\ restore_idle_timeout = FALSE /\ long_timeout = FALSE
  /\ idle = "Idle"
  /\ stop_motor = FALSE
  /\ filament = TRUE /\ sensor = FALSE
  /\ pause_next_layer = FALSE /\ pause_at_layer = 0

Printing == state = "printing"                       \* is_active

HeatersOff == target' = FALSE /\ bed' = FALSE

-----------------------------------------------------------------------------
(* PAUSE: client.cfg, with _PAUSE_MACRO of display_off.cfg.                *)

\* PAUSE_BASE stops the job unless the printer is paused or a runout event
\* has sent the pause already.
Stops == Printing /\ ~is_paused /\ ~pause_command_sent

PauseBase ==
  /\ is_paused' = TRUE
  /\ pause_command_sent' = TRUE
  /\ sd_paused' = IF is_paused \/ pause_command_sent THEN sd_paused ELSE Printing
  /\ saved_head' = IF is_paused THEN saved_head ELSE head

\* The temperatures are read when the macro starts; _PAUSE_MACRO turns the
\* extruder off and the head is parked.
PauseMacro ==
  /\ last_extruder_temp' = [restore |-> TRUE, temp |-> target, bed |-> bed]
  /\ restore_idle_timeout' = TRUE /\ long_timeout' = TRUE
  /\ PauseBase
  /\ target' = FALSE
  /\ zcontrol' = FALSE
  /\ head' = IF homed THEN "away" ELSE head
  /\ idle' = "Printing"
  /\ UNCHANGED <<bed, hot, homed, stop_motor>>

Pause ==
  /\ PauseMacro
  /\ state' = IF Stops THEN "paused" ELSE state
  /\ UNCHANGED <<file, line, layerVars>>

-----------------------------------------------------------------------------
(* RESUME of client.cfg, and M24.                                          *)

\* Fault: RESUME never restores a temperature.
WasIdleNever == FALSE

WasIdle == idle # "Printing"

MayResume ==
  /\ filament
  /\ IF WasIdle THEN last_extruder_temp.restore \/ hot ELSE hot

\* A printer that was idle gets the temperatures of the pause back, whether
\* RESUME goes on or not.
Reheats == WasIdle /\ last_extruder_temp.restore

Reheat ==
  IF Reheats
    THEN /\ target' = last_extruder_temp.temp
         /\ bed' = last_extruder_temp.bed
         /\ hot' = (hot \/ last_extruder_temp.temp)
    ELSE UNCHANGED <<target, bed, hot>>

\* Fault: the head is not sent back to where the job was paused.
ReturnsNowhere == head

ReturnsTo == saved_head

\* Fault: a job whose file has been unloaded meanwhile goes on.
ResumeBaseWithoutFile ==
  /\ head' = IF is_paused /\ homed THEN ReturnsTo ELSE head
  /\ IF is_paused /\ homed /\ ~(sd_paused /\ Printing)
       THEN /\ is_paused' = FALSE /\ pause_command_sent' = FALSE /\ sd_paused' = FALSE
            /\ state' = IF sd_paused THEN "printing" ELSE state
       ELSE UNCHANGED <<pauseVars, state>>

\* RESUME_BASE of a printer that is not paused does nothing; the way back
\* fails unless the axes are homed; otherwise a job that was paused from the
\* SD card goes on.
ResumeBase ==
  /\ head' = IF is_paused /\ homed THEN ReturnsTo ELSE head
  /\ IF is_paused /\ homed /\ ~(sd_paused /\ Printing)
       THEN /\ is_paused' = FALSE /\ pause_command_sent' = FALSE /\ sd_paused' = FALSE
            /\ state' = IF sd_paused /\ file # NoFile THEN "printing" ELSE state
       ELSE UNCHANGED <<pauseVars, state>>

\* Fault: user_resume_macro is left empty.
UserResumeMacroEmpty == UNCHANGED zcontrol

UserResumeMacro == zcontrol' = TRUE

\* Fault: the idle timeout of the pause is kept.
TimeoutKept == UNCHANGED long_timeout

RestoreTimeout == long_timeout' = (long_timeout /\ ~restore_idle_timeout)

ResumeMacro(control) ==
  /\ Reheat
  /\ IF MayResume
       THEN /\ RestoreTimeout
            /\ UserResumeMacro
            /\ ResumeBase
            /\ idle' = "Printing"
       ELSE /\ UNCHANGED <<state, pauseVars, head, long_timeout>>
            /\ zcontrol' = control
            /\ idle' = IF Reheats THEN "Printing" ELSE idle
  /\ UNCHANGED <<file, line, homed, saved_head, last_extruder_temp,
                 restore_idle_timeout, stop_motor, layerVars>>

Resume == ResumeMacro(zcontrol)

\* M24 of a paused printer is RESUME, after ZCONTROL_ON; otherwise the job is
\* started or goes on where it is, unless it is active.
M24Resumes == is_paused /\ ResumeMacro(TRUE)

M24Starts ==
  /\ ~is_paused
  /\ zcontrol' = TRUE
  /\ state' = IF file = NoFile THEN state ELSE "printing"
  /\ UNCHANGED <<file, line, pauseVars, heatVars, hot, moveVars, saved_head,
                 last_extruder_temp, timeoutVars, idle, stop_motor, layerVars>>

-----------------------------------------------------------------------------
(* CANCEL_PRINT of client.cfg, with _COMMON_END_PRINT of display_off.cfg.  *)

\* _COMMON_END_PRINT: away from the print, everything off, and the motors
\* 25 seconds later.
CommonEndPrint ==
  /\ HeatersOff
  /\ zcontrol' = FALSE
  /\ head' = IF homed THEN "away" ELSE head
  /\ idle' = "Printing"
  /\ stop_motor' = TRUE
  /\ UNCHANGED <<hot, homed, saved_head, last_extruder_temp>>

NoRequests == pause_next_layer' = FALSE /\ pause_at_layer' = 0

\* CANCEL_PRINT_BASE comes last: it cancels a job that is active or was
\* paused from the SD card.
CancelPrint ==
  /\ CommonEndPrint
  /\ RestoreTimeout
  /\ NoRequests
  /\ IF Printing \/ sd_paused
       THEN /\ file' = NoFile /\ line' = 0
            /\ state' = IF state \in {"printing", "paused"} THEN "cancelled" ELSE state
       ELSE UNCHANGED jobVars
  /\ is_paused' = FALSE /\ pause_command_sent' = FALSE
  /\ UNCHANGED <<sd_paused, restore_idle_timeout>>

-----------------------------------------------------------------------------
(* The lines of the file.                                                  *)

\* Fault: the motors' timer of the print before is left alone.
TimerLeft == UNCHANGED stop_motor

TimersCancelled == stop_motor' = FALSE

\* _START_PRINT begins with a printer that is not paused, the nozzle's
\* control on and the delayed G-codes of the last print cancelled.
StartBegins ==
  /\ Printing /\ line = 0
  /\ TimersCancelled
  /\ is_paused' = FALSE /\ pause_command_sent' = FALSE
  /\ zcontrol' = TRUE
  /\ idle' = "Printing"
  /\ UNCHANGED <<file, sd_paused, saved_head, last_extruder_temp, timeoutVars,
                 layerVars>>

StartPrint ==
  /\ StartBegins
  /\ line' = 1
  /\ homed' = TRUE /\ head' = "job"
  /\ target' = TRUE /\ bed' = TRUE /\ hot' = TRUE
  /\ UNCHANGED state

\* CHECK_MD5 may find the file damaged: it cancels the print.
StartRejected == Printing /\ line = 0 /\ CancelPrint

\* Homing, taring or levelling may fail: the error script turns off the
\* heaters.
StartFails ==
  /\ StartBegins
  /\ state' = "error"
  /\ homed' \in {homed, TRUE} /\ head' = "away"
  /\ HeatersOff
  /\ UNCHANGED <<line, hot>>

\* SET_PRINT_STATS_INFO pauses when it was asked to, and only then forgets
\* the request.
NextAskedOnly(n) == pause_next_layer      \* fault: no request for a layer

Asked(n) == pause_next_layer \/ pause_at_layer = n

LayerUndisturbed(n) ==
  /\ Printing /\ line = Info(n)
  /\ ~Asked(n)
  /\ line' = line + 1
  /\ UNCHANGED <<state, file, pauseVars, heatVars, hot, zcontrol, moveVars,
                 saved_head, last_extruder_temp, timeoutVars, idle, stop_motor,
                 layerVars>>

LayerPauses(n) ==
  /\ Printing /\ line = Info(n)
  /\ Asked(n)
  /\ line' = line + 1
  /\ PauseMacro
  /\ state' = IF Stops THEN "paused" ELSE state
  /\ pause_next_layer' = FALSE
  /\ pause_at_layer' = IF pause_next_layer THEN pause_at_layer ELSE 0
  /\ UNCHANGED file

\* Extruding needs a hot nozzle; otherwise the job ends in the error script.
Extrude(n) ==
  /\ Printing /\ line = 2 * n
  /\ idle' = "Printing"
  /\ IF hot
       THEN /\ line' = line + 1 /\ head' = "job"
            /\ UNCHANGED <<state, heatVars>>
       ELSE /\ state' = "error"
            /\ HeatersOff
            /\ UNCHANGED <<line, head>>
  /\ UNCHANGED <<file, pauseVars, hot, zcontrol, homed, saved_head,
                 last_extruder_temp, timeoutVars, stop_motor, layerVars>>

EndPrint ==
  /\ Printing /\ line = LastLine
  /\ CommonEndPrint
  /\ state' = "complete" /\ file' = NoFile /\ line' = 0
  /\ UNCHANGED <<pauseVars, timeoutVars, layerVars>>

Line ==
  /\ \/ StartPrint \/ StartRejected \/ StartFails \/ EndPrint
     \/ \E n \in 1 .. Layers : LayerUndisturbed(n) \/ LayerPauses(n) \/ Extrude(n)
  /\ UNCHANGED sensorVars

-----------------------------------------------------------------------------
(* The other commands of clients.                                          *)

\* SDCARD_PRINT_FILE homes and lowers the bed before it looks whether a job
\* is active; a file that cannot be opened leaves none loaded.
SdcardPrintFile ==
  /\ zcontrol' = TRUE
  /\ homed' = TRUE /\ head' = "away"
  /\ idle' = "Printing"
  /\ IF Printing THEN UNCHANGED jobVars
     ELSE /\ line' = 0
          /\ \/ file' \in File /\ state' = "printing"
             \/ file' = NoFile /\ state' = "standby"
  /\ UNCHANGED <<pauseVars, heatVars, hot, saved_head, last_extruder_temp,
                 timeoutVars, stop_motor, layerVars>>

SdcardResetFile ==
  /\ zcontrol' = FALSE
  /\ state' = "standby" /\ file' = NoFile /\ line' = 0
  /\ UNCHANGED <<pauseVars, heatVars, hot, moveVars, saved_head,
                 last_extruder_temp, timeoutVars, idle, stop_motor, layerVars>>

\* A client turns the extruder on, homes, moves the head, or asks for a pause
\* at the next layer, or at one that may never come.
M104 ==
  /\ target' = TRUE /\ idle' = "Printing"
  /\ UNCHANGED <<jobVars, pauseVars, bed, hot, zcontrol, moveVars, saved_head,
                 last_extruder_temp, timeoutVars, stop_motor, layerVars>>

G28 ==
  /\ homed' = TRUE /\ head' = "away" /\ idle' = "Printing"
  /\ UNCHANGED <<jobVars, pauseVars, heatVars, hot, zcontrol, saved_head,
                 last_extruder_temp, timeoutVars, stop_motor, layerVars>>

\* What _CLIENT_LINEAR_MOVE tests is undefined in it, so it always moves.
ClientLinearMove ==
  /\ homed
  /\ head' = "away" /\ idle' = "Printing"
  /\ UNCHANGED <<jobVars, pauseVars, heatVars, hot, zcontrol, homed, saved_head,
                 last_extruder_temp, timeoutVars, stop_motor, layerVars>>

SetPause ==
  /\ \/ "SET_PAUSE_NEXT_LAYER" \in ClientCommand
        /\ pause_next_layer' = TRUE /\ UNCHANGED pause_at_layer
     \/ "SET_PAUSE_AT_LAYER" \in ClientCommand
        /\ pause_at_layer' \in 1 .. Layers + 1 /\ UNCHANGED pause_next_layer
  /\ UNCHANGED <<jobVars, pauseVars, heatVars, hot, zcontrol, moveVars,
                 saved_head, last_extruder_temp, timeoutVars, idle, stop_motor>>

\* What a careful client sends: it pauses what prints, resumes what is paused
\* once the printer has come to rest, starts a print when there is none, and
\* does not touch a printer that prints.
Sent(c) ==
  /\ c \in ClientCommand
  /\ Careful =>
       CASE c \in {"PAUSE", "M25"}               -> Printing
         [] c \in {"RESUME", "M24"}              -> is_paused /\ idle # "Printing"
         [] c = "CANCEL_PRINT"                   -> Printing \/ is_paused
         [] c \in {"M104", "G28"}                -> ~Printing
         [] c \in {"SDCARD_PRINT_FILE", "SDCARD_RESET_FILE"} -> ~Printing /\ ~is_paused
         [] OTHER                                -> TRUE

Client ==
  /\ \/ \E c \in {"PAUSE", "M25"} : Sent(c) /\ Pause
     \/ Sent("RESUME") /\ Resume
     \/ Sent("M24") /\ (M24Resumes \/ M24Starts)
     \/ Sent("CANCEL_PRINT") /\ CancelPrint
     \/ Sent("SDCARD_PRINT_FILE") /\ SdcardPrintFile
     \/ Sent("SDCARD_RESET_FILE") /\ SdcardResetFile
     \/ Sent("M104") /\ M104
     \/ Sent("G28") /\ G28
     \/ Sent("_CLIENT_LINEAR_MOVE") /\ ClientLinearMove
     \/ (Careful => Printing) /\ SetPause
  /\ UNCHANGED sensorVars

-----------------------------------------------------------------------------
(* What needs no command: the heater, the idle timeout, the motors' timer, *)
(* the filament.                                                           *)

restVars == <<jobVars, pauseVars, saved_head, last_extruder_temp, timeoutVars,
              layerVars, zcontrol>>

Heats ==
  /\ hot' = target /\ hot # target
  /\ UNCHANGED <<restVars, heatVars, moveVars, idle, stop_motor, sensorVars>>

\* A printer that has come to rest is ready, and idle after its timeout: the
\* heaters and the motors go off.
BecomesReady ==
  /\ idle = "Printing" /\ ~Printing
  /\ idle' = "Ready"
  /\ UNCHANGED <<restVars, heatVars, hot, moveVars, stop_motor, sensorVars>>

TimesOut ==
  /\ idle = "Ready" /\ ~Printing
  /\ idle' = "Idle"
  /\ HeatersOff
  /\ homed' = FALSE
  /\ UNCHANGED <<restVars, hot, head, stop_motor, sensorVars>>

StopMotor ==
  /\ stop_motor
  /\ stop_motor' = FALSE
  /\ homed' = FALSE
  /\ idle' = "Printing"
  /\ UNCHANGED <<restVars, heatVars, hot, head, sensorVars>>

\* The filament runs out of a printer that moves: the event sends the pause,
\* and the PAUSE macro follows half a second later.
RunsOut ==
  /\ Runout /\ filament
  /\ filament' = FALSE
  /\ IF idle = "Printing" /\ ~sensor
       THEN /\ sensor' = TRUE
            /\ pause_command_sent' = TRUE
            /\ sd_paused' = IF pause_command_sent THEN sd_paused ELSE Printing
            /\ state' = IF Printing /\ ~pause_command_sent THEN "paused" ELSE state
       ELSE UNCHANGED <<sensor, pause_command_sent, sd_paused, state>>
  /\ UNCHANGED <<file, line, is_paused, heatVars, hot, zcontrol, moveVars,
                 saved_head, last_extruder_temp, timeoutVars, idle, stop_motor,
                 layerVars>>

RunoutPause ==
  /\ sensor
  /\ sensor' = FALSE
  /\ Pause
  /\ UNCHANGED filament

FilamentLoaded ==
  /\ ~filament
  /\ filament' = TRUE
  /\ UNCHANGED <<restVars, heatVars, hot, moveVars, idle, stop_motor, sensor>>

Machine == \/ Heats \/ BecomesReady \/ TimesOut \/ StopMotor
           \/ RunsOut \/ RunoutPause \/ FilamentLoaded

Next == Line \/ Client \/ Machine

Spec == Init /\ [][Next]_vars

-----------------------------------------------------------------------------
(* Properties.                                                             *)

\* The file is past START_PRINT: from here on the slicer counts on a printer
\* that is homed, heated and watched.
UnderWay == Printing /\ line > 0

\* A print that goes on after a pause is printed at its temperatures: RESUME
\* restores them, or refuses to go on with a nozzle that is too cold.
ResumedHot ==
  [][~Printing /\ Printing' /\ line' > 0 => target' /\ bed' /\ hot']_vars

\* The nozzle's control is on while a print is under way, whatever pauses,
\* runouts and cancelled prints came before.
ProtectedWhilePrinting == UnderWay => zcontrol

\* The motors are never turned off under a print: not by the timer of a print
\* that ended before it, nor by the idle timeout.
HomedWhilePrinting == UnderWay => homed

\* Nobody but the job moves the head while a print is under way, and after a
\* pause it starts from where it was paused.
HeadWithJob == UnderWay => head = "job"

\* A layer somebody asked to pause at is not printed before the pause: the
\* line that announces it leaves the job paused.
LayerPause ==
  [][\A n \in 1 .. Layers :
       line = Info(n) /\ line' = line + 1
         /\ (pause_next_layer \/ pause_at_layer = n) => ~Printing']_vars

\* The long idle timeout of a pause is gone when the print goes on.
TimeoutRestored == UnderWay => ~long_timeout

\* The macros use the engine as it promises: whatever they do with pauses,
\* cancellations, errors and runouts, the job lives as in PrintJob, seen
\* between two commands.
Job == INSTANCE PrintJob WITH status <- state, FileLines <- LastLine + 1

ImplementsPrintJob == Job!CommandSpec
=============================================================================
