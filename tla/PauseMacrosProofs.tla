--------------------------- MODULE PauseMacrosProofs ---------------------------
(***************************************************************************)
(* Safety of the macros around a print, for any number of layers: the      *)
(* guards of a print under way for any clients, the ones that send PAUSE   *)
(* and RESUME at the worst moment included, as long as nobody sends a raw  *)
(* M24; its head, temperatures and timeout for careful clients.            *)
(***************************************************************************)
EXTENDS PauseMacros, TLAPS

\* A print under way is not paused and its guards are up.  A job that could
\* go on after a pause has no timer left that would turn the motors off under
\* it: such a timer is armed only by what ends the job.
JobInv ==
  /\ line \in Nat
  /\ UnderWay => /\ ~is_paused /\ ~pause_command_sent
                 /\ zcontrol /\ homed /\ ~stop_motor
  /\ sd_paused /\ line > 0 => ~stop_motor

LEMMA InitInv == Init => JobInv
  BY DEF Init, JobInv, UnderWay, Printing

\* A cancelled job is at line 0 and not under way; one that is left alone
\* did not print and has no pause to go on from.
LEMMA CancelInv == JobInv /\ CancelPrint => JobInv'
<1> SUFFICES ASSUME JobInv, CancelPrint PROVE JobInv'
  OBVIOUS
<1>1. CASE Printing \/ sd_paused
  <2>1. line' = 0 /\ state' # "printing"
    BY <1>1 DEF CancelPrint, Printing
  <2> QED
    BY <2>1 DEF JobInv, UnderWay, Printing
<1>2. CASE ~(Printing \/ sd_paused)
  <2>1. ~sd_paused' /\ state' # "printing" /\ UNCHANGED <<line, file>>
    BY <1>2 DEF CancelPrint, Printing, jobVars
  <2> QED
    BY <2>1 DEF JobInv, UnderWay, Printing
<1> QED
  BY <1>1, <1>2

\* PAUSE stops a print under way, and marks a job as paused from the SD card
\* only if it was printing.
LEMMA PauseStops ==
  ASSUME JobInv, PauseMacro
  PROVE  /\ UnderWay => Stops
         /\ sd_paused' => sd_paused \/ Printing
         /\ UNCHANGED stop_motor
<1>1. UnderWay => Stops
  BY DEF JobInv, UnderWay, Stops
<1>2. sd_paused' => sd_paused \/ Printing
  BY DEF PauseMacro, PauseBase
<1>3. UNCHANGED stop_motor
  BY DEF PauseMacro
<1> QED
  BY <1>1, <1>2, <1>3

LEMMA PauseInv == JobInv /\ Pause => JobInv'
<1> SUFFICES ASSUME JobInv, Pause PROVE JobInv'
  OBVIOUS
<1>1. /\ PauseMacro /\ UNCHANGED <<file, line>>
      /\ state' = IF Stops THEN "paused" ELSE state
  BY DEF Pause
<1>2. line > 0 => state' # "printing"
  BY <1>1, PauseStops DEF UnderWay, Printing
<1>3. sd_paused' /\ line > 0 => ~stop_motor'
  BY <1>1, PauseStops DEF JobInv, UnderWay
<1> QED
  BY <1>1, <1>2, <1>3 DEF JobInv, UnderWay, Printing

LEMMA LayerPausesInv ==
  ASSUME JobInv, NEW n \in 1 .. Layers, LayerPauses(n) PROVE JobInv' /\ ~Printing'
<1>1. /\ Printing /\ line > 0 /\ line' = line + 1 /\ UNCHANGED file
      /\ PauseMacro /\ (state' = IF Stops THEN "paused" ELSE state)
  BY FileAssumption DEF LayerPauses, Info
<1>2. state' = "paused"
  BY <1>1, PauseStops DEF UnderWay
<1>3. ~stop_motor'
  BY <1>1, PauseStops DEF JobInv, UnderWay
<1>4. state' # "printing" /\ line' \in Nat
  BY <1>1, <1>2 DEF JobInv
<1> QED
  BY <1>3, <1>4 DEF JobInv, UnderWay, Printing

LEMMA LineInv == JobInv /\ Line => JobInv'
<1> SUFFICES ASSUME JobInv, Line PROVE JobInv'
  OBVIOUS
<1> USE FileAssumption DEF JobInv, UnderWay, LastLine, Info, Printing, Stops, 
      pauseVars, heatVars, moveVars, timeoutVars, layerVars, jobVars
<1>1. CASE StartPrint
  BY <1>1 DEF StartPrint, StartBegins, TimersCancelled
<1>2. CASE StartRejected
  BY <1>2, CancelInv DEF StartRejected
<1>3. CASE StartFails
  BY <1>3 DEF StartFails, StartBegins, TimersCancelled
<1>4. CASE EndPrint
  BY <1>4 DEF EndPrint, CommonEndPrint
<1>5. ASSUME NEW n \in 1 .. Layers, LayerUndisturbed(n) PROVE JobInv'
  BY <1>5 DEF LayerUndisturbed
<1>6. ASSUME NEW n \in 1 .. Layers, LayerPauses(n) PROVE JobInv'
  BY <1>6, LayerPausesInv
<1>7. ASSUME NEW n \in 1 .. Layers, Extrude(n) PROVE JobInv'
  BY <1>7 DEF Extrude, HeatersOff
<1> QED
  BY <1>1, <1>2, <1>3, <1>4, <1>5, <1>6, <1>7 DEF Line

\* RESUME lets a job go on only when it was paused from the SD card, and then
\* turns the nozzle's control on.
LEMMA ResumeInv == ASSUME JobInv, Resume PROVE JobInv'
<1> USE DEF JobInv, UnderWay, Printing, Resume, ResumeMacro
<1>1. CASE MayResume
  <2>1. CASE is_paused /\ homed /\ ~(sd_paused /\ Printing)
    BY <1>1, <2>1 DEF ResumeBase, UserResumeMacro
  <2>2. CASE ~(is_paused /\ homed /\ ~(sd_paused /\ Printing))
    BY <1>1, <2>2 DEF ResumeBase, UserResumeMacro, pauseVars
  <2> QED
    BY <2>1, <2>2
<1>2. CASE ~MayResume
  BY <1>2 DEF pauseVars
<1> QED
  BY <1>1, <1>2

LEMMA ClientInv == ASSUME "M24" \notin ClientCommand, JobInv, Client PROVE JobInv'
<1> USE FileAssumption DEF JobInv, UnderWay, Printing, pauseVars, heatVars,
      moveVars, timeoutVars, layerVars, jobVars
<1>1. CASE Pause
  BY <1>1, PauseInv
<1>2. CASE Resume
  BY <1>2, ResumeInv
<1>3. CASE CancelPrint
  BY <1>3, CancelInv
<1>4. CASE SdcardPrintFile
  BY <1>4 DEF SdcardPrintFile
<1>5. CASE SdcardResetFile
  BY <1>5 DEF SdcardResetFile
<1>6. CASE M104
  BY <1>6 DEF M104
<1>7. CASE G28
  BY <1>7 DEF G28
<1>8. CASE ClientLinearMove
  BY <1>8 DEF ClientLinearMove
<1>9. CASE SetPause
  BY <1>9 DEF SetPause
<1>10. ~Sent("M24")
  BY DEF Sent
<1> QED
  BY <1>1, <1>2, <1>3, <1>4, <1>5, <1>6, <1>7, <1>8, <1>9, <1>10 DEF Client

LEMMA MachineInv == JobInv /\ Machine => JobInv'
<1> SUFFICES ASSUME JobInv, Machine PROVE JobInv'
  OBVIOUS
<1> USE DEF JobInv, UnderWay, Printing, restVars, pauseVars, heatVars, moveVars,
      timeoutVars, layerVars, jobVars
<1>1. CASE Heats
  BY <1>1 DEF Heats
<1>2. CASE BecomesReady
  BY <1>2 DEF BecomesReady
<1>3. CASE TimesOut
  BY <1>3 DEF TimesOut
<1>4. CASE StopMotor
  BY <1>4 DEF StopMotor
<1>5. CASE RunsOut
  BY <1>5 DEF RunsOut
<1>6. CASE RunoutPause
  BY <1>6, PauseInv DEF RunoutPause
<1>7. CASE FilamentLoaded
  BY <1>7 DEF FilamentLoaded
<1> QED
  BY <1>1, <1>2, <1>3, <1>4, <1>5, <1>6, <1>7 DEF Machine

LEMMA StepInv == ASSUME "M24" \notin ClientCommand, JobInv, [Next]_vars PROVE JobInv'
<1>1. CASE UNCHANGED vars
  BY <1>1 DEF vars, JobInv, UnderWay, Printing, jobVars, pauseVars, moveVars
<1> QED
  BY <1>1, LineInv, ClientInv, MachineInv DEF Next

-----------------------------------------------------------------------------
\* The inductive invariant of the macros.
THEOREM Invariance == "M24" \notin ClientCommand /\ Spec => []JobInv
<1> SUFFICES ASSUME "M24" \notin ClientCommand PROVE Spec => []JobInv
  OBVIOUS
<1>1. JobInv /\ [Next]_vars => JobInv'
  BY StepInv
<1> QED
  BY <1>1, InitInv, PTL DEF Spec

\* While a print is under way the nozzle's control is on and the motors stay
\* on, whatever the clients and the filament sensor did before.
THEOREM Guarded ==
  "M24" \notin ClientCommand /\ Spec
    => []ProtectedWhilePrinting /\ []HomedWhilePrinting
<1>1. JobInv => ProtectedWhilePrinting /\ HomedWhilePrinting
  BY DEF JobInv, ProtectedWhilePrinting, HomedWhilePrinting
<1> QED
  BY <1>1, Invariance, PTL

\* The line that announces a layer somebody asked to pause at leaves the job
\* paused.
THEOREM PausesAtLayer == "M24" \notin ClientCommand /\ Spec => LayerPause
<1> DEFINE Announced(n) ==
      /\ line = Info(n) /\ line' = line + 1
      /\ pause_next_layer \/ pause_at_layer = n
<1>1. ASSUME JobInv, Next, NEW n \in 1 .. Layers, Announced(n) PROVE ~Printing'
  <2>1. line # 0 /\ line' # line /\ line' # 0
    BY <1>1, FileAssumption DEF JobInv, Info
  <2>2. ~Client
    BY <2>1 DEF Client, Pause, Resume, M24Resumes, ResumeMacro, M24Starts,
       CancelPrint, SdcardPrintFile, SdcardResetFile, M104, G28,
       ClientLinearMove, SetPause, jobVars
  <2>3. ~Machine
    BY <2>1 DEF Machine, Heats, BecomesReady, TimesOut, StopMotor, RunsOut,
       RunoutPause, Pause, FilamentLoaded, restVars, jobVars
  <2>4. ~StartPrint /\ ~StartRejected /\ ~StartFails
    BY <2>1 DEF StartPrint, StartBegins, StartRejected, StartFails
  <2>8. ~EndPrint
    BY <2>1 DEF EndPrint
  <2>5. ASSUME NEW k \in 1 .. Layers, LayerUndisturbed(k) PROVE FALSE
    BY <1>1, <2>5, FileAssumption DEF LayerUndisturbed, Asked, Info
  <2>6. ASSUME NEW k \in 1 .. Layers, LayerPauses(k) PROVE ~Printing'
    BY <1>1, <2>6, LayerPausesInv
  <2>7. ASSUME NEW k \in 1 .. Layers, Extrude(k) PROVE FALSE
    BY <1>1, <2>7, FileAssumption DEF Extrude, Info
  <2> QED
    BY <1>1, <2>2, <2>3, <2>4, <2>5, <2>6, <2>7, <2>8 DEF Next, Line
<1>2. JobInv /\ [Next]_vars
        => [\A n \in 1 .. Layers :
              line = Info(n) /\ line' = line + 1
                /\ (pause_next_layer \/ pause_at_layer = n) => ~Printing']_vars
  BY <1>1
<1>3. SUFFICES ASSUME "M24" \notin ClientCommand PROVE Spec => LayerPause
  OBVIOUS
<1>4. Spec => []JobInv
  BY <1>3, Invariance, PTL
<1> QED
  BY <1>2, <1>4, PTL DEF Spec, LayerPause

-----------------------------------------------------------------------------
(* The types, whoever sends what.                                          *)

LEMMA InitType == Init => TypeOK
<1> SUFFICES ASSUME Init PROVE TypeOK
  OBVIOUS
<1>1. line \in 0 .. LastLine /\ pause_at_layer \in 0 .. Layers + 1
  BY FileAssumption DEF Init, LastLine
<1>2. last_extruder_temp \in [restore : BOOLEAN, temp : BOOLEAN, bed : BOOLEAN]
  BY DEF Init
<1>3. /\ is_paused \in BOOLEAN /\ sd_paused \in BOOLEAN
      /\ pause_command_sent \in BOOLEAN /\ target \in BOOLEAN
      /\ bed \in BOOLEAN /\ hot \in BOOLEAN /\ zcontrol \in BOOLEAN
      /\ homed \in BOOLEAN /\ restore_idle_timeout \in BOOLEAN
      /\ long_timeout \in BOOLEAN /\ stop_motor \in BOOLEAN
      /\ filament \in BOOLEAN /\ sensor \in BOOLEAN
      /\ pause_next_layer \in BOOLEAN
  BY DEF Init
<1> QED BY <1>1, <1>2, <1>3 DEF Init, TypeOK

LEMMA PauseType == ASSUME TypeOK, Pause, UNCHANGED sensorVars PROVE TypeOK'
<1> USE DEF TypeOK, Printing, layerVars, sensorVars
<1>1. /\ is_paused' \in BOOLEAN /\ sd_paused' \in BOOLEAN
      /\ pause_command_sent' \in BOOLEAN /\ target' \in BOOLEAN
      /\ zcontrol' \in BOOLEAN
      /\ restore_idle_timeout' \in BOOLEAN /\ long_timeout' \in BOOLEAN
  BY DEF Pause, PauseMacro, PauseBase
<1>2. last_extruder_temp' \in [restore : BOOLEAN, temp : BOOLEAN, bed : BOOLEAN]
  BY DEF Pause, PauseMacro
<1>3. /\ saved_head' \in {"job", "away"} /\ head' \in {"job", "away"}
      /\ idle' = "Printing" /\ state' \in {state, "paused"}
  BY DEF Pause, PauseMacro, PauseBase
<1>4. UNCHANGED <<file, line, layerVars, bed, hot, homed, stop_motor, sensorVars>>
  BY DEF Pause, PauseMacro
<1> QED BY <1>1, <1>2, <1>3, <1>4

LEMMA CancelType == ASSUME TypeOK, CancelPrint, UNCHANGED sensorVars PROVE TypeOK'
<1> USE FileAssumption DEF TypeOK, LastLine, Printing, jobVars, pauseVars,
      heatVars, moveVars, timeoutVars, layerVars, sensorVars
<1>1. /\ is_paused' \in BOOLEAN /\ pause_command_sent' \in BOOLEAN
      /\ target' \in BOOLEAN /\ bed' \in BOOLEAN
      /\ zcontrol' \in BOOLEAN /\ stop_motor' \in BOOLEAN
      /\ long_timeout' \in BOOLEAN /\ pause_next_layer' \in BOOLEAN
  BY DEF CancelPrint, CommonEndPrint, HeatersOff, RestoreTimeout, NoRequests
<1> QED BY <1>1 DEF CancelPrint, CommonEndPrint, HeatersOff, RestoreTimeout,
   NoRequests

LEMMA ResumeType ==
  ASSUME TypeOK, NEW control \in BOOLEAN, ResumeMacro(control), UNCHANGED sensorVars
  PROVE  TypeOK'
<1> USE FileAssumption DEF TypeOK, LastLine, Printing, jobVars, pauseVars,
      heatVars, moveVars, timeoutVars, layerVars, sensorVars
<1>1. /\ is_paused' \in BOOLEAN /\ sd_paused' \in BOOLEAN
      /\ pause_command_sent' \in BOOLEAN /\ target' \in BOOLEAN
      /\ bed' \in BOOLEAN /\ hot' \in BOOLEAN
      /\ zcontrol' \in BOOLEAN /\ long_timeout' \in BOOLEAN
  BY DEF ResumeMacro, Reheat, Reheats, RestoreTimeout, UserResumeMacro,
     ResumeBase, ReturnsTo
<1>2. state' \in {state, "printing"}
  BY DEF ResumeMacro, ResumeBase
<1> QED BY <1>1, <1>2 DEF ResumeMacro, Reheat, ResumeBase, ReturnsTo

LEMMA LineType == ASSUME TypeOK, Line PROVE TypeOK'
<1> USE FileAssumption DEF TypeOK, LastLine, Printing, jobVars, pauseVars,
      heatVars, moveVars, timeoutVars, layerVars, sensorVars
<1>0. UNCHANGED sensorVars
  BY DEF Line
<1>1. CASE StartPrint
  <2>1. /\ is_paused' \in BOOLEAN /\ pause_command_sent' \in BOOLEAN
        /\ stop_motor' \in BOOLEAN /\ zcontrol' \in BOOLEAN
        /\ homed' \in BOOLEAN /\ target' \in BOOLEAN
        /\ bed' \in BOOLEAN /\ hot' \in BOOLEAN
    BY <1>0, <1>1 DEF StartPrint, StartBegins, TimersCancelled
  <2> QED BY <1>0, <1>1, <2>1 DEF StartPrint, StartBegins, TimersCancelled
<1>2. CASE StartRejected
  BY <1>0, <1>2, CancelType DEF StartRejected
<1>3. CASE StartFails
  <2>1. /\ is_paused' \in BOOLEAN /\ pause_command_sent' \in BOOLEAN
        /\ stop_motor' \in BOOLEAN /\ zcontrol' \in BOOLEAN
        /\ homed' \in BOOLEAN /\ target' \in BOOLEAN
        /\ bed' \in BOOLEAN
    BY <1>0, <1>3 DEF StartFails, StartBegins, TimersCancelled, HeatersOff
  <2> QED BY <1>0, <1>3, <2>1 DEF StartFails, StartBegins, TimersCancelled, HeatersOff
<1>4. CASE EndPrint
  <2>1. /\ target' \in BOOLEAN /\ bed' \in BOOLEAN
        /\ zcontrol' \in BOOLEAN /\ stop_motor' \in BOOLEAN
    BY <1>0, <1>4 DEF EndPrint, CommonEndPrint, HeatersOff
  <2> QED BY <1>0, <1>4, <2>1 DEF EndPrint, CommonEndPrint, HeatersOff
<1>5. ASSUME NEW n \in 1 .. Layers, LayerUndisturbed(n) PROVE TypeOK'
  BY <1>0, <1>5 DEF LayerUndisturbed, Info
<1>6. ASSUME NEW n \in 1 .. Layers, LayerPauses(n) PROVE TypeOK'
  <2>1. /\ restore_idle_timeout' \in BOOLEAN /\ long_timeout' \in BOOLEAN
        /\ is_paused' \in BOOLEAN /\ pause_command_sent' \in BOOLEAN
        /\ sd_paused' \in BOOLEAN /\ target' \in BOOLEAN
        /\ zcontrol' \in BOOLEAN /\ pause_next_layer' \in BOOLEAN
    BY <1>0, <1>6 DEF LayerPauses, PauseMacro, PauseBase, Stops, Info
  <2> QED BY <1>0, <1>6, <2>1 DEF LayerPauses, PauseMacro, PauseBase, Stops, Info
<1>7. ASSUME NEW n \in 1 .. Layers, Extrude(n) PROVE TypeOK'
  <2>1. target' \in BOOLEAN /\ bed' \in BOOLEAN
    BY <1>0, <1>7 DEF Extrude, HeatersOff
  <2> QED BY <1>0, <1>7, <2>1 DEF Extrude, HeatersOff
<1> QED BY <1>1, <1>2, <1>3, <1>4, <1>5, <1>6, <1>7 DEF Line

LEMMA ClientType == ASSUME TypeOK, Client PROVE TypeOK'
<1> USE FileAssumption DEF TypeOK, LastLine, Printing, jobVars, pauseVars,
      heatVars, moveVars, timeoutVars, layerVars, sensorVars
<1>0. UNCHANGED sensorVars
  BY DEF Client
<1>1. CASE Pause
  BY <1>0, <1>1, PauseType
<1>2. CASE Resume \/ M24Resumes
  BY <1>0, <1>2, ResumeType DEF Resume, M24Resumes
<1>3. CASE CancelPrint
  BY <1>0, <1>3, CancelType
<1>4. CASE M24Starts
  BY <1>0, <1>4 DEF M24Starts
<1>5. CASE SdcardPrintFile
  BY <1>0, <1>5 DEF SdcardPrintFile
<1>6. CASE SdcardResetFile
  <2>1. zcontrol' \in BOOLEAN
    BY <1>0, <1>6 DEF SdcardResetFile
  <2> QED BY <1>0, <1>6, <2>1 DEF SdcardResetFile
<1>7. CASE M104
  BY <1>0, <1>7 DEF M104
<1>8. CASE G28
  BY <1>0, <1>8 DEF G28
<1>9. CASE ClientLinearMove
  BY <1>0, <1>9 DEF ClientLinearMove
<1>10. CASE SetPause
  <2>1. pause_next_layer' \in BOOLEAN
    BY <1>0, <1>10 DEF SetPause
  <2> QED BY <1>0, <1>10, <2>1 DEF SetPause
<1> QED BY <1>1, <1>2, <1>3, <1>4, <1>5, <1>6, <1>7, <1>8, <1>9, <1>10 DEF
   Client

LEMMA MachineType == ASSUME TypeOK, Machine PROVE TypeOK'
<1> USE FileAssumption DEF TypeOK, LastLine, Printing, jobVars, pauseVars,
      heatVars, moveVars, timeoutVars, layerVars, sensorVars
<1>1. CASE Heats
  BY <1>1 DEF Heats, restVars
<1>2. CASE BecomesReady
  BY <1>2 DEF BecomesReady, restVars
<1>3. CASE TimesOut
  <2>1. /\ target' \in BOOLEAN /\ bed' \in BOOLEAN
        /\ homed' \in BOOLEAN
    BY <1>3 DEF TimesOut, restVars, HeatersOff
  <2> QED BY <1>3, <2>1 DEF TimesOut, restVars, HeatersOff
<1>4. CASE StopMotor
  <2>1. stop_motor' \in BOOLEAN /\ homed' \in BOOLEAN
    BY <1>4 DEF StopMotor, restVars
  <2> QED BY <1>4, <2>1 DEF StopMotor, restVars
<1>5. CASE RunsOut
  <2>1. /\ filament' \in BOOLEAN /\ sensor' \in BOOLEAN
        /\ pause_command_sent' \in BOOLEAN /\ sd_paused' \in BOOLEAN
    BY <1>5 DEF RunsOut
  <2> QED BY <1>5, <2>1 DEF RunsOut
<1>6. CASE RunoutPause
  <2>1. filament' \in BOOLEAN /\ sensor' \in BOOLEAN
    BY <1>6 DEF RunoutPause
  <2> QED BY <1>6, <2>1 DEF RunoutPause, Pause, PauseMacro, PauseBase, Stops
<1>7. CASE FilamentLoaded
  BY <1>7 DEF FilamentLoaded, restVars
<1> QED BY <1>1, <1>2, <1>3, <1>4, <1>5, <1>6, <1>7 DEF Machine

\* Every variable keeps its type, and the line stays within the file, whatever
\* clients send and when: a job that goes on after a pause does not run past
\* END_PRINT.
THEOREM TypeCorrect == Spec => []TypeOK
<1>1. TypeOK /\ [Next]_vars => TypeOK'
  <2>1. TypeOK /\ UNCHANGED vars => TypeOK'
    BY DEF TypeOK, vars, jobVars, pauseVars, heatVars, moveVars, timeoutVars,
       layerVars, sensorVars
  <2> QED BY <2>1, LineType, ClientType, MachineType DEF Next
<1> QED BY <1>1, InitType, PTL DEF Spec

-----------------------------------------------------------------------------
(* The macros use the engine as PrintJob allows.                           *)

JobSame == UNCHANGED jobVars

LEMMA PauseIsJobs ==
  ASSUME Pause
  PROVE  JobSame \/ Job!Pause
<1>1. UNCHANGED <<file, line>> /\ state' = IF Stops THEN "paused" ELSE state
  BY DEF Pause
<1>2. CASE Stops
  BY <1>1, <1>2 DEF Stops, Printing, Job!Pause
<1>3. CASE ~Stops
  BY <1>1, <1>3 DEF JobSame, jobVars
<1> QED BY <1>2, <1>3

LEMMA CancelIsJobs ==
  ASSUME CancelPrint
  PROVE  JobSame \/ Job!Cancel \/ Job!Drop
<1>1. CASE Printing \/ sd_paused
  <2>1. /\ file' = NoFile /\ line' = 0
        /\ state' = IF state \in {"printing", "paused"} THEN "cancelled" ELSE state
    BY <1>1 DEF CancelPrint
  <2> QED BY <2>1 DEF Job!Cancel, Job!Drop
<1>2. CASE ~(Printing \/ sd_paused)
  BY <1>2 DEF CancelPrint, JobSame
<1> QED BY <1>1, <1>2

\* A job goes on only if it was stopped and has a file.
LEMMA ResumeIsJobs ==
  ASSUME NEW control, ResumeMacro(control)
  PROVE  JobSame \/ Job!Start
<1>1. /\ UNCHANGED <<file, line>>
      /\ state' # state => file # NoFile /\ state # "printing" /\ state' = "printing"
  BY DEF ResumeMacro, ResumeBase, Printing
<1> QED BY <1>1 DEF JobSame, jobVars, Job!Start

\* The lines of the file advance the job, pause it, end it or fail.
LEMMA LineIsJobs ==
  ASSUME TypeOK, Line
  PROVE  JobSame \/ Job!InOrder
<1>0. Layers \in Nat /\ line \in Nat /\ LastLine = 2 * Layers + 1
  BY FileAssumption DEF TypeOK, LastLine
<1>1. CASE StartPrint
  <2>1. state = "printing" /\ line' = line + 1 /\ line = 0 /\ UNCHANGED <<state, file>>
    BY <1>1 DEF StartPrint, StartBegins, Printing
  <2> QED BY <1>0, <2>1 DEF Job!InOrder, Job!Advance
<1>2. CASE StartRejected
  BY <1>2, CancelIsJobs DEF StartRejected, Job!InOrder
<1>3. CASE StartFails
  BY <1>3 DEF StartFails, StartBegins, Printing, Job!InOrder, Job!Fail
<1>4. CASE EndPrint
  <2>1. state = "printing" /\ line = LastLine
    BY <1>4 DEF EndPrint, Printing
  <2>2. state' = "complete" /\ file' = NoFile /\ line' = 0
    BY <1>4 DEF EndPrint
  <2> QED BY <1>0, <2>1, <2>2 DEF Job!InOrder, Job!Complete
<1>5. ASSUME NEW n \in 1 .. Layers, LayerUndisturbed(n) PROVE Job!Advance
  <2>1. /\ state = "printing" /\ line = 2 * n - 1 /\ line' = line + 1
        /\ UNCHANGED <<state, file>>
    BY <1>5 DEF LayerUndisturbed, Printing, Info
  <2> QED BY <1>0, <2>1 DEF Job!Advance
<1>6. ASSUME NEW n \in 1 .. Layers, LayerPauses(n) PROVE Job!Advance \/ Job!Pause
  <2>1. /\ state = "printing" /\ line = 2 * n - 1 /\ line' = line + 1
        /\ state' \in {state, "paused"} /\ file' = file
    BY <1>6 DEF LayerPauses, Printing, Info
  <2> QED BY <1>0, <2>1 DEF Job!Advance, Job!Pause
<1>7. ASSUME NEW n \in 1 .. Layers, Extrude(n) PROVE Job!Advance \/ Job!Fail
  <2>1. state = "printing" /\ line = 2 * n /\ file' = file
    BY <1>7 DEF Extrude, Printing
  <2>2. \/ line' = line + 1 /\ state' = state
        \/ line' = line /\ state' = "error"
    BY <1>7 DEF Extrude
  <2> QED BY <1>0, <2>1, <2>2 DEF Job!Advance, Job!Fail
<1> QED BY <1>1, <1>2, <1>3, <1>4, <1>5, <1>6, <1>7 DEF Line, Job!InOrder

LEMMA ClientIsJobs ==
  ASSUME Client
  PROVE  JobSame \/ Job!InOrder \/ Job!LoadAndStart \/ Job!StopAndUnload
<1> USE DEF JobSame, jobVars, Job!InOrder
<1>1. CASE Pause
  BY <1>1, PauseIsJobs
<1>2. CASE Resume \/ M24Resumes
  BY <1>2, ResumeIsJobs DEF Resume, M24Resumes
<1>3. CASE M24Starts
  BY <1>3 DEF M24Starts, Job!Start
<1>4. CASE CancelPrint
  BY <1>4, CancelIsJobs
<1>5. CASE SdcardPrintFile
  BY <1>5 DEF SdcardPrintFile, Printing, Job!Load, Job!LoadAndStart
<1>6. CASE SdcardResetFile
  BY <1>6 DEF SdcardResetFile, Job!Load, Job!StopAndUnload
<1>7. CASE M104 \/ G28 \/ ClientLinearMove \/ SetPause
  BY <1>7 DEF M104, G28, ClientLinearMove, SetPause
<1> QED BY <1>1, <1>2, <1>3, <1>4, <1>5, <1>6, <1>7 DEF Client

\* Of what needs no command only the filament sensor touches the job.
LEMMA MachineIsJobs ==
  ASSUME Machine
  PROVE  JobSame \/ Job!Pause
<1>1. CASE Heats \/ BecomesReady \/ TimesOut \/ StopMotor \/ FilamentLoaded
  BY <1>1 DEF Heats, BecomesReady, TimesOut, StopMotor, FilamentLoaded, restVars,
     JobSame
<1>2. CASE RunsOut
  <2>1. /\ UNCHANGED <<file, line>>
        /\ state' # state => state = "printing" /\ state' = "paused"
    BY <1>2 DEF RunsOut, Printing
  <2> QED BY <2>1 DEF JobSame, jobVars, Job!Pause
<1>3. CASE RunoutPause
  BY <1>3, PauseIsJobs DEF RunoutPause
<1> QED BY <1>1, <1>2, <1>3 DEF Machine

\* Whoever sends what and when, and whatever the filament does, the macros
\* take a job only through the life the engine promises: nothing starts
\* without a file, the position in the file moves one line at a time and is
\* kept over a pause, and only the last line completes a job.
THEOREM Refinement == Spec => ImplementsPrintJob
<1> DEFINE JobStep == [Job!InOrder \/ Job!LoadAndStart \/ Job!StopAndUnload]_(Job!jobVars)
<1>1. Init => Job!Init
  BY DEF Init, Job!Init
<1>2. TypeOK /\ [Next]_vars => JobStep
  <2> SUFFICES ASSUME TypeOK, [Next]_vars PROVE JobStep
    OBVIOUS
  <2>1. JobSame => JobStep
    BY DEF JobSame, jobVars, Job!jobVars
  <2>2. CASE UNCHANGED vars
    BY <2>1, <2>2 DEF vars, JobSame
  <2>3. CASE Next
    BY <2>1, <2>3, LineIsJobs, ClientIsJobs, MachineIsJobs DEF Next, Job!InOrder
  <2> QED BY <2>2, <2>3
<1> QED
  BY <1>1, <1>2, TypeCorrect, PTL DEF Spec, ImplementsPrintJob, Job!CommandSpec

-----------------------------------------------------------------------------
(* Careful clients.                                                        *)

\* Clients that send only what makes sense in the state they see, on a printer
\* that does not run out of filament and whose head no macro is asked to move.
CarefulClients ==
  Careful /\ ~Runout /\ "_CLIENT_LINEAR_MOVE" \notin ClientCommand

\* The printer is paused exactly when its job is, and the job can then go on.
PausedWithJob ==
  /\ filament /\ ~sensor
  /\ is_paused <=> state = "paused"
  /\ pause_command_sent <=> is_paused
  /\ is_paused => sd_paused
  /\ is_paused \/ Printing => file # NoFile

\* A print under way is at its temperatures and has the head; a pause of it has
\* saved both; and only a pause makes the timeout long, to be restored.
JobKept ==
  /\ UnderWay => target /\ bed /\ hot /\ head = "job"
  /\ is_paused /\ line > 0 =>
       /\ last_extruder_temp.restore /\ last_extruder_temp.temp
       /\ last_extruder_temp.bed /\ saved_head = "job"
  /\ long_timeout => is_paused /\ restore_idle_timeout

CareInv == TypeOK /\ PausedWithJob /\ JobKept

\* When a careful client sends its commands.
LEMMA SentWhenSensible ==
  ASSUME Careful
  PROVE  /\ Sent("PAUSE") \/ Sent("M25") => Printing
         /\ Sent("RESUME") \/ Sent("M24") => is_paused /\ idle # "Printing"
         /\ Sent("CANCEL_PRINT") => Printing \/ is_paused
         /\ Sent("M104") \/ Sent("G28") => ~Printing
         /\ Sent("SDCARD_PRINT_FILE") \/ Sent("SDCARD_RESET_FILE")
              => ~Printing /\ ~is_paused
  BY DEF Sent

LEMMA CareInit == Init => PausedWithJob /\ JobKept
  BY FileAssumption DEF Init, PausedWithJob, JobKept, UnderWay, Printing

LEMMA CarePause ==
  ASSUME CareInv, Printing, Pause, UNCHANGED sensorVars
  PROVE  PausedWithJob' /\ JobKept'
  BY DEF CareInv, TypeOK, PausedWithJob, JobKept, UnderWay, Printing, Pause,
     PauseMacro, PauseBase, Stops, sensorVars

\* The printer has come to rest: RESUME heats it to what the pause has saved,
\* whether it goes on or not.
LEMMA CareResume ==
  ASSUME CareInv, is_paused, idle # "Printing", NEW control, ResumeMacro(control),
         UNCHANGED sensorVars
  PROVE  PausedWithJob' /\ JobKept'
<1> USE DEF CareInv, TypeOK, PausedWithJob, JobKept, Printing, ResumeMacro, Reheat,
      ResumeBase, MayResume, Reheats, WasIdle, RestoreTimeout, pauseVars, sensorVars
<1>1. PausedWithJob'
  OBVIOUS
<1>2. JobKept'
  BY DEF UnderWay, ReturnsTo
<1> QED BY <1>1, <1>2

LEMMA CareCancel ==
  ASSUME CareInv, Printing \/ is_paused, CancelPrint, UNCHANGED sensorVars
  PROVE  PausedWithJob' /\ JobKept'
  BY DEF CareInv, TypeOK, PausedWithJob, JobKept, UnderWay, Printing, CancelPrint,
     CommonEndPrint, HeatersOff, RestoreTimeout, sensorVars

LEMMA CareLine == ASSUME CareInv, Line PROVE PausedWithJob' /\ JobKept'
<1> USE FileAssumption DEF CareInv, TypeOK, PausedWithJob, JobKept, UnderWay,
      Printing, jobVars, pauseVars, heatVars, moveVars, timeoutVars, sensorVars
<1>0. UNCHANGED sensorVars
  BY DEF Line
<1>1. CASE StartPrint
  BY <1>0, <1>1 DEF StartPrint, StartBegins, TimersCancelled
<1>2. CASE StartRejected
  BY <1>0, <1>2, CareCancel DEF StartRejected
<1>3. CASE StartFails
  BY <1>0, <1>3 DEF StartFails, StartBegins, TimersCancelled, HeatersOff
<1>4. CASE EndPrint
  BY <1>0, <1>4 DEF EndPrint, CommonEndPrint, HeatersOff
<1>5. ASSUME NEW n \in 1 .. Layers, LayerUndisturbed(n) PROVE PausedWithJob' /\ JobKept'
  BY <1>0, <1>5 DEF LayerUndisturbed, Info
<1>6. ASSUME NEW n \in 1 .. Layers, LayerPauses(n) PROVE PausedWithJob' /\ JobKept'
  BY <1>0, <1>6 DEF LayerPauses, PauseMacro, PauseBase, Stops, Info
<1>7. ASSUME NEW n \in 1 .. Layers, Extrude(n) PROVE PausedWithJob' /\ JobKept'
  BY <1>0, <1>7 DEF Extrude, HeatersOff
<1> QED BY <1>1, <1>2, <1>3, <1>4, <1>5, <1>6, <1>7 DEF Line

LEMMA CareClient ==
  ASSUME CareInv, CarefulClients, Client PROVE PausedWithJob' /\ JobKept'
<1> USE FileAssumption DEF CareInv, TypeOK, PausedWithJob, JobKept, UnderWay,
      Printing, jobVars, pauseVars, heatVars, moveVars, timeoutVars, sensorVars
<1>0. Careful /\ UNCHANGED sensorVars
  BY DEF Client, CarefulClients
<1>1. CASE (Sent("PAUSE") \/ Sent("M25")) /\ Pause
  BY <1>0, <1>1, SentWhenSensible, CarePause
<1>2. CASE \/ Sent("RESUME") /\ Resume
           \/ Sent("M24") /\ (M24Resumes \/ M24Starts)
  BY <1>0, <1>2, SentWhenSensible, CareResume DEF Resume, M24Resumes, M24Starts
<1>3. CASE Sent("CANCEL_PRINT") /\ CancelPrint
  BY <1>0, <1>3, SentWhenSensible, CareCancel
<1>4. CASE Sent("SDCARD_PRINT_FILE") /\ SdcardPrintFile
  BY <1>0, <1>4, SentWhenSensible DEF SdcardPrintFile
<1>5. CASE Sent("SDCARD_RESET_FILE") /\ SdcardResetFile
  BY <1>0, <1>5, SentWhenSensible DEF SdcardResetFile
<1>6. CASE Sent("M104") /\ M104
  BY <1>0, <1>6, SentWhenSensible DEF M104
<1>7. CASE Sent("G28") /\ G28
  BY <1>0, <1>7, SentWhenSensible DEF G28
<1>8. CASE SetPause
  BY <1>0, <1>8 DEF SetPause
<1>9. ~Sent("_CLIENT_LINEAR_MOVE")
  BY DEF Sent, CarefulClients
<1> QED BY <1>1, <1>2, <1>3, <1>4, <1>5, <1>6, <1>7, <1>8, <1>9 DEF Client

LEMMA CareMachine ==
  ASSUME CareInv, CarefulClients, Machine PROVE PausedWithJob' /\ JobKept'
<1> USE DEF CareInv, TypeOK, PausedWithJob, JobKept, UnderWay, Printing, restVars,
      jobVars, pauseVars, heatVars, moveVars, timeoutVars, sensorVars
<1>1. CASE Heats
  BY <1>1 DEF Heats
<1>2. CASE BecomesReady
  BY <1>2 DEF BecomesReady
<1>3. CASE TimesOut
  BY <1>3 DEF TimesOut, HeatersOff
<1>4. CASE StopMotor
  BY <1>4 DEF StopMotor
<1>5. ~RunsOut /\ ~RunoutPause /\ ~FilamentLoaded
  BY DEF RunsOut, RunoutPause, FilamentLoaded, CarefulClients
<1> QED BY <1>1, <1>2, <1>3, <1>4, <1>5 DEF Machine

\* The inductive invariant with careful clients.
THEOREM CarefulInvariance == CarefulClients /\ Spec => []CareInv
<1> SUFFICES ASSUME CarefulClients PROVE Spec => []CareInv
  OBVIOUS
<1>1. Spec => []TypeOK
  BY TypeCorrect
<1>2. CareInv /\ TypeOK' /\ [Next]_vars => CareInv'
  <2>1. CareInv /\ UNCHANGED vars => PausedWithJob' /\ JobKept'
    BY DEF CareInv, PausedWithJob, JobKept, UnderWay, Printing, vars, jobVars,
       pauseVars, heatVars, moveVars, timeoutVars, sensorVars
  <2> QED BY <2>1, CareLine, CareClient, CareMachine DEF Next, CareInv
<1>3. Init => CareInv
  BY InitType, CareInit DEF CareInv
<1> QED BY <1>1, <1>2, <1>3, PTL DEF Spec

\* With careful clients nobody but the job moves the head while a print is
\* under way, and it starts from where it was paused; and the long idle timeout
\* of a pause is gone when the print goes on.
THEOREM CarefulPrint ==
  CarefulClients /\ Spec => []HeadWithJob /\ []TimeoutRestored
<1>1. CareInv => HeadWithJob /\ TimeoutRestored
  BY DEF CareInv, PausedWithJob, JobKept, HeadWithJob, TimeoutRestored, UnderWay,
     Printing
<1> QED BY <1>1, CarefulInvariance, PTL

\* With careful clients a print that goes on after a pause is printed at the
\* temperatures it was paused at.
THEOREM ResumesHot == CarefulClients /\ Spec => ResumedHot
<1> SUFFICES ASSUME CarefulClients PROVE Spec => ResumedHot
  OBVIOUS
<1>1. CareInv' => (~Printing /\ Printing' /\ line' > 0 => target' /\ bed' /\ hot')
  BY DEF CareInv, JobKept, UnderWay
<1>2. CareInv' => [~Printing /\ Printing' /\ line' > 0 => target' /\ bed' /\ hot']_vars
  BY <1>1
<1>3. Spec => []CareInv
  BY CarefulInvariance
<1> QED BY <1>2, <1>3, PTL DEF Spec, ResumedHot
=============================================================================
