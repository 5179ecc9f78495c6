----------------------------- MODULE DelayedGcode -----------------------------
(***************************************************************************)
(* Delayed G-codes: extras/delayed_gcode.py, on the G-code mutex.          *)
(*                                                                         *)
(* When the timer of a delayed G-code goes off, its callback renders the   *)
(* script and asks for the mutex, and it is inside the timer until the     *)
(* script has run: an UPDATE_DELAYED_GCODE that comes while it waits, or   *)
(* from its own script, only says whether the timer is set once more.      *)
(* The others run scripts that may hold UPDATE_DELAYED_GCODEs: the clients, *)
(* which ask for the mutex at any time, and the handler of the print job,  *)
(* which asks for it only when it is free.                                 *)
(***************************************************************************)
EXTENDS Naturals, Sequences

CONSTANTS Client,
          Handler,          \* the print job's handler
          Timer,            \* the delayed G-codes, each a greenlet of its own
          NoOne,            \* the owner of the free mutex
          AnyoneCancels     \* whether others than _START_PRINT send DURATION=0

Greenlet == Client \cup {Handler} \cup Timer

ASSUME GreenletAssumption ==
  /\ NoOne \notin Greenlet
  /\ Handler \notin Client \cup Timer
  /\ Client \cap Timer = {}
ASSUME CancelAssumption == AnyoneCancels \in BOOLEAN

VARIABLES owner, waiting,   \* the G-code mutex
          armed,            \* the timers that have a waketime
          inside_timer,     \* the timers whose callback has not returned
          repeat,           \* those that will be set again when it returns
          asked             \* the delayed G-codes that should still run: the
                            \* last UPDATE_DELAYED_GCODE said so, and no run
                            \* has begun since that fulfils it

lockVars == <<owner, waiting>>
vars == <<lockVars, armed, inside_timer, repeat, asked>>

Mutex == INSTANCE FifoLock

TypeOK ==
  /\ owner \in Greenlet \cup {NoOne}
  /\ waiting \in Seq(Greenlet)
  /\ armed \subseteq Timer
  /\ inside_timer \subseteq Timer
  /\ repeat \subseteq inside_timer
  /\ asked \subseteq Timer

Init ==
  /\ Mutex!Init
  /\ armed \in SUBSET Timer          \* initial_duration
  /\ inside_timer = {} /\ repeat = {}
  /\ asked = armed

With(S, d, on) == IF on THEN S \cup {d} ELSE S \ {d}

\* A delayed G-code that gets the mutex begins its run; it is asked for no
\* longer unless it is to be repeated.
Begins(d) == owner # d /\ owner' = d

RunBegins == asked' = {d \in asked : Begins(d) => d \in repeat}

\* Fault: the timer is set without looking at inside_timer.
SetTimerAnyway(d, on) == armed' = With(armed, d, on) /\ UNCHANGED repeat

\* Fault: from inside the timer the command does nothing.
SetTimerOutside(d, on) ==
  /\ armed' = IF d \in inside_timer THEN armed ELSE With(armed, d, on)
  /\ UNCHANGED repeat

SetTimer(d, on) ==
  IF d \in inside_timer
    THEN repeat' = With(repeat, d, on) /\ UNCHANGED armed
    ELSE armed' = With(armed, d, on) /\ UNCHANGED repeat

\* UPDATE_DELAYED_GCODE in a script; on says whether DURATION is not 0.
Update(g, d, on) ==
  /\ owner = g
  /\ on \/ AnyoneCancels
  /\ SetTimer(d, on)
  /\ asked' = With(asked, d, on)
  /\ UNCHANGED <<lockVars, inside_timer>>

\* The timer goes off.
Fires(d) ==
  /\ d \in armed
  /\ armed' = armed \ {d}
  /\ inside_timer' = inside_timer \cup {d}
  /\ Mutex!Request(d)
  /\ RunBegins
  /\ UNCHANGED repeat

\* The script of a delayed G-code has run, or failed, and its callback
\* returns.
Returns(d) ==
  /\ Mutex!Release(d)
  /\ armed' = IF d \in repeat THEN armed \cup {d} ELSE armed
  /\ inside_timer' = inside_timer \ {d}
  /\ repeat' = repeat \ {d}
  /\ RunBegins

\* A client asks for the mutex.
Asks(c) ==
  /\ Mutex!Request(c)
  /\ UNCHANGED <<armed, inside_timer, repeat, asked>>

\* The handler begins a line of the file.
LineBegins ==
  /\ owner = NoOne
  /\ Mutex!Request(Handler)
  /\ UNCHANGED <<armed, inside_timer, repeat, asked>>

\* Fault: the waketime is computed from a duration of 0 as from any other.
TimersDueAtOnce == armed' = armed \cup (Timer \ inside_timer) /\ repeat' = {}

TimersCancelled == armed' = armed \cap inside_timer /\ repeat' = {}

\* The line is START_PRINT: the first thing it does, before anything that
\* waits, is to cancel the delayed G-codes of the print before.
StartPrint ==
  /\ owner = NoOne
  /\ Mutex!Request(Handler)
  /\ TimersCancelled
  /\ asked' = {}
  /\ UNCHANGED inside_timer

Ends(g) ==
  /\ Mutex!Release(g)
  /\ RunBegins
  /\ UNCHANGED <<armed, inside_timer, repeat>>

Next ==
  \/ \E g \in Greenlet, d \in Timer, on \in BOOLEAN : Update(g, d, on)
  \/ \E d \in Timer : Fires(d) \/ Returns(d)
  \/ \E c \in Client : Asks(c)
  \/ LineBegins \/ StartPrint
  \/ \E g \in Client \cup {Handler} : Ends(g)

Spec == Init /\ [][Next]_vars

\* The reactor calls a timer that is due, and a script comes to an end.
Fairness ==
  /\ \A d \in Timer : WF_vars(Fires(d)) /\ WF_vars(Returns(d))
  /\ \A g \in Client \cup {Handler} : WF_vars(Ends(g))

FairSpec == Spec /\ Fairness

-----------------------------------------------------------------------------
(* Properties.                                                             *)

\* The callback of a timer is never called while it is still waiting for the
\* mutex or running its script.
OneRun == armed \cap inside_timer = {}

\* No delayed G-code begins that was cancelled: the motors' timer and the
\* reboot of the last print have no effect on the one that has begun.
AsAsked == [][\A d \in Timer : Begins(d) => d \in asked]_vars

\* What was asked for runs, unless it is cancelled first: an
\* UPDATE_DELAYED_GCODE that comes while the timer waits for the mutex is not
\* lost.
AskedRuns == \A d \in Timer : d \in asked ~> (owner = d \/ d \notin asked)
=============================================================================
