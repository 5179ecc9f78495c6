------------------------------- MODULE JobQueue -------------------------------
(***************************************************************************)
(* Moonraker's queue of print jobs: components/job_queue.py, with what it  *)
(* hears of the printer from components/job_state.py.                      *)
(*                                                                         *)
(* Every operation of the queue (a client's request, an event of the       *)
(* printer, the timer that takes the next job) is a task of the event loop *)
(* and runs under one asyncio.Lock.  Tasks interleave where they await: at *)
(* the lock, and, the lock held, at a request to Klipper.  pause_queue     *)
(* alone changes the queue's state before it has the lock.                 *)
(***************************************************************************)
EXTENDS Naturals, Sequences, FiniteSets

CONSTANTS Task,           \* the tasks that can be under way at a time
          Job,            \* job ids; one that is in no queue may be given again
          Automatic,      \* automatic_transition
          LoadOnStart,    \* load_on_startup
          MaxTimers,      \* no more timers are armed or asked for
          NoOne           \* the owner of the free lock

ASSUME OptionAssumption ==
  /\ Automatic \in BOOLEAN /\ LoadOnStart \in BOOLEAN
  /\ MaxTimers \in Nat
ASSUME OwnerAssumption == NoOne \notin Task

VARIABLES queued_jobs, queue_state, pause_requested,
          timers,           \* how many timers will call _pop_job
          pop_queue_handle, \* whether the handle is that of such a timer
          line,             \* the lock: its owner, then those who wait for it
          pc,               \* what each task does
          chosen,           \* the job the pop under way has taken
          reply,            \* the answer to the lock owner's request
          printer,          \* Klipper: print_stats.state, or "loaded"
          klippy,           \* Klipper: ready, shut down, or not connected
          seen, job_active, \* JobState: the last state; the last event is that
                            \* of a job that prints or is paused
          started,          \* the queued jobs this run of Klipper has accepted
          resting           \* a pause that had the lock at once still holds

jobVars == <<queued_jobs, chosen, started>>
stateVars == <<queue_state, pause_requested, resting>>
timerVars == <<timers, pop_queue_handle>>
lockVars == <<line, pc>>
klipperVars == <<printer, klippy, seen, job_active>>
vars == <<jobVars, stateVars, timerVars, lockVars, reply, klipperVars>>

Requests == {"queue", "delete", "jump", "pause", "start"}
Events == {"ready", "halt", "complete", "abort", "pop"}
Stages == {"pausing", "haltingPaused", "halting", "startAsks", "popAsks",
           "transition", "starts"}
Asking == {"startAsks", "popAsks", "transition", "starts"}
Starters == {"start", "ready", "complete"}
Ended == {"complete", "cancelled", "error"}
PrinterState == {"standby", "loaded", "printing", "paused"} \cup Ended

TypeOK ==
  /\ queued_jobs \in Seq(Job) /\ started \subseteq Job /\ chosen \in Job
  /\ queue_state \in {"paused", "ready", "loading", "starting"}
  /\ pause_requested \in BOOLEAN /\ resting \in BOOLEAN
  /\ timers \in Nat /\ pop_queue_handle \in BOOLEAN
  /\ line \in Seq(Task)
  /\ pc \in [Task -> {"idle"} \cup Requests \cup Events \cup Stages]
  /\ reply \in {"none", "yes", "no"}
  /\ printer \in PrinterState /\ klippy \in {"ready", "shutdown", "gone"}
  /\ seen \in PrinterState /\ job_active \in BOOLEAN

Init ==
  /\ queued_jobs = <<>> /\ started = {} /\ chosen \in Job
  /\ queue_state = "paused" /\ pause_requested = FALSE /\ resting = FALSE
  /\ timers = 0 /\ pop_queue_handle = FALSE
  /\ line = <<>> /\ pc = [t \in Task |-> "idle"] /\ reply = "none"
  /\ printer \in {"standby", "printing"} /\ klippy = "ready"
  /\ seen = printer /\ job_active = FALSE

Elements(s) == {s[i] : i \in 1 .. Len(s)}

\* The queue is a dictionary: a job is in it once, if it is.
Without(s, j) ==
  IF j \notin Elements(s) THEN s
  ELSE LET k == CHOOSE i \in 1 .. Len(s) : s[i] = j
       IN  [i \in 1 .. Len(s) - 1 |-> IF i < k THEN s[i] ELSE s[i + 1]]

-----------------------------------------------------------------------------
(* The lock.  A task that finds it free goes on without giving up control. *)

Turn(t, op) == pc[t] = op /\ (line # <<>> => Head(line) = t)
Stage(t, stage) == pc' = [pc EXCEPT ![t] = stage]
Holds(t, stage) == Stage(t, stage) /\ line' = IF line = <<>> THEN <<t>> ELSE line
Done(t) == Stage(t, "idle") /\ line' = IF line = <<>> THEN <<>> ELSE Tail(line)

\* Fault: the last who asks is the first to get the lock.
WaitsInFront(t) ==
  /\ pc[t] \in (Requests \cup Events) \ {"pause", "halt"}
  /\ line # <<>> /\ t \notin Elements(line)
  /\ line' = <<Head(line), t>> \o Tail(line)
  /\ UNCHANGED <<jobVars, stateVars, timerVars, pc, reply, klipperVars>>

Waits(t) ==
  /\ pc[t] \in (Requests \cup Events) \ {"pause", "halt"}
  /\ line # <<>> /\ t \notin Elements(line)
  /\ line' = Append(line, t)
  /\ UNCHANGED <<jobVars, stateVars, timerVars, pc, reply, klipperVars>>

Arm == timers' = timers + 1 /\ pop_queue_handle' = TRUE

-----------------------------------------------------------------------------
(* The operations of the queue.                                            *)

\* Fault: a queue that was paused on request goes on when a job is added.
QueueJobUnpauses(t) ==
  /\ Turn(t, "queue") /\ Done(t)
  /\ \/ UNCHANGED <<queued_jobs, started>>
     \/ \E j \in Job \ Elements(queued_jobs) :
          queued_jobs' = Append(queued_jobs, j) /\ started' = started \ {j}
  /\ queue_state' = IF Automatic /\ job_active THEN "ready" ELSE queue_state
  /\ UNCHANGED <<chosen, pause_requested, resting, timerVars, reply, klipperVars>>

QueueJob(t) ==
  /\ Turn(t, "queue") /\ Done(t)
  /\ \/ UNCHANGED <<queued_jobs, started, queue_state>>   \* no such file
     \/ \E j \in Job \ Elements(queued_jobs), reset \in BOOLEAN :
          /\ queued_jobs' = IF reset THEN <<j>> ELSE Append(queued_jobs, j)
          /\ started' = started \ {j}
          /\ queue_state' = IF Automatic /\ ~pause_requested /\ job_active
                              THEN "ready" ELSE queue_state
  /\ UNCHANGED <<chosen, pause_requested, resting, timerVars, reply, klipperVars>>

\* Any of the jobs: what is left of the queue keeps its order.
DeleteJobs(t) ==
  /\ Turn(t, "delete") /\ Done(t)
  /\ \E n \in 0 .. Len(queued_jobs) : \E kept \in [1 .. n -> 1 .. Len(queued_jobs)] :
       /\ \A i, k \in 1 .. n : i < k => kept[i] < kept[k]
       /\ queued_jobs' = [i \in 1 .. n |-> queued_jobs[kept[i]]]
  /\ UNCHANGED <<chosen, started, stateVars, timerVars, reply, klipperVars>>

\* Fault: a job is moved to the front without the lock.
JumpAtOnce(t) ==
  /\ pc[t] = "jump" /\ Stage(t, "idle") /\ UNCHANGED line
  /\ \/ UNCHANGED queued_jobs
     \/ \E j \in Elements(queued_jobs) :
          queued_jobs' = <<j>> \o Without(queued_jobs, j)
  /\ UNCHANGED <<chosen, started, stateVars, timerVars, reply, klipperVars>>

Jump(t) ==
  /\ Turn(t, "jump") /\ Done(t)
  /\ \/ UNCHANGED queued_jobs                              \* no such job
     \/ \E j \in Elements(queued_jobs) :
          queued_jobs' = <<j>> \o Without(queued_jobs, j)
  /\ UNCHANGED <<chosen, started, stateVars, timerVars, reply, klipperVars>>

\* Fault: the timer is cancelled at once, the state set when the lock is had.
PauseCancelsOnly(t) ==
  /\ pc[t] \in {"pause", "halt"}
  /\ timers' = IF pop_queue_handle THEN timers - 1 ELSE timers
  /\ pop_queue_handle' = FALSE
  /\ Stage(t, "pausing") /\ line' = Append(line, t)
  /\ UNCHANGED <<jobVars, stateVars, reply, klipperVars>>

\* pause_queue up to its lock, for a client or for a shutdown, which puts
\* back what pause_requested was.
PauseBegins(t) ==
  /\ pc[t] \in {"pause", "halt"}
  /\ queue_state' = "paused"
  /\ timers' = IF pop_queue_handle THEN timers - 1 ELSE timers
  /\ pop_queue_handle' = FALSE
  /\ IF line = <<>>
       THEN /\ Stage(t, "idle") /\ UNCHANGED line
            /\ pause_requested' = (pause_requested \/ pc[t] = "pause")
            /\ resting' = (resting \/ pc[t] = "pause")
       ELSE /\ Stage(t, IF pc[t] = "pause" THEN "pausing"
                        ELSE IF pause_requested THEN "haltingPaused" ELSE "halting")
            /\ line' = Append(line, t)
            /\ UNCHANGED <<pause_requested, resting>>
  /\ UNCHANGED <<jobVars, reply, klipperVars>>

PauseEnds(t) ==
  /\ \E op \in {"pausing", "haltingPaused", "halting"} : Turn(t, op)
  /\ Done(t)
  /\ pause_requested' = (pc[t] # "halting")
  /\ UNCHANGED <<jobVars, queue_state, resting, timerVars, reply, klipperVars>>

StartQueue(t) ==
  /\ Turn(t, "start")
  /\ pause_requested' = FALSE /\ resting' = FALSE
  /\ IF queue_state \in {"ready", "paused"} /\ queued_jobs # <<>>
       THEN Holds(t, "startAsks") /\ UNCHANGED queue_state
       ELSE /\ Done(t)
            /\ queue_state' = IF queue_state = "ready" THEN "paused" ELSE queue_state
  /\ UNCHANGED <<jobVars, timerVars, reply, klipperVars>>

StartAnswered(t) ==
  /\ Turn(t, "startAsks") /\ reply # "none" /\ Done(t) /\ reply' = "none"
  /\ IF reply = "yes"
       THEN queue_state' = "loading" /\ Arm
       ELSE /\ queue_state' = IF Automatic THEN "ready" ELSE "paused"
            /\ UNCHANGED timerVars
  /\ UNCHANGED <<jobVars, pause_requested, resting, klipperVars>>

HandleReady(t) ==
  /\ Turn(t, "ready") /\ Done(t)
  /\ IF LoadOnStart /\ queued_jobs # <<>> /\ queue_state \in {"ready", "paused"}
       THEN queue_state' = "loading" /\ resting' = FALSE /\ Arm
       ELSE UNCHANGED <<queue_state, resting, timerVars>>
  /\ UNCHANGED <<jobVars, pause_requested, reply, klipperVars>>

OnJobComplete(t) ==
  /\ Turn(t, "complete") /\ Done(t)
  /\ IF queue_state = "ready" /\ queued_jobs # <<>>
       THEN queue_state' = "loading" /\ Arm
       ELSE UNCHANGED <<queue_state, timerVars>>
  /\ UNCHANGED <<jobVars, pause_requested, resting, reply, klipperVars>>

OnJobAbort(t) ==
  /\ Turn(t, "abort") /\ Done(t)
  /\ queue_state' = IF queued_jobs # <<>> THEN "paused" ELSE queue_state
  /\ UNCHANGED <<jobVars, pause_requested, resting, timerVars, reply, klipperVars>>

\* _pop_job, from its timer to the start of the job.
TimerFires(t) ==
  /\ pc[t] = "idle" /\ timers > 0
  /\ Stage(t, "pop") /\ timers' = timers - 1 /\ pop_queue_handle' = FALSE
  /\ UNCHANGED <<jobVars, stateVars, line, reply, klipperVars>>

PopRefused(t) ==
  /\ Turn(t, "pop") /\ Done(t)
  /\ queue_state = "paused" \/ queued_jobs = <<>>
  /\ queue_state' = "paused"
  /\ UNCHANGED <<jobVars, pause_requested, resting, timerVars, reply, klipperVars>>

\* Fault: the job is taken out of the queue before it has been started.
PopRemoves(t) ==
  /\ Turn(t, "pop") /\ Holds(t, "popAsks")
  /\ queue_state # "paused" /\ queued_jobs # <<>>
  /\ chosen' = Head(queued_jobs) /\ queued_jobs' = Tail(queued_jobs)
  /\ UNCHANGED <<started, stateVars, timerVars, reply, klipperVars>>

PopTakes(t) ==
  /\ Turn(t, "pop") /\ Holds(t, "popAsks")
  /\ queue_state # "paused" /\ queued_jobs # <<>>
  /\ chosen' = Head(queued_jobs)
  /\ UNCHANGED <<queued_jobs, started, stateVars, timerVars, reply, klipperVars>>

PopGoesOn(t) ==
  /\ \/ Turn(t, "popAsks") /\ Stage(t, "transition") /\ UNCHANGED queue_state
     \/ /\ Turn(t, "popAsks") \/ Turn(t, "transition")
        /\ Stage(t, "starts") /\ queue_state' = "starting"
  /\ reply = "yes" /\ queue_state = "loading"
  /\ reply' = "none"
  /\ UNCHANGED <<jobVars, pause_requested, resting, timerVars, line, klipperVars>>

PopGivesUp(t) ==
  /\ \/ /\ Turn(t, "popAsks") \/ Turn(t, "transition")
        /\ reply = "no" \/ (reply = "yes" /\ queue_state # "loading")
     \/ Turn(t, "starts") /\ reply = "no"
  /\ queue_state' = "paused" /\ Done(t) /\ reply' = "none"
  /\ UNCHANGED <<jobVars, pause_requested, resting, timerVars, klipperVars>>

\* Fault: a job stays queued if the queue was paused while it was started.
JobLoadedUnlessPaused(t) ==
  /\ Turn(t, "starts") /\ reply = "yes" /\ Done(t) /\ reply' = "none"
  /\ IF queue_state = "starting"
       THEN /\ queued_jobs' = Without(queued_jobs, chosen)
            /\ started' = started \ {chosen} /\ queue_state' = "ready"
       ELSE UNCHANGED <<queued_jobs, started, queue_state>>
  /\ UNCHANGED <<chosen, pause_requested, resting, timerVars, klipperVars>>

JobLoaded(t) ==
  /\ Turn(t, "starts") /\ reply = "yes" /\ Done(t) /\ reply' = "none"
  /\ queued_jobs' = Without(queued_jobs, chosen) /\ started' = started \ {chosen}
  /\ queue_state' = IF queue_state # "starting" THEN queue_state
                    ELSE IF queued_jobs' # <<>> /\ Automatic THEN "ready" ELSE "paused"
  /\ UNCHANGED <<chosen, pause_requested, resting, timerVars, klipperVars>>

-----------------------------------------------------------------------------
(* Klipper, its other clients, and what Moonraker hears of it.             *)

Asked(stage) == line # <<>> /\ pc[Head(line)] = stage /\ reply = "none"
Shown(p) == IF p = "loaded" THEN "standby" ELSE p   \* loading resets print_stats
Busy == printer \in {"loaded", "printing"}          \* SD busy

Queried ==
  /\ Asked("startAsks") \/ Asked("popAsks")
  /\ reply' = IF klippy # "gone" /\ Shown(printer) \notin {"printing", "paused"}
                THEN "yes" ELSE "no"
  /\ UNCHANGED <<jobVars, stateVars, timerVars, lockVars, klipperVars>>

TransitionRuns ==
  /\ Asked("transition")
  /\ reply' \in IF klippy = "ready" THEN {"yes", "no"} ELSE {"no"}
  /\ UNCHANGED <<jobVars, stateVars, timerVars, lockVars, klipperVars>>

StartAccepted ==
  /\ Asked("starts") /\ klippy = "ready" /\ ~Busy
  /\ reply' = "yes" /\ printer' = "loaded" /\ started' = started \cup {chosen}
  /\ UNCHANGED <<queued_jobs, chosen, stateVars, timerVars, lockVars, klippy, seen, job_active>>

StartRefused ==
  /\ Asked("starts") /\ reply' = "no"     \* busy, shut down, or the file is bad
  /\ UNCHANGED <<jobVars, stateVars, timerVars, lockVars, klipperVars>>

\* A job started past the queue, and what becomes of a job.
PrinterMoves ==
  /\ klippy = "ready"
  /\ \/ ~Busy /\ printer' = "loaded"
     \/ printer = "loaded" /\ printer' = "printing"
     \/ printer = "printing" /\ printer' \in Ended \cup {"paused"}
     \/ printer = "paused" /\ printer' \in {"printing", "cancelled"}
     \/ printer \in Ended /\ printer' = "standby"
  /\ UNCHANGED <<jobVars, stateVars, timerVars, lockVars, reply, klippy, seen, job_active>>

\* Bound: no more timers are armed or asked for than MaxTimers.
MayArm ==
  timers + Cardinality({t \in Task : pc[t] \in Starters \cup {"startAsks"}}) < MaxTimers

\* A task is created for an event or a request; Task is large enough for one
\* more, so that timers are not kept waiting.
Sent(t, event) ==
  /\ pc[t] = "idle" /\ \E u \in Task \ {t} : pc[u] = "idle"
  /\ event \in Starters => MayArm
  /\ Stage(t, event) /\ UNCHANGED line

\* JobState._status_update: Klipper reports four times a second, so states
\* that last less long are not seen.
StatusUpdate(t) ==
  /\ klippy # "gone" /\ seen # Shown(printer)
  /\ seen' = Shown(printer) /\ job_active' = (seen' \in {"printing", "paused"})
  /\ IF seen' = "complete" /\ Automatic THEN Sent(t, "complete")
     ELSE IF seen' \in {"cancelled", "error"} THEN Sent(t, "abort")
     ELSE UNCHANGED lockVars
  /\ UNCHANGED <<jobVars, stateVars, timerVars, reply, printer, klippy>>

Shutdown(t) ==
  /\ klippy = "ready" /\ klippy' = "shutdown" /\ Sent(t, "halt")
  /\ printer' = IF Busy THEN "error" ELSE printer
  /\ UNCHANGED <<jobVars, stateVars, timerVars, reply, seen, job_active>>

\* Klipper restarts: requests under way fail, also one it has carried out.
Disconnect ==
  /\ klippy # "gone" /\ klippy' = "gone" /\ printer' = "standby" /\ started' = {}
  /\ IF seen \in {"printing", "paused"} THEN seen' = "error" /\ job_active' = FALSE
                                        ELSE UNCHANGED <<seen, job_active>>
  /\ reply' = IF line # <<>> /\ pc[Head(line)] \in Asking THEN "no" ELSE reply
  /\ UNCHANGED <<queued_jobs, chosen, stateVars, timerVars, lockVars>>

Reconnect(t) ==
  /\ klippy = "gone" /\ klippy' = "ready" /\ seen' = Shown(printer)
  /\ Sent(t, "ready")
  /\ UNCHANGED <<jobVars, stateVars, timerVars, reply, printer, job_active>>

\* A client's request.
Request(t) ==
  /\ \E op \in Requests : Sent(t, op)
  /\ UNCHANGED <<jobVars, stateVars, timerVars, reply, klipperVars>>

-----------------------------------------------------------------------------
Runs(t) ==
  \/ Waits(t) \/ QueueJob(t) \/ DeleteJobs(t) \/ Jump(t)
  \/ PauseBegins(t) \/ PauseEnds(t) \/ StartQueue(t) \/ StartAnswered(t)
  \/ HandleReady(t) \/ OnJobComplete(t) \/ OnJobAbort(t)
  \/ PopRefused(t) \/ PopTakes(t) \/ PopGoesOn(t) \/ PopGivesUp(t) \/ JobLoaded(t)

Answers == Queried \/ TransitionRuns \/ StartAccepted \/ StartRefused

Next ==
  \/ \E t \in Task : \/ Runs(t) \/ TimerFires(t) \/ Request(t)
                     \/ StatusUpdate(t) \/ Shutdown(t) \/ Reconnect(t)
  \/ Answers \/ PrinterMoves \/ Disconnect

Spec == Init /\ [][Next]_vars

-----------------------------------------------------------------------------
(* Properties.                                                             *)

\* A queue that shows it is loading or starting a job has somebody who will
\* do it: a timer, or a _pop_job that waits or goes on (job_queue.py:114-153;
\* pause_queue cancels the timer and so must say that it is paused).
LoadingHasPop ==
  /\ queue_state = "loading" =>
       timers > 0 \/ \E t \in Task : pc[t] \in {"pop", "popAsks", "transition"}
  /\ queue_state = "starting" => line # <<>> /\ pc[Head(line)] = "starts"

\* The job that Klipper starts for the queue is the first of the queue at
\* that time, although _pop_job chose it two or three awaits earlier
\* (job_queue.py:123).
HeadFirst == [][StartAccepted => queued_jobs # <<>> /\ chosen = Head(queued_jobs)]_vars

\* One run of Klipper gets no job of the queue twice, with two _pop_job
\* pending and pauses in between (job_queue.py:146).
StartedOnce == [][StartAccepted => chosen \notin started]_vars

\* A job leaves the queue when Klipper has accepted it, or because a client
\* deletes it or resets the queue: not when the start is refused, the
\* connection fails or the queue is paused meanwhile (job_queue.py:125-152).
Kept ==
  [][\A j \in Elements(queued_jobs) \ Elements(queued_jobs') :
       j \in started \/ \E t \in Task : DeleteJobs(t) \/ QueueJob(t)]_vars

\* After a pause that did not have to wait for the lock no job is started
\* until start_queue, whatever timers the pause did not cancel
\* (job_queue.py:215-222).
PauseHolds == [][resting => queue_state' # "starting"]_vars

\* The operations that have to wait get the lock one at a time and in the
\* order in which they asked for it, pauses and shutdowns like the others, and
\* whoever holds it across a request to Klipper keeps it until it is done: no
\* early return takes the lock along (asyncio.Lock; job_queue.py:76-283).
LockOwner == IF line = <<>> THEN NoOne ELSE Head(line)
LockWaiting == IF line = <<>> THEN <<>> ELSE Tail(line)
Lock == INSTANCE FifoLock
          WITH Greenlet <- Task, owner <- LockOwner, waiting <- LockWaiting

ImplementsFifoLock == Lock!Spec
=============================================================================
