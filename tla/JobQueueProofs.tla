---------------------------- MODULE JobQueueProofs ----------------------------
(***************************************************************************)
(* The job queue of Moonraker for any number of tasks, jobs and timers and *)
(* all options: loading is never without a pop, the first job is the one   *)
(* that is started, once, no job gets lost, and a pause that had the lock  *)
(* at once holds.                                                          *)
(***************************************************************************)
EXTENDS JobQueue, SequenceLemmas, TLAPS

\* Only the lock's owner waits for Klipper, and only its answer is on its way.
OwnerAsks ==
  /\ \A t \in Task : pc[t] \in Asking => line # <<>> /\ Head(line) = t
  /\ reply # "none" => line # <<>> /\ pc[Head(line)] \in Asking

\* A task that has gone beyond its first wait is in the line.
Queued == \A t \in Task : pc[t] \in Stages => t \in Elements(line)

\* A handle belongs to an armed timer.
HandleArmed ==
  /\ timers \in Nat /\ pop_queue_handle \in BOOLEAN
  /\ pop_queue_handle => timers > 0

Popping(t) == pc[t] \in {"popAsks", "transition", "starts"}

\* What is known while a pop awaits Klipper.
PopInv ==
  /\ \A t \in Task : Popping(t) => queued_jobs # <<>> /\ chosen = Head(queued_jobs)
  /\ \A t \in Task : pc[t] = "starts" => queue_state \in {"starting", "paused"}
  /\ started \subseteq {chosen}
  /\ started # {} => line # <<>> /\ pc[Head(line)] = "starts" /\ reply = "yes"

\* While a pause holds that had the lock at once, nothing is under way that
\* could end it.
RestInv ==
  resting => /\ queue_state = "paused" /\ pause_requested
             /\ \A t \in Task : pc[t] \notin Asking \cup {"halting"}

Types ==
  /\ line \in Seq(Task) /\ reply \in {"none", "yes", "no"}
  /\ pc \in [Task -> {"idle"} \cup Requests \cup Events \cup Stages]
  /\ resting \in BOOLEAN /\ pause_requested \in BOOLEAN

\* The inductive invariant of the queue.
IInv == Types /\ OwnerAsks /\ Queued /\ HandleArmed /\ PopInv /\ RestInv /\ LoadingHasPop

LEMMA InitIInv == Init => IInv
<1> SUFFICES ASSUME Init PROVE IInv
  OBVIOUS
<1>1. Types
  <2>1. pc \in [Task -> {"idle"} \cup Requests \cup Events \cup Stages]
    BY DEF Init
  <2>2. line \in Seq(Task) /\ reply \in {"none", "yes", "no"}
    BY DEF Init
  <2> QED
    BY <2>1, <2>2 DEF Init, Types
<1>4. HandleArmed
  BY DEF Init, HandleArmed
<1>3. OwnerAsks /\ Queued
  BY DEF Init, OwnerAsks, Queued, Asking, Stages
<1>2. PopInv /\ RestInv /\ LoadingHasPop
  BY DEF Init, PopInv, Popping, RestInv, LoadingHasPop
<1> QED
  BY <1>1, <1>2, <1>3, <1>4 DEF IInv

\* What a task that runs under the lock relies on: nobody else awaits Klipper.
LEMMA OwnersTurn ==
  ASSUME NEW t \in Task, NEW op, IInv, Turn(t, op)
  PROVE  /\ \A u \in Task : u # t => pc[u] \notin Asking
         /\ op \notin Asking => reply = "none" /\ \A u \in Task : pc[u] \notin Asking
         /\ op \in Asking => line # <<>> /\ Head(line) = t
         /\ op \notin Asking \/ op # "starts" => started = {}
  BY DEF Turn, IInv, OwnerAsks, PopInv, Asking

LEMMA Appended ==
  ASSUME NEW t \in Task, line \in Seq(Task), line # <<>>
  PROVE  Append(line, t) # <<>> /\ Head(Append(line, t)) = Head(line)
         /\ Append(line, t) \in Seq(Task) /\ Head(line) \in Task
  OBVIOUS

LEMMA LineElements ==
  ASSUME line \in Seq(Task)
  PROVE  /\ \A t \in Task : Elements(Append(line, t)) = Elements(line) \cup {t}
         /\ line # <<>> => Elements(line) = {Head(line)} \cup Elements(Tail(line))
         /\ \A t \in Task : t \in Elements(<<t>>)
         /\ Elements(<<>>) = {}
<1>1. \A t \in Task : Elements(Append(line, t)) = Elements(line) \cup {t}
  <2> TAKE t \in Task
  <2>1. ASSUME NEW e PROVE e \in Elements(Append(line, t)) <=> e \in Elements(line) \cup {t}
    BY DEF Elements
  <2> QED
    BY <2>1
<1>2. ASSUME line # <<>> PROVE Elements(line) = {Head(line)} \cup Elements(Tail(line))
  <2>1. ASSUME NEW i \in 1 .. Len(line), i # 1
        PROVE  i - 1 \in 1 .. Len(Tail(line)) /\ line[i] = Tail(line)[i - 1]
    BY <1>2, <2>1
  <2>2. ASSUME NEW i \in 1 .. Len(Tail(line))
        PROVE  i + 1 \in 1 .. Len(line) /\ line[i + 1] = Tail(line)[i]
    BY <1>2, <2>2
  <2>3. line[1] = Head(line) /\ 1 \in 1 .. Len(line)
    BY <1>2
  <2>4. ASSUME NEW e \in Elements(line) PROVE e \in {Head(line)} \cup Elements(Tail(line))
    <3>1. PICK i \in 1 .. Len(line) : e = line[i]
      BY DEF Elements
    <3>2. CASE i = 1
      BY <3>1, <3>2, <2>3
    <3>3. CASE i # 1
      BY <3>1, <3>3, <2>1 DEF Elements
    <3> QED
      BY <3>2, <3>3
  <2>5. ASSUME NEW e \in Elements(Tail(line)) PROVE e \in Elements(line)
    <3>1. PICK i \in 1 .. Len(Tail(line)) : e = Tail(line)[i]
      BY DEF Elements
    <3> QED
      BY <3>1, <2>2 DEF Elements
  <2>6. Head(line) \in Elements(line)
    BY <2>3 DEF Elements
  <2> QED
    BY <2>4, <2>5, <2>6
<1>3. \A t \in Task : t \in Elements(<<t>>)
  <2> TAKE t \in Task
  <2>1. Len(<<t>>) = 1 /\ <<t>>[1] = t /\ 1 \in 1 .. 1
    OBVIOUS
  <2> QED
    BY <2>1 DEF Elements
<1>4. Elements(<<>>) = {}
  BY DEF Elements
<1> QED
  BY <1>1, <1>2, <1>3, <1>4

\* After a task has let go of the lock nobody awaits Klipper.
LEMMA AfterDone ==
  ASSUME IInv, NEW t \in Task, NEW op, Turn(t, op), Done(t)
  PROVE  /\ line' \in Seq(Task) /\ pc' = [pc EXCEPT ![t] = "idle"]
         /\ pc' \in [Task -> {"idle"} \cup Requests \cup Events \cup Stages]
         /\ \A u \in Task : pc'[u] \notin Asking
         /\ \A u \in Task : u # t => pc'[u] = pc[u]
         /\ pc'[t] = "idle"
         /\ Queued'
<1>1. /\ pc' = [pc EXCEPT ![t] = "idle"]
      /\ pc' \in [Task -> {"idle"} \cup Requests \cup Events \cup Stages]
      /\ \A u \in Task : pc'[u] \notin Asking
      /\ \A u \in Task : u # t => pc'[u] = pc[u]
      /\ pc'[t] = "idle" /\ line' \in Seq(Task)
  BY OwnersTurn DEF Done, Stage, Asking, IInv, Types
<1>2. Queued'
  BY <1>1, LineElements DEF IInv, Types, Queued, Done, Turn, Stages
<1> QED
  BY <1>1, <1>2

LEMMA AfterHolds ==
  ASSUME IInv, NEW t \in Task, NEW op, NEW stage \in Stages, Turn(t, op), Holds(t, stage)
  PROVE  /\ line' \in Seq(Task) /\ line' # <<>> /\ Head(line') = t
         /\ pc' \in [Task -> {"idle"} \cup Requests \cup Events \cup Stages]
         /\ \A u \in Task : u # t => pc'[u] = pc[u] /\ pc'[u] \notin Asking
         /\ pc'[t] = stage
         /\ Queued'
<1>1. line' \in Seq(Task) /\ line' # <<>> /\ Head(line') = t
  BY DEF Holds, Turn, IInv, Types
<1>2. t \in Elements(line') /\ Elements(line) \subseteq Elements(line')
  BY LineElements DEF Holds, Turn, IInv, Types
<1>3. /\ pc' \in [Task -> {"idle"} \cup Requests \cup Events \cup Stages]
      /\ \A u \in Task : u # t => pc'[u] = pc[u] /\ pc'[u] \notin Asking
      /\ pc'[t] = stage
  BY OwnersTurn DEF Holds, Stage, IInv, Types
<1>4. Queued'
  BY <1>2, <1>3 DEF Queued, IInv
<1> QED
  BY <1>1, <1>3, <1>4

\* An operation that ends: what is left to show is about the queue's state.
LEMMA Ending ==
  ASSUME NEW t \in Task, NEW op, IInv, Turn(t, op), Done(t),
         reply' = "none", started' = {},
         resting' \in BOOLEAN, pause_requested' \in BOOLEAN,
         resting' => queue_state' = "paused" /\ pause_requested'
                     /\ \A u \in Task \ {t} : pc[u] # "halting",
         HandleArmed', LoadingHasPop'
  PROVE  IInv'
<1>1. Types'
  BY AfterDone DEF Types
<1>2. OwnerAsks' /\ Queued'
  BY AfterDone DEF OwnerAsks
<1>3. PopInv'
  BY AfterDone DEF PopInv, Popping, Asking
<1>4. RestInv'
  BY AfterDone DEF RestInv
<1> QED
  BY <1>1, <1>2, <1>3, <1>4 DEF IInv

\* If the state is left alone, or is not one that needs a pop, none is missing.
LEMMA EndedLoading ==
  ASSUME NEW t \in Task, NEW op, IInv, Turn(t, op), Done(t),
         timers' = timers, op \notin {"pop", "popAsks", "transition", "starts"},
         queue_state' = queue_state \/ queue_state' \in {"paused", "ready"}
  PROVE  LoadingHasPop'
<1>1. CASE queue_state' \in {"paused", "ready"}
  BY <1>1 DEF LoadingHasPop
<1>2. CASE queue_state' = queue_state
  <2>1. \A u \in Task : u # t => pc[u] \notin Asking /\ pc'[u] = pc[u]
    BY OwnersTurn, AfterDone
  <2>2. pc[t] = op
    BY DEF Turn
  <2>3. queue_state # "starting"
    BY <2>1, <2>2, Appended DEF IInv, LoadingHasPop, Types, Asking
  <2> QED
    BY <1>2, <2>1, <2>2, <2>3 DEF IInv, LoadingHasPop, Asking
<1> QED
  BY <1>1, <1>2

-----------------------------------------------------------------------------
LEMMA WaitsInv == ASSUME NEW t \in Task, IInv, Waits(t) PROVE IInv'
<1>1. Append(line, t) # <<>> /\ Head(Append(line, t)) = Head(line)
      /\ Append(line, t) \in Seq(Task)
  BY Appended DEF IInv, Types, Waits
<1>4. Queued'
  BY LineElements DEF IInv, Types, Queued, Waits
<1>2. Types' /\ HandleArmed' /\ RestInv'
  BY <1>1 DEF IInv, Types, HandleArmed, RestInv, Waits, jobVars, stateVars, timerVars
<1>3. OwnerAsks' /\ PopInv' /\ LoadingHasPop'
  BY <1>1 DEF IInv, OwnerAsks, PopInv, Popping, LoadingHasPop, Waits, jobVars,
             stateVars, timerVars
<1> QED
  BY <1>2, <1>3, <1>4 DEF IInv

LEMMA QueueJobInv == ASSUME NEW t \in Task, IInv, QueueJob(t) PROVE IInv'
<1>1. Turn(t, "queue") /\ Done(t)
      /\ reply' = reply /\ started' \subseteq started
      /\ timers' = timers /\ pop_queue_handle' = pop_queue_handle
      /\ pause_requested' = pause_requested /\ resting' = resting
      /\ (queue_state' = queue_state \/ (queue_state' = "ready" /\ ~pause_requested))
  BY DEF QueueJob, timerVars
<1>2. reply' = "none" /\ started' = {}
  BY <1>1, OwnersTurn DEF Asking
<1>3. resting' \in BOOLEAN /\ pause_requested' \in BOOLEAN
      /\ (resting' => queue_state' = "paused" /\ pause_requested'
                      /\ \A u \in Task \ {t} : pc[u] # "halting")
  BY <1>1 DEF IInv, Types, RestInv
<1>4. HandleArmed'
  BY <1>1 DEF IInv, HandleArmed
<1>5. LoadingHasPop'
  BY <1>1, EndedLoading
<1> QED
  BY <1>1, <1>2, <1>3, <1>4, <1>5, Ending

LEMMA DeleteJobsInv == ASSUME NEW t \in Task, IInv, DeleteJobs(t) PROVE IInv'
<1>1. Turn(t, "delete") /\ Done(t)
      /\ reply' = reply /\ started' = started
      /\ timers' = timers /\ pop_queue_handle' = pop_queue_handle
      /\ pause_requested' = pause_requested /\ resting' = resting
      /\ queue_state' = queue_state
  BY DEF DeleteJobs, timerVars, stateVars
<1>2. reply' = "none" /\ started' = {}
  BY <1>1, OwnersTurn DEF Asking
<1>3. resting' \in BOOLEAN /\ pause_requested' \in BOOLEAN
      /\ (resting' => queue_state' = "paused" /\ pause_requested'
                      /\ \A u \in Task \ {t} : pc[u] # "halting")
  BY <1>1 DEF IInv, Types, RestInv
<1>4. HandleArmed'
  BY <1>1 DEF IInv, HandleArmed
<1>5. LoadingHasPop'
  BY <1>1, EndedLoading
<1> QED
  BY <1>1, <1>2, <1>3, <1>4, <1>5, Ending

LEMMA JumpInv == ASSUME NEW t \in Task, IInv, Jump(t) PROVE IInv'
<1>1. Turn(t, "jump") /\ Done(t)
      /\ reply' = reply /\ started' = started
      /\ timers' = timers /\ pop_queue_handle' = pop_queue_handle
      /\ pause_requested' = pause_requested /\ resting' = resting
      /\ queue_state' = queue_state
  BY DEF Jump, timerVars, stateVars
<1>2. reply' = "none" /\ started' = {}
  BY <1>1, OwnersTurn DEF Asking
<1>3. resting' \in BOOLEAN /\ pause_requested' \in BOOLEAN
      /\ (resting' => queue_state' = "paused" /\ pause_requested'
                      /\ \A u \in Task \ {t} : pc[u] # "halting")
  BY <1>1 DEF IInv, Types, RestInv
<1>4. HandleArmed'
  BY <1>1 DEF IInv, HandleArmed
<1>5. LoadingHasPop'
  BY <1>1, EndedLoading
<1> QED
  BY <1>1, <1>2, <1>3, <1>4, <1>5, Ending

LEMMA OnJobAbortInv == ASSUME NEW t \in Task, IInv, OnJobAbort(t) PROVE IInv'
<1>1. Turn(t, "abort") /\ Done(t)
      /\ reply' = reply /\ started' = started
      /\ timers' = timers /\ pop_queue_handle' = pop_queue_handle
      /\ pause_requested' = pause_requested /\ resting' = resting
      /\ queue_state' \in {queue_state, "paused"}
  BY DEF OnJobAbort, timerVars, jobVars
<1>2. reply' = "none" /\ started' = {}
  BY <1>1, OwnersTurn DEF Asking
<1>3. resting' \in BOOLEAN /\ pause_requested' \in BOOLEAN
      /\ (resting' => queue_state' = "paused" /\ pause_requested'
                      /\ \A u \in Task \ {t} : pc[u] # "halting")
  BY <1>1 DEF IInv, Types, RestInv
<1>4. HandleArmed'
  BY <1>1 DEF IInv, HandleArmed
<1>5. LoadingHasPop'
  BY <1>1, EndedLoading
<1> QED
  BY <1>1, <1>2, <1>3, <1>4, <1>5, Ending

LEMMA PauseEndsInv == ASSUME NEW t \in Task, IInv, PauseEnds(t) PROVE IInv'
<1> PICK op \in {"pausing", "haltingPaused", "halting"} : Turn(t, op)
  BY DEF PauseEnds
<1>1. Turn(t, op) /\ Done(t)
      /\ reply' = reply /\ started' = started /\ queue_state' = queue_state
      /\ timers' = timers /\ pop_queue_handle' = pop_queue_handle
      /\ pause_requested' = (pc[t] # "halting") /\ resting' = resting
  BY DEF PauseEnds, timerVars, jobVars
<1>2. reply' = "none" /\ started' = {}
  BY <1>1, OwnersTurn DEF Asking
<1>3. resting' \in BOOLEAN /\ pause_requested' \in BOOLEAN
      /\ (resting' => queue_state' = "paused" /\ pause_requested'
                      /\ \A u \in Task \ {t} : pc[u] # "halting")
  BY <1>1 DEF IInv, Types, RestInv
<1>4. HandleArmed'
  BY <1>1 DEF IInv, HandleArmed
<1>5. LoadingHasPop'
  BY <1>1, EndedLoading
<1> QED
  BY <1>1, <1>2, <1>3, <1>4, <1>5, Ending

LEMMA Arming == ASSUME IInv, Arm PROVE HandleArmed' /\ timers' > 0
<1>1. timers \in Nat /\ timers' = timers + 1
  BY DEF IInv, HandleArmed, Arm
<1>2. timers' \in Nat /\ timers' > 0
  BY <1>1
<1>3. pop_queue_handle' \in BOOLEAN
  BY DEF Arm
<1> QED
  BY <1>2, <1>3 DEF HandleArmed

LEMMA HandleReadyInv == ASSUME NEW t \in Task, IInv, HandleReady(t) PROVE IInv'
<1>1. Turn(t, "ready") /\ Done(t) /\ started' = started /\ pause_requested' = pause_requested
      /\ reply' \in {reply, "none"} /\ pause_requested \in BOOLEAN /\ resting \in BOOLEAN
  BY DEF HandleReady, jobVars, IInv, Types
<1>2. reply' = "none" /\ started' = {}
  BY <1>1, OwnersTurn DEF Asking, HandleReady
<1>3. CASE Arm /\ resting' = FALSE
  <2>1. HandleArmed' /\ timers' > 0
    BY <1>3, Arming
  <2>4. queue_state' # "starting"
    <3>1. CASE queue_state' = "loading"
      BY <3>1
    <3>2. CASE queue_state' = queue_state
      BY <3>2, <1>1, OwnersTurn, Appended DEF IInv, LoadingHasPop, Types, Asking, Turn
    <3> QED
      BY <3>1, <3>2 DEF HandleReady
  <2>5. LoadingHasPop'
    BY <2>1, <2>4 DEF LoadingHasPop
  <2> QED
    BY <1>1, <1>2, <1>3, <2>1, <2>5, Ending
<1>4. CASE UNCHANGED <<queue_state, resting, timerVars>>
  <2>3. LoadingHasPop'
    BY <1>1, <1>4, EndedLoading DEF timerVars
  <2>1. HandleArmed' /\ LoadingHasPop'
    BY <1>4, <2>3 DEF timerVars, IInv, HandleArmed
  <2>2. resting => queue_state = "paused" /\ pause_requested
                   /\ \A u \in Task \ {t} : pc[u] # "halting"
    BY DEF IInv, RestInv
  <2> QED
    BY <1>1, <1>2, <1>4, <2>1, <2>2, Ending
<1> QED
  BY <1>3, <1>4 DEF HandleReady

LEMMA OnJobCompleteInv == ASSUME NEW t \in Task, IInv, OnJobComplete(t) PROVE IInv'
<1>1. Turn(t, "complete") /\ Done(t) /\ started' = started /\ pause_requested' = pause_requested
      /\ reply' \in {reply, "none"} /\ pause_requested \in BOOLEAN /\ resting \in BOOLEAN
  BY DEF OnJobComplete, jobVars, IInv, Types
<1>2. reply' = "none" /\ started' = {}
  BY <1>1, OwnersTurn DEF Asking, OnJobComplete
<1>3. resting => queue_state = "paused" /\ pause_requested
                 /\ \A u \in Task \ {t} : pc[u] # "halting"
  BY DEF IInv, RestInv
<1>4. CASE Arm /\ resting' = resting /\ queue_state = "ready"
  <2>1. HandleArmed' /\ LoadingHasPop'
    BY <1>4, Arming DEF LoadingHasPop, OnJobComplete
  <2> QED
    BY <1>1, <1>2, <1>3, <1>4, <2>1, Ending
<1>5. CASE UNCHANGED <<queue_state, resting, timerVars>>
  <2>1. HandleArmed' /\ LoadingHasPop'
    BY <1>1, <1>5, EndedLoading DEF timerVars, IInv, HandleArmed
  <2> QED
    BY <1>1, <1>2, <1>3, <1>5, <2>1, Ending
<1> QED
  BY <1>4, <1>5 DEF OnJobComplete

LEMMA StartAnsweredInv == ASSUME NEW t \in Task, IInv, StartAnswered(t) PROVE IInv'
<1>1. Turn(t, "startAsks") /\ Done(t) /\ started' = started /\ pause_requested' = pause_requested
      /\ reply' \in {reply, "none"} /\ pause_requested \in BOOLEAN /\ resting \in BOOLEAN
  BY DEF StartAnswered, jobVars, IInv, Types
<1>2. reply' = "none" /\ started' = {}
  BY <1>1, OwnersTurn DEF Asking, StartAnswered
<1>3. pc[t] = "startAsks" /\ ~resting /\ resting' = resting
  BY <1>1 DEF StartAnswered, Turn, IInv, RestInv, Asking
<1>4. CASE Arm
  <2>1. HandleArmed' /\ LoadingHasPop'
    BY <1>4, Arming DEF LoadingHasPop, StartAnswered
  <2> QED
    BY <1>1, <1>2, <1>3, <2>1, Ending
<1>5. CASE UNCHANGED timerVars /\ queue_state' \in {"ready", "paused"}
  <2>1. HandleArmed' /\ LoadingHasPop'
    BY <1>5 DEF timerVars, IInv, HandleArmed, LoadingHasPop
  <2> QED
    BY <1>1, <1>2, <1>3, <2>1, Ending
<1> QED
  BY <1>4, <1>5 DEF StartAnswered

\* A task that goes on to wait for Klipper.
LEMMA Holding ==
  ASSUME NEW t \in Task, NEW op, NEW stage \in {"startAsks", "popAsks"},
         IInv, Turn(t, op), Holds(t, stage), op \notin Asking,
         timers' = timers, pop_queue_handle' = pop_queue_handle,
         reply' = reply, started' = started,
         resting' = FALSE, pause_requested' \in BOOLEAN,
         queue_state' = queue_state,
         op = "pop" \/ stage = "startAsks",
         op = "pop" => stage = "popAsks",
         queued_jobs' = queued_jobs,
         stage = "popAsks" => queued_jobs # <<>> /\ chosen' = Head(queued_jobs)
  PROVE  IInv'
<1>1. reply = "none" /\ started = {} /\ stage \in Stages /\ stage \in Asking /\ stage # "starts"
  BY OwnersTurn DEF Stages, Asking
<1>2. Types' /\ OwnerAsks' /\ Queued'
  BY <1>1, AfterHolds DEF Types, OwnerAsks
<1>3. HandleArmed' /\ RestInv'
  BY DEF IInv, HandleArmed, RestInv
<1>4. PopInv'
  BY <1>1, AfterHolds DEF PopInv, Popping, Asking
<1>5. queue_state # "starting" /\ pc[t] = op
  BY OwnersTurn, Appended DEF IInv, LoadingHasPop, Types, Asking, Turn
<1>6. LoadingHasPop'
  BY <1>1, <1>5, AfterHolds, OwnersTurn DEF IInv, LoadingHasPop, Asking
<1> QED
  BY <1>2, <1>3, <1>4, <1>6 DEF IInv

LEMMA StartQueueInv == ASSUME NEW t \in Task, IInv, StartQueue(t) PROVE IInv'
<1>1. Turn(t, "start") /\ started' = started /\ reply' = reply /\ resting' = FALSE
      /\ pause_requested' = FALSE /\ timers' = timers /\ queued_jobs' = queued_jobs
      /\ pop_queue_handle' = pop_queue_handle
  BY DEF StartQueue, jobVars, timerVars
<1>2. CASE Holds(t, "startAsks") /\ queue_state' = queue_state
  BY <1>1, <1>2, Holding DEF Asking
<1>3. CASE Done(t) /\ queue_state' \in {queue_state, "paused"}
  <2>1. reply' = "none" /\ started' = {}
    BY <1>1, OwnersTurn DEF Asking
  <2>2. HandleArmed' /\ LoadingHasPop'
    BY <1>1, <1>3, EndedLoading DEF IInv, HandleArmed
  <2> QED
    BY <1>1, <1>3, <2>1, <2>2, Ending
<1> QED
  BY <1>2, <1>3 DEF StartQueue

LEMMA PopTakesInv == ASSUME NEW t \in Task, IInv, PopTakes(t) PROVE IInv'
<1>1. Turn(t, "pop") /\ Holds(t, "popAsks")
  BY DEF PopTakes
<1>2. resting' = FALSE /\ resting = FALSE
  BY DEF PopTakes, stateVars, IInv, RestInv, Types
<1>3. pause_requested' \in BOOLEAN
  BY DEF PopTakes, stateVars, IInv, Types
<1> QED
  BY <1>1, <1>2, <1>3, Holding DEF PopTakes, stateVars, timerVars, Asking

LEMMA PopRefusedInv == ASSUME NEW t \in Task, IInv, PopRefused(t) PROVE IInv'
<1>1. Turn(t, "pop") /\ Done(t) /\ reply' = reply /\ started' = started
      /\ timers' = timers /\ pop_queue_handle' = pop_queue_handle
      /\ pause_requested' = pause_requested /\ resting' = resting /\ queue_state' = "paused"
  BY DEF PopRefused, jobVars, timerVars
<1>2. reply' = "none" /\ started' = {}
  BY <1>1, OwnersTurn DEF Asking
<1>3. HandleArmed' /\ LoadingHasPop'
  BY <1>1 DEF IInv, HandleArmed, LoadingHasPop
<1> QED
  BY <1>1, <1>2, <1>3, Ending DEF IInv, Types, RestInv

LEMMA PopGivesUpInv == ASSUME NEW t \in Task, IInv, PopGivesUp(t) PROVE IInv'
<1> PICK op \in {"popAsks", "transition", "starts"} : Turn(t, op)
  BY DEF PopGivesUp
<1>1. Done(t) /\ reply' = "none" /\ started' = started
      /\ timers' = timers /\ pop_queue_handle' = pop_queue_handle
      /\ pause_requested' = pause_requested /\ resting' = resting /\ queue_state' = "paused"
  BY DEF PopGivesUp, jobVars, timerVars
<1>2. started' = {}
  BY <1>1, OwnersTurn DEF PopGivesUp, Turn, IInv, PopInv
<1>3. HandleArmed' /\ LoadingHasPop'
  BY <1>1 DEF IInv, HandleArmed, LoadingHasPop
<1> QED
  BY <1>1, <1>2, <1>3, Ending DEF IInv, Types, RestInv

LEMMA JobLoadedInv == ASSUME NEW t \in Task, IInv, JobLoaded(t) PROVE IInv'
<1>1. Turn(t, "starts") /\ Done(t) /\ reply' = "none"
      /\ started' = started \ {chosen}
      /\ timers' = timers /\ pop_queue_handle' = pop_queue_handle
      /\ pause_requested' = pause_requested /\ resting' = resting
  BY DEF JobLoaded, timerVars
<1>2. started' = {}
  BY <1>1 DEF IInv, PopInv
<1>3. ~resting /\ queue_state \in {"starting", "paused"}
  BY <1>1 DEF Turn, IInv, RestInv, PopInv, Asking
<1>4. queue_state' \in {"ready", "paused"}
  BY <1>3 DEF JobLoaded
<1>5. HandleArmed' /\ LoadingHasPop'
  BY <1>1, <1>4 DEF IInv, HandleArmed, LoadingHasPop
<1> QED
  BY <1>1, <1>2, <1>3, <1>5, Ending DEF IInv, Types

LEMMA PopGoesOnInv == ASSUME NEW t \in Task, IInv, PopGoesOn(t) PROVE IInv'
<1> PICK op \in {"popAsks", "transition"} : Turn(t, op)
  BY DEF PopGoesOn
<1>1. PICK stage \in {"transition", "starts"} : Stage(t, stage)
        /\ queue_state' = (IF stage = "starts" THEN "starting" ELSE queue_state)
  BY DEF PopGoesOn
<1>2. /\ queue_state = "loading" /\ reply' = "none" /\ started' = started /\ line' = line
      /\ queued_jobs' = queued_jobs /\ chosen' = chosen
      /\ timers' = timers /\ pop_queue_handle' = pop_queue_handle
      /\ pause_requested' = pause_requested /\ resting' = resting
  BY DEF PopGoesOn, jobVars, timerVars
<1>3. line # <<>> /\ Head(line) = t /\ started = {} /\ resting = FALSE /\ pc[t] = op
  BY <1>2, OwnersTurn DEF Turn, IInv, RestInv, Types, Asking
<1>4. /\ pc' = [pc EXCEPT ![t] = stage] /\ pc'[t] = stage
      /\ \A u \in Task : u # t => pc'[u] = pc[u] /\ pc[u] \notin Asking
  BY <1>1, OwnersTurn DEF Stage, IInv, Types, Asking
<1>5. Types' /\ OwnerAsks' /\ Queued'
  BY <1>2, <1>3, <1>4 DEF IInv, Types, OwnerAsks, Queued, Stages
<1>6. HandleArmed' /\ RestInv'
  BY <1>2, <1>3 DEF IInv, HandleArmed, RestInv
<1>7. PopInv'
  <2>1. queued_jobs # <<>> /\ chosen = Head(queued_jobs)
    BY <1>3 DEF IInv, PopInv, Popping
  <2> QED
    BY <2>1, <1>1, <1>2, <1>3, <1>4 DEF PopInv, Popping, Asking
<1>8. LoadingHasPop'
  BY <1>1, <1>2, <1>3, <1>4 DEF LoadingHasPop
<1> QED
  BY <1>5, <1>6, <1>7, <1>8 DEF IInv

LEMMA PauseBeginsInv == ASSUME NEW t \in Task, IInv, PauseBegins(t) PROVE IInv'
<1>1. /\ pc[t] \in {"pause", "halt"} /\ queue_state' = "paused"
      /\ queued_jobs' = queued_jobs /\ chosen' = chosen /\ started' = started
      /\ reply' = reply
  BY DEF PauseBegins, jobVars
<1>2. HandleArmed'
  <2>1. timers \in Nat /\ timers' \in Nat
    BY DEF PauseBegins, IInv, HandleArmed
  <2>2. pop_queue_handle' = FALSE
    BY DEF PauseBegins
  <2> QED
    BY <2>1, <2>2 DEF HandleArmed
<1>3. LoadingHasPop'
  BY <1>1 DEF LoadingHasPop
<1>4. PICK stage \in {"idle", "pausing", "haltingPaused", "halting"} :
        /\ Stage(t, stage)
        /\ IF line = <<>> THEN line' = line ELSE line' = Append(line, t)
        /\ stage = "idle" <=> line = <<>>
        /\ stage = "halting" => ~pause_requested
  BY DEF PauseBegins
<1>5. /\ pc' \in [Task -> {"idle"} \cup Requests \cup Events \cup Stages] /\ pc'[t] = stage
      /\ \A u \in Task : u # t => pc'[u] = pc[u]
  BY <1>4 DEF Stage, IInv, Types, Stages
<1>6. line' \in Seq(Task) /\ (line # <<>> => line' # <<>> /\ Head(line') = Head(line))
  BY <1>4, Appended DEF IInv, Types
<1>7. Head(line) # t \/ reply = "none"
  BY <1>1 DEF IInv, OwnerAsks, Asking
<1>8. OwnerAsks'
  <2>1. ASSUME NEW u \in Task, pc'[u] \in Asking PROVE line' # <<>> /\ Head(line') = u
    BY <2>1, <1>4, <1>5, <1>6 DEF IInv, OwnerAsks, Asking
  <2>2. ASSUME reply # "none" PROVE line' # <<>> /\ pc'[Head(line')] \in Asking
    BY <2>2, <1>5, <1>6, <1>7, Appended DEF IInv, OwnerAsks, Types
  <2> QED
    BY <2>1, <2>2, <1>1 DEF OwnerAsks
<1>9. PopInv'
  <2>1. \A u \in Task : Popping(u)' => Popping(u) /\ pc'[u] = pc[u]
    BY <1>4, <1>5 DEF Popping
  <2>2. started # {} => line' # <<>> /\ pc'[Head(line')] = "starts"
    BY <1>1, <1>5, <1>6, Appended DEF IInv, PopInv, Types
  <2> QED
    BY <1>1, <2>1, <2>2 DEF IInv, PopInv, Popping
<1>10. resting' \in BOOLEAN /\ pause_requested' \in BOOLEAN
  BY DEF PauseBegins, IInv, Types
<1>11. RestInv'
  <2>1. CASE line = <<>>
    <3>1. \A u \in Task : pc[u] \notin Asking
      BY <2>1 DEF IInv, OwnerAsks
    <3>2. CASE pc[t] = "pause"
      <4>1. pause_requested' /\ stage = "idle"
        BY <2>1, <3>2, <1>4 DEF PauseBegins
      <4>2. \A u \in Task : pc[u] # "halting"
        BY <2>1, LineElements DEF IInv, Types, Queued, Stages
      <4> QED
        BY <1>1, <1>4, <1>5, <3>1, <4>1, <4>2 DEF RestInv, Asking
    <3>3. CASE pc[t] = "halt"
      BY <1>1, <1>4, <1>5, <2>1, <3>3 DEF PauseBegins, IInv, RestInv, Asking
    <3> QED
      BY <1>1, <3>2, <3>3
  <2>2. CASE line # <<>>
    BY <1>1, <1>4, <1>5, <2>2 DEF PauseBegins, IInv, RestInv, Asking
  <2> QED
    BY <2>1, <2>2
<1>12. Types'
  BY <1>1, <1>5, <1>6, <1>10 DEF IInv, Types
<1>13. Queued'
  BY <1>4, <1>5, LineElements DEF IInv, Types, Queued, Stages
<1> QED
  BY <1>2, <1>3, <1>8, <1>9, <1>11, <1>12, <1>13 DEF IInv

\* A new task, for a request, an event or a timer.
LEMMA NewTask ==
  ASSUME NEW t \in Task, NEW op \in Requests \cup Events, IInv, pc[t] = "idle",
         Stage(t, op), UNCHANGED <<jobVars, stateVars, line, reply>>,
         HandleArmed', timers' = timers \/ op = "pop"
  PROVE  IInv'
<1>1. /\ pc' \in [Task -> {"idle"} \cup Requests \cup Events \cup Stages] /\ pc'[t] = op
      /\ \A u \in Task : u # t => pc'[u] = pc[u]
  BY DEF Stage, IInv, Types
<1>2. op \notin Asking \cup {"halting"} /\ op # "starts"
  BY DEF Requests, Events, Asking
<1>3. line # <<>> => Head(line) \in Task
  BY DEF IInv, Types
<1>4. Types' /\ OwnerAsks' /\ RestInv'
  BY <1>1, <1>2, <1>3 DEF IInv, Types, OwnerAsks, RestInv, stateVars, Asking
<1>7. Queued'
  BY <1>1 DEF IInv, Queued, Requests, Events, Stages
<1>5. PopInv'
  BY <1>1, <1>2, <1>3 DEF IInv, PopInv, Popping, Asking, jobVars, stateVars
<1>6. LoadingHasPop'
  BY <1>1, <1>2, <1>3 DEF IInv, LoadingHasPop, stateVars
<1> QED
  BY <1>4, <1>5, <1>6, <1>7 DEF IInv

LEMMA TimerFiresInv == ASSUME NEW t \in Task, IInv, TimerFires(t) PROVE IInv'
<1>1. HandleArmed'
  <2>1. timers \in Nat /\ timers' \in Nat
    BY DEF TimerFires, IInv, HandleArmed
  <2>2. pop_queue_handle' = FALSE
    BY DEF TimerFires
  <2> QED
    BY <2>1, <2>2 DEF HandleArmed
<1> QED
  BY <1>1, NewTask DEF TimerFires, Events

\* The printer's side changes none of the queue's variables but the answer.
LEMMA OutsideInv ==
  ASSUME IInv, UNCHANGED <<queued_jobs, chosen, stateVars, timerVars, lockVars>>,
         reply' \in {"none", "yes", "no"},
         reply' = reply \/ (line # <<>> /\ pc[Head(line)] \in Asking),
         started' \subseteq {chosen},
         started' # {} => line # <<>> /\ pc[Head(line)] = "starts" /\ reply' = "yes"
  PROVE  IInv'
<1>1. Types' /\ OwnerAsks' /\ Queued' /\ HandleArmed' /\ RestInv'
  BY DEF IInv, Types, OwnerAsks, Queued, HandleArmed, RestInv, stateVars, timerVars, lockVars
<1>2. PopInv' /\ LoadingHasPop'
  BY DEF IInv, PopInv, Popping, LoadingHasPop, stateVars, timerVars, lockVars
<1> QED
  BY <1>1, <1>2 DEF IInv

\* What started holds before a step of the printer.
LEMMA StartedKnown ==
  ASSUME IInv
  PROVE  /\ started \subseteq {chosen}
         /\ started # {} => line # <<>> /\ pc[Head(line)] = "starts" /\ reply = "yes"
         /\ reply \in {"none", "yes", "no"}
  BY DEF IInv, PopInv, Types

LEMMA AnswersInv == ASSUME IInv, Answers PROVE IInv'
<1>1. CASE Queried
  BY <1>1, StartedKnown, OutsideInv DEF Queried, Asked, Asking, jobVars
<1>2. CASE TransitionRuns
  BY <1>2, StartedKnown, OutsideInv DEF TransitionRuns, Asked, Asking, jobVars
<1>3. CASE StartAccepted
  BY <1>3, StartedKnown, OutsideInv DEF StartAccepted, Asked, Asking
<1>4. CASE StartRefused
  BY <1>4, StartedKnown, OutsideInv DEF StartRefused, Asked, Asking, jobVars
<1> QED
  BY <1>1, <1>2, <1>3, <1>4 DEF Answers

LEMMA SentInv ==
  ASSUME NEW t \in Task, NEW op \in Requests \cup Events, IInv, Sent(t, op),
         UNCHANGED <<jobVars, stateVars, timerVars, reply>>
  PROVE  IInv'
<1>1. HandleArmed'
  BY DEF IInv, HandleArmed, timerVars
<1> QED
  BY <1>1, NewTask DEF Sent, timerVars

LEMMA UntouchedInv ==
  ASSUME IInv, UNCHANGED <<jobVars, stateVars, timerVars, lockVars, reply>>
  PROVE  IInv'
  BY StartedKnown, OutsideInv DEF jobVars

LEMMA NoticeInv ==
  ASSUME NEW t \in Task, IInv,
         Request(t) \/ StatusUpdate(t) \/ Shutdown(t) \/ Reconnect(t)
  PROVE  IInv'
<1>1. CASE Request(t)
  <2>1. PICK op \in Requests : Sent(t, op)
    BY <1>1 DEF Request
  <2> QED
    BY <1>1, <2>1, SentInv DEF Request
<1>2. CASE StatusUpdate(t)
  <2>1. CASE Sent(t, "complete")
    BY <1>2, <2>1, SentInv DEF StatusUpdate, Events
  <2>2. CASE Sent(t, "abort")
    BY <1>2, <2>2, SentInv DEF StatusUpdate, Events
  <2>3. CASE UNCHANGED lockVars
    BY <1>2, <2>3, UntouchedInv DEF StatusUpdate
  <2> QED
    BY <1>2, <2>1, <2>2, <2>3 DEF StatusUpdate
<1>3. CASE Shutdown(t)
  BY <1>3, SentInv DEF Shutdown, Events
<1>4. CASE Reconnect(t)
  BY <1>4, SentInv DEF Reconnect, Events
<1> QED
  BY <1>1, <1>2, <1>3, <1>4

LEMMA PrinterInv == ASSUME IInv, PrinterMoves \/ Disconnect PROVE IInv'
<1>1. CASE PrinterMoves
  BY <1>1, UntouchedInv DEF PrinterMoves
<1>2. CASE Disconnect
  <2>1. started' = {} /\ reply' \in {reply, "no"}
        /\ (reply' = reply \/ (line # <<>> /\ pc[Head(line)] \in Asking))
    BY <1>2 DEF Disconnect
  <2> QED
    BY <1>2, <2>1, StartedKnown, OutsideInv DEF Disconnect
<1> QED
  BY <1>1, <1>2

LEMMA StepIInv == ASSUME IInv, [Next]_vars PROVE IInv'
<1>1. ASSUME NEW t \in Task, Runs(t) PROVE IInv'
  BY <1>1, WaitsInv, QueueJobInv, DeleteJobsInv, JumpInv, PauseBeginsInv, PauseEndsInv,
     StartQueueInv, StartAnsweredInv, HandleReadyInv, OnJobCompleteInv, OnJobAbortInv,
     PopRefusedInv, PopTakesInv, PopGoesOnInv, PopGivesUpInv, JobLoadedInv DEF Runs
<1>2. ASSUME NEW t \in Task,
             \/ TimerFires(t) \/ Request(t) \/ StatusUpdate(t)
             \/ Shutdown(t) \/ Reconnect(t)
      PROVE  IInv'
  BY <1>2, TimerFiresInv, NoticeInv
<1>3. CASE Answers
  BY <1>3, AnswersInv
<1>4. CASE PrinterMoves \/ Disconnect
  BY <1>4, PrinterInv
<1>5. CASE UNCHANGED vars
  BY <1>5, UntouchedInv DEF vars
<1> QED
  BY <1>1, <1>2, <1>3, <1>4, <1>5 DEF Next

\* The invariant of the queue holds in every state.
THEOREM Invariance == Spec => []IInv
<1>1. IInv /\ [Next]_vars => IInv'
  BY StepIInv
<1> QED
  BY InitIInv, <1>1, PTL DEF Spec

\* Loading is never without a pop (job_queue.py:114-153, 215-222).
THEOREM PopIsPending == Spec => []LoadingHasPop
<1>1. IInv => LoadingHasPop
  BY DEF IInv
<1> QED
  BY <1>1, Invariance, PTL

\* The job started is the first of the queue (job_queue.py:123-146).
THEOREM FirstIsStarted == Spec => HeadFirst
<1>1. ASSUME IInv, StartAccepted PROVE queued_jobs # <<>> /\ chosen = Head(queued_jobs)
  <2>1. line # <<>> /\ pc[Head(line)] = "starts" /\ Head(line) \in Task
    BY <1>1 DEF StartAccepted, Asked, IInv, Types
  <2> QED
    BY <1>1, <2>1 DEF IInv, PopInv, Popping
<1>2. IInv /\ [Next]_vars => [StartAccepted => queued_jobs # <<>> /\ chosen = Head(queued_jobs)]_vars
  BY <1>1
<1> QED
  BY <1>2, Invariance, PTL DEF Spec, HeadFirst

\* One run of Klipper gets no job twice (job_queue.py:138-146).
THEOREM StartedAtMostOnce == Spec => StartedOnce
<1>1. ASSUME IInv, StartAccepted PROVE chosen \notin started
  BY <1>1 DEF StartAccepted, Asked, IInv, PopInv
<1>2. IInv /\ [Next]_vars => [StartAccepted => chosen \notin started]_vars
  BY <1>1
<1> QED
  BY <1>2, Invariance, PTL DEF Spec, StartedOnce

\* A pause that had the lock at once holds (job_queue.py:215-222).
THEOREM PauseIsKept == Spec => PauseHolds
<1>1. ASSUME IInv, [Next]_vars, resting PROVE queue_state' # "starting"
  <2>1. queue_state = "paused" /\ \A t \in Task : pc[t] \notin Asking
    BY <1>1 DEF IInv, RestInv
  <2>2. queue_state' \in {queue_state, "paused", "ready", "loading"} \/ \E t \in Task : PopGoesOn(t)
    BY <1>1, <2>1 DEF Next, Runs, Waits, QueueJob, DeleteJobs, Jump, PauseBegins, PauseEnds,
       StartQueue, StartAnswered, HandleReady, OnJobComplete, OnJobAbort, PopRefused,
       PopTakes, PopGivesUp, JobLoaded, TimerFires, Request, StatusUpdate, Shutdown,
       Reconnect, Answers, Queried, TransitionRuns, StartAccepted, StartRefused,
       PrinterMoves, Disconnect, stateVars, vars
  <2> QED
    BY <2>1, <2>2 DEF PopGoesOn
<1>2. IInv /\ [Next]_vars => [resting => queue_state' # "starting"]_vars
  BY <1>1
<1> QED
  BY <1>2, Invariance, PTL DEF Spec, PauseHolds
-----------------------------------------------------------------------------
(* The types of the queue's other variables, and no job that gets lost.    *)

\* A pop that was told that its start is accepted: Klipper has its job.
LoadedInv == reply = "yes" => \A t \in Task : pc[t] = "starts" => chosen \in started

JobTypes ==
  /\ queued_jobs \in Seq(Job) /\ started \subseteq Job /\ chosen \in Job
  /\ queue_state \in {"paused", "ready", "loading", "starting"}

PrinterTypes ==
  /\ printer \in PrinterState /\ klippy \in {"ready", "shutdown", "gone"}
  /\ seen \in PrinterState /\ job_active \in BOOLEAN

\* The inductive invariant of the whole state.
WholeInv == IInv /\ JobTypes /\ PrinterTypes /\ LoadedInv

\* A function on 1 .. n is a sequence of length n.
LEMMA IndexedSeq ==
  ASSUME NEW S, NEW n \in Nat, NEW f \in [1 .. n -> S]
  PROVE  f \in Seq(S) /\ Len(f) = n
  BY SMT

\* A job that is taken out of the queue leaves the others in it.
LEMMA WithoutOne ==
  ASSUME NEW q \in Seq(Job), NEW j \in Job
  PROVE  /\ Without(q, j) \in Seq(Job)
         /\ Elements(q) \subseteq Elements(Without(q, j)) \cup {j}
<1>1. CASE j \notin Elements(q)
  BY <1>1 DEF Without
<1>2. CASE j \in Elements(q)
  <2> DEFINE k == CHOOSE i \in 1 .. Len(q) : q[i] = j
             w == [i \in 1 .. Len(q) - 1 |-> IF i < k THEN q[i] ELSE q[i + 1]]
  <2>1. k \in 1 .. Len(q) /\ q[k] = j
    <3>1. \E i \in 1 .. Len(q) : q[i] = j
      BY <1>2 DEF Elements
    <3> QED
      BY <3>1
  <2>2. Without(q, j) = w
    BY <1>2 DEF Without
  <2> HIDE DEF k
  <2>3. Len(q) \in Nat /\ Len(q) - 1 \in Nat
    BY <2>1
  <2>4. \A i \in 1 .. Len(q) - 1 : q[i] \in Job /\ q[i + 1] \in Job
    BY <2>3
  <2>5. w \in [1 .. Len(q) - 1 -> Job]
    BY <2>4
  <2>6. w \in Seq(Job) /\ Len(w) = Len(q) - 1
    BY <2>3, <2>5, IndexedSeq
  <2>7. ASSUME NEW i \in 1 .. Len(q), i # k PROVE q[i] \in Elements(w)
    <3>1. CASE i < k
      <4>1. i \in 1 .. Len(q) - 1 /\ w[i] = q[i]
        BY <2>1, <2>3, <3>1
      <4> QED
        BY <4>1, <2>6 DEF Elements
    <3>2. CASE i > k
      <4>1. i - 1 \in 1 .. Len(q) - 1 /\ ~(i - 1 < k) /\ (i - 1) + 1 = i
        BY <2>1, <2>3, <3>2
      <4>2. w[i - 1] = q[i]
        BY <4>1
      <4> QED
        BY <4>1, <4>2, <2>6 DEF Elements
    <3> QED
      BY <2>1, <2>7, <3>1, <3>2
  <2>8. Elements(q) \subseteq Elements(w) \cup {j}
    BY <2>1, <2>7 DEF Elements
  <2> QED
    BY <2>2, <2>6, <2>8
<1> QED
  BY <1>1, <1>2


LEMMA AppendKeeps ==
  ASSUME NEW q \in Seq(Job), NEW j \in Job
  PROVE  Append(q, j) \in Seq(Job) /\ Elements(q) \subseteq Elements(Append(q, j))
<1>1. Append(q, j) \in Seq(Job) /\ Len(q) \in Nat /\ Len(Append(q, j)) = Len(q) + 1
      /\ \A i \in 1 .. Len(q) : Append(q, j)[i] = q[i]
  BY SMT
<1> QED
  BY <1>1 DEF Elements

\* A job that jumps the queue is still in it, and so are the others.
LEMMA FrontKeeps ==
  ASSUME NEW q \in Seq(Job), NEW j \in Job
  PROVE  <<j>> \o q \in Seq(Job) /\ Elements(q) \cup {j} \subseteq Elements(<<j>> \o q)
<1> DEFINE w == <<j>> \o q
<1>1. /\ w \in Seq(Job) /\ Len(q) \in Nat /\ Len(w) = Len(q) + 1 /\ w[1] = j
      /\ \A i \in 1 .. Len(q) : w[i + 1] = q[i]
  BY SMT
<1> HIDE DEF w
<1>2. j \in Elements(w)
  BY <1>1 DEF Elements
<1>3. ASSUME NEW i \in 1 .. Len(q) PROVE q[i] \in Elements(w)
  <2>1. i + 1 \in 1 .. Len(w) /\ w[i + 1] = q[i]
    BY <1>1
  <2> QED
    BY <2>1 DEF Elements
<1>4. Elements(q) \subseteq Elements(w)
  BY <1>3 DEF Elements
<1> QED
  BY <1>1, <1>2, <1>4 DEF w

LEMMA ElementsOfJobs ==
  ASSUME NEW q \in Seq(Job)
  PROVE  Elements(q) \subseteq Job
  BY DEF Elements

\* What the steps that change the queue do to it.
LEMMA JumpKeeps ==
  ASSUME NEW t \in Task, JobTypes, Jump(t)
  PROVE  queued_jobs' \in Seq(Job) /\ Elements(queued_jobs) \subseteq Elements(queued_jobs')
<1>1. CASE UNCHANGED queued_jobs
  BY <1>1 DEF JobTypes
<1>2. ASSUME NEW j \in Elements(queued_jobs),
             queued_jobs' = <<j>> \o Without(queued_jobs, j)
      PROVE  queued_jobs' \in Seq(Job) /\ Elements(queued_jobs) \subseteq Elements(queued_jobs')
  <2>1. queued_jobs \in Seq(Job) /\ j \in Job
    BY ElementsOfJobs DEF JobTypes
  <2>2. /\ Without(queued_jobs, j) \in Seq(Job)
        /\ Elements(queued_jobs) \subseteq Elements(Without(queued_jobs, j)) \cup {j}
    BY <2>1, WithoutOne
  <2> QED
    BY <1>2, <2>1, <2>2, FrontKeeps
<1> QED
  BY <1>1, <1>2 DEF Jump

LEMMA DeleteTypes ==
  ASSUME NEW t \in Task, JobTypes, DeleteJobs(t)
  PROVE  queued_jobs' \in Seq(Job)
<1>1. PICK n \in 0 .. Len(queued_jobs) : \E kept \in [1 .. n -> 1 .. Len(queued_jobs)] :
        queued_jobs' = [i \in 1 .. n |-> queued_jobs[kept[i]]]
  BY DEF DeleteJobs
<1>2. PICK kept \in [1 .. n -> 1 .. Len(queued_jobs)] :
        queued_jobs' = [i \in 1 .. n |-> queued_jobs[kept[i]]]
  BY <1>1
<1>3. \A i \in 1 .. n : queued_jobs[kept[i]] \in Job
  BY DEF JobTypes
<1>4. queued_jobs' \in [1 .. n -> Job] /\ n \in Nat
  BY <1>2, <1>3
<1> QED
  BY <1>4, IndexedSeq

LEMMA QueueTypes ==
  ASSUME NEW t \in Task, JobTypes, QueueJob(t)
  PROVE  queued_jobs' \in Seq(Job) /\ started' \subseteq Job
<1>1. CASE UNCHANGED <<queued_jobs, started, queue_state>>
  BY <1>1 DEF JobTypes
<1>2. ASSUME NEW j \in Job, NEW reset \in BOOLEAN,
             queued_jobs' = (IF reset THEN <<j>> ELSE Append(queued_jobs, j)),
             started' = started \ {j}
      PROVE  queued_jobs' \in Seq(Job) /\ started' \subseteq Job
  <2>1. <<j>> \in Seq(Job) /\ Append(queued_jobs, j) \in Seq(Job)
    BY AppendKeeps DEF JobTypes
  <2> QED
    BY <1>2, <2>1 DEF JobTypes
<1> QED
  BY <1>1, <1>2 DEF QueueJob

LEMMA LoadedTypes ==
  ASSUME NEW t \in Task, JobTypes, JobLoaded(t)
  PROVE  /\ queued_jobs' \in Seq(Job) /\ started' \subseteq Job
         /\ Elements(queued_jobs) \subseteq Elements(queued_jobs') \cup {chosen}
  BY WithoutOne DEF JobLoaded, JobTypes

\* Every other step leaves the queue alone.
LEMMA OtherSteps ==
  ASSUME [Next]_vars,
         \A t \in Task : ~Jump(t) /\ ~DeleteJobs(t) /\ ~QueueJob(t) /\ ~JobLoaded(t)
  PROVE  queued_jobs' = queued_jobs
  BY DEF Next, Runs, Waits, PauseBegins, PauseEnds, StartQueue, StartAnswered, HandleReady,
     OnJobComplete, OnJobAbort, PopRefused, PopTakes, PopGoesOn, PopGivesUp, TimerFires,
     Request, StatusUpdate, Shutdown, Reconnect, Answers, Queried, TransitionRuns,
     StartAccepted, StartRefused, PrinterMoves, Disconnect, jobVars, vars
LEMMA StepJobTypes ==
  ASSUME IInv, JobTypes, [Next]_vars
  PROVE  JobTypes'
<1>1. queued_jobs' \in Seq(Job)
  BY OtherSteps, JumpKeeps, DeleteTypes, QueueTypes, LoadedTypes DEF JobTypes
<1>2. started' \subseteq Job
  <2>1. \/ started' \subseteq started \cup {chosen} \/ \E t \in Task : QueueJob(t)
    BY DEF Next, Runs, Waits, DeleteJobs, Jump, PauseBegins, PauseEnds, StartQueue,
       StartAnswered, HandleReady, OnJobComplete, OnJobAbort, PopRefused, PopTakes, PopGoesOn,
       PopGivesUp, JobLoaded, TimerFires, Request, StatusUpdate, Shutdown, Reconnect, Answers,
       Queried, TransitionRuns, StartAccepted, StartRefused, PrinterMoves, Disconnect, jobVars,
       vars
  <2> QED
    BY <2>1, QueueTypes DEF JobTypes
<1>3. chosen' \in Job
  <2>1. chosen' = chosen \/ (queued_jobs # <<>> /\ chosen' = Head(queued_jobs))
    BY DEF Next, Runs, Waits, QueueJob, DeleteJobs, Jump, PauseBegins, PauseEnds, StartQueue,
       StartAnswered, HandleReady, OnJobComplete, OnJobAbort, PopRefused, PopTakes, PopGoesOn,
       PopGivesUp, JobLoaded, TimerFires, Request, StatusUpdate, Shutdown, Reconnect, Answers,
       Queried, TransitionRuns, StartAccepted, StartRefused, PrinterMoves, Disconnect, jobVars,
       vars
  <2>2. queued_jobs # <<>> => Head(queued_jobs) \in Job
    BY DEF JobTypes
  <2> QED
    BY <2>1, <2>2 DEF JobTypes
<1>4. queue_state' \in {"paused", "ready", "loading", "starting"}
  <2>1. queue_state' = queue_state \/ queue_state' \in {"paused", "ready", "loading", "starting"}
    BY DEF Next, Runs, Waits, QueueJob, DeleteJobs, Jump, PauseBegins, PauseEnds, StartQueue,
       StartAnswered, HandleReady, OnJobComplete, OnJobAbort, PopRefused, PopTakes, PopGoesOn,
       PopGivesUp, JobLoaded, TimerFires, Request, StatusUpdate, Shutdown, Reconnect, Answers,
       Queried, TransitionRuns, StartAccepted, StartRefused, PrinterMoves, Disconnect,
       stateVars, vars
  <2> QED
    BY <2>1 DEF JobTypes
<1> QED
  BY <1>1, <1>2, <1>3, <1>4 DEF JobTypes

LEMMA ShownTypes == \A p \in PrinterState : Shown(p) \in PrinterState
  BY DEF Shown, PrinterState, Ended

LEMMA StepPrinterTypes ==
  ASSUME PrinterTypes, [Next]_vars
  PROVE  PrinterTypes'
<1>1. CASE UNCHANGED klipperVars
  BY <1>1 DEF PrinterTypes, klipperVars
<1>2. CASE StartAccepted
  BY <1>2 DEF StartAccepted, PrinterTypes, PrinterState
<1>3. CASE PrinterMoves
  <2>1. printer' \in PrinterState
    BY <1>3 DEF PrinterMoves, PrinterState, Ended
  <2> QED
    BY <1>3, <2>1 DEF PrinterMoves, PrinterTypes
<1>4. CASE Disconnect
  <2>1. printer' \in PrinterState /\ klippy' = "gone"
    BY <1>4 DEF Disconnect, PrinterState
  <2>2. seen' \in PrinterState
    BY <1>4 DEF Disconnect, PrinterTypes, PrinterState, Ended
  <2>3. job_active' \in BOOLEAN
    BY <1>4 DEF Disconnect, PrinterTypes
  <2> QED
    BY <2>1, <2>2, <2>3 DEF PrinterTypes
<1>5. ASSUME NEW t \in Task, StatusUpdate(t) PROVE PrinterTypes'
  <2>1. seen' \in PrinterState /\ printer' = printer /\ klippy' = klippy
    BY <1>5, ShownTypes DEF StatusUpdate, PrinterTypes
  <2>2. job_active' \in BOOLEAN
    BY <1>5 DEF StatusUpdate
  <2> QED
    BY <2>1, <2>2 DEF PrinterTypes
<1>6. ASSUME NEW t \in Task, Shutdown(t) PROVE PrinterTypes'
  <2>1. printer' \in PrinterState /\ klippy' = "shutdown"
        /\ seen' = seen /\ job_active' = job_active
    BY <1>6 DEF Shutdown, PrinterTypes, PrinterState, Ended
  <2> QED
    BY <2>1 DEF PrinterTypes
<1>7. ASSUME NEW t \in Task, Reconnect(t) PROVE PrinterTypes'
  BY <1>7, ShownTypes DEF Reconnect, PrinterTypes
<1>8. \/ UNCHANGED klipperVars \/ StartAccepted \/ PrinterMoves \/ Disconnect
      \/ \E t \in Task : StatusUpdate(t) \/ Shutdown(t) \/ Reconnect(t)
  BY DEF Next, Runs, Waits, QueueJob, DeleteJobs, Jump, PauseBegins, PauseEnds, StartQueue,
     StartAnswered, HandleReady, OnJobComplete, OnJobAbort, PopRefused, PopTakes, PopGoesOn,
     PopGivesUp, JobLoaded, TimerFires, Request, Answers, Queried, TransitionRuns,
     StartRefused, vars
<1> QED
  BY <1>1, <1>2, <1>3, <1>4, <1>5, <1>6, <1>7, <1>8

\* An operation that runs under the lock leaves no answer behind.
LEMMA NoAnswerLeft ==
  ASSUME NEW t \in Task, IInv, Runs(t), ~Waits(t), ~PauseBegins(t)
  PROVE  reply' = "none"
<1>1. CASE StartAnswered(t) \/ PopGoesOn(t) \/ PopGivesUp(t) \/ JobLoaded(t)
  BY <1>1 DEF StartAnswered, PopGoesOn, PopGivesUp, JobLoaded
<1>2. CASE \/ QueueJob(t) \/ DeleteJobs(t) \/ Jump(t) \/ PauseEnds(t) \/ StartQueue(t)
           \/ HandleReady(t) \/ OnJobComplete(t) \/ OnJobAbort(t)
           \/ PopRefused(t) \/ PopTakes(t)
  <2>1. PICK op \in Requests \cup Events \cup {"pausing", "haltingPaused", "halting"} :
          Turn(t, op)
    BY <1>2 DEF QueueJob, DeleteJobs, Jump, PauseEnds, StartQueue, HandleReady,
       OnJobComplete, OnJobAbort, PopRefused, PopTakes, Requests, Events
  <2>2. op \notin Asking
    BY DEF Requests, Events, Asking
  <2>3. reply = "none"
    BY <2>1, <2>2, OwnersTurn
  <2> QED
    BY <1>2, <2>3 DEF QueueJob, DeleteJobs, Jump, PauseEnds, StartQueue, HandleReady,
       OnJobComplete, OnJobAbort, PopRefused, PopTakes
<1> QED
  BY <1>1, <1>2 DEF Runs

\* A step that lets nobody start a job and keeps what Klipper has.
LEMMA LoadedStays ==
  ASSUME LoadedInv, reply' = reply, chosen' = chosen, started \subseteq started',
         \A u \in Task : pc'[u] = "starts" => pc[u] = "starts"
  PROVE  LoadedInv'
  BY DEF LoadedInv

\* Whom an answer is for.
LEMMA AskerIsOwner ==
  ASSUME IInv, NEW stage \in Asking, Asked(stage), NEW u \in Task, pc[u] = "starts"
  PROVE  stage = "starts"
  BY DEF IInv, OwnerAsks, Asked, Asking

LEMMA SentStays ==
  ASSUME IInv, NEW t \in Task, NEW op \in Requests \cup Events, Stage(t, op)
  PROVE  \A u \in Task : pc'[u] = "starts" => pc[u] = "starts"
  BY DEF IInv, Types, Stage, Requests, Events

LEMMA StepLoadedInv ==
  ASSUME IInv, LoadedInv, [Next]_vars
  PROVE  LoadedInv'
<1>1. CASE UNCHANGED vars
  BY <1>1, LoadedStays DEF vars, jobVars, lockVars
<1>2. ASSUME NEW t \in Task, Runs(t) PROVE LoadedInv'
  <2>1. CASE Waits(t)
    BY <2>1, LoadedStays DEF Waits, jobVars
  <2>2. CASE PauseBegins(t)
    <3>1. \A u \in Task : pc'[u] = "starts" => pc[u] = "starts"
      BY <2>2 DEF PauseBegins, Stage, IInv, Types
    <3> QED
      BY <2>2, <3>1, LoadedStays DEF PauseBegins, jobVars
  <2>3. CASE ~Waits(t) /\ ~PauseBegins(t)
    BY <1>2, <2>3, NoAnswerLeft DEF LoadedInv
  <2> QED
    BY <2>1, <2>2, <2>3
<1>3. ASSUME NEW t \in Task,
             TimerFires(t) \/ Request(t) \/ StatusUpdate(t) \/ Shutdown(t) \/ Reconnect(t)
      PROVE  LoadedInv'
  <2>1. (\E op \in Requests \cup Events : Stage(t, op)) \/ UNCHANGED pc
    BY <1>3 DEF TimerFires, Request, StatusUpdate, Shutdown, Reconnect, Sent, Events,
       lockVars
  <2>2. \A u \in Task : pc'[u] = "starts" => pc[u] = "starts"
    BY <2>1, SentStays
  <2>3. reply' = reply /\ chosen' = chosen /\ started' = started
    BY <1>3 DEF TimerFires, Request, StatusUpdate, Shutdown, Reconnect, jobVars
  <2> QED
    BY <2>2, <2>3, LoadedStays
<1>4. CASE Answers
  <2>1. CASE StartAccepted
    BY <2>1 DEF StartAccepted, LoadedInv
  <2>2. CASE StartRefused
    BY <2>2 DEF StartRefused, LoadedInv
  <2>3. CASE Queried \/ TransitionRuns
    <3>1. \E stage \in Asking \ {"starts"} : Asked(stage)
      BY <2>3 DEF Queried, TransitionRuns, Asking
    <3>2. \A u \in Task : pc[u] # "starts"
      BY <3>1, AskerIsOwner
    <3> QED
      BY <2>3, <3>2 DEF Queried, TransitionRuns, lockVars, LoadedInv
  <2> QED
    BY <1>4, <2>1, <2>2, <2>3 DEF Answers
<1>5. CASE PrinterMoves
  BY <1>5, LoadedStays DEF PrinterMoves, jobVars, lockVars
<1>6. CASE Disconnect
  <2>1. reply' # "yes"
    BY <1>6 DEF Disconnect, IInv, OwnerAsks
  <2> QED
    BY <2>1 DEF LoadedInv
<1> QED
  BY <1>1, <1>2, <1>3, <1>4, <1>5, <1>6 DEF Next

LEMMA WholeInvariance == Spec => []WholeInv
<1>1. Init => JobTypes /\ PrinterTypes /\ LoadedInv
  <2>1. Init => JobTypes
    BY DEF Init, JobTypes
  <2>2. Init => PrinterTypes
    BY DEF Init, PrinterTypes, PrinterState
  <2>3. Init => LoadedInv
    BY DEF Init, LoadedInv
  <2> QED
    BY <2>1, <2>2, <2>3
<1>2. WholeInv /\ [Next]_vars => WholeInv'
  BY StepIInv, StepJobTypes, StepPrinterTypes, StepLoadedInv DEF WholeInv
<1>3. Init => WholeInv
  BY <1>1, InitIInv DEF WholeInv
<1> QED
  BY <1>2, <1>3, PTL DEF Spec

\* Every variable of the queue has its type (job_queue.py:30-60).
THEOREM TypeCorrect == Spec => []TypeOK
<1>1. WholeInv => TypeOK
  BY DEF WholeInv, IInv, Types, HandleArmed, JobTypes, PrinterTypes, TypeOK
<1> QED
  BY <1>1, WholeInvariance, PTL

\* No job is lost: one leaves the queue when Klipper has accepted it, or at a
\* client's wish (job_queue.py:125-152).
THEOREM JobsAreKept == Spec => Kept
<1>1. ASSUME WholeInv, [Next]_vars,
             NEW j \in Elements(queued_jobs) \ Elements(queued_jobs')
      PROVE  j \in started \/ \E t \in Task : DeleteJobs(t) \/ QueueJob(t)
  <2>1. ASSUME NEW t \in Task, JobLoaded(t) PROVE j \in started
    <3>1. j = chosen
      BY <1>1, <2>1, LoadedTypes DEF WholeInv
    <3>2. chosen \in started
      BY <1>1, <2>1 DEF WholeInv, LoadedInv, JobLoaded, Turn
    <3> QED
      BY <3>1, <3>2
  <2>2. ASSUME NEW t \in Task PROVE ~Jump(t)
    BY <1>1, JumpKeeps DEF WholeInv
  <2> QED
    BY <1>1, <2>1, <2>2, OtherSteps
<1>2. WholeInv /\ [Next]_vars =>
        [\A j \in Elements(queued_jobs) \ Elements(queued_jobs') :
           j \in started \/ \E t \in Task : DeleteJobs(t) \/ QueueJob(t)]_vars
  BY <1>1
<1> QED
  BY <1>2, WholeInvariance, PTL DEF Spec, Kept

-----------------------------------------------------------------------------
(* The lock serves those who wait in their order.                          *)

\* What a task does before it has asked for the lock.
Outside == {"idle", "pause", "halt"}

\* Nobody is in the line twice, and nobody who has not asked.
LineInv ==
  /\ Distinct(line)
  /\ \A t \in Task : pc[t] \in Outside => ~Occurs(t, line)

\* The four things a step may do to the line.
LineSame ==
  /\ line' = line
  /\ \A t \in Task : pc'[t] \in Outside => pc[t] \in Outside \/ line = <<>>

Takes(t) ==
  /\ line = <<>> /\ line' = <<t>>
  /\ pc'[t] \notin Outside

JoinsLine(t) ==
  /\ line # <<>> /\ ~Occurs(t, line) /\ line' = Append(line, t)
  /\ pc'[t] \notin Outside /\ \A u \in Task : u # t => pc'[u] = pc[u]

LeavesLine(t) ==
  /\ line # <<>> /\ Head(line) = t /\ line' = Tail(line)
  /\ \A u \in Task : u # t => pc'[u] = pc[u]

LineStep == LineSame \/ \E t \in Task : Takes(t) \/ JoinsLine(t) \/ LeavesLine(t)

LEMMA DoneInLine ==
  ASSUME Types, NEW t \in Task, NEW op, Turn(t, op), Done(t)
  PROVE  LineStep
<1>1. pc' = [pc EXCEPT ![t] = "idle"] /\ \A u \in Task : u # t => pc'[u] = pc[u]
  BY DEF Done, Stage, Types
<1>2. CASE line = <<>>
  BY <1>2 DEF Done, LineStep, LineSame
<1>3. CASE line # <<>>
  BY <1>1, <1>3 DEF Done, Turn, LineStep, LeavesLine
<1> QED BY <1>2, <1>3

LEMMA HoldsInLine ==
  ASSUME Types, NEW t \in Task, NEW stage \in Stages, Holds(t, stage)
  PROVE  LineStep
<1>1. /\ pc'[t] \notin Outside
      /\ \A u \in Task : pc'[u] \in Outside => pc[u] \in Outside
  BY DEF Holds, Stage, Types, Stages, Outside
<1>2. CASE line = <<>>
  BY <1>1, <1>2 DEF Holds, LineStep, Takes
<1>3. CASE line # <<>>
  BY <1>1, <1>3 DEF Holds, LineStep, LineSame
<1> QED BY <1>2, <1>3

LEMMA WaitsInLine ==
  ASSUME NEW t \in Task, Waits(t)
  PROVE  LineStep
<1>1. pc[t] \notin Outside /\ pc' = pc
  BY DEF Waits, Requests, Events, Outside
<1>2. line # <<>> /\ ~Occurs(t, line) /\ line' = Append(line, t)
  BY DEF Waits, Elements, Occurs
<1> QED BY <1>1, <1>2 DEF LineStep, JoinsLine

LEMMA PauseInLine ==
  ASSUME Types, LineInv, NEW t \in Task, PauseBegins(t)
  PROVE  LineStep
<1>1. CASE line = <<>>
  <2>1. line' = line
    BY <1>1 DEF PauseBegins
  <2> QED BY <1>1, <2>1 DEF LineStep, LineSame
<1>2. CASE line # <<>>
  <2>1. ~Occurs(t, line) /\ line' = Append(line, t)
    BY <1>2 DEF PauseBegins, LineInv, Outside
  <2>2. PICK stage \in {"pausing", "haltingPaused", "halting"} : Stage(t, stage)
    BY <1>2 DEF PauseBegins
  <2>3. pc'[t] \notin Outside /\ \A u \in Task : u # t => pc'[u] = pc[u]
    BY <2>2 DEF Stage, Types, Outside
  <2> QED BY <1>2, <2>1, <2>3 DEF LineStep, JoinsLine
<1> QED BY <1>1, <1>2

\* A task that starts, or a stage that follows another, leaves the line alone.
LEMMA StageInLine ==
  ASSUME Types, NEW t \in Task, NEW stage, Stage(t, stage), line' = line,
         stage \in Outside => pc[t] \in Outside
  PROVE  LineStep
  BY DEF Stage, Types, LineStep, LineSame

LEMMA RunsInLine ==
  ASSUME Types, LineInv, NEW t \in Task, Runs(t)
  PROVE  LineStep
<1>1. CASE Waits(t) \/ PauseBegins(t)
  BY <1>1, WaitsInLine, PauseInLine
<1>2. CASE QueueJob(t) \/ DeleteJobs(t) \/ Jump(t)
  BY <1>2, DoneInLine DEF QueueJob, DeleteJobs, Jump
<1>3. CASE HandleReady(t) \/ OnJobComplete(t) \/ OnJobAbort(t)
  BY <1>3, DoneInLine DEF HandleReady, OnJobComplete, OnJobAbort
<1>4. CASE PauseEnds(t)
  BY <1>4, DoneInLine DEF PauseEnds
<1>5. CASE StartQueue(t)
  BY <1>5, DoneInLine, HoldsInLine DEF StartQueue, Stages
<1>6. CASE StartAnswered(t) \/ PopRefused(t) \/ JobLoaded(t)
  BY <1>6, DoneInLine DEF StartAnswered, PopRefused, JobLoaded
<1>7. CASE PopGivesUp(t)
  BY <1>7, DoneInLine DEF PopGivesUp
<1>8. CASE PopTakes(t)
  BY <1>8, HoldsInLine DEF PopTakes, Stages
<1>9. CASE PopGoesOn(t)
  <2>1. line' = line /\ (Stage(t, "transition") \/ Stage(t, "starts"))
    BY <1>9 DEF PopGoesOn
  <2> QED BY <2>1, StageInLine DEF Outside
<1> QED BY <1>1, <1>2, <1>3, <1>4, <1>5, <1>6, <1>7, <1>8, <1>9 DEF Runs

LEMMA LineSteps ==
  ASSUME Types, LineInv, [Next]_vars
  PROVE  LineStep
<1>1. ASSUME NEW t \in Task, Runs(t) PROVE LineStep
  BY <1>1, RunsInLine
<1>2. UNCHANGED lockVars => LineStep
  BY DEF lockVars, LineStep, LineSame
<1>3. ASSUME NEW t \in Task, NEW event, Sent(t, event) PROVE LineStep
  BY <1>3, StageInLine DEF Sent, Outside
<1>4. ASSUME NEW t \in Task,
             \/ TimerFires(t) \/ Request(t) \/ StatusUpdate(t)
             \/ Shutdown(t) \/ Reconnect(t)
      PROVE  LineStep
  <2>1. CASE TimerFires(t)
    BY <2>1, StageInLine DEF TimerFires, Outside
  <2>2. CASE Request(t) \/ StatusUpdate(t) \/ Shutdown(t) \/ Reconnect(t)
    BY <2>2, <1>2, <1>3 DEF Request, StatusUpdate, Shutdown, Reconnect
  <2> QED BY <1>4, <2>1, <2>2
<1>5. CASE Answers \/ PrinterMoves \/ Disconnect
  BY <1>5, <1>2 DEF Answers, Queried, TransitionRuns, StartAccepted, StartRefused,
     PrinterMoves, Disconnect
<1>6. CASE UNCHANGED vars
  BY <1>6, <1>2 DEF vars
<1> QED BY <1>1, <1>4, <1>5, <1>6 DEF Next

\* Nobody asks for the lock while waiting for it or holding it.
LEMMA LineStepInv ==
  ASSUME Types, LineInv, LineStep
  PROVE  LineInv'
<1>1. CASE LineSame
  <2>1. line = <<>> => \A t \in Task : ~Occurs(t, line)
    BY EmptyQueue DEF Types
  <2> QED BY <1>1, <2>1 DEF LineSame, LineInv, Occurs, Distinct
<1>2. ASSUME NEW t \in Task, Takes(t) PROVE LineInv'
  <2>1. Len(line') = 1 /\ line'[1] = t
    BY <1>2 DEF Takes
  <2> QED BY <1>2, <2>1 DEF Takes, LineInv, Occurs, Distinct
<1>3. ASSUME NEW t \in Task, JoinsLine(t) PROVE LineInv'
  <2>1. /\ Distinct(Append(line, t))
        /\ \A d : Occurs(d, Append(line, t)) <=> d = t \/ Occurs(d, line)
    BY <1>3, Joins DEF JoinsLine, Types, LineInv
  <2>2. Distinct(line')
    BY <1>3, <2>1 DEF JoinsLine
  <2>3. ASSUME NEW u \in Task, pc'[u] \in Outside PROVE ~Occurs(u, line')
    BY <1>3, <2>1, <2>3 DEF JoinsLine, LineInv
  <2> QED BY <2>2, <2>3 DEF LineInv, Occurs, Distinct
<1>4. ASSUME NEW t \in Task, LeavesLine(t) PROVE LineInv'
  <2>1. /\ Distinct(Tail(line))
        /\ \A d : Occurs(d, Tail(line)) <=> d # Head(line) /\ Occurs(d, line)
    BY <1>4, Leaves DEF LeavesLine, Types, LineInv
  <2>2. Distinct(line')
    BY <1>4, <2>1 DEF LeavesLine
  <2>3. ASSUME NEW u \in Task, pc'[u] \in Outside PROVE ~Occurs(u, line')
    BY <1>4, <2>1, <2>3 DEF LeavesLine, LineInv
  <2> QED BY <2>2, <2>3 DEF LineInv, Occurs, Distinct
<1> QED BY <1>1, <1>2, <1>3, <1>4 DEF LineStep

LEMMA InitLine == Init => LineInv
<1> SUFFICES ASSUME Init PROVE LineInv
  OBVIOUS
<1>1. line = <<>> /\ Len(<<>>) = 0
  BY DEF Init
<1> QED BY <1>1 DEF LineInv, Distinct, Occurs

\* What a step does to the line is what the lock allows.
LEMMA LockSteps ==
  ASSUME Types, LineInv, LineStep
  PROVE  [Lock!Next]_(Lock!lockVars)
<1> USE OwnerAssumption DEF LockOwner, LockWaiting
<1>1. CASE LineSame
  BY <1>1 DEF LineSame, Lock!lockVars
<1>2. ASSUME NEW t \in Task, Takes(t) PROVE Lock!Request(t)
  <2>1. /\ line' # <<>> /\ Head(line') = t /\ Tail(line') = <<>>
    BY <1>2 DEF Takes
  <2> QED BY <1>2, <2>1 DEF Takes, Lock!Request, Lock!Waits
<1>3. ASSUME NEW t \in Task, JoinsLine(t) PROVE Lock!Request(t)
  <2>1. /\ line' # <<>> /\ Head(line') = Head(line) /\ Head(line) \in Task
        /\ Tail(line') = Append(Tail(line), t)
    BY <1>3, Joins, HeadIsFirst DEF JoinsLine, Types
  <2>2. Head(line) # t /\ ~Occurs(t, Tail(line))
    BY <1>3, HeadIsFirst, Leaves DEF JoinsLine, Types, LineInv
  <2> QED BY <1>3, <2>1, <2>2 DEF JoinsLine, Lock!Request, Lock!Waits, Occurs
<1>4. ASSUME NEW t \in Task, LeavesLine(t) PROVE Lock!Release(t)
  BY <1>4 DEF LeavesLine, Lock!Release
<1> QED BY <1>1, <1>2, <1>3, <1>4 DEF LineStep, Lock!Next

\* Whatever the clients, the printer and the timers do, an operation of the
\* queue that has to wait for the lock gets it in its turn, and no way out of
\* an operation takes the lock along (asyncio.Lock; job_queue.py:76-283).
THEOREM Refinement == Spec => ImplementsFifoLock
<1>1. Init => Lock!Init
  BY DEF Init, Lock!Init, LockOwner, LockWaiting
<1>2. Types /\ LineInv /\ [Next]_vars => LineInv' /\ [Lock!Next]_(Lock!lockVars)
  BY LineSteps, LineStepInv, LockSteps
<1>3. IInv => Types
  BY DEF IInv
<1> QED
  BY <1>1, <1>2, <1>3, InitLine, Invariance, PTL
     DEF Spec, ImplementsFifoLock, Lock!Spec

LEMMA LockOrder ==
  ASSUME Types, [Lock!Next]_(Lock!lockVars)
  PROVE  \A t, u \in Task : Lock!Before(t, u) => LockOwner' = t \/ Lock!Before(t, u)'
<1>1. LockWaiting \in Seq(Task)
  BY HeadIsFirst DEF Types, LockWaiting
<1>2. \/ LockWaiting' = LockWaiting
      \/ \E v \in Task : LockWaiting' = Append(LockWaiting, v)
      \/ LockWaiting # <<>> /\ LockOwner' = Head(LockWaiting) /\ LockWaiting' = Tail(LockWaiting)
  BY DEF Lock!Next, Lock!Request, Lock!Release, Lock!lockVars
<1>3. ASSUME NEW t \in Task, NEW u \in Task, Precedes(t, u, LockWaiting)
      PROVE  LockOwner' = t \/ Precedes(t, u, LockWaiting')
  <2>1. CASE LockWaiting' = LockWaiting
    BY <1>3, <2>1
  <2>2. ASSUME NEW v \in Task, LockWaiting' = Append(LockWaiting, v)
        PROVE  Precedes(t, u, LockWaiting')
    BY <1>1, <1>3, <2>2, JoinsBehind
  <2>3. CASE LockOwner' = Head(LockWaiting) /\ LockWaiting' = Tail(LockWaiting)
    BY <1>1, <1>3, <2>3, LeavesInOrder
  <2> QED BY <1>2, <2>1, <2>2, <2>3
<1>4. \A t, u \in Task : /\ Lock!Before(t, u) <=> Precedes(t, u, LockWaiting)
                         /\ Lock!Before(t, u)' <=> Precedes(t, u, LockWaiting')
  BY DEF Lock!Before, Precedes
<1> QED BY <1>3, <1>4

\* No operation of the queue overtakes another that waits for the lock: a pause
\* that waits comes before whatever was asked for after it.
THEOREM InOrder == Spec => Lock!NoOvertaking
<1>1. IInv /\ [Lock!Next]_(Lock!lockVars) =>
        [\A g, h \in Task :
           Lock!Before(g, h) => LockOwner' = g \/ Lock!Before(g, h)']_(Lock!lockVars)
  BY LockOrder DEF IInv
<1>2. Spec => [][Lock!Next]_(Lock!lockVars)
  BY Refinement, PTL DEF ImplementsFifoLock, Lock!Spec
<1>3. Spec => [][\A g, h \in Task :
           Lock!Before(g, h) => LockOwner' = g \/ Lock!Before(g, h)']_(Lock!lockVars)
  BY <1>1, <1>2, Invariance, PTL
<1> QED BY <1>3, PTL DEF Lock!NoOvertaking
=============================================================================
