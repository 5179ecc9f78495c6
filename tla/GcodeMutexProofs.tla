--------------------------- MODULE GcodeMutexProofs ---------------------------
(***************************************************************************)
(* The G-code mutex is correct for any number of greenlets: one owner at a *)
(* time, no hand-over is lost, and it implements the first-come            *)
(* first-served lock the other modules use in its place.                   *)
(***************************************************************************)
EXTENDS GcodeMutex, SequenceLemmas

NobodyIn == \A g \in Greenlet : pc[g] # "in"

\* The inductive invariant: the three phases of the lock, and the queue as
\* the list, without repetition, of the paused greenlets.
Phases ==
  /\ ~is_locked => queue = <<>> /\ ~next_pending /\ NobodyIn
  /\ next_pending => is_locked /\ queue # <<>> /\ Head(queue) \in due /\ NobodyIn
  /\ is_locked /\ ~next_pending => \E g \in Greenlet : pc[g] = "in"

QueueIsPaused ==
  /\ Distinct(queue)
  /\ \A g \in Greenlet : pc[g] = "paused" <=> Occurs(g, queue)

IInv == TypeOK /\ MutualExclusion /\ Phases /\ QueueIsPaused

-----------------------------------------------------------------------------
(* The invariant.                                                          *)

LEMMA InitIInv == Init => IInv
  <1> SUFFICES ASSUME Init PROVE IInv
    OBVIOUS
  <1>1. queue \in Seq(Greenlet) /\ 1 .. Len(queue) = {}
    BY DEF Init
  <1>2. TypeOK
    BY <1>1 DEF Init, TypeOK
  <1>3. MutualExclusion /\ Phases
    BY DEF Init, MutualExclusion, Phases, NobodyIn
  <1>4. QueueIsPaused
    BY <1>1 DEF Init, QueueIsPaused, Distinct, Occurs
  <1> QED BY <1>2, <1>3, <1>4 DEF IInv

LEMMA EnterFreeIInv ==
  ASSUME IInv, NEW g \in Greenlet, EnterFree(g)
  PROVE  IInv'
  BY DEF EnterFree, IInv, TypeOK, MutualExclusion, Phases, NobodyIn, QueueIsPaused, Occurs

LEMMA EnterHeldIInv ==
  ASSUME IInv, NEW g \in Greenlet, EnterHeld(g)
  PROVE  IInv'
  <1> USE DEF EnterHeld, IInv
  <1>1. queue \in Seq(Greenlet) /\ pc \in [Greenlet -> {"out", "paused", "in"}]
    BY DEF TypeOK
  <1>2. /\ queue' = Append(queue, g) /\ queue' # <<>>
        /\ queue # <<>> => Head(queue') = Head(queue)
        /\ \A h : Occurs(h, queue') <=> h = g \/ Occurs(h, queue)
    BY <1>1, Joins
  <1>3. ~Occurs(g, queue)
    BY DEF QueueIsPaused
  <1>4. TypeOK'
    BY <1>1, Joins DEF TypeOK
  <1>5. MutualExclusion'
    BY <1>1 DEF MutualExclusion
  <1>6. Phases'
    BY <1>1, <1>2 DEF Phases, NobodyIn
  <1>7. QueueIsPaused'
    <2>1. Distinct(queue')
      BY <1>1, <1>3, Joins DEF QueueIsPaused
    <2> QED BY <2>1, <1>1, <1>2 DEF QueueIsPaused
  <1> QED BY <1>4, <1>5, <1>6, <1>7

LEMMA WokenIInv ==
  ASSUME IInv, NEW g \in Greenlet, Woken(g)
  PROVE  IInv'
  <1> USE DEF IInv
  <1>1. CASE next_pending /\ Head(queue) = g
    <2>1. /\ queue \in Seq(Greenlet) /\ queue # <<>> /\ NobodyIn
          /\ pc \in [Greenlet -> {"out", "paused", "in"}]
          /\ queue' = Tail(queue) /\ pc' = [pc EXCEPT ![g] = "in"]
          /\ due' = due \ {g} /\ ~next_pending' /\ is_locked' = is_locked
          /\ is_locked
      BY <1>1 DEF Woken, TypeOK, Phases
    <2>2. TypeOK'
      BY <2>1, <1>1, HeadIsFirst DEF TypeOK, Woken
    <2>3. MutualExclusion'
      BY <2>1 DEF MutualExclusion, NobodyIn
    <2>4. Phases'
      BY <2>1 DEF Phases, NobodyIn, TypeOK
    <2>5. Distinct(queue') /\ \A h : Occurs(h, queue') <=> h # g /\ Occurs(h, queue)
      BY <2>1, <1>1, Leaves DEF QueueIsPaused
    <2> QED BY <2>1, <2>2, <2>3, <2>4, <2>5 DEF QueueIsPaused
  <1>2. CASE ~(next_pending /\ Head(queue) = g)
    BY <1>2 DEF Woken, TypeOK, MutualExclusion, Phases, NobodyIn, QueueIsPaused, Occurs
  <1> QED BY <1>1, <1>2

LEMMA ExitIInv ==
  ASSUME IInv, NEW g \in Greenlet, Exit(g)
  PROVE  IInv'
  <1> USE DEF IInv
  <1>1. NobodyIn' /\ ~next_pending /\ is_locked
    BY DEF Exit, MutualExclusion, NobodyIn, TypeOK, Phases
  <1>2. CASE queue = <<>>
    <2>1. TypeOK'
      BY <1>2 DEF Exit, TypeOK
    <2>2. MutualExclusion' /\ Phases'
      BY <1>1, <1>2 DEF MutualExclusion, Phases, NobodyIn, Exit
    <2>3. QueueIsPaused'
      BY DEF QueueIsPaused, Exit, TypeOK
    <2> QED BY <2>1, <2>2, <2>3
  <1>3. CASE queue # <<>>
    <2>1. Head(queue) \in Greenlet /\ Occurs(Head(queue), queue)
      BY <1>3, HeadIsFirst DEF TypeOK
    <2>2. pc[Head(queue)] = "paused" /\ Head(queue) # g
      BY <2>1 DEF QueueIsPaused, Exit
    <2>3. TypeOK'
      BY <1>3, <2>1, <2>2 DEF TypeOK, Exit
    <2>4. MutualExclusion' /\ Phases'
      BY <1>1, <1>3 DEF MutualExclusion, Phases, NobodyIn, Exit
    <2>5. QueueIsPaused'
      BY DEF QueueIsPaused, Exit, TypeOK
    <2> QED BY <2>3, <2>4, <2>5
  <1> QED BY <1>2, <1>3

\* Every step of the mutex keeps the inductive invariant.
THEOREM Invariance == Spec => []IInv
  <1>1. Init => IInv
    BY InitIInv
  <1>2. IInv /\ [Next]_vars => IInv'
    <2> SUFFICES ASSUME IInv, [Next]_vars PROVE IInv'
      OBVIOUS
    <2>1. CASE UNCHANGED vars
      BY <2>1 DEF vars, IInv, TypeOK, MutualExclusion, Phases, NobodyIn, QueueIsPaused, Occurs
    <2>2. CASE Next
      <3>1. PICK g \in Greenlet : Step(g)
        BY <2>2 DEF Next
      <3> QED BY <3>1, EnterFreeIInv, EnterHeldIInv, WokenIInv, ExitIInv DEF Step
    <2> QED BY <2>1, <2>2
  <1> QED BY <1>1, <1>2, PTL DEF Spec

\* run_script's body is never entered by two greenlets, test() tells the
\* truth, and a hand-over in progress is never lost.
THEOREM MutexIsSafe == Spec => [](TypeOK /\ MutualExclusion /\ FreeMeansIdle /\ HandOver)
  <1>1. IInv => TypeOK /\ MutualExclusion /\ FreeMeansIdle
    BY DEF IInv, Phases, FreeMeansIdle, NobodyIn
  <1>2. IInv => HandOver
    <2> SUFFICES ASSUME IInv, next_pending PROVE HandOver
      BY DEF HandOver
    <2>1. Head(queue) \in due /\ due \in SUBSET {g \in Greenlet : pc[g] = "paused"}
      BY DEF IInv, Phases, TypeOK
    <2> QED BY <2>1 DEF IInv, Phases, HandOver, NobodyIn
  <1> QED BY <1>1, <1>2, Invariance, PTL

-----------------------------------------------------------------------------
(* The mutex implements the first-come first-served lock.                  *)

LEMMA OwnerIn ==
  ASSUME IInv, NEW g \in Greenlet, pc[g] = "in"
  PROVE  LockOwner = g /\ LockWaiting = queue
  <1>1. ~next_pending
    BY DEF IInv, Phases, NobodyIn
  <1>2. Inside # {} /\ \A h \in Greenlet : pc[h] = "in" <=> h = g
    BY DEF Inside, IInv, MutualExclusion
  <1> QED BY <1>1, <1>2 DEF LockOwner, LockWaiting

\* The same of the state a step leads to.
LEMMA OwnerInNext ==
  ASSUME IInv', NEW g \in Greenlet, pc'[g] = "in"
  PROVE  LockOwner' = g /\ LockWaiting' = queue'
  <1>1. ~next_pending'
    BY DEF IInv, Phases, NobodyIn
  <1>2. Inside' # {} /\ \A h \in Greenlet : pc'[h] = "in" <=> h = g
    BY DEF Inside, IInv, MutualExclusion
  <1> QED BY <1>1, <1>2 DEF LockOwner, LockWaiting

LEMMA OwnerNext ==
  next_pending => LockOwner = Head(queue) /\ LockWaiting = Tail(queue)
  BY DEF LockOwner, LockWaiting

LEMMA OwnerNone ==
  ASSUME IInv, ~is_locked
  PROVE  LockOwner = NoOne /\ LockWaiting = queue /\ queue = <<>>
  BY DEF IInv, Phases, NobodyIn, LockOwner, LockWaiting, Inside

\* A greenlet that is out neither owns the lock nor waits for it.
LEMMA OutIsOut ==
  ASSUME IInv, NEW g \in Greenlet, pc[g] = "out"
  PROVE  LockOwner # g /\ ~Lock!Waits(g)
  <1>1. ~Occurs(g, queue) /\ queue \in Seq(Greenlet)
    BY DEF IInv, QueueIsPaused, TypeOK
  <1>2. CASE next_pending
    <2>1. queue # <<>>
      BY <1>2 DEF IInv, Phases
    <2>2. Head(queue) # g /\ ~Occurs(g, Tail(queue))
      BY <1>1, <2>1, HeadIsFirst, Leaves DEF IInv, QueueIsPaused
    <2> QED BY <1>2, <2>2, OwnerNext DEF Lock!Waits, Occurs
  <1>3. CASE ~is_locked
    BY <1>3, <1>1, OwnerNone, NoOneAssumption DEF Lock!Waits, Occurs
  <1>4. CASE is_locked /\ ~next_pending
    <2>1. PICK h \in Greenlet : pc[h] = "in"
      BY <1>4 DEF IInv, Phases
    <2> QED BY <2>1, <1>1, OwnerIn DEF Lock!Waits, Occurs
  <1> QED BY <1>2, <1>3, <1>4

LEMMA EnterFreeRequests ==
  ASSUME IInv, IInv', NEW g \in Greenlet, EnterFree(g)
  PROVE  Lock!Request(g)
  <1>1. LockOwner # g /\ ~Lock!Waits(g)
    BY OutIsOut DEF EnterFree
  <1>2. LockOwner = NoOne /\ LockWaiting = queue
    BY OwnerNone DEF EnterFree
  <1>3. pc'[g] = "in" /\ queue' = queue
    BY DEF EnterFree, IInv, TypeOK
  <1>4. LockOwner' = g /\ LockWaiting' = queue'
    BY <1>3, OwnerInNext
  <1> QED BY <1>1, <1>2, <1>3, <1>4 DEF Lock!Request

LEMMA EnterHeldRequests ==
  ASSUME IInv, IInv', NEW g \in Greenlet, EnterHeld(g)
  PROVE  Lock!Request(g)
  <1>1. LockOwner # g /\ ~Lock!Waits(g)
    BY OutIsOut DEF EnterHeld
  <1>2. queue \in Seq(Greenlet) /\ queue' = Append(queue, g) /\ is_locked
    BY DEF EnterHeld, IInv, TypeOK
  <1>3. CASE next_pending
    <2>1. queue # <<>> /\ next_pending'
      BY <1>3 DEF IInv, Phases, EnterHeld
    <2>2. /\ Head(queue') = Head(queue)
          /\ Tail(queue') = Append(Tail(queue), g)
          /\ Head(queue) \in Greenlet
      BY <1>2, <2>1, SMT
    <2>3. LockOwner = Head(queue) /\ LockOwner' = Head(queue)
          /\ LockWaiting' = Append(LockWaiting, g)
      BY <1>3, <2>1, <2>2 DEF LockOwner, LockWaiting
    <2> QED BY <1>1, <2>2, <2>3, NoOneAssumption DEF Lock!Request
  <1>4. CASE ~next_pending
    <2>1. PICK h \in Greenlet : pc[h] = "in"
      BY <1>2, <1>4 DEF IInv, Phases
    <2>2. pc'[h] = "in"
      BY <2>1 DEF EnterHeld, IInv, TypeOK
    <2>3. LockOwner = h /\ LockWaiting = queue /\ LockOwner' = h /\ LockWaiting' = queue'
      BY <2>1, <2>2, OwnerIn, OwnerInNext
    <2> QED BY <1>1, <1>2, <2>3, NoOneAssumption DEF Lock!Request
  <1> QED BY <1>3, <1>4

LEMMA WokenStutters ==
  ASSUME IInv, IInv', NEW g \in Greenlet, Woken(g)
  PROVE  LockOwner' = LockOwner /\ LockWaiting' = LockWaiting
  <1>1. CASE next_pending /\ Head(queue) = g
    <2>1. pc'[g] = "in" /\ queue' = Tail(queue)
      BY <1>1 DEF Woken, IInv, TypeOK
    <2> QED BY <1>1, <2>1, OwnerNext, OwnerInNext
  <1>2. CASE ~(next_pending /\ Head(queue) = g)
    <2>1. next_pending' = next_pending /\ queue' = queue /\ pc' = pc
      BY <1>2 DEF Woken
    <2> QED BY <2>1 DEF LockOwner, LockWaiting, Inside
  <1> QED BY <1>1, <1>2

LEMMA ExitReleases ==
  ASSUME IInv, IInv', NEW g \in Greenlet, Exit(g)
  PROVE  Lock!Release(g)
  <1>1. LockOwner = g /\ LockWaiting = queue /\ queue' = queue
    BY OwnerIn DEF Exit
  <1>2. CASE queue = <<>>
    <2>1. NobodyIn' /\ ~next_pending'
      BY <1>2 DEF Exit, IInv, Phases
    <2>2. LockOwner' = NoOne /\ LockWaiting' = LockWaiting
      BY <1>1, <2>1 DEF LockOwner, LockWaiting, Inside, NobodyIn
    <2> QED BY <1>1, <1>2, <2>2 DEF Lock!Release
  <1>3. CASE queue # <<>>
    <2>1. LockOwner' = Head(queue) /\ LockWaiting' = Tail(queue)
      BY <1>1, <1>3 DEF Exit, LockOwner, LockWaiting
    <2> QED BY <1>1, <1>3, <2>1 DEF Lock!Release
  <1> QED BY <1>2, <1>3

\* The mutex of the reactor implements the first-come first-served lock that
\* stands for it in the models of the G-code commands: run_script's callers
\* get the lock one by one, in the order in which they asked for it.
THEOREM Refinement == Spec => ImplementsFifoLock
  <1>1. Init => Lock!Init
    BY DEF Init, Lock!Init, LockOwner, LockWaiting, Inside
  <1>2. IInv /\ IInv' /\ [Next]_vars => [Lock!Next]_(Lock!lockVars)
    <2> SUFFICES ASSUME IInv, IInv', [Next]_vars PROVE [Lock!Next]_(Lock!lockVars)
      OBVIOUS
    <2>1. CASE UNCHANGED vars
      BY <2>1 DEF vars, Lock!lockVars, LockOwner, LockWaiting, Inside
    <2>2. ASSUME NEW g \in Greenlet, Step(g) PROVE [Lock!Next]_(Lock!lockVars)
      <3>1. CASE EnterFree(g) \/ EnterHeld(g)
        BY <3>1, EnterFreeRequests, EnterHeldRequests DEF Lock!Next
      <3>2. CASE Woken(g)
        BY <3>2, WokenStutters DEF Lock!lockVars
      <3>3. CASE Exit(g)
        BY <3>3, ExitReleases DEF Lock!Next
      <3> QED BY <2>2, <3>1, <3>2, <3>3 DEF Step
    <2> QED BY <2>1, <2>2 DEF Next
  <1> QED BY <1>1, <1>2, Invariance, PTL DEF Spec, ImplementsFifoLock, Lock!Spec

-----------------------------------------------------------------------------
(* Nobody is overtaken.                                                    *)

LEMMA LockOrder ==
  ASSUME LockWaiting \in Seq(Greenlet), [Lock!Next]_(Lock!lockVars)
  PROVE  \A g, h \in Greenlet :
           Lock!Before(g, h) => (LockOwner)' = g \/ Lock!Before(g, h)'
  <1> SUFFICES ASSUME NEW g \in Greenlet, NEW h \in Greenlet, Precedes(g, h, LockWaiting)
               PROVE  (LockOwner)' = g \/ Precedes(g, h, (LockWaiting)')
    BY DEF Lock!Before, Precedes
  <1>1. CASE (LockWaiting)' = LockWaiting
    BY <1>1
  <1>2. ASSUME NEW c \in Greenlet, (LockWaiting)' = Append(LockWaiting, c)
        PROVE  Precedes(g, h, (LockWaiting)')
    BY <1>2, JoinsBehind
  <1>3. CASE (LockOwner)' = Head(LockWaiting) /\ (LockWaiting)' = Tail(LockWaiting)
    BY <1>3, LeavesInOrder
  <1>4. LockWaiting # <<>>
    BY LeavesInOrder
  <1> QED BY <1>1, <1>2, <1>3, <1>4 DEF Lock!Next, Lock!Request, Lock!Release,
       Lock!lockVars

\* The safe half of NoStarvation: whoever waits for the mutex of the reactor is
\* overtaken by nobody, so his place in the queue only gets better.
THEOREM InOrder == Spec => Lock!NoOvertaking
  <1>1. IInv => LockWaiting \in Seq(Greenlet)
    <2>1. IInv => queue \in Seq(Greenlet) /\ (next_pending => queue # <<>>)
      BY DEF IInv, TypeOK, Phases
    <2> QED BY <2>1, HeadIsFirst DEF LockWaiting
  <1>2. IInv /\ [Lock!Next]_(Lock!lockVars) =>
          [\A g, h \in Greenlet :
             Lock!Before(g, h) => LockOwner' = g \/ Lock!Before(g, h)']_(Lock!lockVars)
    BY <1>1, LockOrder
  <1> QED BY <1>2, Invariance, Refinement, PTL
       DEF ImplementsFifoLock, Lock!Spec, Lock!NoOvertaking
===============================================================================
