------------------------------ MODULE GcodeMutex ------------------------------
(***************************************************************************)
(* The ReactorMutex of klippy/reactor.py, which every G-code script of the *)
(* printer runs under (gcode.py, run_script).  A greenlet gives up control *)
(* only in reactor.pause, so each action is the code between two pauses.   *)
(* The lock is handed over in two steps: __exit__ marks the oldest waiter  *)
(* and makes its timer due, and the waiter takes the lock when the reactor *)
(* next runs it; is_locked stays set in between.                           *)
(***************************************************************************)
EXTENDS Sequences, Naturals

CONSTANTS Greenlet,     \* the greenlets that may run a G-code script
          NoOne         \* the owner of a free lock

ASSUME NoOneAssumption == NoOne \notin Greenlet

VARIABLES is_locked,
          next_pending,
          queue,        \* the greenlets paused in __enter__
          due,          \* those of them whose pause timer is due
          pc            \* where each greenlet is: "out", "paused", "in"

vars == <<is_locked, next_pending, queue, due, pc>>

TypeOK ==
  /\ is_locked \in BOOLEAN
  /\ next_pending \in BOOLEAN
  /\ queue \in Seq(Greenlet)
  /\ due \in SUBSET {g \in Greenlet : pc[g] = "paused"}
  /\ pc \in [Greenlet -> {"out", "paused", "in"}]

Init ==
  /\ is_locked = FALSE
  /\ next_pending = FALSE
  /\ queue = <<>>
  /\ due = {}
  /\ pc = [g \in Greenlet |-> "out"]

\* __enter__ on a free lock.
EnterFree(g) ==
  /\ pc[g] = "out"
  /\ ~is_locked
  /\ is_locked' = TRUE
  /\ pc' = [pc EXCEPT ![g] = "in"]
  /\ UNCHANGED <<next_pending, queue, due>>

\* Fault: the greenlet puts itself before those who already wait.
EnterHeldLifo(g) ==
  /\ pc[g] = "out"
  /\ is_locked
  /\ queue' = <<g>> \o queue
  /\ pc' = [pc EXCEPT ![g] = "paused"]
  /\ UNCHANGED <<is_locked, next_pending, due>>

\* __enter__ on a held lock: join the queue and pause until woken.
EnterHeld(g) ==
  /\ pc[g] = "out"
  /\ is_locked
  /\ queue' = Append(queue, g)
  /\ pc' = [pc EXCEPT ![g] = "paused"]
  /\ UNCHANGED <<is_locked, next_pending, due>>

\* The reactor runs a paused greenlet whose timer is due: it takes the lock
\* if it was handed over and it heads the queue, and pauses again otherwise.
Woken(g) ==
  /\ g \in due
  /\ pc[g] = "paused"
  /\ due' = due \ {g}
  /\ IF next_pending /\ Head(queue) = g
       THEN /\ next_pending' = FALSE
            /\ queue' = Tail(queue)
            /\ pc' = [pc EXCEPT ![g] = "in"]
       ELSE UNCHANGED <<next_pending, queue, pc>>
  /\ UNCHANGED is_locked

\* Faults: __exit__ frees the lock while it hands it over, makes the timer
\* of the last greenlet of the queue due, or its own.
ExitFreesLock(g) ==
  /\ pc[g] = "in"
  /\ pc' = [pc EXCEPT ![g] = "out"]
  /\ is_locked' = FALSE
  /\ IF queue = <<>>
       THEN UNCHANGED <<next_pending, due>>
       ELSE next_pending' = TRUE /\ due' = due \cup {Head(queue)}
  /\ UNCHANGED queue

ExitWakes(g, woken) ==
  /\ pc[g] = "in"
  /\ pc' = [pc EXCEPT ![g] = "out"]
  /\ IF queue = <<>>
       THEN is_locked' = FALSE /\ UNCHANGED <<next_pending, due>>
       ELSE next_pending' = TRUE /\ due' = due \cup {woken} /\ UNCHANGED is_locked
  /\ UNCHANGED queue

ExitWakesLast(g) == ExitWakes(g, IF queue = <<>> THEN g ELSE queue[Len(queue)])

\* __exit__: free the lock, or hand it to the head of the queue.
Exit(g) ==
  /\ pc[g] = "in"
  /\ pc' = [pc EXCEPT ![g] = "out"]
  /\ IF queue = <<>>
       THEN is_locked' = FALSE /\ UNCHANGED <<next_pending, due>>
       ELSE /\ next_pending' = TRUE
            /\ due' = due \cup {Head(queue)}
            /\ UNCHANGED is_locked
  /\ UNCHANGED queue

Step(g) == EnterFree(g) \/ EnterHeld(g) \/ Woken(g) \/ Exit(g)

Next == \E g \in Greenlet : Step(g)

Spec == Init /\ [][Next]_vars

\* The reactor runs every due timer, and every script ends.
FairSpec == Spec /\ \A g \in Greenlet : WF_vars(Woken(g)) /\ WF_vars(Exit(g))

-----------------------------------------------------------------------------
(* Properties.                                                             *)

\* No two greenlets run G-code at once: the body of run_script's "with".
MutualExclusion == \A g, h \in Greenlet : pc[g] = "in" /\ pc[h] = "in" => g = h

\* test() tells the truth while the lock changes hands: it answers "free"
\* only when nobody holds the lock and nobody waits for it, so the SD card
\* handler, which polls it, cannot overtake a waiting script.
FreeMeansIdle == ~is_locked => queue = <<>> /\ \A g \in Greenlet : pc[g] # "in"

\* A hand-over is never lost: while it is pending nobody holds the lock and
\* the greenlet it is meant for is paused with its timer due.
HandOver ==
  next_pending => /\ queue # <<>>
                  /\ pc[Head(queue)] = "paused"
                  /\ Head(queue) \in due
                  /\ \A g \in Greenlet : pc[g] # "in"

\* A greenlet that waits gets the lock in the end.
NoStarvation == \A g \in Greenlet : pc[g] = "paused" ~> pc[g] = "in"

-----------------------------------------------------------------------------
(* The lock the mutex implements: its owner is the greenlet in the body of *)
(* the "with", or the one the lock is being handed to.                     *)

Inside == {g \in Greenlet : pc[g] = "in"}

LockOwner == IF next_pending THEN Head(queue)
             ELSE IF Inside = {} THEN NoOne
             ELSE CHOOSE g \in Greenlet : pc[g] = "in"

LockWaiting == IF next_pending THEN Tail(queue) ELSE queue

Lock == INSTANCE FifoLock WITH owner <- LockOwner, waiting <- LockWaiting

\* The mutex implements the first-come first-served lock.
ImplementsFifoLock == Lock!Spec
=============================================================================
