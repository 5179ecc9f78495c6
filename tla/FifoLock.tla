------------------------------- MODULE FifoLock -------------------------------
(***************************************************************************)
(* What the G-code mutex promises its users: one owner at a time, and the  *)
(* lock handed to those who wait for it in the order they asked.  The      *)
(* detailed mutex of the reactor is GcodeMutex; the modules that model the *)
(* G-code commands use the two actions below.                              *)
(***************************************************************************)
EXTENDS Naturals, Sequences

CONSTANTS Greenlet,     \* the greenlets that may run a G-code script
          NoOne         \* the owner of a free lock

VARIABLES owner,        \* the greenlet that holds the lock, or NoOne
          waiting       \* the greenlets that wait for it, oldest first

lockVars == <<owner, waiting>>

Waits(g) == \E i \in 1 .. Len(waiting) : waiting[i] = g

Init == owner = NoOne /\ waiting = <<>>

\* A greenlet that neither holds the lock nor waits for it asks for it.
Request(g) ==
  /\ owner # g
  /\ ~Waits(g)
  /\ IF owner = NoOne
       THEN owner' = g /\ UNCHANGED waiting
       ELSE waiting' = Append(waiting, g) /\ UNCHANGED owner

\* The owner lets go: the oldest waiting greenlet owns the lock at once, so
\* nobody who asks later can overtake it.
Release(g) ==
  /\ owner = g
  /\ IF waiting = <<>>
       THEN owner' = NoOne /\ UNCHANGED waiting
       ELSE owner' = Head(waiting) /\ waiting' = Tail(waiting)

Next == \E g \in Greenlet : Request(g) \/ Release(g)

Spec == Init /\ [][Next]_lockVars

Before(g, h) ==
  \E i, j \in 1 .. Len(waiting) : i < j /\ waiting[i] = g /\ waiting[j] = h

\* Nobody is overtaken: who waits before another keeps that place until the
\* lock is his.
NoOvertaking ==
  [][\A g, h \in Greenlet : Before(g, h) => owner' = g \/ Before(g, h)']_lockVars
=============================================================================
