-------------------------- MODULE DelayedGcodeProofs --------------------------
(***************************************************************************)
(* Delayed G-codes on the G-code mutex, for any number of them and of      *)
(* clients: no callback is called twice at a time, and if only the first   *)
(* commands of a line of the file cancel them, no cancelled one begins.    *)
(***************************************************************************)
EXTENDS DelayedGcode, SequenceLemmas

Queue ==
  /\ Distinct(waiting)
  /\ owner = NoOne => waiting = <<>>
  /\ ~Occurs(owner, waiting)

\* A callback that has not returned waits for the mutex or holds it.
Inside == \A d \in Timer : d \in inside_timer <=> owner = d \/ Occurs(d, waiting)

\* Whatever may still begin has been asked for.
Wanted ==
  ~AnyoneCancels => \A d \in Timer :
    d \in armed \/ d \in repeat \/ Occurs(d, waiting) => d \in asked

\* The inductive invariant of the delayed G-codes.
IInv == TypeOK /\ Queue /\ Inside /\ OneRun /\ Wanted

LEMMA Greenlets ==
  /\ NoOne \notin Greenlet /\ Handler \in Greenlet /\ Handler \notin Timer
  /\ Timer \subseteq Greenlet /\ Client \subseteq Greenlet
  /\ \A c \in Client : c \notin Timer
  BY GreenletAssumption DEF Greenlet

LEMMA InitIInv == Init => IInv
<1> SUFFICES ASSUME Init PROVE IInv
  OBVIOUS
<1>1. waiting = <<>> /\ owner = NoOne /\ waiting \in Seq(Greenlet) /\ 1 .. Len(waiting) = {}
  BY DEF Init, Mutex!Init
<1>2. \A e : ~Occurs(e, waiting)
  BY <1>1 DEF Occurs
<1> QED
  BY <1>1, <1>2, Greenlets DEF Init, IInv, TypeOK, Queue, Inside, OneRun, Wanted, Distinct

\* Asking for the mutex gets it or a place at the end of the queue.
LEMMA Requested ==
  ASSUME IInv, NEW g \in Greenlet, Mutex!Request(g)
  PROVE  /\ owner' \in Greenlet \cup {NoOne} /\ waiting' \in Seq(Greenlet)
         /\ Queue'
         /\ owner # g /\ ~Occurs(g, waiting)
         /\ \A e : owner' = e \/ Occurs(e, waiting')
                     <=> e = g \/ (owner = e /\ e # NoOne) \/ Occurs(e, waiting)
         /\ \A e : Occurs(e, waiting') => e = g \/ Occurs(e, waiting)
         /\ \A e : e # g => ~Begins(e)
<1>1. owner # g /\ ~Occurs(g, waiting) /\ waiting \in Seq(Greenlet) /\ g # NoOne
  BY Greenlets DEF IInv, TypeOK, Mutex!Request, Mutex!Waits, Occurs
<1>2. CASE owner = NoOne
  <2>1. owner' = g /\ waiting' = waiting /\ waiting = <<>>
    BY <1>2 DEF Mutex!Request, IInv, Queue
  <2>2. \A e : ~Occurs(e, waiting)
    BY <2>1 DEF Occurs
  <2> QED
    BY <1>1, <1>2, <2>1, <2>2 DEF Queue, IInv, Begins
<1>3. CASE owner # NoOne
  <2>1. owner' = owner /\ waiting' = Append(waiting, g)
    BY <1>3 DEF Mutex!Request
  <2>2. /\ waiting' \in Seq(Greenlet) /\ waiting' # <<>> /\ Distinct(waiting')
        /\ \A e : Occurs(e, waiting') <=> e = g \/ Occurs(e, waiting)
    BY <1>1, <2>1, Joins DEF IInv, Queue
  <2> QED
    BY <1>1, <1>3, <2>1, <2>2 DEF Queue, IInv, TypeOK, Begins
<1> QED
  BY <1>2, <1>3

\* Letting go of the mutex hands it to the oldest of those who wait.
LEMMA Released ==
  ASSUME IInv, NEW g \in Greenlet, Mutex!Release(g)
  PROVE  /\ owner' \in Greenlet \cup {NoOne} /\ waiting' \in Seq(Greenlet)
         /\ Queue'
         /\ owner = g
         /\ \A e \in Greenlet : owner' = e \/ Occurs(e, waiting') <=> Occurs(e, waiting)
         /\ \A e : Occurs(e, waiting') => Occurs(e, waiting)
<1>1. owner = g /\ waiting \in Seq(Greenlet) /\ Distinct(waiting) /\ ~Occurs(g, waiting)
  BY DEF IInv, TypeOK, Queue, Mutex!Release
<1>2. CASE waiting = <<>>
  <2>1. owner' = NoOne /\ waiting' = waiting
    BY <1>2 DEF Mutex!Release
  <2>2. \A e : ~Occurs(e, waiting)
    BY <1>2 DEF Occurs
  <2> QED
    BY <1>1, <1>2, <2>1, <2>2, Greenlets DEF Queue
<1>3. CASE waiting # <<>>
  <2>1. owner' = Head(waiting) /\ waiting' = Tail(waiting)
    BY <1>3 DEF Mutex!Release
  <2>2. Head(waiting) \in Greenlet /\ Occurs(Head(waiting), waiting) /\ waiting' \in Seq(Greenlet)
    BY <1>1, <1>3, <2>1, HeadIsFirst
  <2>3. /\ Distinct(waiting')
        /\ \A e : Occurs(e, waiting') <=> e # Head(waiting) /\ Occurs(e, waiting)
    BY <1>1, <1>3, <2>1, Leaves
  <2> QED
    BY <1>1, <2>1, <2>2, <2>3, Greenlets DEF Queue
<1> QED
  BY <1>2, <1>3

LEMMA FiresIInv == ASSUME IInv, NEW d \in Timer, Fires(d) PROVE IInv'
<1>1. d \in Greenlet /\ Mutex!Request(d)
  BY Greenlets DEF Fires
<1>2. TypeOK'
  BY <1>1, Requested DEF Fires, RunBegins, IInv, TypeOK
<1>3. Inside'
  BY <1>1, Requested, Greenlets DEF Fires, IInv, Inside
<1>4. OneRun'
  BY DEF Fires, IInv, OneRun
<1>5. Wanted'
  <2> SUFFICES ASSUME ~AnyoneCancels, NEW e \in Timer,
                      (d # e /\ e \in armed) \/ e \in repeat \/ Occurs(e, waiting')
               PROVE  e \in asked'
    BY DEF Wanted, Fires
  <2>1. e \in asked
    BY <1>1, Requested DEF IInv, Wanted, Fires
  <2>2. Begins(e) => e \in repeat
    BY <1>1, Requested DEF Begins, Queue
  <2> QED
    BY <2>1, <2>2 DEF Fires, RunBegins
<1> QED
  BY <1>1, <1>2, <1>3, <1>4, <1>5, Requested DEF IInv

\* A script ends: the owner's callback, if it is one, returns.
LEMMA EndsIInv ==
  ASSUME IInv, NEW g \in Greenlet, Mutex!Release(g), RunBegins,
         inside_timer' = inside_timer \ {g}, repeat' = repeat \ {g},
         armed' = IF g \in repeat THEN armed \cup {g} ELSE armed
  PROVE  IInv'
<1>1. TypeOK'
  BY Released DEF RunBegins, IInv, TypeOK
<1>2. Inside'
  BY Released, Greenlets DEF IInv, Inside, Queue
<1>3. OneRun'
  BY DEF IInv, OneRun
<1>4. Wanted'
  <2> SUFFICES ASSUME ~AnyoneCancels, NEW e \in Timer,
                      e \in armed' \/ e \in repeat' \/ Occurs(e, waiting')
               PROVE  e \in asked'
    BY DEF Wanted
  <2>1. e \in asked
    BY Released DEF IInv, Wanted
  <2>2. CASE Begins(e)
    <3>1. Occurs(e, waiting) /\ e # g /\ e \in inside_timer /\ ~Occurs(e, waiting')
      BY <2>2, Released, Greenlets DEF Begins, IInv, Inside, Queue
    <3> QED
      BY <2>1, <3>1 DEF RunBegins, IInv, OneRun
  <2>3. CASE ~Begins(e)
    BY <2>1, <2>3 DEF RunBegins
  <2> QED
    BY <2>2, <2>3
<1> QED
  BY <1>1, <1>2, <1>3, <1>4, Released DEF IInv

LEMMA UpdateIInv ==
  ASSUME IInv, NEW g \in Greenlet, NEW d \in Timer, NEW on \in BOOLEAN, Update(g, d, on)
  PROVE  IInv'
<1>1. TypeOK' /\ OneRun'
  BY DEF Update, SetTimer, With, IInv, TypeOK, OneRun, lockVars
<1>2. Queue' /\ Inside'
  BY DEF Update, IInv, Queue, Inside, lockVars, Distinct, Occurs
<1>3. Wanted'
  BY DEF Update, SetTimer, With, IInv, Wanted, lockVars, Occurs
<1> QED
  BY <1>1, <1>2, <1>3 DEF IInv

LEMMA AsksIInv ==
  ASSUME IInv, NEW g \in Greenlet, g \notin Timer, Mutex!Request(g),
         UNCHANGED <<armed, inside_timer, repeat, asked>>
  PROVE  IInv'
<1>1. TypeOK' /\ OneRun'
  BY Requested DEF IInv, TypeOK, OneRun
<1>2. Inside'
  BY Requested, Greenlets DEF IInv, Inside
<1>3. Wanted'
  BY Requested DEF IInv, Wanted
<1> QED
  BY <1>1, <1>2, <1>3, Requested DEF IInv

LEMMA StartPrintIInv == ASSUME IInv, StartPrint PROVE IInv'
<1>1. Mutex!Request(Handler) /\ owner = NoOne /\ waiting = <<>>
  BY DEF StartPrint, IInv, Queue
<1>2. \A e : ~Occurs(e, waiting)
  BY <1>1 DEF Occurs
<1>3. TypeOK' /\ OneRun'
  BY <1>1, Requested, Greenlets DEF StartPrint, TimersCancelled, IInv, TypeOK, OneRun
<1>4. Inside'
  BY <1>1, Requested, Greenlets DEF StartPrint, IInv, Inside
<1>5. armed' = {}
  BY <1>1, <1>2, Greenlets DEF StartPrint, TimersCancelled, IInv, Inside, TypeOK
<1>6. Wanted'
  BY <1>1, <1>2, <1>5, Requested, Greenlets DEF StartPrint, TimersCancelled, Wanted
<1> QED
  BY <1>1, <1>3, <1>4, <1>6, Requested, Greenlets DEF IInv

LEMMA StepIInv == IInv /\ [Next]_vars => IInv'
<1> SUFFICES ASSUME IInv, [Next]_vars PROVE IInv'
  OBVIOUS
<1>1. CASE UNCHANGED vars
  BY <1>1 DEF vars, lockVars, IInv, TypeOK, Queue, Inside, OneRun, Wanted, Distinct, Occurs
<1>2. ASSUME NEW g \in Greenlet, NEW d \in Timer, NEW on \in BOOLEAN, Update(g, d, on)
      PROVE  IInv'
  BY <1>2, UpdateIInv
<1>3. ASSUME NEW d \in Timer, Fires(d) PROVE IInv'
  BY <1>3, FiresIInv
<1>4. ASSUME NEW d \in Timer, Returns(d) PROVE IInv'
  BY <1>4, EndsIInv, Greenlets DEF Returns
<1>5. ASSUME NEW c \in Client, Asks(c) PROVE IInv'
  BY <1>5, AsksIInv, Greenlets DEF Asks
<1>6. CASE LineBegins
  BY <1>6, AsksIInv, Greenlets DEF LineBegins
<1>7. CASE StartPrint
  BY <1>7, StartPrintIInv
<1>8. ASSUME NEW g \in Client \cup {Handler}, Ends(g) PROVE IInv'
  <2>1. g \in Greenlet /\ g \notin Timer /\ g \notin inside_timer /\ g \notin repeat
    BY Greenlets DEF IInv, TypeOK
  <2> QED
    BY <1>8, <2>1, EndsIInv DEF Ends
<1> QED
  BY <1>1, <1>2, <1>3, <1>4, <1>5, <1>6, <1>7, <1>8 DEF Next

-----------------------------------------------------------------------------
\* The inductive invariant holds of every behaviour, whoever cancels.
THEOREM Invariance == Spec => []IInv
<1> QED
  BY InitIInv, StepIInv, PTL DEF Spec

\* A timer's callback is never called while it still waits for the mutex or
\* runs its script.
THEOREM RunsOnce == Spec => []OneRun
<1>1. IInv => OneRun
  BY DEF IInv
<1> QED
  BY <1>1, Invariance, PTL

\* Cancelling as _START_PRINT does it is effective: no delayed G-code begins
\* that was not asked for.
THEOREM CancelledNeverBegins == ~AnyoneCancels /\ Spec => AsAsked
<1> SUFFICES ASSUME ~AnyoneCancels PROVE Spec => AsAsked
  OBVIOUS
<1>1. ASSUME IInv, Next, NEW d \in Timer, Begins(d) PROVE d \in asked
  <2>1. d \in Greenlet
    BY Greenlets
  <2>2. CASE \E e \in Timer : Fires(e)
    <3>1. PICK e \in Timer : Fires(e)
      BY <2>2
    <3>2. d = e
      BY <1>1, <3>1, Requested, Greenlets DEF Fires
    <3> QED
      BY <3>1, <3>2 , <1>1 DEF Fires, IInv, Wanted
  <2>3. CASE \E g \in Greenlet : Mutex!Release(g)
    <3>1. Occurs(d, waiting)
      BY <1>1, <2>1, <2>3, Released DEF Begins
    <3> QED
      BY <3>1, <1>1 DEF IInv, Wanted
  <2>4. CASE \E g \in Client \cup {Handler} : Mutex!Request(g)
    BY <1>1, <2>4, Requested, Greenlets
  <2>5. CASE UNCHANGED lockVars
    BY <1>1, <2>5 DEF Begins, lockVars
  <2> QED
    BY <1>1, <2>2, <2>3, <2>4, <2>5, Greenlets
       DEF Next, Update, Returns, Asks, LineBegins, StartPrint, Ends
<1>2. IInv /\ [Next]_vars => [\A d \in Timer : Begins(d) => d \in asked]_vars
  BY <1>1
<1> QED
  BY <1>2, Invariance, PTL DEF Spec, AsAsked

-----------------------------------------------------------------------------
(* Nobody is overtaken.                                                    *)

LEMMA StepInOrder ==
  ASSUME IInv, [Next]_vars, NEW g \in Greenlet, NEW h \in Greenlet, Mutex!Before(g, h)
  PROVE  owner' = g \/ Mutex!Before(g, h)'
<1>1. Precedes(g, h, waiting) /\ waiting \in Seq(Greenlet)
  BY DEF IInv, TypeOK, Mutex!Before, Precedes
<1>2. waiting # <<>> /\ (Head(waiting) = g \/ Precedes(g, h, Tail(waiting)))
  BY <1>1, LeavesInOrder
<1>3. CASE UNCHANGED lockVars
  BY <1>3 DEF lockVars, Mutex!Before
<1>4. ASSUME NEW c \in Greenlet, Mutex!Request(c) PROVE Mutex!Before(g, h)'
  <2>1. waiting' = waiting \/ waiting' = Append(waiting, c)
    BY <1>4 DEF Mutex!Request
  <2>2. Precedes(g, h, waiting')
    BY <1>1, <2>1, JoinsBehind
  <2> QED BY <2>2 DEF Mutex!Before, Precedes
<1>5. ASSUME NEW c \in Greenlet, Mutex!Release(c) PROVE owner' = g \/ Mutex!Before(g, h)'
  <2>1. owner' = Head(waiting) /\ waiting' = Tail(waiting)
    BY <1>2, <1>5 DEF Mutex!Release
  <2> QED BY <1>2, <2>1 DEF Mutex!Before, Precedes
<1>6. \/ UNCHANGED lockVars
      \/ \E c \in Greenlet : Mutex!Request(c) \/ Mutex!Release(c)
  BY Greenlets DEF Next, vars, Update, Fires, Returns, Asks, LineBegins, StartPrint, Ends
<1> QED
  BY <1>3, <1>4, <1>5, <1>6

\* A timer that goes off while another script runs gets the mutex before
\* whoever asks for it after that, a client or the print job: they take their
\* turns behind it.
THEOREM InOrder == Spec => Mutex!NoOvertaking
<1>1. IInv /\ [Next]_vars =>
        [\A g, h \in Greenlet :
           Mutex!Before(g, h) => owner' = g \/ Mutex!Before(g, h)']_(Mutex!lockVars)
  BY StepInOrder
<1> QED
  BY <1>1, Invariance, PTL DEF Spec, Mutex!NoOvertaking
=============================================================================
