------------------------ MODULE KlippyConnectionProofs ------------------------
(***************************************************************************)
(* What listeners hear of a connection comes in order, and who heard of    *)
(* klippy_ready hears of the shutdown: for runs of any length, with any    *)
(* number of messages under way.                                           *)
(***************************************************************************)
EXTENDS KlippyConnection, SequenceTheorems, TLAPS

-----------------------------------------------------------------------------
(* The inductive invariant.                                                *)

\* Without a connection nothing is under way but the dialling and, of the last
\* connection, an answer a client has not taken: the cache is empty till then.
Disconnected ==
  /\ link = None /\ inbox = <<>> /\ told = <<>>
  /\ state = "disconnected" /\ reply = None /\ info = None
  /\ ~identified /\ ~started /\ ~initializing
  /\ task \in {"dial", "off"} /\ client # "asked"
  /\ client \in KlipperState => cached = None

LinkInv ==
  /\ connected => link # None /\ state # "disconnected"
  /\ ~connected => Disconnected
  /\ link = "up" => klipper # "down"
  /\ link # "up" => asks = {} /\ ~subscribed
  /\ closing # "no" => task = "off"
  /\ closing = "telling" => ~connected
  /\ task = "dial" => ~connected /\ closing = "no"

\* The connection task runs while the connection is initialised; an answer
\* waits for it only where it asked, and its subscription excludes a client's.
TaskInv ==
  /\ connected /\ task # "off" => initializing
  /\ reply # None => task \in {"info", "webhooks", "off"}
  /\ task = "webhooks" => client = "idle"
  /\ task = "identifying" => identified /\ info # None

\* The states in a queue of messages: all are shutdown, one is, and nothing
\* else follows it.
AllShutdown(q) == \A i \in 1 .. Len(q) : q[i].state = "shutdown"
SomeShutdown(q) == \E i \in 1 .. Len(q) : q[i].state = "shutdown"
ShutdownLast(q) == \A i \in 1 .. Len(q) : q[i].state = "shutdown" =>
                     \A j \in i .. Len(q) : q[j].state = "shutdown"

\* Where Moonraker has learnt of a shutdown.
Learnt ==
  \/ "shutdown" \in {state, reply, info}
  \/ client = "shutdown" /\ cached # None

\* The Klipper that answers here has been shut down for good.
ShutdownFinal ==
  /\ ShutdownLast(inbox)
  /\ SomeShutdown(inbox) /\ link = "up" => klipper = "shutdown"
  /\ connected /\ Learnt =>
       AllShutdown(inbox) /\ (link = "up" => klipper = "shutdown")

\* The subscription has been asked for: no older state can come.
Late ==
  \/ task \in {"webhooks", "output", "starting", "checking", "announcing"}
  \/ connected /\ ~initializing

NoOlderAnswer ==
  Late /\ state = "shutdown" =>
    /\ client \in KlipperState => client = "shutdown"
    /\ task = "webhooks" /\ reply # None => reply = "shutdown"

I == <<"identified">>
IS == <<"identified", "started">>
ISD == <<"identified", "started", "shutdown">>
ISR == <<"identified", "started", "ready">>
ISRD == <<"identified", "started", "ready", "shutdown">>

\* What has been told, at each stage of the initialisation and after it.
ToldInv ==
  /\ task \in {"pause", "info"} => told = IF identified THEN I ELSE <<>>
  /\ task \in {"identifying", "subscribing", "webhooks", "output"} => told = I
  /\ task \in {"starting", "checking"} => told = IS
  /\ task = "announcing" => told = ISR
  /\ initializing => told \in {<<>>, I, IS, ISR}
  /\ connected /\ ~initializing =>
       \/ told = IS
       \/ told = ISR /\ state # "shutdown"
       \/ told \in {ISD, ISRD} /\ state = "shutdown"

Inv == LinkInv /\ TaskInv /\ ShutdownFinal /\ NoOlderAnswer /\ ToldInv

IInv == TypeOK /\ Inv
-----------------------------------------------------------------------------
(* Lemmas about the messages and the events.                               *)

Message == [to : {"info", "webhooks", "client", "status"}, state : KlipperState]
Event == {"identified", "started", "ready", "shutdown"}

LEMMA NothingSent ==
  /\ <<>> \in Seq(Message)
  /\ AllShutdown(<<>>) /\ ShutdownLast(<<>>) /\ ~SomeShutdown(<<>>)
  BY SMT DEF AllShutdown, ShutdownLast, SomeShutdown

\* A message is sent.
LEMMA Sent ==
  ASSUME NEW q \in Seq(Message), NEW m \in Message
  PROVE  /\ Append(q, m) \in Seq(Message)
         /\ AllShutdown(Append(q, m)) <=> AllShutdown(q) /\ m.state = "shutdown"
         /\ SomeShutdown(Append(q, m)) <=> SomeShutdown(q) \/ m.state = "shutdown"
         /\ ShutdownLast(q) /\ (SomeShutdown(q) => m.state = "shutdown")
              => ShutdownLast(Append(q, m))
  <1>1. /\ Append(q, m) \in Seq(Message)
        /\ Len(q) \in Nat /\ Len(Append(q, m)) = Len(q) + 1
        /\ Append(q, m)[Len(q) + 1] = m
        /\ \A i \in 1 .. Len(q) : Append(q, m)[i] = q[i]
    BY SMT
  <1>2. AllShutdown(Append(q, m)) <=> AllShutdown(q) /\ m.state = "shutdown"
    BY <1>1 DEF AllShutdown
  <1>3. SomeShutdown(Append(q, m)) <=> SomeShutdown(q) \/ m.state = "shutdown"
    BY <1>1 DEF SomeShutdown
  <1>4. ASSUME ShutdownLast(q), SomeShutdown(q) => m.state = "shutdown"
        PROVE  ShutdownLast(Append(q, m))
    BY <1>1, <1>4 DEF ShutdownLast, SomeShutdown
  <1> QED BY <1>1, <1>2, <1>3, <1>4

\* The oldest message is read.
LEMMA Taken ==
  ASSUME NEW q \in Seq(Message), q # <<>>
  PROVE  /\ Head(q) \in Message /\ Tail(q) \in Seq(Message)
         /\ AllShutdown(q) => AllShutdown(Tail(q)) /\ Head(q).state = "shutdown"
         /\ SomeShutdown(Tail(q)) => SomeShutdown(q)
         /\ Head(q).state = "shutdown" => SomeShutdown(q)
         /\ ShutdownLast(q) => ShutdownLast(Tail(q))
         /\ ShutdownLast(q) /\ Head(q).state = "shutdown" => AllShutdown(Tail(q))
  <1>1. /\ Len(q) \in Nat /\ 1 \in 1 .. Len(q)
        /\ Head(q) = q[1] /\ Head(q) \in Message /\ Tail(q) \in Seq(Message)
        /\ Len(Tail(q)) = Len(q) - 1
        /\ \A i \in 1 .. Len(Tail(q)) : Tail(q)[i] = q[i + 1]
    BY SMT
  <1>2. AllShutdown(q) => AllShutdown(Tail(q)) /\ Head(q).state = "shutdown"
    BY <1>1 DEF AllShutdown
  <1>3. SomeShutdown(Tail(q)) => SomeShutdown(q)
    BY <1>1 DEF SomeShutdown
  <1>4. Head(q).state = "shutdown" => SomeShutdown(q)
    BY <1>1 DEF SomeShutdown
  <1>5. ShutdownLast(q) => ShutdownLast(Tail(q))
    BY <1>1 DEF ShutdownLast
  <1>6. ShutdownLast(q) /\ Head(q).state = "shutdown" => AllShutdown(Tail(q))
    BY <1>1 DEF ShutdownLast, AllShutdown
  <1> QED BY <1>1, <1>2, <1>3, <1>4, <1>5, <1>6

\* One event more.
LEMMA OneMore ==
  ASSUME NEW s \in Seq(Event), NEW e \in Event, NEW t \in Seq(Event),
         Len(t) = Len(s) + 1, t[Len(s) + 1] = e, \A i \in 1 .. Len(s) : t[i] = s[i]
  PROVE  Append(s, e) = t
  <1>1. /\ Append(s, e) \in Seq(Event) /\ Len(Append(s, e)) = Len(t)
        /\ \A i \in 1 .. Len(Append(s, e)) : Append(s, e)[i] = t[i]
    BY AppendProperties
  <1> QED BY <1>1, SeqEqual

LEMMA TellingsAreEvents ==
  /\ \A t \in {<<>>, I, IS, ISR, ISD, ISRD} : t \in Seq(Event)
  /\ {<<>>, I, IS, ISR, ISD, ISRD} = Legal
  BY SMT DEF I, IS, ISR, ISD, ISRD, Legal, Event

\* How the events add up.
LEMMA Tellings ==
  /\ Append(<<>>, "identified") = I /\ Append(I, "started") = IS
  /\ Append(IS, "ready") = ISR /\ Append(IS, "shutdown") = ISD
  /\ Append(ISR, "shutdown") = ISRD
  <1>1. /\ Len(I) = 1 /\ Len(IS) = 2 /\ Len(ISR) = 3 /\ Len(ISD) = 3
        /\ Len(ISRD) = 4
        /\ I[1] = "identified" /\ IS[1] = "identified" /\ ISR[1] = "identified"
        /\ ISD[1] = "identified" /\ ISRD[1] = "identified"
        /\ IS[2] = "started" /\ ISR[2] = "started" /\ ISD[2] = "started"
        /\ ISRD[2] = "started" /\ ISR[3] = "ready" /\ ISRD[3] = "ready"
        /\ ISD[3] = "shutdown" /\ ISRD[4] = "shutdown"
    BY DEF I, IS, ISR, ISD, ISRD
  <1>2. /\ I \in Seq(Event) /\ IS \in Seq(Event) /\ ISR \in Seq(Event)
        /\ ISD \in Seq(Event) /\ ISRD \in Seq(Event)
        /\ "started" \in Event /\ "ready" \in Event /\ "shutdown" \in Event
    BY TellingsAreEvents DEF Event
  <1>3. Append(<<>>, "identified") = I
    BY DEF I
  <1>4. Append(I, "started") = IS
    <2>1. /\ Len(IS) = Len(I) + 1 /\ IS[Len(I) + 1] = "started"
          /\ \A i \in 1 .. Len(I) : IS[i] = I[i]
      BY <1>1
    <2> QED BY <1>2, <2>1, OneMore
  <1>5. Append(IS, "ready") = ISR
    <2>1. /\ Len(ISR) = Len(IS) + 1 /\ ISR[Len(IS) + 1] = "ready"
          /\ \A i \in 1 .. Len(IS) : ISR[i] = IS[i]
      BY <1>1
    <2> QED BY <1>2, <2>1, OneMore
  <1>6. Append(IS, "shutdown") = ISD
    <2>1. /\ Len(ISD) = Len(IS) + 1 /\ ISD[Len(IS) + 1] = "shutdown"
          /\ \A i \in 1 .. Len(IS) : ISD[i] = IS[i]
      BY <1>1
    <2> QED BY <1>2, <2>1, OneMore
  <1>7. Append(ISR, "shutdown") = ISRD
    <2>1. /\ Len(ISRD) = Len(ISR) + 1 /\ ISRD[Len(ISR) + 1] = "shutdown"
          /\ \A i \in 1 .. Len(ISR) : ISRD[i] = ISR[i]
      BY <1>1
    <2> QED BY <1>2, <2>1, OneMore
  <1> QED BY <1>3, <1>4, <1>5, <1>6, <1>7

LEMMA WhoHeard ==
  /\ "ready" \notin Elements(IS)
  /\ "shutdown" \in Elements(ISD) /\ "shutdown" \in Elements(ISRD)
  <1>1. Len(IS) = 2 /\ IS[1] = "identified" /\ IS[2] = "started"
    BY DEF IS
  <1>2. "ready" \notin Elements(IS)
    BY <1>1 DEF Elements
  <1>3. Len(ISD) = 3 /\ ISD[3] = "shutdown" /\ Len(ISRD) = 4 /\ ISRD[4] = "shutdown"
    BY DEF ISD, ISRD
  <1>4. "shutdown" \in Elements(ISD) /\ "shutdown" \in Elements(ISRD)
    BY <1>3 DEF Elements
  <1> QED BY <1>2, <1>4

LEMMA InitIInv == Init => IInv
  <1> SUFFICES ASSUME Init PROVE IInv
    OBVIOUS
  <1>1. inbox \in Seq(Message) /\ told \in Seq(Event)
    BY NothingSent, TellingsAreEvents DEF Init
  <1>2. TypeOK
    BY <1>1 DEF Init, TypeOK, KlipperState, None, Message, Event
  <1> QED
    BY <1>2, NothingSent DEF Init, IInv, Inv, LinkInv, Disconnected, TaskInv,
       ShutdownFinal, Learnt, NoOlderAnswer, Late, ToldInv, None, KlipperState

-----------------------------------------------------------------------------
(* Every step preserves the types.                                         *)

\* A poll sends one message, with the state of Klipper.
LEMMA PollSends ==
  ASSUME inbox \in Seq(Message), klipper \in KlipperState, Poll
  PROVE  \E m \in Message : inbox' = Append(inbox, m) /\ m.state = klipper
  <1>1. PICK who \in {"webhooks", "client", "status"} :
          inbox' = Append(inbox, [to |-> who, state |-> klipper])
    BY DEF Poll
  <1> QED BY <1>1 DEF Message

\* What an update of the state, or the answer to a subscription, may change.
LEMMA StatusTypes ==
  ASSUME TypeOK, NEW new \in KlipperState, StatusUpdate(new) \/ Subscribed(new)
  PROVE  /\ state' \in KlipperState \cup {"disconnected"}
         /\ cached' \in KlipperState \cup {None}
         /\ told' \in Seq(Event)
  <1>1. /\ state' \in {state, new} /\ cached' = new
        /\ told' \in {told, Append(told, "shutdown")}
    BY DEF Subscribed, StatusUpdate, Send
  <1>2. told \in Seq(Event) /\ state \in KlipperState \cup {"disconnected"}
    BY DEF TypeOK, Event
  <1>3. told' \in Seq(Event)
    BY <1>1, <1>2 DEF Event
  <1> QED BY <1>1, <1>2, <1>3

LEMMA TypeStep ==
  ASSUME TypeOK, Next,
         asks # {} \/ subscribed => klipper # "down",
         task = "identifying" => info # None,
         task = "output" => state # "disconnected"
  PROVE  TypeOK'
  <1> USE DEF TypeOK, klipperVars, linkVars, flagVars, taskVars, KlipperState, None
  <1>1. CASE KlipperStarts
    BY <1>1 DEF KlipperStarts
  <1>2. CASE KlipperChanges
    BY <1>2 DEF KlipperChanges
  <1>3. CASE KlipperExits
    <2>1. subscribed' \in BOOLEAN
      BY <1>3 DEF KlipperExits, Message, Event
    <2> QED BY <1>3, <2>1 DEF KlipperExits, Message, Event
  <1>4. CASE AnswerInfo
    BY <1>4 DEF AnswerInfo
  <1>5. CASE Poll
    <2>1. subscribed' \in BOOLEAN
      BY <1>5 DEF Poll
    <2>2. klipper \in KlipperState
      BY <1>5 DEF Poll
    <2>3. inbox \in Seq(Message)
      BY DEF Message
    <2>4. inbox' \in Seq(Message)
      BY <1>5, <2>2, <2>3, PollSends, Sent
    <2>5. asks' \subseteq {"info", "webhooks", "client"}
      BY <1>5 DEF Poll
    <2> QED BY <1>5, <2>1, <2>2, <2>4, <2>5 DEF Poll, Message
  <1>6. CASE Read
    <2>1. Head(inbox) \in Message /\ inbox' \in Seq(Message)
      BY <1>6, Taken DEF Read, Message
    <2>2. Head(inbox).to = "status" => StatusUpdate(Head(inbox).state)
      BY <1>6 DEF Read
    <2>3. /\ state' \in KlipperState \cup {"disconnected"}
          /\ cached' \in KlipperState \cup {None} /\ told' \in Seq(Event)
      <3>1. CASE Head(inbox).to = "status"
        BY <2>1, <2>2, <3>1, StatusTypes DEF Message
      <3>2. CASE Head(inbox).to # "status"
        BY <1>6, <3>2 DEF Read, Event
      <3> QED BY <3>1, <3>2
    <2>4. reply' \in {reply, Head(inbox).state} /\ client' \in {client, Head(inbox).state}
      BY <1>6 DEF Read
    <2>5. /\ UNCHANGED <<klipperVars, link, connected, closing, running, flagVars,
                         task, info, startup_state>>
      BY <1>6 DEF Read
    <2> QED BY <2>1, <2>3, <2>4, <2>5 DEF Message, Event
  <1>7. CASE Dial
    <2>1. /\ connected' \in BOOLEAN /\ identified' \in BOOLEAN
          /\ started' \in BOOLEAN /\ initializing' \in BOOLEAN
      BY <1>7 DEF Dial, Message, Event
    <2> QED BY <1>7, <2>1 DEF Dial, Message, Event
  <1>8. CASE AskInfo
    BY <1>8 DEF AskInfo, Ask
  <1>9. CASE GiveUp
    BY <1>9 DEF GiveUp
  <1>10. CASE InfoFails
    BY <1>10 DEF InfoFails, Retries
  <1>11. CASE InfoAnswered
    <2>1. identified' \in BOOLEAN
      BY <1>11 DEF InfoAnswered, Take, Retries, Send
    <2>2. told' \in Seq(Event)
      BY <1>11 DEF InfoAnswered, Take, Retries, Send, Event
    <2> QED BY <1>11, <2>1, <2>2 DEF InfoAnswered, Take, Retries, Send, Event
  <1>12. CASE Identified
    BY <1>12 DEF Identified, Take, Retries
  <1>13. CASE Subscribe
    BY <1>13 DEF Subscribe, Ask
  <1>14. CASE WebhooksAnswered
    <2>1. reply \in KlipperState /\ Subscribed(reply)
      BY <1>14 DEF WebhooksAnswered
    <2>2. /\ state' \in KlipperState \cup {"disconnected"}
          /\ cached' \in KlipperState \cup {None} /\ told' \in Seq(Event)
      BY <2>1, StatusTypes
    <2>3. /\ task' = "output" /\ reply' = None
          /\ UNCHANGED <<klipperVars, linkVars, flagVars, info, startup_state, client>>
      BY <1>14 DEF WebhooksAnswered
    <2> QED BY <2>2, <2>3 DEF Event
  <1>15. CASE WebhooksTimeOut
    BY <1>15 DEF WebhooksTimeOut
  <1>16. CASE Starting
    BY <1>16 DEF Starting, Send
  <1>17. CASE Started
    <2>1. started' \in BOOLEAN /\ initializing' \in BOOLEAN
      BY <1>17 DEF Started, Finish, Send
    <2>2. told' \in {told, Append(told, "shutdown")}
      BY <1>17 DEF Started, Send
    <2>3. told' \in Seq(Event)
      BY <2>2 DEF Event
    <2> QED BY <1>17, <2>1, <2>3 DEF Started, Finish, Send, Event
  <1>18. CASE Checked
    <2>1. initializing' \in BOOLEAN
      BY <1>18 DEF Checked, Finish, Send
    <2>2. told' \in {told, Append(told, "ready")}
      BY <1>18 DEF Checked, Send
    <2>3. told' \in Seq(Event)
      BY <2>2 DEF Event
    <2> QED BY <1>18, <2>1, <2>3 DEF Checked, Finish, Event
  <1>19. CASE Announced
    <2>1. initializing' \in BOOLEAN
      BY <1>19 DEF Announced, Finish, Send
    <2>2. told' \in {told, Append(told, "shutdown")}
      BY <1>19 DEF Announced, Send
    <2>3. told' \in Seq(Event)
      BY <2>2 DEF Event
    <2> QED BY <1>19, <2>1, <2>3 DEF Announced, Finish, Event
  <1>20. CASE ClientSubscribes
    BY <1>20 DEF ClientSubscribes, Ask
  <1>21. CASE ClientAnswered
    <2>1. client \in KlipperState /\ Subscribed(client)
      BY <1>21 DEF ClientAnswered
    <2>2. /\ state' \in KlipperState \cup {"disconnected"}
          /\ cached' \in KlipperState \cup {None} /\ told' \in Seq(Event)
      BY <2>1, StatusTypes
    <2>3. client' = "idle" /\ UNCHANGED <<klipperVars, linkVars, flagVars, taskVars>>
      BY <1>21 DEF ClientAnswered
    <2> QED BY <2>2, <2>3 DEF Event
  <1>22. CASE ClientTimesOut
    BY <1>22 DEF ClientTimesOut
  <1>23. CASE CloseBegins
    BY <1>23 DEF CloseBegins
  <1>24. CASE Closed
    <2>1. /\ connected' \in BOOLEAN /\ identified' \in BOOLEAN
          /\ started' \in BOOLEAN /\ initializing' \in BOOLEAN
          /\ inbox' \in Seq(Message) /\ told' \in Seq(Event)
          /\ subscribed' \in BOOLEAN
      BY <1>24, NothingSent, TellingsAreEvents DEF Closed, Message, Event
    <2> QED BY <1>24, <2>1 DEF Closed, Message, Event
  <1>25. CASE CloseEnds
    BY <1>25 DEF CloseEnds
  <1>26. CASE ServerStops
    <2>1. running' \in BOOLEAN
      BY <1>26 DEF ServerStops, Message, Event
    <2> QED BY <1>26, <2>1 DEF ServerStops, Message, Event
  <1>27. CASE ServerCloses
    BY <1>27 DEF ServerCloses
  <1> QED BY <1>1, <1>2, <1>3, <1>4, <1>5, <1>6, <1>7, <1>8, <1>9, <1>10, <1>11,
       <1>12, <1>13, <1>14, <1>15, <1>16, <1>17, <1>18, <1>19, <1>20, <1>21, <1>22,
       <1>23, <1>24, <1>25, <1>26, <1>27 DEF Next, Answers, Connecting, Subscribing,
       Initialises, Closes

-----------------------------------------------------------------------------
(* Every step preserves the rest of the invariant.                         *)

\* Klipper starts, changes its state, ends, or answers.
LEMMA KlipperStep ==
  ASSUME IInv, KlipperStarts \/ KlipperChanges \/ KlipperExits \/ AnswerInfo \/ Poll
  PROVE  Inv'
  <1> USE DEF IInv, Inv, LinkInv, Disconnected, TaskInv, ShutdownFinal, Learnt,
              NoOlderAnswer, Late, ToldInv, klipperVars, linkVars, flagVars,
              taskVars, KlipperState, None, TypeOK, Message
  <1>1. CASE KlipperStarts
    BY <1>1 DEF KlipperStarts
  <1>2. CASE KlipperChanges
    BY <1>2 DEF KlipperChanges
  <1>3. CASE KlipperExits
    BY <1>3 DEF KlipperExits
  <1>4. CASE AnswerInfo
    BY <1>4, Sent DEF AnswerInfo
  <1>5. CASE Poll
    <2>1. LinkInv'
      BY <1>5, Sent DEF Poll
    <2>2. TaskInv'
      BY <1>5, Sent DEF Poll
    <2>3. ShutdownFinal'
      <3>1. link = "up" /\ klipper \in KlipperState /\ inbox \in Seq(Message)
        BY <1>5 DEF Poll, TypeOK, Message
      <3>2. PICK m \in Message : inbox' = Append(inbox, m) /\ m.state = klipper
        BY <1>5, <3>1, PollSends
      <3>3. /\ ShutdownLast(inbox) /\ (SomeShutdown(inbox) => m.state = "shutdown")
            /\ connected /\ Learnt => AllShutdown(inbox) /\ m.state = "shutdown"
        BY <3>1, <3>2
      <3>4. UNCHANGED <<link, klipper, connected, Learnt>>
        BY <1>5 DEF Poll
      <3> QED BY <3>1, <3>2, <3>3, <3>4, Sent
    <2>4. NoOlderAnswer'
      BY <1>5, Sent DEF Poll
    <2>5. ToldInv'
      BY <1>5, Sent DEF Poll
    <2> QED BY <2>1, <2>2, <2>3, <2>4, <2>5
  <1> QED BY <1>1, <1>2, <1>3, <1>4, <1>5

\* A message is read: an update of the state, or an answer.
LEMMA ReadStep ==
  ASSUME IInv, Read
  PROVE  Inv'
  <1> DEFINE m == Head(inbox)
  <1>1. /\ inbox \in Seq(Message) /\ inbox # <<>> /\ m \in Message
        /\ m.state \in KlipperState /\ inbox' = Tail(inbox)
    BY Taken DEF Read, IInv, Inv, TypeOK, Message
  <1>2. state = "shutdown" => m.state = "shutdown"
    BY <1>1, Taken DEF Read, IInv, Inv, ShutdownFinal, Learnt
  <1>3. /\ connected /\ inbox' = Tail(inbox)
        /\ UNCHANGED <<klipper, asks, subscribed, link, connected, closing,
                       identified, initializing, started, task, info>>
    BY DEF Read, klipperVars, flagVars
  <1>4. CASE m.to = "status"
    <2>1. /\ state' = m.state /\ cached' = m.state /\ client \notin KlipperState
          /\ told' = IF m.state = "shutdown" /\ ~initializing /\ state # "shutdown"
                       THEN Append(told, "shutdown") ELSE told
          /\ UNCHANGED <<reply, client>>
      BY <1>4 DEF Read, Unused, StatusUpdate, Send, Awaited
    <2>2. task = "webhooks" => reply = None
      BY <1>4 DEF Read, Unused
    <2> HIDE DEF m
    <2>3. LinkInv' /\ TaskInv'
      BY <1>1, <2>1, <1>3 DEF IInv, Inv, LinkInv, Disconnected, TaskInv,
         KlipperState, None
    <2>4. ShutdownFinal' /\ NoOlderAnswer'
      <3>1. Learnt' => Learnt \/ m.state = "shutdown"
        BY <2>1, <1>3 DEF Learnt, KlipperState
      <3> QED
        BY <1>1, <2>1, <2>2, <3>1, <1>3, Taken DEF m, IInv, Inv, ShutdownFinal,
           NoOlderAnswer
    <2>5. ToldInv'
      BY <1>1, <1>2, <2>1, <1>3, Tellings DEF IInv, Inv, ToldInv, TaskInv
    <2> QED BY <2>3, <2>4, <2>5 DEF Inv
  <1>5. CASE m.to # "status"
    <2>1. /\ UNCHANGED <<state, cached, told>>
          /\ reply' # reply =>
               reply' = m.state /\ (task = "info" \/ task = "webhooks")
          /\ client' # client => client' = m.state /\ client = "asked"
      <3>1. UNCHANGED <<state, cached, told>>
        BY <1>5 DEF Read
      <3>2. reply' = IF Awaited(m.to) THEN m.state ELSE reply
        BY DEF Read
      <3>3. client' = IF m.to = "client" /\ client = "asked"
                        THEN m.state ELSE client
        BY DEF Read
      <3> QED BY <3>1, <3>2, <3>3 DEF Awaited
    <2> HIDE DEF m
    <2>2. LinkInv' /\ TaskInv'
      BY <1>1, <2>1, <1>3 DEF IInv, Inv, LinkInv, Disconnected, TaskInv,
         KlipperState, None
    <2>3. ShutdownFinal'
      <3>1. Learnt' => Learnt \/ m.state = "shutdown"
        BY <2>1, <1>3 DEF Learnt
      <3> QED
        BY <1>1, <2>1, <3>1, <1>3, Taken DEF m, IInv, Inv, ShutdownFinal
    <2>4. NoOlderAnswer'
      BY <1>1, <1>2, <2>1, <1>3 DEF IInv, Inv, NoOlderAnswer, Late
    <2>5. ToldInv'
      BY <2>1, <1>3 DEF IInv, Inv, ToldInv
    <2> QED BY <2>2, <2>3, <2>4, <2>5 DEF Inv
  <1> QED BY <1>4, <1>5

\* The connection task up to its subscription.
LEMMA ConnectStep ==
  ASSUME IInv, Dial \/ AskInfo \/ GiveUp \/ InfoFails \/ InfoAnswered \/ Identified
  PROVE  Inv'
  <1> USE DEF IInv, Inv, LinkInv, Disconnected, TaskInv, ShutdownFinal, Learnt,
              NoOlderAnswer, Late, ToldInv, klipperVars, linkVars, flagVars,
              taskVars, KlipperState, None
  <1>1. CASE Dial
    <2>1. LinkInv'
      BY <1>1 DEF Dial
    <2>2. TaskInv'
      BY <1>1 DEF Dial
    <2>3. ShutdownFinal'
      <3>1. inbox' = <<>> /\ ~Learnt'
        BY <1>1 DEF Dial
      <3> QED BY <3>1, NothingSent
    <2>4. NoOlderAnswer'
      BY <1>1 DEF Dial
    <2>5. ToldInv'
      BY <1>1 DEF Dial
    <2> QED BY <2>1, <2>2, <2>3, <2>4, <2>5
  <1>2. CASE AskInfo
    BY <1>2 DEF AskInfo, Ask
  <1>3. CASE GiveUp
    BY <1>3 DEF GiveUp
  <1>4. CASE InfoFails
    BY <1>4 DEF InfoFails, Retries
  <1>5. CASE InfoAnswered
    <2>1. LinkInv' /\ TaskInv'
      BY <1>5 DEF TypeOK, InfoAnswered, Take, Retries, Send
    <2>2. ShutdownFinal' /\ NoOlderAnswer'
      BY <1>5 DEF InfoAnswered, Take, Retries, Send
    <2>3. ToldInv'
      BY <1>5, Tellings DEF InfoAnswered, Take, Retries, Send
    <2> QED BY <2>1, <2>2, <2>3
  <1>6. CASE Identified
    <2>1. LinkInv' /\ TaskInv'
      BY <1>6 DEF TypeOK, Identified, Take, Retries
    <2>2. ShutdownFinal' /\ NoOlderAnswer'
      BY <1>6 DEF Identified, Take, Retries
    <2>3. ToldInv'
      BY <1>6 DEF Identified, Take, Retries
    <2> QED BY <2>1, <2>2, <2>3
  <1> QED BY <1>1, <1>2, <1>3, <1>4, <1>5, <1>6

\* Its subscription.
LEMMA SubscribeStep ==
  ASSUME IInv, Subscribe \/ WebhooksAnswered \/ WebhooksTimeOut
  PROVE  Inv'
  <1> USE DEF IInv, Inv, LinkInv, Disconnected, TaskInv, ShutdownFinal, Learnt,
              NoOlderAnswer, Late, ToldInv, klipperVars, linkVars, flagVars,
              taskVars, KlipperState, None
  <1>1. CASE Subscribe
    BY <1>1 DEF Subscribe, Ask
  <1>2. CASE WebhooksAnswered
    <2>1. LinkInv' /\ TaskInv'
      BY <1>2 DEF TypeOK, WebhooksAnswered, Subscribed, StatusUpdate, Send
    <2>2. ShutdownFinal' /\ NoOlderAnswer'
      BY <1>2 DEF WebhooksAnswered, Subscribed, StatusUpdate, Send
    <2>3. ToldInv'
      BY <1>2, Tellings DEF WebhooksAnswered, Subscribed, StatusUpdate, Send
    <2> QED BY <2>1, <2>2, <2>3
  <1>3. CASE WebhooksTimeOut
    BY <1>3 DEF WebhooksTimeOut
  <1> QED BY <1>1, <1>2, <1>3

\* The events of the initialisation.
LEMMA InitialiseStep ==
  ASSUME IInv, Starting \/ Started \/ Checked \/ Announced
  PROVE  Inv'
  <1> USE DEF IInv, Inv, LinkInv, Disconnected, TaskInv, ShutdownFinal, Learnt,
              NoOlderAnswer, Late, ToldInv, klipperVars, linkVars, flagVars,
              taskVars, KlipperState, None
  <1>1. CASE Starting
    BY <1>1, Tellings DEF Starting, Send
  <1>2. CASE Started
    BY <1>2, Tellings DEF Started, Finish, Send
  <1>3. CASE Checked
    BY <1>3, Tellings DEF Checked, Finish, Send
  <1>4. CASE Announced
    BY <1>4, Tellings DEF Announced, Finish, Send
  <1> QED BY <1>1, <1>2, <1>3, <1>4

\* A client's subscription.
LEMMA ClientStep ==
  ASSUME IInv, ClientSubscribes \/ ClientAnswered \/ ClientTimesOut
  PROVE  Inv'
  <1> USE DEF IInv, Inv, LinkInv, Disconnected, TaskInv, ShutdownFinal, Learnt,
              NoOlderAnswer, Late, ToldInv, klipperVars, linkVars, flagVars,
              taskVars, KlipperState, None
  <1>1. CASE ClientSubscribes
    BY <1>1 DEF ClientSubscribes, Ask
  <1>2. CASE ClientAnswered
    <2>1. LinkInv'
      BY <1>2, Tellings DEF ClientAnswered, Subscribed, StatusUpdate, Send
    <2>2. TaskInv'
      BY <1>2, Tellings DEF ClientAnswered, Subscribed, StatusUpdate, Send
    <2>3. ShutdownFinal'
      BY <1>2, Tellings DEF ClientAnswered, Subscribed, StatusUpdate, Send
    <2>4. NoOlderAnswer'
      BY <1>2, Tellings DEF ClientAnswered, Subscribed, StatusUpdate, Send
    <2>5. ToldInv'
      BY <1>2, Tellings DEF ClientAnswered, Subscribed, StatusUpdate, Send
    <2> QED BY <2>1, <2>2, <2>3, <2>4, <2>5
  <1>3. CASE ClientTimesOut
    BY <1>3 DEF ClientTimesOut
  <1> QED BY <1>1, <1>2, <1>3

\* The connection is closed, or the server stops.
LEMMA CloseStep ==
  ASSUME IInv, CloseBegins \/ Closed \/ CloseEnds \/ ServerStops \/ ServerCloses
  PROVE  Inv'
  <1> USE DEF IInv, Inv, LinkInv, Disconnected, TaskInv, ShutdownFinal, Learnt,
              NoOlderAnswer, Late, ToldInv, klipperVars, linkVars, flagVars,
              taskVars, KlipperState, None
  <1>1. CASE CloseBegins
    BY <1>1 DEF CloseBegins
  <1>2. CASE Closed
    BY <1>2, NothingSent DEF Closed
  <1>3. CASE CloseEnds
    BY <1>3 DEF CloseEnds
  <1>4. CASE ServerStops
    BY <1>4 DEF ServerStops
  <1>5. CASE ServerCloses
    BY <1>5 DEF ServerCloses
  <1> QED BY <1>1, <1>2, <1>3, <1>4, <1>5

\* The inductive step.
LEMMA NextIInv == IInv /\ [Next]_vars => IInv'
  <1> SUFFICES ASSUME IInv, [Next]_vars PROVE IInv'
    OBVIOUS
  <1>1. CASE Next
    <2>1. TypeOK'
      BY <1>1, TypeStep DEF IInv, Inv, LinkInv, TaskInv, Disconnected
    <2>2. Inv'
      BY <1>1, KlipperStep, ReadStep, ConnectStep, SubscribeStep, InitialiseStep,
         ClientStep, CloseStep DEF Next, Answers, Connecting, Subscribing,
         Initialises, Closes
    <2> QED BY <2>1, <2>2 DEF IInv, Inv
  <1>2. CASE UNCHANGED vars
    <2>1. TypeOK'
      BY <1>2 DEF IInv, Inv, TypeOK, vars, klipperVars, linkVars, flagVars,
         taskVars
    <2>2. Inv'
      BY <1>2 DEF vars, klipperVars, linkVars, flagVars, taskVars, IInv, Inv,
         LinkInv, Disconnected, TaskInv, ShutdownFinal, Learnt, NoOlderAnswer,
         Late, ToldInv
    <2> QED BY <2>1, <2>2 DEF IInv, Inv
  <1> QED BY <1>1, <1>2

-----------------------------------------------------------------------------
(* Results.                                                                *)

\* Every state the connection reaches is one of the code's: no None is taken
\* for a state of Klipper, by the initialisation or by a client.
THEOREM TypeCorrect == Spec => []TypeOK
  BY InitIInv, NextIInv, PTL DEF Spec, IInv, Inv

\* What listeners hear of a connection comes in the order of the code, each
\* event at most once and the shutdown last, however the reading, the
\* initialisation and the closing interleave.
THEOREM TellsInOrder == Spec => []ToldInOrder
  <1>1. IInv => ToldInOrder
    BY TellingsAreEvents DEF IInv, Inv, ToldInv, LinkInv, Disconnected,
       ToldInOrder
  <1> QED BY <1>1, InitIInv, NextIInv, PTL DEF Spec

\* Whenever the shutdown comes during klippy_ready, those who were told that
\* Klipper is ready are told of it by the end of the initialisation.
THEOREM ShutdownFollowsReady == Spec => []ReadyThenShutdown
  <1>1. IInv => ReadyThenShutdown
    <2> SUFFICES ASSUME IInv, ~initializing, "ready" \in Elements(told),
                        state = "shutdown"
                 PROVE  "shutdown" \in Elements(told)
      BY DEF ReadyThenShutdown
    <2>1. connected
      BY DEF IInv, Inv, LinkInv, Disconnected
    <2>2. told \in {IS, ISD, ISRD}
      BY <2>1 DEF IInv, Inv, ToldInv
    <2> QED BY <2>2, WhoHeard
  <1> QED BY <1>1, InitIInv, NextIInv, PTL DEF Spec
=============================================================================
