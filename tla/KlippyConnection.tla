---------------------------- MODULE KlippyConnection ----------------------------
(***************************************************************************)
(* How Moonraker learns and announces the state of Klipper:                *)
(* components/klippy_connection.py over Klipper's webhooks.py.             *)
(*                                                                         *)
(* The connection task opens the socket and initialises the connection;    *)
(* another task reads what Klipper sends; a third closes the connection.   *)
(* They interleave at every await.  Klipper answers "info" at once, and a  *)
(* subscription at its next poll, 0.25 s apart; from then on each poll     *)
(* sends the state only when it differs from that of the poll before.      *)
(***************************************************************************)
EXTENDS Naturals, Sequences

VARIABLES klipper,      \* Klipper: its state, or down
          asks,         \* the requests it has not answered
          subscribed,   \* it sends this connection what changes
          polled,       \* the state at its last poll for this connection
          link,         \* the socket: none, up, or closed by Klipper
          inbox,        \* what Klipper has sent and Moonraker not read
          running,      \* server.is_running()
          connected,    \* writer is not None
          closing,      \* no, or the stage of close()
          task,         \* where the connection task is
          reply,        \* the answer to its request, when it has come
          info,         \* the state in the last answer to "info"
          identified, initializing, started,   \* _klippy_identified, ...
          state,        \* _state
          startup_state,
          cached,       \* the state in subscription_cache
          client,       \* a client's subscription, or the answer to it
          told          \* the events sent since the last klippy_disconnect

klipperVars == <<klipper, asks, subscribed, polled>>
linkVars == <<link, inbox, connected, closing, running>>
flagVars == <<identified, initializing, started>>
taskVars == <<task, reply, info, startup_state>>
vars == <<klipperVars, linkVars, flagVars, taskVars, state, cached, client, told>>

KlipperState == {"startup", "ready", "error", "shutdown"}
None == "none"

Legal == {<<>>, <<"identified">>, <<"identified", "started">>,
          <<"identified", "started", "shutdown">>,
          <<"identified", "started", "ready">>,
          <<"identified", "started", "ready", "shutdown">>}

TypeOK ==
  /\ klipper \in KlipperState \cup {"down"}
  /\ asks \subseteq {"info", "webhooks", "client"}
  /\ subscribed \in BOOLEAN /\ polled \in KlipperState \cup {None}
  /\ link \in {None, "up", "broken"} /\ running \in BOOLEAN
  /\ connected \in BOOLEAN /\ closing \in {"no", "begun", "telling"}
  /\ inbox \in Seq([to : {"info", "webhooks", "client", "status"},
                    state : KlipperState])
  /\ task \in {"off", "dial", "pause", "info", "identifying", "subscribing",
               "webhooks", "output", "starting", "checking", "announcing"}
  /\ reply \in KlipperState \cup {None} /\ info \in KlipperState \cup {None}
  /\ identified \in BOOLEAN /\ initializing \in BOOLEAN /\ started \in BOOLEAN
  /\ state \in KlipperState \cup {"disconnected"}
  /\ startup_state \in KlipperState \cup {None}
  /\ cached \in KlipperState \cup {None}
  /\ client \in {"idle", "asked"} \cup KlipperState
  /\ told \in Seq({"identified", "started", "ready", "shutdown"})

Init ==
  /\ klipper = "down" /\ asks = {} /\ subscribed = FALSE /\ polled = None
  /\ link = None /\ inbox = <<>> /\ running = TRUE
  /\ connected = FALSE /\ closing = "no"
  /\ task = "dial" /\ reply = None /\ info = None /\ startup_state = None
  /\ identified = FALSE /\ initializing = FALSE /\ started = FALSE
  /\ state = "disconnected" /\ cached = None /\ client = "idle" /\ told = <<>>

Elements(s) == {s[i] : i \in 1 .. Len(s)}
Send(event) == told' = Append(told, event)

-----------------------------------------------------------------------------
(* Klipper.                                                                *)

KlipperStarts ==
  /\ klipper = "down" /\ klipper' = "startup"
  /\ UNCHANGED <<asks, subscribed, polled, linkVars, flagVars, taskVars, state,
                 cached, client, told>>

KlipperChanges ==
  /\ \/ klipper = "startup" /\ klipper' \in {"ready", "error"}
     \/ klipper \in {"startup", "ready", "error"} /\ klipper' = "shutdown"
  /\ UNCHANGED <<asks, subscribed, polled, linkVars, flagVars, taskVars, state,
                 cached, client, told>>

\* It ends or restarts: the socket is closed, what is buffered can be read.
KlipperExits ==
  /\ klipper # "down" /\ klipper' = "down"
  /\ asks' = {} /\ subscribed' = FALSE /\ polled' = None
  /\ link' = IF link = "up" THEN "broken" ELSE link
  /\ UNCHANGED <<inbox, connected, closing, running, flagVars, taskVars, state,
                 cached, client, told>>

AnswerInfo ==
  /\ "info" \in asks /\ asks' = asks \ {"info"}
  /\ inbox' = Append(inbox, [to |-> "info", state |-> klipper])
  /\ UNCHANGED <<klipper, subscribed, polled, link, connected, closing, running,
                 flagVars, taskVars, state, cached, client, told>>

\* A new subscription replaces the old one and is answered in full.
Poll ==
  /\ \/ \E who \in asks \cap {"webhooks", "client"} :
          /\ inbox' = Append(inbox, [to |-> who, state |-> klipper])
          /\ asks' = asks \ {who} /\ subscribed' = TRUE
     \/ /\ subscribed /\ asks \cap {"webhooks", "client"} = {}
        /\ klipper # polled
        /\ inbox' = Append(inbox, [to |-> "status", state |-> klipper])
        /\ UNCHANGED <<asks, subscribed>>
  /\ polled' = klipper
  /\ UNCHANGED <<klipper, link, connected, closing, running, flagVars, taskVars,
                 state, cached, client, told>>

Ask(who) == asks' = IF link = "up" THEN asks \cup {who} ELSE asks

-----------------------------------------------------------------------------
(* What is read.                                                           *)

\* Fault: the event is not left to the initialisation.
StatusUpdateAtOnce(new) ==
  /\ cached' = new /\ state' = new
  /\ IF new = "shutdown" /\ state # "shutdown"
       THEN Send("shutdown") ELSE UNCHANGED told

\* Fault: a state received during the initialisation is left out.
StatusUpdateWhenDone(new) ==
  /\ cached' = new
  /\ state' = IF initializing THEN state ELSE new
  /\ IF new = "shutdown" /\ ~initializing /\ state # "shutdown"
       THEN Send("shutdown") ELSE UNCHANGED told

StatusUpdate(new) ==
  /\ cached' = new /\ state' = new
  /\ IF new = "shutdown" /\ ~initializing /\ state # "shutdown"
       THEN Send("shutdown") ELSE UNCHANGED told

\* The cache takes a subscription's answer; only what it held before and has
\* changed is taken for an update.
Subscribed(new) ==
  IF cached \notin {None, new}
    THEN StatusUpdate(new)
    ELSE cached' = new /\ UNCHANGED <<state, told>>

Awaited(who) ==
  \/ who = "info" /\ task = "info"
  \/ who = "webhooks" /\ task = "webhooks"

\* A subscription's answer whose request has not resumed.  It has by the time
\* the next poll is read, unless the event loop is blocked for 0.25 s.
Unused == client \in KlipperState \/ (task = "webhooks" /\ reply # None)

\* An answer nobody waits for any more is dropped.
Read ==
  /\ inbox # <<>> /\ connected
  /\ Head(inbox).to = "status" => ~Unused
  /\ inbox' = Tail(inbox)
  /\ LET m == Head(inbox) IN
       /\ IF m.to = "status" THEN StatusUpdate(m.state)
          ELSE UNCHANGED <<cached, state, told>>
       /\ reply' = IF Awaited(m.to) THEN m.state ELSE reply
       /\ client' = IF m.to = "client" /\ client = "asked" THEN m.state ELSE client
  /\ UNCHANGED <<klipperVars, link, connected, closing, running, flagVars, task,
                 info, startup_state>>

-----------------------------------------------------------------------------
(* The connection task.                                                    *)

Dial ==
  /\ task = "dial" /\ closing = "no" /\ running /\ klipper # "down"
  /\ connected' = TRUE /\ link' = "up"
  /\ identified' = FALSE /\ started' = FALSE /\ initializing' = TRUE
  /\ state' = "startup" /\ task' = "pause"
  /\ UNCHANGED <<klipperVars, inbox, closing, running, reply, info,
                 startup_state, cached, client, told>>

AskInfo ==
  /\ task = "pause"
  /\ task' = "info" /\ Ask("info")
  /\ UNCHANGED <<klipper, subscribed, polled, linkVars, flagVars, reply, info,
                 startup_state, state, cached, client, told>>

\* The server stops.
GiveUp ==
  /\ task = "dial" /\ ~running /\ task' = "off"
  /\ UNCHANGED <<klipperVars, linkVars, flagVars, reply, info, startup_state,
                 state, cached, client, told>>

\* The loop ends when the server stops.
Retries == IF running THEN "pause" ELSE "off"

\* The request cannot be written: a ServerError, and the loop tries again.
InfoFails ==
  /\ task = "info" /\ reply = None /\ link = "broken"
  /\ task' = Retries
  /\ UNCHANGED <<klipperVars, linkVars, flagVars, reply, info, startup_state,
                 state, cached, client, told>>

\* What follows the first answer and each later one.
Take(s) ==
  /\ state' = s
  /\ task' = IF s = "startup" THEN Retries ELSE "subscribing"

InfoAnswered ==
  /\ task = "info" /\ reply # None
  /\ info' = reply /\ reply' = None
  /\ IF identified
       THEN Take(reply) /\ UNCHANGED <<identified, told>>
       ELSE /\ identified' = TRUE /\ Send("identified")
            /\ task' = "identifying" /\ UNCHANGED state
  /\ UNCHANGED <<klipperVars, linkVars, initializing, started, startup_state,
                 cached, client>>

\* Fault: the state is taken from the request, which has nothing more to give.
IdentifiedFromReply ==
  /\ task = "identifying" /\ Take(reply)
  /\ UNCHANGED <<klipperVars, linkVars, flagVars, reply, info, startup_state,
                 cached, client, told>>

\* The event has been handled and the endpoints are known.
Identified ==
  /\ task = "identifying" /\ Take(info)
  /\ UNCHANGED <<klipperVars, linkVars, flagVars, reply, info, startup_state,
                 cached, client, told>>

\* The task has the subscription_lock.
Subscribe ==
  /\ task = "subscribing" /\ client = "idle"
  /\ task' = "webhooks" /\ Ask("webhooks")
  /\ UNCHANGED <<klipper, subscribed, polled, linkVars, flagVars, reply, info,
                 startup_state, state, cached, client, told>>

WebhooksAnswered ==
  /\ task = "webhooks" /\ reply # None
  /\ Subscribed(reply) /\ task' = "output" /\ reply' = None
  /\ UNCHANGED <<klipperVars, linkVars, flagVars, info, startup_state, client>>

\* After 20 s without an answer.
WebhooksTimeOut ==
  /\ task = "webhooks" /\ reply = None
  /\ task' = "output"
  /\ UNCHANGED <<klipperVars, linkVars, flagVars, reply, info, startup_state,
                 state, cached, client, told>>

\* The G-code output and the endpoints have been asked for.
Starting ==
  /\ task = "output" /\ task' = "starting"
  /\ startup_state' = state /\ Send("started")
  /\ UNCHANGED <<klipperVars, linkVars, flagVars, reply, info, state, cached, client>>

Finish == task' = "off" /\ initializing' = FALSE

\* klippy_started has been handled.
Started ==
  /\ task = "starting" /\ started' = TRUE
  /\ IF state = "ready"
       THEN task' = "checking" /\ UNCHANGED <<initializing, told>>
       ELSE /\ Finish
            /\ IF state = "shutdown" /\ startup_state # "shutdown"
                 THEN Send("shutdown") ELSE UNCHANGED told
  /\ UNCHANGED <<klipperVars, linkVars, identified, reply, info, startup_state,
                 state, cached, client>>

\* The requirements are verified and the methods registered.
Checked ==
  /\ task = "checking"
  /\ IF state = "ready"
       THEN task' = "announcing" /\ Send("ready") /\ UNCHANGED initializing
       ELSE Finish /\ UNCHANGED told
  /\ UNCHANGED <<klipperVars, linkVars, identified, started, reply, info,
                 startup_state, state, cached, client>>

\* Fault: a shutdown during klippy_ready is not made up for.
AnnouncedOnly ==
  /\ task = "announcing" /\ Finish /\ UNCHANGED told
  /\ UNCHANGED <<klipperVars, linkVars, identified, started, reply, info,
                 startup_state, state, cached, client>>

\* klippy_ready has been handled.
Announced ==
  /\ task = "announcing" /\ Finish
  /\ IF state = "shutdown" THEN Send("shutdown") ELSE UNCHANGED told
  /\ UNCHANGED <<klipperVars, linkVars, identified, started, reply, info,
                 startup_state, state, cached, client>>

-----------------------------------------------------------------------------
(* A client's subscription: it has the subscription_lock until it is done. *)

\* Bound: after a time-out the late answer comes before the next subscription.
LateAnswer == "client" \in asks \/ \E m \in Elements(inbox) : m.to = "client"

ClientSubscribes ==
  /\ client = "idle" /\ ~LateAnswer /\ task \notin {"subscribing", "webhooks"}
  /\ connected /\ closing = "no" /\ identified
  /\ client' = "asked" /\ Ask("client")
  /\ UNCHANGED <<klipper, subscribed, polled, linkVars, flagVars, taskVars, state,
                 cached, told>>

ClientAnswered ==
  /\ client \in KlipperState /\ client' = "idle"
  /\ Subscribed(client)
  /\ UNCHANGED <<klipperVars, linkVars, flagVars, taskVars>>

ClientTimesOut ==
  /\ client = "asked" /\ client' = "idle"
  /\ UNCHANGED <<klipperVars, linkVars, flagVars, taskVars, state, cached, told>>

-----------------------------------------------------------------------------
(* The connection is closed.                                               *)

\* After the end of the stream is read or a write fails.  The connection task
\* is cancelled and the mutex, which it held, is free.
CloseBegins ==
  /\ connected /\ link = "broken" /\ closing = "no"
  /\ closing' = "begun" /\ task' = "off"
  /\ UNCHANGED <<klipperVars, link, inbox, connected, running, flagVars, reply,
                 info, startup_state, state, cached, client, told>>

ServerStops ==
  /\ running /\ running' = FALSE
  /\ UNCHANGED <<klipperVars, link, inbox, connected, closing, flagVars, taskVars,
                 state, cached, client, told>>

\* _stop_server() closes once the components have been told; a close() that
\* is under way is left to end.
ServerCloses ==
  /\ ~running /\ closing = "no" /\ (connected \/ task # "off")
  /\ closing' = "begun" /\ task' = "off"
  /\ UNCHANGED <<klipperVars, link, inbox, connected, running, flagVars, reply,
                 info, startup_state, state, cached, client, told>>

\* _on_connection_closed: pending requests fail, klippy_disconnect is sent.
Closed ==
  /\ closing = "begun" /\ connected
  /\ connected' = FALSE /\ link' = None /\ inbox' = <<>>
  /\ asks' = {} /\ subscribed' = FALSE /\ polled' = None
  /\ identified' = FALSE /\ initializing' = FALSE /\ started' = FALSE
  /\ state' = "disconnected" /\ cached' = None /\ reply' = None
  /\ client' = IF client = "asked" THEN "idle" ELSE client
  /\ told' = <<>> /\ closing' = "telling"
  /\ info' = None /\ startup_state' = None
  /\ UNCHANGED <<klipper, running, task>>

\* Fault: the next connection is left to whoever asks for it.
CloseEndsForGood ==
  /\ \/ closing = "telling"
     \/ closing = "begun" /\ ~connected
  /\ closing' = "no"
  /\ UNCHANGED <<klipperVars, link, inbox, connected, running, flagVars, task, reply,
                 info, startup_state, state, cached, client, told>>

\* klippy_disconnect has been handled.
CloseEnds ==
  /\ \/ closing = "telling" /\ task' = IF running THEN "dial" ELSE task
     \/ closing = "begun" /\ ~connected /\ UNCHANGED task
  /\ closing' = "no"
  /\ UNCHANGED <<klipperVars, link, inbox, connected, running, flagVars, reply,
                 info, startup_state, state, cached, client, told>>

-----------------------------------------------------------------------------
Answers == AnswerInfo \/ Poll
Connecting == Dial \/ AskInfo \/ GiveUp \/ InfoFails \/ InfoAnswered \/ Identified
Subscribing == Subscribe \/ WebhooksAnswered
Initialises == Starting \/ Started \/ Checked \/ Announced
Closes == CloseBegins \/ Closed \/ CloseEnds

Next == \/ KlipperStarts \/ KlipperChanges \/ KlipperExits \/ Answers
        \/ Read \/ Connecting \/ Subscribing \/ WebhooksTimeOut \/ Initialises
        \/ ClientSubscribes \/ ClientAnswered \/ ClientTimesOut
        \/ Closes \/ ServerStops \/ ServerCloses

Spec == Init /\ [][Next]_vars

\* Klipper's reactor answers and polls; Moonraker's event loop runs what is due.
Fairness == /\ WF_vars(AnswerInfo) /\ WF_vars(Poll) /\ WF_vars(Read)
            /\ WF_vars(Connecting) /\ WF_vars(Subscribing) /\ WF_vars(Initialises)
            /\ WF_vars(ClientAnswered) /\ WF_vars(Closes)
FairSpec == Spec /\ Fairness

-----------------------------------------------------------------------------
(* Properties.                                                             *)

\* What listeners hear of one connection is identified, started, ready when
\* Klipper is ready, and shutdown at most once and last: none is repeated, none
\* of an earlier connection or of a cancelled initialisation comes late.
ToldInOrder == told \in Legal

\* Once the initialisation is over, listeners that heard klippy_ready have heard
\* of the shutdown Moonraker knows of, whenever during klippy_ready it came.
ReadyThenShutdown ==
  ~initializing /\ "ready" \in Elements(told) /\ state = "shutdown"
    => "shutdown" \in Elements(told)

\* A shutdown received during the initialisation is announced when it is over:
\* with klippy_started's state or with klippy_shutdown.
ShutdownTold ==
  started /\ ~initializing /\ state = "shutdown"
    => startup_state = "shutdown" \/ "shutdown" \in Elements(told)

\* Whatever else the initialisation is doing, a shutdown after Klipper has
\* answered a subscription becomes Moonraker's state, unless the connection ends
\* or another subscription is under way meanwhile.
ShutdownLearnt ==
  (subscribed /\ polled # "shutdown" /\ klipper = "shutdown")
    ~> (\/ state \in {"shutdown", "disconnected"}
        \/ client # "idle" \/ task = "webhooks" \/ asks \cap {"webhooks", "client"} # {})

\* If Klipper keeps running and has started or failed to, Moonraker ends up
\* connected to it and through with the initialisation.
ConnectsAgain ==
  <>[](running /\ klipper \in {"ready", "error", "shutdown"})
    => <>[](connected /\ closing = "no" /\ started /\ ~initializing)
=============================================================================
