----------------------------- MODULE EventStream -----------------------------
(***************************************************************************)
(* The event bus (common/events.py) and one browser on its reconnecting    *)
(* WebSocket (web/app.py, events_ws).                                      *)
(*                                                                         *)
(* Threads publish under a lock and call the subscribers after it; the     *)
(* handler subscribes, takes the events buffered since the client's last   *)
(* one, sends those, and then what its queue receives.  The connection may *)
(* break and the process may restart between any two steps.                *)
(***************************************************************************)
EXTENDS Naturals, Sequences, FiniteSets, SequencesExt

CONSTANTS
    Publisher,     \* threads that publish: the worker, dry runs, the event loop
    Capacity,      \* recent_capacity
    MaxEvents,     \* bound: events of one process
    MaxConnects,   \* bound: connections of the browser
    MaxRestarts    \* bound: restarts of the process

ASSUME BufferHolds == Capacity \in Nat \ {0}

VARIABLES
    boot,          \* which process is running
    sequence,      \* the number of its last event
    recent,        \* the replay buffer
    dispatching,   \* per thread: the event it has still to hand to the subscriber
    phase,         \* the connection: "closed", "open", "subscribed", "replay", "live"
    since,         \* what the client named when it connected
    backlog,       \* replayed events still to send
    first,         \* the first event replayed
    highest,       \* the last event replayed
    queue,         \* the handler's queue
    lastSeq,       \* the browser's highest number
    received,      \* what the browser was shown, in order
    connects

busVars == <<boot, sequence, recent, dispatching>>
connVars == <<phase, since, backlog, first, highest, queue, connects>>
clientVars == <<lastSeq, received>>
vars == <<busVars, connVars, clientVars>>

Event == [boot : Nat, n : Nat, by : Publisher]

TypeOK ==
    /\ boot \in Nat /\ sequence \in Nat
    /\ recent \in Seq(Event) /\ Len(recent) <= Capacity
    /\ dispatching \in [Publisher -> Seq(Event)]
    /\ phase \in {"closed", "open", "subscribed", "replay", "live"}
    /\ since \in Nat /\ first \in Nat /\ highest \in Nat
    /\ backlog \in Seq(Event) /\ queue \in Seq(Event)
    /\ lastSeq \in Nat /\ received \in Seq(Event)
    /\ connects \in Nat

Init ==
    /\ boot = 1 /\ sequence = 0 /\ recent = <<>>
    /\ dispatching = [p \in Publisher |-> <<>>]
    /\ phase = "closed" /\ since = 0 /\ backlog = <<>>
    /\ first = 0 /\ highest = 0 /\ queue = <<>>
    /\ lastSeq = 0 /\ received = <<>> /\ connects = 0

-----------------------------------------------------------------------------
(* The bus.                                                                *)

Subscribed == phase \in {"subscribed", "replay", "live"}

\* Mutant: nothing falls out.
RecordedForEver(e) == Append(recent, e)

\* The bounded deque: the oldest event falls out.
Recorded(e) ==
    LET all == Append(recent, e)
    IN  IF Len(all) > Capacity THEN Tail(all) ELSE all

\* publish, under the lock: number, record, and note the subscribers.
Publish(p) ==
    /\ dispatching[p] = <<>>
    /\ sequence < MaxEvents
    /\ LET e == [boot |-> boot, n |-> sequence + 1, by |-> p]
       IN  /\ recent' = Recorded(e)
           /\ dispatching' =
                [dispatching EXCEPT ![p] = IF Subscribed THEN <<e>> ELSE <<>>]
    /\ sequence' = sequence + 1
    /\ UNCHANGED <<boot, connVars, clientVars>>

\* publish, after the lock: on_event puts the event on the handler's queue.
Dispatch(p) ==
    /\ dispatching[p] # <<>>
    /\ queue' = queue \o dispatching[p]
    /\ dispatching' = [dispatching EXCEPT ![p] = <<>>]
    /\ UNCHANGED <<boot, sequence, recent, phase, since, backlog, first, highest,
                   connects, clientVars>>

-----------------------------------------------------------------------------
(* The connection.                                                         *)

\* The browser connects and names the highest number it has seen.
Connect ==
    /\ phase = "closed" /\ connects < MaxConnects
    /\ phase' = "open" /\ since' = lastSeq /\ connects' = connects + 1
    /\ UNCHANGED <<busVars, backlog, first, highest, queue, clientVars>>

Subscribe ==
    /\ phase = "open"
    /\ phase' = "subscribed"
    /\ UNCHANGED <<busVars, since, backlog, first, highest, queue, connects,
                   clientVars>>

\* events_since: what is buffered and newer, in order.
EventsSince ==
    LET kept[i \in 0..Len(recent)] ==
            IF i = 0 THEN <<>>
            ELSE IF recent[i].n > since THEN Append(kept[i - 1], recent[i])
            ELSE kept[i - 1]
    IN  kept[Len(recent)]

\* Mutant: the replay is not noted.
HighestIsSince == since

\* highest, once the backlog is sent.
HighestReplayed == IF EventsSince = <<>> THEN since ELSE Last(EventsSince).n

TakeBacklog ==
    /\ phase = "subscribed"
    /\ phase' = "replay"
    /\ backlog' = EventsSince
    /\ first' = IF EventsSince = <<>> THEN sequence + 1 ELSE Head(EventsSince).n
    /\ highest' = HighestReplayed
    /\ UNCHANGED <<busVars, since, queue, connects, clientVars>>

\* handleEvent in the browser.
Shown(e) ==
    /\ received' = Append(received, e)
    /\ lastSeq' = IF e.n > lastSeq THEN e.n ELSE lastSeq

SendBacklog ==
    /\ phase = "replay" /\ backlog # <<>>
    /\ Shown(Head(backlog))
    /\ backlog' = Tail(backlog)
    /\ UNCHANGED <<busVars, phase, since, first, highest, queue, connects>>

BacklogSent ==
    /\ phase = "replay" /\ backlog = <<>>
    /\ phase' = "live"
    /\ UNCHANGED <<busVars, since, backlog, first, highest, queue, connects,
                   clientVars>>

\* Mutant: one too many is taken for replayed.
ReplayedOrNext(e) == e.n <= highest + 1

\* Already delivered by the backlog.
Replayed(e) == e.n <= highest

\* The handler takes one event off its queue, and skips or sends it.
TakeQueued ==
    /\ phase = "live" /\ queue # <<>>
    /\ queue' = Tail(queue)
    /\ IF Replayed(Head(queue)) THEN UNCHANGED clientVars ELSE Shown(Head(queue))
    /\ UNCHANGED <<busVars, phase, since, backlog, first, highest, connects>>

\* What a connection leaves behind: its subscription and queue are no one's.
ConnectionGone ==
    /\ phase' = "closed" /\ since' = 0 /\ backlog' = <<>>
    /\ first' = 0 /\ highest' = 0 /\ queue' = <<>>

\* The connection breaks; what was not shown is as if it was never sent.
Disconnect ==
    /\ phase # "closed"
    /\ ConnectionGone
    /\ dispatching' = [p \in Publisher |-> <<>>]
    /\ UNCHANGED <<boot, sequence, recent, connects, clientVars>>

\* The process restarts and numbers its events from one; the page stays.
Restart ==
    /\ boot <= MaxRestarts
    /\ boot' = boot + 1 /\ sequence' = 0 /\ recent' = <<>>
    /\ dispatching' = [p \in Publisher |-> <<>>]
    /\ ConnectionGone
    /\ UNCHANGED <<connects, clientVars>>

HandlerStep ==
    \/ Connect \/ Subscribe \/ TakeBacklog \/ SendBacklog \/ BacklogSent \/ TakeQueued

Next ==
    \/ \E p \in Publisher : Publish(p) \/ Dispatch(p)
    \/ HandlerStep \/ Disconnect \/ Restart

Spec == Init /\ [][Next]_vars

-----------------------------------------------------------------------------
(* Properties.                                                             *)

\* The connection has nothing left to send and nothing on its way.
CaughtUp ==
    phase = "live" /\ queue = <<>> /\ \A p \in Publisher : dispatching[p] = <<>>

Got(n) == \E i \in DOMAIN received : received[i].boot = boot /\ received[i].n = n

\* Between the replay and the queue nothing falls: all that was published
\* since the first replayed event is shown, up to the client's own mark.
NothingFallsBetween ==
    CaughtUp => \A n \in first..sequence : n > since => Got(n)

\* The events of one thread are shown in the order it published them, and
\* once, however threads, replay, queue and reconnections overlap.
ThreadOrderKept ==
    \A i, j \in DOMAIN received :
        i < j /\ received[i].by = received[j].by /\ received[i].boot = received[j].boot =>
            received[i].n < received[j].n
=============================================================================
