---------------------------- MODULE HubForwarder ----------------------------
(***************************************************************************)
(* The agent's forwarder (agent/src/hub_forwarder.rs), the WebSocket       *)
(* connections it opens one after the other, and the hub at their other    *)
(* end, which reads every connection in a task of its own.                 *)
(*                                                                         *)
(* The consumer loop of run_daemon gives the forwarder one event at a      *)
(* time: events are numbered in that order. A connection is cut without    *)
(* notice; the agent finds out when a send fails.                          *)
(***************************************************************************)
EXTENDS Naturals, Sequences, Functions, FiniteSets

CONSTANTS
    Capacity,       \* PENDING_EVENT_CAPACITY
    MaxEvents,      \* bound: the number of events that are forwarded
    MaxConns        \* bound: the number of connections that are opened

ASSUME ForwarderConstants ==
    Capacity \in Nat \ {0} /\ MaxEvents \in Nat /\ MaxConns \in Nat \ {0}

VARIABLES
    pending,        \* pending_events
    sender,         \* ws_sender: the connection in use, or 0
    state,          \* per connection: "up", "cut" (unnoticed), "failed"
    wire,           \* per connection: sent, not yet read by the hub
    pc, cur,        \* where forward_event_with_retry is, and its event
    retries_total, dropped_events_total, flush_failures_total,
    \* history
    sent,           \* events whose send returned Ok, in order
    dropped,        \* events popped by enqueue_pending_event
    received,       \* what the hub has read: event and connection, in order
    doubtful        \* events whose send failed after the bytes had left

vars == <<pending, sender, state, wire, pc, cur, retries_total, dropped_events_total,
          flush_failures_total, sent, dropped, received, doubtful>>
counters == <<retries_total, dropped_events_total, flush_failures_total>>

Conns == 1..MaxConns

\* run_daemon keeps the forwarder only when its first connect succeeds.
Init ==
    /\ pending = <<>> /\ sender = 1
    /\ state = [c \in Conns |-> IF c = 1 THEN "up" ELSE "closed"]
    /\ wire = [c \in Conns |-> <<>>]
    /\ pc = "idle" /\ cur = 0
    /\ retries_total = 0 /\ dropped_events_total = 0 /\ flush_failures_total = 0
    /\ sent = <<>> /\ dropped = {} /\ received = <<>> /\ doubtful = {}

-----------------------------------------------------------------------------
(* forward_event: one send on the current connection. *)

\* There is a connection, and no send on it has failed.
Usable == sender # 0 /\ state[sender] # "failed"

\* The send returns Ok: on a cut connection the bytes go nowhere.
SendOk(e) ==
    /\ Usable
    /\ wire' = IF state[sender] = "up" THEN [wire EXCEPT ![sender] = Append(@, e)] ELSE wire
    /\ sent' = Append(sent, e)
    /\ UNCHANGED <<sender, state, received, doubtful>>

\* The send fails: there is no connection, or it has failed before, or it
\* fails now, with the bytes on their way or not.
SendFails(e) ==
    /\ \/ /\ ~ Usable
          /\ UNCHANGED <<state, wire, doubtful>>
       \/ /\ Usable
          /\ state' = [state EXCEPT ![sender] = "failed"]
          /\ \/ UNCHANGED <<wire, doubtful>>
             \/ /\ state[sender] = "up"
                /\ wire' = [wire EXCEPT ![sender] = Append(@, e)]
                /\ doubtful' = doubtful \union {e}
    /\ UNCHANGED <<sender, sent, received>>

\* reconnect: the old connection is let go and a new one opened, or not.
ReconnectOk ==
    \E c \in Conns : /\ state[c] = "closed" /\ \A i \in 1..(c - 1) : state[i] # "closed"
                     /\ sender' = c
                     /\ state' = [i \in Conns |-> IF i = c THEN "up"
                                                  ELSE IF state[i] = "up" THEN "cut" ELSE state[i]]
ReconnectFails ==
    /\ sender' = 0
    /\ state' = [i \in Conns |-> IF state[i] = "up" THEN "cut" ELSE state[i]]

\* Mutant: the event goes to the front of the queue.
enqueue_pending_event_Front(e) ==
    /\ pending' = <<e>> \o (IF Len(pending) >= Capacity THEN Tail(pending) ELSE pending)
    /\ IF Len(pending) >= Capacity
       THEN /\ dropped' = dropped \union {Head(pending)}
            /\ dropped_events_total' = dropped_events_total + 1
       ELSE UNCHANGED <<dropped, dropped_events_total>>

\* Mutant: the length is checked one too late.
enqueue_pending_event_Late(e) ==
    /\ pending' = Append(IF Len(pending) > Capacity THEN Tail(pending) ELSE pending, e)
    /\ IF Len(pending) > Capacity
       THEN /\ dropped' = dropped \union {Head(pending)}
            /\ dropped_events_total' = dropped_events_total + 1
       ELSE UNCHANGED <<dropped, dropped_events_total>>

\* The oldest event makes room for the new one.
enqueue_pending_event(e) ==
    /\ pending' = Append(IF Len(pending) >= Capacity THEN Tail(pending) ELSE pending, e)
    /\ IF Len(pending) >= Capacity
       THEN /\ dropped' = dropped \union {Head(pending)}
            /\ dropped_events_total' = dropped_events_total + 1
       ELSE UNCHANGED <<dropped, dropped_events_total>>

-----------------------------------------------------------------------------
(* forward_event_with_retry. *)

\* The next event that should_forward lets through.
Forward ==
    /\ pc = "idle" /\ cur < MaxEvents
    /\ cur' = cur + 1
    /\ pc' = IF pending = <<>> THEN "send" ELSE "flush"
    /\ UNCHANGED <<pending, sender, state, wire, counters, sent, dropped, received, doubtful>>

\* Where a pass of flush_pending_events goes when it ends well, and badly:
\* the first pass, the one after its reconnect, the one after the event's own.
AfterFlush == [flush |-> "send", reflush |-> "send", drain |-> "idle"]
AfterError == [flush |-> "reconnect", reflush |-> "send", drain |-> "idle"]

\* Mutant: a failed event is not put back.
flush_pending_events_Forgets ==
    /\ pc \in DOMAIN AfterFlush /\ pending # <<>>
    /\ \/ SendOk(Head(pending)) /\ pending' = Tail(pending)
          /\ UNCHANGED <<pc, counters>>
       \/ SendFails(Head(pending)) /\ pending' = Tail(pending)
          /\ pc' = AfterError[pc]
          /\ flush_failures_total' = flush_failures_total + 1
          /\ UNCHANGED <<retries_total, dropped_events_total>>
    /\ UNCHANGED <<cur, dropped>>

\* One turn of the loop: pop, send, push back and give up when it fails.
flush_pending_events ==
    /\ pc \in DOMAIN AfterFlush /\ pending # <<>>
    /\ \/ SendOk(Head(pending)) /\ pending' = Tail(pending)
          /\ UNCHANGED <<pc, counters>>
       \/ SendFails(Head(pending)) /\ UNCHANGED pending
          /\ pc' = AfterError[pc]
          /\ flush_failures_total' = flush_failures_total + 1
          /\ UNCHANGED <<retries_total, dropped_events_total>>
    /\ UNCHANGED <<cur, dropped>>

FlushDone ==
    /\ pc \in DOMAIN AfterFlush /\ pending = <<>>
    /\ pc' = AfterFlush[pc]
    /\ UNCHANGED <<pending, sender, state, wire, cur, counters, sent, dropped, received, doubtful>>

\* The reconnect after a failed flush; its failure is ignored.
ReconnectAfterFlush ==
    /\ pc = "reconnect"
    /\ retries_total' = retries_total + 1
    /\ \/ ReconnectOk /\ pc' = "reflush"
       \/ ReconnectFails /\ pc' = "send"
    /\ UNCHANGED <<pending, wire, cur, dropped_events_total, flush_failures_total,
                   sent, dropped, received, doubtful>>

\* Mutant: the event is queued before it is sent and stays in the queue.
SendCurrent_KeepsQueued ==
    /\ pc = "send"
    /\ enqueue_pending_event(cur)
    /\ \/ SendOk(cur) /\ pc' = "idle"
          /\ UNCHANGED <<retries_total, flush_failures_total>>
       \/ SendFails(cur) /\ pc' = "retry"
          /\ retries_total' = retries_total + 1
          /\ UNCHANGED flush_failures_total
    /\ UNCHANGED cur

\* The event itself: sent, or queued for the next reconnect.
SendCurrent ==
    /\ pc = "send"
    /\ \/ SendOk(cur) /\ pc' = "idle"
          /\ UNCHANGED <<pending, dropped, counters>>
       \/ SendFails(cur) /\ pc' = "retry"
          /\ enqueue_pending_event(cur)
          /\ retries_total' = retries_total + 1
          /\ UNCHANGED flush_failures_total
    /\ UNCHANGED cur

\* Mutant: a failed reconnect is tried again, without end.
ReconnectAndDrain_Again ==
    /\ pc = "retry"
    /\ \/ ReconnectOk /\ pc' = "drain"
       \/ ReconnectFails /\ pc' = "retry"
    /\ UNCHANGED <<pending, wire, cur, counters, sent, dropped, received, doubtful>>

\* The reconnect after the event was queued; its failure ends the call.
ReconnectAndDrain ==
    /\ pc = "retry"
    /\ \/ ReconnectOk /\ pc' = "drain"
       \/ ReconnectFails /\ pc' = "idle"
    /\ UNCHANGED <<pending, wire, cur, counters, sent, dropped, received, doubtful>>

-----------------------------------------------------------------------------
(* The network and the hub. *)

\* A connection breaks: some suffix of what is on the wire is lost.
Cut(c) ==
    /\ state[c] = "up" \/ wire[c] # <<>>
    /\ state' = [state EXCEPT ![c] = IF @ = "up" THEN "cut" ELSE @]
    /\ \E n \in 0..Len(wire[c]) : wire' = [wire EXCEPT ![c] = SubSeq(@, 1, n)]
    /\ UNCHANGED <<pending, sender, pc, cur, counters, sent, dropped, received, doubtful>>

\* handle_connection of connection c reads its next message.
HubReads(c) ==
    /\ wire[c] # <<>>
    /\ received' = Append(received, [event |-> Head(wire[c]), conn |-> c])
    /\ wire' = [wire EXCEPT ![c] = Tail(@)]
    /\ UNCHANGED <<pending, sender, state, pc, cur, counters, sent, dropped, doubtful>>

Agent ==
    \/ flush_pending_events \/ FlushDone
    \/ ReconnectAfterFlush \/ SendCurrent \/ ReconnectAndDrain

Next ==
    \/ Forward \/ Agent
    \/ \E c \in Conns : Cut(c) \/ HubReads(c)

\* The consumer task runs; a send or a connect that hangs is not modelled.
Spec == Init /\ [][Next]_vars /\ WF_vars(Agent)

-----------------------------------------------------------------------------
(* Properties. *)

Queued == Range(pending)
Current == IF pc \in {"flush", "reflush", "reconnect", "send"} THEN {cur} ELSE {}

TypeOK ==
    /\ pending \in Seq(1..MaxEvents) /\ Len(pending) <= Capacity
    /\ sender \in 0..MaxConns
    /\ state \in [Conns -> {"closed", "up", "cut", "failed"}]
    /\ pc \in {"idle", "flush", "reflush", "reconnect", "send", "retry", "drain"}
    /\ cur \in 0..MaxEvents
    /\ \A c \in Conns : state[c] = "up" => c = sender

\* No event disappears inside the agent: each one the forwarder has taken has
\* been sent, waits in the queue, is the one in hand, or was dropped from a
\* full queue and counted.
Accounted ==
    /\ 1..cur = Range(sent) \union Queued \union dropped \union Current
    /\ Queued \intersect (Range(sent) \union dropped \union Current) = {}
    /\ dropped \intersect Range(sent) = {}
    /\ dropped_events_total = Cardinality(dropped)

\* Events leave in the order they were taken, each once: neither the queue nor
\* the direct send after a failed flush lets a later event overtake.
SentInOrder == \A i, j \in DOMAIN sent : i < j => sent[i] < sent[j]

\* The hub sees an event twice only when a send of it failed after the bytes
\* had left, and two events of one connection never in the wrong order.
HubSees ==
    \A i, j \in DOMAIN received : i < j =>
        /\ received[i].event = received[j].event => received[i].event \in doubtful
        /\ received[i].conn = received[j].conn => received[i].event < received[j].event

\* Seen from the consumer loop the connections, flushes and retries are a queue
\* that keeps the order, sends nothing twice and gives up only its oldest
\* event, only when it is full, and counts it.
Outbound == INSTANCE OutboundQueue WITH
    taken <- cur,
    queue <- IF Current = {} THEN pending ELSE Append(pending, cur),
    out <- sent,
    lost <- dropped_events_total

KeepsPromise == Outbound!Spec

\* Every call of forward_event_with_retry ends: the flush loops stop at the
\* first failure and a reconnect is tried once.
CallEnds == pc # "idle" ~> pc = "idle"

=============================================================================
