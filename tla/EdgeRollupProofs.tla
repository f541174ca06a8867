-------------------------- MODULE EdgeRollupProofs --------------------------
(***************************************************************************)
(* Proofs about the agent's forwarder, for any capacity of its queue, any  *)
(* number of events, connections and bindings.                             *)
(***************************************************************************)
EXTENDS EdgeRollup, SequenceTheorems, FiniteSetTheorems, TLAPS

States == {"closed", "up", "cut", "failed"}
Places == {"idle", "flush", "reflush", "reconnect", "send", "retry", "drain"}
InHand == pc \in {"flush", "reflush", "reconnect", "send"}

\* The type invariant; the event in hand is numbered; and it is sent only when
\* nothing waits before it: a flush that gave up has left a connection that is
\* not usable, and so has a reconnect that failed.
Sound ==
    /\ pending \in Seq(1..MaxEvents) /\ Len(pending) <= Capacity
    /\ sent \in Seq(Nat)
    /\ sender \in 0..MaxConns
    /\ state \in [Conns -> States]
    /\ pc \in Places
    /\ cur \in 0..MaxEvents
    /\ InHand => cur # 0
    /\ \A c \in Conns : state[c] = "up" => c = sender
    /\ pc = "send" /\ pending # <<>> => ~ Usable

-----------------------------------------------------------------------------
(* The steps of one send and of one reconnect. *)

LEMMA SentOk ==
    ASSUME Sound, NEW e \in Nat, SendOk(e)
    PROVE  /\ sent' = Append(sent, e) /\ sent' \in Seq(Nat)
           /\ sender' = sender /\ state' = state
BY AppendProperties, Zenon DEF Sound, SendOk

LEMMA SentFails ==
    ASSUME Sound, NEW e, SendFails(e)
    PROVE  /\ sent' = sent /\ sender' = sender
           /\ state' \in [Conns -> States]
           /\ \A c \in Conns : state'[c] = "up" => c = sender'
           /\ ~ Usable'
<1>1. CASE ~ Usable
  BY <1>1, Zenon DEF Sound, SendFails, Usable
<1>2. CASE Usable
  <2>1. sender \in Conns
    BY <1>2, ForwarderConstants DEF Sound, Usable, Conns
  <2>2. state' = [state EXCEPT ![sender] = "failed"] /\ sender' = sender /\ sent' = sent
    BY <1>2, Zenon DEF SendFails
  <2> QED  BY <2>1, <2>2, Zenon DEF Sound, Usable, States
<1> QED  BY <1>1, <1>2, Zenon

LEMMA Reconnected ==
    ASSUME Sound, ReconnectOk \/ ReconnectFails
    PROVE  /\ sender' \in 0..MaxConns
           /\ state' \in [Conns -> States]
           /\ \A c \in Conns : state'[c] = "up" => c = sender'
BY ForwarderConstants DEF Sound, ReconnectOk, ReconnectFails, Conns, States

LEMMA Enqueued ==
    ASSUME Sound, NEW e \in 1..MaxEvents, enqueue_pending_event(e)
    PROVE  pending' \in Seq(1..MaxEvents) /\ Len(pending') <= Capacity
<1>1. CASE Len(pending) >= Capacity
  <2>1. pending # <<>>
    BY <1>1, ForwarderConstants DEF Sound
  <2>2. Tail(pending) \in Seq(1..MaxEvents) /\ Len(Tail(pending)) = Len(pending) - 1
    BY <2>1, HeadTailProperties, Zenon DEF Sound
  <2>3. pending' = Append(Tail(pending), e)
    BY <1>1, Zenon DEF enqueue_pending_event
  <2> QED  BY <2>2, <2>3, AppendProperties, LenProperties, ForwarderConstants DEF Sound
<1>2. CASE ~ (Len(pending) >= Capacity)
  <2>1. pending' = Append(pending, e)
    BY <1>2, Zenon DEF enqueue_pending_event
  <2> QED  BY <1>2, <2>1, AppendProperties, LenProperties, ForwarderConstants DEF Sound
<1> QED  BY <1>1, <1>2, Zenon

-----------------------------------------------------------------------------
(* Sound is inductive. *)

LEMMA InitSound == Init => Sound
BY ForwarderConstants, EmptySeq
DEF Init, Sound, InHand, Places, States, Conns, Usable

LEMMA HeadIsNat ==
    ASSUME Sound, pending # <<>>
    PROVE  /\ Head(pending) \in 1..MaxEvents /\ Head(pending) \in Nat
           /\ Tail(pending) \in Seq(1..MaxEvents) /\ Len(Tail(pending)) <= Capacity
<1>1. /\ Head(pending) \in 1..MaxEvents /\ Tail(pending) \in Seq(1..MaxEvents)
      /\ Len(Tail(pending)) = Len(pending) - 1
  BY HeadTailProperties, Zenon DEF Sound
<1> QED  BY <1>1, LenProperties, ForwarderConstants DEF Sound

LEMMA NextSound == Sound /\ [RollupNext]_<<vars, rollup>> => Sound'
<1> SUFFICES ASSUME Sound, [RollupNext]_<<vars, rollup>> PROVE Sound'
  OBVIOUS
<1> USE DEF InHand, Places
<1>1. ASSUME Forward PROVE Sound'
  <2>1. cur' \in 0..MaxEvents /\ cur' # 0
    BY <1>1, ForwarderConstants DEF Sound, Forward
  <2>2. pc' \in Places /\ (pc' = "send" => pending' = <<>>)
    BY <1>1, Zenon DEF Forward
  <2> QED  BY <1>1, <2>1, <2>2, Zenon DEF Sound, Forward, Usable
<1>2. ASSUME flush_pending_events PROVE Sound'
  <2>0. pc \in {"flush", "reflush", "drain"} /\ pending # <<>> /\ cur' = cur
    BY <1>2, Zenon DEF flush_pending_events, AfterFlush
  <2>1. CASE SendOk(Head(pending)) /\ pending' = Tail(pending) /\ pc' = pc
    BY <2>0, <2>1, HeadIsNat, SentOk, Zenon DEF Sound
  <2>2. CASE SendFails(Head(pending)) /\ pending' = pending /\ pc' = AfterError[pc]
    <3>1. pc' \in {"reconnect", "send", "idle"} /\ (pc' # "idle" => pc # "drain")
      BY <2>0, <2>2 DEF AfterError
    <3> QED  BY <2>0, <2>2, <3>1, SentFails, Zenon DEF Sound
  <2> QED  BY <1>2, <2>1, <2>2, Zenon DEF flush_pending_events
<1>3. ASSUME FlushDone PROVE Sound'
  <2>1. pc' \in {"send", "idle"} /\ (pc' = "send" => pc \in {"flush", "reflush"})
    BY <1>3 DEF FlushDone, AfterFlush
  <2> QED  BY <1>3, <2>1, Zenon DEF Sound, FlushDone, Usable
<1>4. ASSUME ReconnectAfterFlush PROVE Sound'
  <2>1. pc = "reconnect" /\ pending' = pending /\ cur' = cur /\ sent' = sent
    BY <1>4, Zenon DEF ReconnectAfterFlush
  <2>2. pc' \in {"reflush", "send"} /\ (pc' = "send" => ~ Usable')
    BY <1>4, Zenon DEF ReconnectAfterFlush, ReconnectFails, Usable
  <2>3. ReconnectOk \/ ReconnectFails
    BY <1>4, Zenon DEF ReconnectAfterFlush
  <2> QED  BY <2>1, <2>2, <2>3, Reconnected, Zenon DEF Sound
<1>5. ASSUME SendCurrent PROVE Sound'
  <2>0. pc = "send" /\ cur' = cur /\ cur \in 1..MaxEvents /\ cur \in Nat
    BY <1>5, ForwarderConstants DEF SendCurrent, Sound
  <2>1. CASE SendOk(cur) /\ pc' = "idle" /\ pending' = pending
    BY <2>0, <2>1, SentOk, Zenon DEF Sound
  <2>2. CASE SendFails(cur) /\ pc' = "retry" /\ enqueue_pending_event(cur)
    BY <2>0, <2>2, SentFails, Enqueued, Zenon DEF Sound
  <2> QED  BY <1>5, <2>1, <2>2, Zenon DEF SendCurrent
<1>6. ASSUME ReconnectAndDrain PROVE Sound'
  <2>1. /\ pending' = pending /\ cur' = cur /\ sent' = sent /\ pc' \in {"drain", "idle"}
        /\ ReconnectOk \/ ReconnectFails
    BY <1>6, Zenon DEF ReconnectAndDrain
  <2> QED  BY <2>1, Reconnected, Zenon DEF Sound
<1>7. ASSUME NEW c \in Conns, Cut(c) PROVE Sound'
  <2>1. UNCHANGED <<pending, sender, pc, cur, sent>>
    BY <1>7, Zenon DEF Cut
  <2>2. state' = [state EXCEPT ![c] = IF @ = "up" THEN "cut" ELSE @]
    BY <1>7, Zenon DEF Cut
  <2>3. /\ state' \in [Conns -> States]
        /\ \A d \in Conns : state'[d] = "up" => state[d] = "up"
        /\ \A d \in Conns : state[d] = "failed" => state'[d] = "failed"
    BY <2>2, Zenon DEF Sound, States
  <2>4. ~ Usable => ~ Usable'
    BY <2>1, <2>3, ForwarderConstants DEF Usable, Sound, Conns
  <2> QED  BY <2>1, <2>3, <2>4, Zenon DEF Sound
<1>8. ASSUME NEW c \in Conns, HubReads(c) PROVE Sound'
  BY <1>8, Zenon DEF Sound, HubReads, Usable
<1>9. ASSUME UNCHANGED vars PROVE Sound'
  BY <1>9, Zenon DEF Sound, vars, Usable
<1> QED
  BY <1>1, <1>2, <1>3, <1>4, <1>5, <1>6, <1>7, <1>8, <1>9, Zenon
  DEF RollupNext, Agent, Consume

\* The queue never grows past PENDING_EVENT_CAPACITY, and a connection is up
\* only while it is the forwarder's own (HubForwarder!TypeOK).
THEOREM QueueBounded == RollupSpec => []TypeOK
<1>1. RollupInit => Sound
  BY InitSound, Zenon DEF RollupInit
<1>2. Sound => TypeOK
  BY Zenon DEF Sound, TypeOK, Places, States
<1> QED  BY <1>1, <1>2, NextSound, PTL DEF RollupSpec

-----------------------------------------------------------------------------
(* Every step of the forwarder is a step of the outbound queue. *)

\* What waits: the queue, then the event in hand.
Waiting == IF InHand THEN Append(pending, cur) ELSE pending

TakeStep ==
    /\ cur' = cur + 1 /\ Waiting' = Append(Waiting, cur + 1)
    /\ sent' = sent /\ dropped' = dropped /\ dropped_events_total' = dropped_events_total
SendStep ==
    /\ Waiting # <<>>
    /\ sent' = Append(sent, Head(Waiting)) /\ Waiting' = Tail(Waiting)
    /\ cur' = cur /\ dropped' = dropped /\ dropped_events_total' = dropped_events_total
DropStep ==
    /\ Len(Waiting) > Capacity
    /\ Waiting' = Tail(Waiting) /\ dropped' = dropped \union {Head(Waiting)}
    /\ dropped_events_total' = dropped_events_total + 1
    /\ cur' = cur /\ sent' = sent
IdleStep ==
    /\ cur' = cur /\ Waiting' = Waiting
    /\ sent' = sent /\ dropped' = dropped /\ dropped_events_total' = dropped_events_total

QueueStep == TakeStep \/ SendStep \/ DropStep \/ IdleStep

LEMMA WaitingTyped ==
    ASSUME Sound PROVE Waiting \in Seq(1..MaxEvents)
<1>1. CASE InHand
  <2>1. cur \in 1..MaxEvents
    BY <1>1, ForwarderConstants DEF Sound
  <2> QED  BY <1>1, <2>1, AppendProperties, Zenon DEF Sound, Waiting
<1>2. CASE ~ InHand
  BY <1>2, Zenon DEF Sound, Waiting
<1> QED  BY <1>1, <1>2, Zenon

\* What Append does at the other end of a sequence that is not empty.
LEMMA AppendEnds ==
    ASSUME NEW S, NEW s \in Seq(S), NEW e \in S
    PROVE  /\ s # <<>> => /\ Head(Append(s, e)) = Head(s)
                          /\ Tail(Append(s, e)) = Append(Tail(s), e)
           /\ s = <<>> => /\ Head(Append(s, e)) = e
                          /\ Tail(Append(s, e)) = <<>>
           /\ Append(s, e) # <<>> /\ Len(Append(s, e)) = Len(s) + 1
<1>1. Append(s, e) # <<>> /\ Len(Append(s, e)) = Len(s) + 1
  BY AppendProperties
<1>2. ASSUME s # <<>>
      PROVE Head(Append(s, e)) = Head(s) /\ Tail(Append(s, e)) = Append(Tail(s), e)
  BY <1>2, HeadTailAppend, Zenon
<1>3. ASSUME s = <<>>
      PROVE Head(Append(s, e)) = e /\ Tail(Append(s, e)) = <<>>
  BY <1>3, HeadTailAppend, Zenon
<1> QED  BY <1>1, <1>2, <1>3, Zenon

LEMMA StepIsQueueStep ==
    ASSUME Sound, [RollupNext]_<<vars, rollup>> PROVE QueueStep
<1> USE DEF InHand
<1>0. pending \in Seq(1..MaxEvents)
  BY Zenon DEF Sound
<1>1. ASSUME Forward PROVE TakeStep
  <2>1. Waiting = pending /\ Waiting' = Append(pending', cur')
    BY <1>1, Zenon DEF Forward, Waiting
  <2> QED  BY <1>1, <2>1, Zenon DEF Forward, TakeStep, counters
<1>2. ASSUME flush_pending_events PROVE SendStep \/ IdleStep
  <2>0. pc \in {"flush", "reflush", "drain"} /\ pending # <<>> /\ cur' = cur
        /\ dropped' = dropped
    BY <1>2, Zenon DEF flush_pending_events, AfterFlush
  <2>1. CASE SendOk(Head(pending)) /\ pending' = Tail(pending) /\ UNCHANGED <<pc, counters>>
    <3>1. sent' = Append(sent, Head(pending)) /\ dropped_events_total' = dropped_events_total
      BY <2>1, Zenon DEF SendOk, counters
    <3>2. CASE pc = "drain"
      <4>1. Waiting = pending /\ Waiting' = Tail(pending)
        BY <2>1, <3>2, Zenon DEF Waiting
      <4> QED  BY <2>0, <3>1, <4>1, Zenon DEF SendStep
    <3>3. CASE pc # "drain"
      <4>1. cur \in 1..MaxEvents
        BY <2>0, <3>3, ForwarderConstants DEF Sound
      <4>2. Waiting = Append(pending, cur) /\ Waiting' = Append(Tail(pending), cur)
        BY <2>0, <2>1, <3>3, Zenon DEF Waiting
      <4>3. Head(Waiting) = Head(pending) /\ Tail(Waiting) = Waiting' /\ Waiting # <<>>
        BY <1>0, <2>0, <4>1, <4>2, AppendEnds
      <4> QED  BY <2>0, <3>1, <4>3, Zenon DEF SendStep
    <3> QED  BY <3>2, <3>3, Zenon
  <2>2. CASE /\ SendFails(Head(pending)) /\ pending' = pending /\ pc' = AfterError[pc]
             /\ UNCHANGED <<retries_total, dropped_events_total>>
    <3>1. pc' \in {"reconnect", "send", "idle"} /\ (pc' = "idle" <=> pc = "drain")
      BY <2>0, <2>2 DEF AfterError
    <3>2. Waiting' = Waiting
      BY <2>0, <2>2, <3>1, Zenon DEF Waiting
    <3> QED  BY <2>0, <2>2, <3>2, Zenon DEF SendFails, IdleStep
  <2> QED  BY <1>2, <2>1, <2>2, Zenon DEF flush_pending_events
<1>3. ASSUME FlushDone PROVE IdleStep
  <2>1. pc \in {"flush", "reflush", "drain"} /\ pc' \in {"send", "idle"}
        /\ (pc' = "idle" <=> pc = "drain")
    BY <1>3 DEF FlushDone, AfterFlush
  <2> QED  BY <1>3, <2>1, Zenon DEF FlushDone, IdleStep, Waiting, counters
<1>4. ASSUME ReconnectAfterFlush PROVE IdleStep
  <2>1. pc = "reconnect" /\ pc' \in {"reflush", "send"}
    BY <1>4, Zenon DEF ReconnectAfterFlush
  <2> QED  BY <1>4, <2>1, Zenon DEF ReconnectAfterFlush, IdleStep, Waiting
<1>5. ASSUME SendCurrent PROVE SendStep \/ DropStep \/ IdleStep
  <2>0. /\ pc = "send" /\ cur' = cur /\ cur \in 1..MaxEvents
        /\ Waiting = Append(pending, cur)
    BY <1>5, ForwarderConstants DEF SendCurrent, Sound, Waiting
  <2>1. CASE SendOk(cur) /\ pc' = "idle" /\ UNCHANGED <<pending, dropped, counters>>
    <3>1. Usable /\ sent' = Append(sent, cur) /\ dropped_events_total' = dropped_events_total
      BY <2>1, Zenon DEF SendOk, counters
    <3>2. pending = <<>> /\ Waiting' = <<>>
      BY <2>0, <2>1, <3>1, Zenon DEF Sound, Waiting
    <3>3. Head(Waiting) = cur /\ Tail(Waiting) = <<>> /\ Waiting # <<>>
      BY <1>0, <2>0, <3>2, AppendEnds
    <3> QED  BY <2>0, <2>1, <3>1, <3>2, <3>3, Zenon DEF SendStep
  <2>2. CASE SendFails(cur) /\ pc' = "retry" /\ enqueue_pending_event(cur)
    <3>1. sent' = sent /\ Waiting' = pending'
      BY <2>2, Zenon DEF SendFails, Waiting
    <3>2. CASE Len(pending) >= Capacity
      <4>1. /\ pending' = Append(Tail(pending), cur)
            /\ dropped' = dropped \union {Head(pending)}
            /\ dropped_events_total' = dropped_events_total + 1
        BY <2>2, <3>2, Zenon DEF enqueue_pending_event
      <4>2. pending # <<>>
        BY <3>2, ForwarderConstants
      <4>3. /\ Head(Waiting) = Head(pending) /\ Tail(Waiting) = pending'
            /\ Len(Waiting) = Len(pending) + 1
        BY <1>0, <2>0, <4>1, <4>2, AppendEnds
      <4>4. Len(Waiting) > Capacity
        BY <1>0, <3>2, <4>3, LenProperties, ForwarderConstants
      <4> QED  BY <2>0, <3>1, <4>1, <4>3, <4>4, Zenon DEF DropStep
    <3>3. CASE ~ (Len(pending) >= Capacity)
      <4>1. pending' = Append(pending, cur) /\ dropped' = dropped
            /\ dropped_events_total' = dropped_events_total
        BY <2>2, <3>3, Zenon DEF enqueue_pending_event
      <4> QED  BY <2>0, <3>1, <4>1, Zenon DEF IdleStep
    <3> QED  BY <3>2, <3>3, Zenon
  <2> QED  BY <1>5, <2>1, <2>2, Zenon DEF SendCurrent
<1>6. ASSUME ReconnectAndDrain PROVE IdleStep
  <2>1. pc = "retry" /\ pc' \in {"drain", "idle"}
    BY <1>6, Zenon DEF ReconnectAndDrain
  <2> QED  BY <1>6, <2>1, Zenon DEF ReconnectAndDrain, IdleStep, Waiting, counters
<1>7. ASSUME NEW c \in Conns, Cut(c) \/ HubReads(c) PROVE IdleStep
  BY <1>7, Zenon DEF Cut, HubReads, IdleStep, Waiting, counters
<1>9. ASSUME UNCHANGED vars PROVE IdleStep
  BY <1>9, Zenon DEF vars, IdleStep, Waiting
<1> QED
  BY <1>1, <1>2, <1>3, <1>4, <1>5, <1>6, <1>7, <1>9, Zenon
  DEF RollupNext, Agent, Consume, QueueStep

\* The forwarder with its connections, flushes and retries implements the
\* outbound queue: it keeps the order, sends nothing twice, and gives up only
\* the oldest event of a full queue, which it counts.
THEOREM ForwarderKeepsPromise == RollupSpec => KeepsPromise
<1>0. Waiting = IF Current = {} THEN pending ELSE Append(pending, cur)
  BY Zenon DEF Waiting, InHand, Current
<1>1. RollupInit => Outbound!Init
  BY Zenon DEF RollupInit, Init, Outbound!Init, Current
<1>2. QueueStep => [Outbound!Next]_(Outbound!vars)
  <2>1. Waiting = (IF Current = {} THEN pending ELSE Append(pending, cur))
    BY <1>0, Zenon
  <2>2. Waiting' = (IF Current' = {} THEN pending' ELSE Append(pending', cur'))
    BY Zenon DEF Waiting, InHand, Current
  <2>3. TakeStep => Outbound!Take
    BY <2>1, <2>2, Zenon DEF TakeStep, Outbound!Take
  <2>4. SendStep => Outbound!Send
    BY <2>1, <2>2, Zenon DEF SendStep, Outbound!Send
  <2>5. DropStep => Outbound!GiveUp
    BY <2>1, <2>2, Zenon DEF DropStep, Outbound!GiveUp
  <2>6. IdleStep => UNCHANGED Outbound!vars
    BY <2>1, <2>2, Zenon DEF IdleStep, Outbound!vars
  <2> QED  BY <2>3, <2>4, <2>5, <2>6, Zenon DEF QueueStep, Outbound!Next
<1>3. Sound /\ [RollupNext]_<<vars, rollup>> => [Outbound!Next]_(Outbound!vars)
  BY <1>2, StepIsQueueStep, Zenon
<1>4. RollupInit => Sound
  BY InitSound, Zenon DEF RollupInit
<1> QED  BY <1>1, <1>3, <1>4, NextSound, PTL DEF RollupSpec, KeepsPromise, Outbound!Spec

-----------------------------------------------------------------------------
(* Where the events are. *)

\* The events up to n are those that left, those that wait and those given up;
\* what left and what was given up is older than all that waits.
Ledger(q, out, lost, n) ==
    /\ q \in Seq(Nat) /\ out \in Seq(Nat) /\ n \in Nat
    /\ \A i \in DOMAIN q : 1 <= q[i] /\ q[i] <= n
    /\ \A i, j \in DOMAIN q : i < j => q[i] < q[j]
    /\ \A i, j \in DOMAIN out : i < j => out[i] < out[j]
    /\ \A i \in DOMAIN out, j \in DOMAIN q : out[i] < q[j]
    /\ \A e \in lost : e \in Nat /\ \A j \in DOMAIN q : e < q[j]
    /\ \A i \in DOMAIN out : out[i] \notin lost
    /\ 1..n = Range(q) \union Range(out) \union lost

LEMMA RangeAppend ==
    ASSUME NEW S, NEW s \in Seq(S), NEW e \in S
    PROVE  Range(Append(s, e)) = Range(s) \union {e}
BY AppendProperties, LenProperties DEF Range

LEMMA RangeTail ==
    ASSUME NEW S, NEW s \in Seq(S), s # <<>>
    PROVE  Range(s) = Range(Tail(s)) \union {Head(s)}
<1>1. /\ Head(s) = s[1] /\ Tail(s) \in Seq(S) /\ Len(Tail(s)) = Len(s) - 1
      /\ \A i \in 1..Len(Tail(s)) : Tail(s)[i] = s[i + 1]
  BY HeadTailProperties
<1>2. /\ DOMAIN s = 1..Len(s) /\ Len(s) \in Nat /\ Len(s) # 0
      /\ DOMAIN Tail(s) = 1..(Len(s) - 1)
  BY <1>1, LenProperties, EmptySeq, Zenon
<1>3. ASSUME NEW i \in DOMAIN s PROVE s[i] \in Range(Tail(s)) \union {Head(s)}
  <2>1. CASE i = 1
    BY <1>1, <2>1, Zenon
  <2>2. CASE i # 1
    <3>1. i - 1 \in DOMAIN Tail(s) /\ Tail(s)[i - 1] = s[i]
      BY <1>1, <1>2, <1>3, <2>2
    <3> QED  BY <3>1, Zenon DEF Range
  <2> QED  BY <2>1, <2>2, Zenon
<1>4. ASSUME NEW i \in DOMAIN Tail(s) PROVE Tail(s)[i] \in Range(s)
  <2>1. i + 1 \in DOMAIN s /\ Tail(s)[i] = s[i + 1]
    BY <1>1, <1>2, <1>4
  <2> QED  BY <2>1, Zenon DEF Range
<1>5. Head(s) \in Range(s)
  BY <1>1, <1>2 DEF Range
<1> QED  BY <1>3, <1>4, <1>5, Zenon DEF Range

\* The elements of a sequence that has grown by one, at its last index m.
Grown(s, t, e, m) ==
    /\ m \in Nat /\ DOMAIN t = DOMAIN s \union {m} /\ t[m] = e
    /\ \A i \in DOMAIN s : i \in Nat /\ i < m /\ t[i] = s[i] /\ s[i] \in Nat

LEMMA AppendGrows ==
    ASSUME NEW s \in Seq(Nat), NEW e \in Nat
    PROVE  Append(s, e) \in Seq(Nat) /\ \E m \in Nat : Grown(s, Append(s, e), e, m)
<1> DEFINE t == Append(s, e)
<1>1. /\ t \in Seq(Nat) /\ Len(t) = Len(s) + 1 /\ t[Len(s) + 1] = e
      /\ \A i \in 1..Len(s) : t[i] = s[i]
  BY AppendProperties
<1>2. /\ DOMAIN t = 1..(Len(s) + 1) /\ DOMAIN s = 1..Len(s) /\ Len(s) \in Nat
  BY <1>1, LenProperties, Zenon
<1>3. \A i \in 1..Len(s) : s[i] \in Nat
  BY ElementOfSeq, Zenon
<1> HIDE DEF t
<1>4. DOMAIN t = DOMAIN s \union {Len(s) + 1}
  BY <1>2
<1>5. Grown(s, t, e, Len(s) + 1)
  BY <1>1, <1>2, <1>3, <1>4 DEF Grown
<1> QED  BY <1>1, <1>2, <1>5 DEF t

\* An ascending sequence stays ascending when it grows by a larger element.
LEMMA GrownAscends ==
    ASSUME NEW s, NEW t, NEW e \in Nat, NEW m, Grown(s, t, e, m),
           \A i, j \in DOMAIN s : i < j => s[i] < s[j],
           \A i \in DOMAIN s : s[i] < e
    PROVE  \A i, j \in DOMAIN t : i < j => t[i] < t[j]
<1> SUFFICES ASSUME NEW i \in DOMAIN t, NEW j \in DOMAIN t, i < j PROVE t[i] < t[j]
  OBVIOUS
<1>1. i \in DOMAIN s
  BY DEF Grown
<1>2. CASE j \in DOMAIN s
  BY <1>1, <1>2, Zenon DEF Grown
<1>3. CASE j = m
  BY <1>1, <1>3, Zenon DEF Grown
<1> QED  BY <1>2, <1>3, Zenon DEF Grown

LEMMA LedgerTake ==
    ASSUME NEW q, NEW out, NEW lost, NEW n, Ledger(q, out, lost, n)
    PROVE  Ledger(Append(q, n + 1), out, lost, n + 1)
<1> DEFINE r == Append(q, n + 1)
<1>0. q \in Seq(Nat) /\ n \in Nat /\ n + 1 \in Nat /\ out \in Seq(Nat)
  BY DEF Ledger
<1>1. PICK m \in Nat : Grown(q, r, n + 1, m)
  BY <1>0, AppendGrows, Zenon
<1>2. r \in Seq(Nat) /\ Range(r) = Range(q) \union {n + 1}
  BY <1>0, AppendGrows, RangeAppend, Zenon
<1> HIDE DEF r
<1>3. \A i \in DOMAIN out : out[i] \in Nat /\ out[i] <= n
  <2>1. \A i \in DOMAIN out : out[i] \in 1..n
    BY Zenon DEF Ledger, Range
  <2> QED  BY <1>0, <2>1
<1>4. \A e \in lost : e \in Nat /\ e <= n
  <2>1. lost \subseteq 1..n
    BY Zenon DEF Ledger
  <2> QED  BY <1>0, <2>1
<1>5. \A i \in DOMAIN q : /\ q[i] \in Nat /\ 1 <= q[i] /\ q[i] <= n /\ q[i] < n + 1
                          /\ r[i] = q[i]
  BY <1>0, <1>1 DEF Ledger, Grown
<1>5a. DOMAIN r = DOMAIN q \union {m} /\ r[m] = n + 1
  BY <1>1, Zenon DEF Grown
<1>6. \A i \in DOMAIN r : 1 <= r[i] /\ r[i] <= n + 1
  BY <1>0, <1>5, <1>5a
<1>7. \A i, j \in DOMAIN r : i < j => r[i] < r[j]
  <2>1. \A i, j \in DOMAIN q : i < j => q[i] < q[j]
    BY Zenon DEF Ledger
  <2> QED  BY <1>0, <1>1, <1>5, <2>1, GrownAscends, Zenon
<1>8. \A i \in DOMAIN out, j \in DOMAIN r : out[i] < r[j]
  <2>1. \A i \in DOMAIN out, j \in DOMAIN q : out[i] < q[j]
    BY Zenon DEF Ledger
  <2>2. \A i \in DOMAIN out : out[i] < n + 1
    BY <1>0, <1>3
  <2> QED  BY <1>5, <1>5a, <2>1, <2>2, Zenon
<1>9. \A e \in lost : e \in Nat /\ \A j \in DOMAIN r : e < r[j]
  <2>1. \A e \in lost, j \in DOMAIN q : e < q[j]
    BY Zenon DEF Ledger
  <2>2. \A e \in lost : e < n + 1
    BY <1>0, <1>4
  <2> QED  BY <1>4, <1>5, <1>5a, <2>1, <2>2, Zenon
<1>10. 1..(n + 1) = Range(r) \union Range(out) \union lost
  <2>1. 1..(n + 1) = 1..n \union {n + 1}
    BY <1>0
  <2> QED  BY <1>2, <2>1, Zenon DEF Ledger
<1>11. Ledger(r, out, lost, n + 1)
  BY <1>0, <1>2, <1>6, <1>7, <1>8, <1>9, <1>10, Zenon DEF Ledger
<1> QED  BY <1>11, Zenon DEF r

\* What is left of a ledger's queue without its oldest event.
LEMMA LedgerHead ==
    ASSUME NEW q, NEW out, NEW lost, NEW n, Ledger(q, out, lost, n), q # <<>>
    PROVE  /\ Head(q) \in Nat /\ Tail(q) \in Seq(Nat) /\ Range(q) = Range(Tail(q)) \union {Head(q)}
           /\ \A j \in DOMAIN Tail(q) : /\ Tail(q)[j] \in Nat /\ Head(q) < Tail(q)[j]
                                        /\ 1 <= Tail(q)[j] /\ Tail(q)[j] <= n
                                        /\ \A i \in DOMAIN out : out[i] < Tail(q)[j]
                                        /\ \A e \in lost : e < Tail(q)[j]
           /\ \A i, j \in DOMAIN Tail(q) : i < j => Tail(q)[i] < Tail(q)[j]
           /\ \A i \in DOMAIN out : out[i] < Head(q)
           /\ \A e \in lost : e < Head(q)
<1>0. q \in Seq(Nat)
  BY Zenon DEF Ledger
<1>1. /\ Head(q) = q[1] /\ Head(q) \in Nat /\ Tail(q) \in Seq(Nat) /\ Len(Tail(q)) = Len(q) - 1
      /\ \A i \in 1..Len(Tail(q)) : Tail(q)[i] = q[i + 1]
  BY <1>0, HeadTailProperties
<1>2. /\ DOMAIN q = 1..Len(q) /\ Len(q) \in Nat /\ Len(q) # 0
      /\ DOMAIN Tail(q) = 1..(Len(q) - 1) /\ 1 \in DOMAIN q
  BY <1>0, <1>1, LenProperties, EmptySeq
<1>3. Range(q) = Range(Tail(q)) \union {Head(q)}
  BY <1>0, RangeTail, Zenon
<1>4. ASSUME NEW j \in DOMAIN Tail(q)
      PROVE  j + 1 \in DOMAIN q /\ Tail(q)[j] = q[j + 1] /\ 1 < j + 1 /\ Tail(q)[j] \in Nat
  BY <1>0, <1>1, <1>2, <1>4, ElementOfSeq
<1>5. ASSUME NEW j \in DOMAIN Tail(q)
      PROVE  /\ Head(q) < Tail(q)[j] /\ 1 <= Tail(q)[j] /\ Tail(q)[j] <= n
             /\ \A i \in DOMAIN out : out[i] < Tail(q)[j]
             /\ \A e \in lost : e < Tail(q)[j]
  BY <1>1, <1>2, <1>4, Zenon DEF Ledger
<1>6. ASSUME NEW i \in DOMAIN Tail(q), NEW j \in DOMAIN Tail(q), i < j
      PROVE  Tail(q)[i] < Tail(q)[j]
  <2>1. i + 1 < j + 1
    BY <1>2, <1>6
  <2> QED  BY <1>4, <1>6, <2>1, Zenon DEF Ledger
<1>7. (\A i \in DOMAIN out : out[i] < Head(q)) /\ \A e \in lost : e < Head(q)
  <2>1. (\A i \in DOMAIN out : out[i] < q[1]) /\ \A e \in lost : e < q[1]
    BY <1>2, Zenon DEF Ledger
  <2> QED  BY <1>1, <2>1, Zenon
<1> QED  BY <1>1, <1>3, <1>4, <1>5, <1>6, <1>7, Zenon

LEMMA LedgerSend ==
    ASSUME NEW q, NEW out, NEW lost, NEW n, Ledger(q, out, lost, n), q # <<>>
    PROVE  Ledger(Tail(q), Append(out, Head(q)), lost, n)
<1> DEFINE r == Tail(q)
           o == Append(out, Head(q))
           h == Head(q)
<1>1. /\ h \in Nat /\ r \in Seq(Nat) /\ Range(q) = Range(r) \union {h}
      /\ \A j \in DOMAIN r : /\ r[j] \in Nat /\ h < r[j] /\ 1 <= r[j] /\ r[j] <= n
                             /\ \A i \in DOMAIN out : out[i] < r[j]
                             /\ \A e \in lost : e < r[j]
      /\ \A i, j \in DOMAIN r : i < j => r[i] < r[j]
      /\ \A i \in DOMAIN out : out[i] < h
      /\ \A e \in lost : e < h
  BY LedgerHead, Zenon
<1>2. out \in Seq(Nat) /\ n \in Nat
  BY Zenon DEF Ledger
<1>3. o \in Seq(Nat) /\ Range(o) = Range(out) \union {h}
  <2>1. o \in Seq(Nat)
    BY <1>1, <1>2, AppendGrows, Zenon
  <2>2. Range(o) = Range(out) \union {h}
    BY <1>1, <1>2, RangeAppend
  <2> QED  BY <2>1, <2>2, Zenon
<1>4. PICK m \in Nat : Grown(out, o, h, m)
  BY <1>1, <1>2, AppendGrows, Zenon
<1> HIDE DEF r, o, h
<1>4a. /\ DOMAIN o = DOMAIN out \union {m} /\ o[m] = h
       /\ \A i \in DOMAIN out : o[i] = out[i]
  BY <1>4, Zenon DEF Grown
<1>5. \A i, j \in DOMAIN o : i < j => o[i] < o[j]
  <2>1. \A i, j \in DOMAIN out : i < j => out[i] < out[j]
    BY Zenon DEF Ledger
  <2> QED  BY <1>1, <1>4, <2>1, GrownAscends, Zenon
<1>6. \A i \in DOMAIN o, j \in DOMAIN r : o[i] < r[j]
  BY <1>1, <1>4a, Zenon
<1>7. \A i \in DOMAIN o : o[i] \notin lost
  <2>1. h \notin lost
    BY <1>1
  <2>2. \A i \in DOMAIN out : out[i] \notin lost
    BY Zenon DEF Ledger
  <2> QED  BY <1>4a, <2>1, <2>2, Zenon
<1>8. 1..n = Range(r) \union Range(o) \union lost
  BY <1>1, <1>3, Zenon DEF Ledger
<1>9. \A e \in lost : e \in Nat /\ \A j \in DOMAIN r : e < r[j]
  BY <1>1, Zenon DEF Ledger
<1>10. Ledger(r, o, lost, n)
  BY <1>1, <1>2, <1>3, <1>5, <1>6, <1>7, <1>8, <1>9, Zenon DEF Ledger
<1> QED  BY <1>10, Zenon DEF r, o, h

LEMMA LedgerDrop ==
    ASSUME NEW q, NEW out, NEW lost, NEW n, Ledger(q, out, lost, n), q # <<>>
    PROVE  Ledger(Tail(q), out, lost \union {Head(q)}, n) /\ Head(q) \notin lost
<1> DEFINE r == Tail(q)
           h == Head(q)
<1>1. /\ h \in Nat /\ r \in Seq(Nat) /\ Range(q) = Range(r) \union {h}
      /\ \A j \in DOMAIN r : /\ r[j] \in Nat /\ h < r[j] /\ 1 <= r[j] /\ r[j] <= n
                             /\ \A i \in DOMAIN out : out[i] < r[j]
                             /\ \A e \in lost : e < r[j]
      /\ \A i, j \in DOMAIN r : i < j => r[i] < r[j]
      /\ \A i \in DOMAIN out : out[i] < h
      /\ \A e \in lost : e < h
  BY LedgerHead, Zenon
<1> HIDE DEF r, h
<1>2. h \notin lost
  BY <1>1
<1>3. \A i \in DOMAIN out : out[i] \notin lost \union {h}
  BY <1>1 DEF Ledger
<1>4. 1..n = Range(r) \union Range(out) \union (lost \union {h})
  BY <1>1, Zenon DEF Ledger
<1>5. \A e \in lost \union {h} : e \in Nat /\ \A j \in DOMAIN r : e < r[j]
  BY <1>1, Zenon DEF Ledger
<1>6. Ledger(r, out, lost \union {h}, n)
  BY <1>1, <1>3, <1>4, <1>5, Zenon DEF Ledger
<1> QED  BY <1>2, <1>6, Zenon DEF r, h

\* The forwarder's books.
Books ==
    /\ Ledger(Waiting, sent, dropped, cur)
    /\ IsFiniteSet(dropped) /\ dropped_events_total = Cardinality(dropped)

LEMMA InitBooks == Init => Books
<1> SUFFICES ASSUME Init PROVE Books
  OBVIOUS
<1>1. Waiting = <<>> /\ sent = <<>> /\ dropped = {} /\ cur = 0
  BY Zenon DEF Init, Waiting, InHand
<1>2. Ledger(<<>>, <<>>, {}, 0)
  <2>1. Range(<<>>) = {} /\ DOMAIN <<>> = {} /\ <<>> \in Seq(Nat)
    BY EmptySeq DEF Range
  <2>2. 1..0 = {}
    OBVIOUS
  <2> QED  BY <2>1, <2>2, Zenon DEF Ledger
<1>3. IsFiniteSet({}) /\ Cardinality({}) = 0
  BY FS_EmptySet, Zenon
<1> QED  BY <1>1, <1>2, <1>3, Zenon DEF Books, Init

LEMMA NextBooks == Books /\ QueueStep => Books'
<1>1. ASSUME Books, TakeStep PROVE Books'
  <2>1. Ledger(Append(Waiting, cur + 1), sent, dropped, cur + 1)
    BY <1>1, LedgerTake, Zenon DEF Books
  <2> QED  BY <1>1, <2>1, Zenon DEF Books, TakeStep
<1>2. ASSUME Books, SendStep PROVE Books'
  <2>1. Ledger(Tail(Waiting), Append(sent, Head(Waiting)), dropped, cur)
    BY <1>2, LedgerSend, Zenon DEF Books, SendStep
  <2> QED  BY <1>2, <2>1, Zenon DEF Books, SendStep
<1>3. ASSUME Books, DropStep PROVE Books'
  <2>1. Waiting # <<>>
    <3>1. Len(<<>>) = 0
      BY EmptySeq, Zenon
    <3> QED  BY <1>3, <3>1, ForwarderConstants DEF DropStep
  <2>2. /\ Ledger(Tail(Waiting), sent, dropped \union {Head(Waiting)}, cur)
        /\ Head(Waiting) \notin dropped
    BY <1>3, <2>1, LedgerDrop, Zenon DEF Books
  <2>3. /\ IsFiniteSet(dropped \union {Head(Waiting)})
        /\ Cardinality(dropped \union {Head(Waiting)}) = Cardinality(dropped) + 1
    BY <1>3, <2>2, FS_AddElement, Zenon DEF Books
  <2> QED  BY <1>3, <2>2, <2>3, Zenon DEF Books, DropStep
<1>4. ASSUME Books, IdleStep PROVE Books'
  BY <1>4, Zenon DEF Books, IdleStep
<1> QED  BY <1>1, <1>2, <1>3, <1>4, Zenon DEF QueueStep

LEMMA BooksBalance == Sound /\ Books => Accounted
<1> SUFFICES ASSUME Sound, Books PROVE Accounted
  OBVIOUS
<1>1. pending \in Seq(1..MaxEvents) /\ pending \in Seq(Nat)
  <2>1. pending \in Seq(1..MaxEvents)
    BY Zenon DEF Sound
  <2>2. \A i \in 1..Len(pending) : pending[i] \in Nat
    <3>1. \A i \in 1..Len(pending) : pending[i] \in 1..MaxEvents
      BY <2>1, ElementOfSeq, Zenon
    <3> QED  BY <3>1
  <2> QED  BY <2>1, <2>2
<1>2. Range(Waiting) = Queued \union Current
      /\ Queued \intersect Current = {}
  <2>1. CASE InHand
    <3>1. Waiting = Append(pending, cur) /\ Current = {cur} /\ cur \in Nat
      BY <2>1 DEF Waiting, InHand, Current, Sound
    <3>2. Range(Waiting) = Queued \union {cur}
      BY <1>1, <3>1, RangeAppend DEF Queued
    <3>3. PICK m \in Nat : Grown(pending, Waiting, cur, m)
      BY <1>1, <3>1, AppendGrows, Zenon
    <3>4. \A i, j \in DOMAIN Waiting : i < j => Waiting[i] < Waiting[j]
      BY Zenon DEF Books, Ledger
    <3>5. \A i \in DOMAIN pending : pending[i] < cur /\ pending[i] \in Nat
      BY <3>3, <3>4, Zenon DEF Grown
    <3>6. cur \notin Queued
      BY <3>1, <3>5 DEF Queued, Range
    <3> QED  BY <3>1, <3>2, <3>6, Zenon
  <2>2. CASE ~ InHand
    BY <2>2, Zenon DEF Waiting, InHand, Current, Queued
  <2> QED  BY <2>1, <2>2, Zenon
<1>3. 1..cur = Range(Waiting) \union Range(sent) \union dropped
  BY Zenon DEF Books, Ledger
<1>4. Range(Waiting) \intersect Range(sent) = {}
  <2>1. /\ \A i \in DOMAIN sent, j \in DOMAIN Waiting : sent[i] < Waiting[j]
        /\ \A i \in DOMAIN sent : sent[i] \in Nat
    <3>1. sent \in Seq(Nat)
      BY Zenon DEF Sound
    <3> QED  BY <3>1, ElementOfSeq, LenProperties, Zenon DEF Books, Ledger
  <2>2. \A i \in DOMAIN sent, j \in DOMAIN Waiting : sent[i] # Waiting[j]
    BY <2>1
  <2> QED  BY <2>2, Zenon DEF Range
<1>5. Range(Waiting) \intersect dropped = {}
  <2>1. \A e \in dropped : e \in Nat /\ \A j \in DOMAIN Waiting : e < Waiting[j]
    BY Zenon DEF Books, Ledger
  <2>2. \A e \in dropped : \A j \in DOMAIN Waiting : e # Waiting[j]
    BY <2>1
  <2> QED  BY <2>2, Zenon DEF Range
<1>6. dropped \intersect Range(sent) = {}
  BY Zenon DEF Books, Ledger, Range
<1>7. dropped_events_total = Cardinality(dropped)
  BY Zenon DEF Books
<1> QED  BY <1>2, <1>3, <1>4, <1>5, <1>6, <1>7, Zenon DEF Accounted

\* No event disappears inside the agent (HubForwarder!Accounted).
THEOREM EventsAccountedFor == RollupSpec => []Accounted
<1>1. RollupInit => Sound /\ Books
  BY InitSound, InitBooks, Zenon DEF RollupInit
<1>2. Sound /\ Books /\ [RollupNext]_<<vars, rollup>> => Books'
  BY StepIsQueueStep, NextBooks, Zenon
<1> QED  BY <1>1, <1>2, NextSound, BooksBalance, PTL DEF RollupSpec

\* Events leave in the order they were taken, each once (HubForwarder!SentInOrder).
THEOREM EventsInOrder == RollupSpec => []SentInOrder
<1>1. RollupInit => Sound /\ Books
  BY InitSound, InitBooks, Zenon DEF RollupInit
<1>2. Sound /\ Books /\ [RollupNext]_<<vars, rollup>> => Books'
  BY StepIsQueueStep, NextBooks, Zenon
<1>3. Books => SentInOrder
  BY Zenon DEF Books, Ledger, SentInOrder
<1> QED  BY <1>1, <1>2, <1>3, NextSound, PTL DEF RollupSpec

-----------------------------------------------------------------------------
(* The hub's picture of the loads. *)

\* What the hub was told last is what should_forward compares with.
Pictured ==
    /\ forwarded_bindings \subseteq Bindings
    /\ last_util_values \in [Bindings -> Levels \union {None}]
    /\ told \in [Bindings -> Levels \union {None}]
    /\ latest \in [Bindings -> Levels \union {None}]
    /\ \A b \in Bindings : told[b] # None =>
          b \in forwarded_bindings /\ last_util_values[b] = told[b]
    /\ PictureHolds

LEMMA ConsumePictured ==
    ASSUME Pictured, NEW e \in Events, Consume(e) PROVE Pictured'
<1>1. CASE ~ Measures(e)
  <2>1. told' = told /\ latest' = latest
    BY <1>1, Zenon DEF Consume
  <2>2. last_util_values' = last_util_values
    BY <1>1, Zenon DEF Consume, Remember, Measures
  <2>3. forwarded_bindings \subseteq forwarded_bindings' /\ forwarded_bindings' \subseteq Bindings
    BY Zenon DEF Consume, Remember, NewBinding, Pictured
  <2> QED  BY <2>1, <2>2, <2>3, Zenon DEF Pictured, PictureHolds
<1>2. CASE Measures(e)
  <2> DEFINE k == e.key
             v == e.value
  <2>1. k \in Bindings /\ v \in Levels /\ e.type = "compute"
    BY <1>2, Zenon DEF Measures
  <2>2. latest' = [latest EXCEPT ![k] = v]
    BY <1>2, Zenon DEF Consume
  <2>3. forwarded_bindings' = forwarded_bindings \union {k}
    BY <2>1, Zenon DEF Consume, Remember, NewBinding, Pictured
  <2>4. CASE should_forward(e)
    <3>1. told' = [told EXCEPT ![k] = v] /\ last_util_values' = [last_util_values EXCEPT ![k] = v]
      BY <1>2, <2>1, <2>4, Zenon DEF Consume, Remember
    <3>2. \A b \in Bindings : told'[b] # None =>
             b \in forwarded_bindings' /\ last_util_values'[b] = told'[b]
      BY <2>1, <2>3, <3>1, Zenon DEF Pictured
    <3>3. \A b \in Bindings : ~ Swing(told'[b], latest'[b])
      BY <2>1, <2>2, <3>1, Zenon DEF Pictured, PictureHolds, Swing
    <3> QED  BY <2>1, <2>2, <2>3, <3>1, <3>2, <3>3, Zenon DEF Pictured, PictureHolds
  <2>5. CASE ~ should_forward(e)
    <3>1. told' = told /\ last_util_values' = last_util_values
      BY <2>5, Zenon DEF Consume, Remember
    <3>2. k \in forwarded_bindings /\ ~ Swing(last_util_values[k], v)
      BY <2>1, <2>5, Zenon DEF should_forward, NewBinding, Pictured
    <3>3. ~ Swing(told[k], v)
      BY <2>1, <3>2, RollupConstants, Zenon DEF Pictured, Swing
    <3>4. \A b \in Bindings : ~ Swing(told'[b], latest'[b])
      BY <2>1, <2>2, <3>1, <3>3, Zenon DEF Pictured, PictureHolds
    <3> QED  BY <2>1, <2>2, <2>3, <3>1, <3>2, <3>4, Zenon DEF Pictured, PictureHolds
  <2> QED  BY <2>4, <2>5, Zenon
<1> QED  BY <1>1, <1>2, Zenon

\* The rollup never hides a swing: the hub is never left with the opposite of
\* the load the agent measured last.
THEOREM PictureNeverOpposite == RollupSpec => []PictureHolds
<1>1. RollupInit => Pictured
  BY RollupConstants, Zenon DEF RollupInit, Pictured, PictureHolds, Swing, Levels
<1>2. Pictured /\ [RollupNext]_<<vars, rollup>> => Pictured'
  <2>1. ASSUME Pictured, UNCHANGED rollup PROVE Pictured'
    BY <2>1, Zenon DEF Pictured, PictureHolds, rollup
  <2> QED  BY <2>1, ConsumePictured, Zenon DEF RollupNext
<1>3. Pictured => PictureHolds
  BY Zenon DEF Pictured
<1> QED  BY <1>1, <1>2, <1>3, PTL DEF RollupSpec

-----------------------------------------------------------------------------
(* What the hub reads. *)

\* What is on the wires w and has been read, r, when S has been sent and D is
\* in doubt. The connections carry the events in order, what has been read of
\* one before what has not; and an event is in two places only when in doubt.
OnWires(w, S, D) ==
    /\ w \in [Conns -> Seq(Nat)]
    /\ \A c \in Conns : \A i, j \in DOMAIN w[c] : i < j => w[c][i] < w[c][j]
    /\ \A c \in Conns : \A i \in DOMAIN w[c] : w[c][i] \in S \union D
    /\ \A c, d \in Conns : \A i \in DOMAIN w[c], j \in DOMAIN w[d] :
          c # d /\ w[c][i] = w[d][j] => w[c][i] \in D
Read(r, S, D) ==
    /\ r \in Seq([event : Nat, conn : Conns])
    /\ \A i \in DOMAIN r : r[i].event \in S \union D
    /\ \A i, j \in DOMAIN r : i < j =>
          /\ r[i].event = r[j].event => r[i].event \in D
          /\ r[i].conn = r[j].conn => r[i].event < r[j].event
Between(w, r, D) ==
    \A i \in DOMAIN r, c \in Conns : \A j \in DOMAIN w[c] :
        /\ r[i].conn = c => r[i].event < w[c][j]
        /\ r[i].event = w[c][j] => r[i].event \in D
Flow(w, r, S, D) == OnWires(w, S, D) /\ Read(r, S, D) /\ Between(w, r, D)

\* All that was put on connection c has been sent.
AllSent(w, r, S, c) ==
    /\ \A j \in DOMAIN w[c] : w[c][j] \in S
    /\ \A i \in DOMAIN r : r[i].conn = c => r[i].event \in S

LEMMA FlowGrows ==
    ASSUME NEW w, NEW r, NEW S, NEW D, NEW T, NEW E, S \subseteq T, D \subseteq E,
           Flow(w, r, S, D)
    PROVE  Flow(w, r, T, E)
BY Zenon DEF Flow, OnWires, Read, Between

\* A later event is put on a connection that has carried only what was sent.
LEMMA FlowPut ==
    ASSUME NEW w, NEW r, NEW S, NEW D, NEW T, NEW E, S \subseteq T, D \subseteq E,
           Flow(w, r, S, D), NEW c \in Conns, NEW e \in Nat, AllSent(w, r, S, c),
           \A x \in S : x \in Nat /\ x < e, e \in T \union E
    PROVE  Flow([w EXCEPT ![c] = Append(@, e)], r, T, E)
<1> DEFINE v == [w EXCEPT ![c] = Append(@, e)]
<1>1. w[c] \in Seq(Nat) /\ w \in [Conns -> Seq(Nat)]
  BY Zenon DEF Flow, OnWires
<1>2. PICK m \in Nat : Grown(w[c], Append(w[c], e), e, m)
  BY <1>1, AppendGrows, Zenon
<1>3. Append(w[c], e) \in Seq(Nat)
  BY <1>1, AppendGrows, Zenon
<1>4. /\ v \in [Conns -> Seq(Nat)] /\ v[c] = Append(w[c], e)
      /\ \A d \in Conns : d # c => v[d] = w[d]
  BY <1>1, <1>3, Zenon
<1> HIDE DEF v
<1>5. /\ DOMAIN v[c] = DOMAIN w[c] \union {m} /\ v[c][m] = e
      /\ \A i \in DOMAIN w[c] : i \in Nat /\ i < m /\ v[c][i] = w[c][i] /\ w[c][i] \in Nat
  BY <1>2, <1>4, Zenon DEF Grown
<1>6. \A i \in DOMAIN w[c] : w[c][i] \in S /\ w[c][i] < e
  BY Zenon DEF AllSent
<1>7. e \notin S
  OBVIOUS
<1>8. OnWires(v, T, E)
  <2>1. \A d \in Conns : \A i, j \in DOMAIN v[d] : i < j => v[d][i] < v[d][j]
    <3>1. \A i, j \in DOMAIN v[c] : i < j => v[c][i] < v[c][j]
      BY <1>5, <1>6 DEF Flow, OnWires
    <3> QED  BY <1>4, <3>1, Zenon DEF Flow, OnWires
  <2>2. \A d \in Conns : \A i \in DOMAIN v[d] : v[d][i] \in T \union E
    BY <1>4, <1>5, Zenon DEF Flow, OnWires
  <2>3. \A d \in Conns : \A i \in DOMAIN v[c], j \in DOMAIN v[d] :
           c # d /\ v[c][i] = v[d][j] => v[c][i] \in E
    <3> SUFFICES ASSUME NEW d \in Conns, NEW i \in DOMAIN v[c], NEW j \in DOMAIN v[d],
                        c # d, v[c][i] = v[d][j]
                 PROVE  v[c][i] \in E
      OBVIOUS
    <3>1. v[d] = w[d]
      BY <1>4, Zenon
    <3>2. CASE i \in DOMAIN w[c]
      BY <1>5, <3>1, <3>2, Zenon DEF Flow, OnWires
    <3>3. CASE i = m
      BY <1>5, <1>7, <3>1, <3>3, Zenon DEF Flow, OnWires
    <3> QED  BY <1>5, <3>2, <3>3, Zenon
  <2>4. \A b, d \in Conns : \A i \in DOMAIN v[b], j \in DOMAIN v[d] :
           b # d /\ v[b][i] = v[d][j] => v[b][i] \in E
    <3> SUFFICES ASSUME NEW b \in Conns, NEW d \in Conns, NEW i \in DOMAIN v[b],
                        NEW j \in DOMAIN v[d], b # d, v[b][i] = v[d][j]
                 PROVE  v[b][i] \in E
      OBVIOUS
    <3>1. CASE b = c
      BY <2>3, <3>1, Zenon
    <3>2. CASE d = c
      <4>1. v[c][j] = v[b][i]
        BY <3>2, Zenon
      <4> QED  BY <2>3, <3>2, <4>1, Zenon
    <3>3. CASE b # c /\ d # c
      BY <1>4, <3>3, Zenon DEF Flow, OnWires
    <3> QED  BY <3>1, <3>2, <3>3, Zenon
  <2> QED  BY <1>4, <2>1, <2>2, <2>4, Zenon DEF OnWires
<1>9. Between(v, r, E)
  <2> SUFFICES ASSUME NEW i \in DOMAIN r, NEW d \in Conns, NEW j \in DOMAIN v[d]
               PROVE  /\ r[i].conn = d => r[i].event < v[d][j]
                      /\ r[i].event = v[d][j] => r[i].event \in E
    BY Zenon DEF Between
  <2>1. CASE d # c \/ j \in DOMAIN w[c]
    <3>1. j \in DOMAIN w[d] /\ v[d][j] = w[d][j]
      BY <1>4, <1>5, <2>1, Zenon
    <3> QED  BY <3>1, Zenon DEF Flow, Between
  <2>2. CASE d = c /\ j = m
    BY <1>5, <1>7, <2>2, Zenon DEF Flow, Read, AllSent
  <2> QED  BY <1>5, <2>1, <2>2, Zenon
<1>10. Read(r, T, E)
  BY Zenon DEF Flow, Read
<1> QED  BY <1>8, <1>9, <1>10, Zenon DEF Flow, v

\* A connection loses the end of what is on it.
LEMMA FlowCut ==
    ASSUME NEW w, NEW r, NEW S, NEW D, Flow(w, r, S, D), NEW c \in Conns,
           NEW n \in 0..Len(w[c])
    PROVE  LET v == [w EXCEPT ![c] = SubSeq(@, 1, n)]
           IN  /\ Flow(v, r, S, D)
               /\ \A d \in Conns : AllSent(w, r, S, d) => AllSent(v, r, S, d)
<1> DEFINE v == [w EXCEPT ![c] = SubSeq(@, 1, n)]
<1>1. w[c] \in Seq(Nat) /\ w \in [Conns -> Seq(Nat)]
  BY Zenon DEF Flow, OnWires
<1>2. Len(w[c]) \in Nat /\ DOMAIN w[c] = 1..Len(w[c]) /\ n \in Nat
  BY <1>1, LenProperties
<1>3. /\ SubSeq(w[c], 1, n) \in Seq(Nat) /\ DOMAIN SubSeq(w[c], 1, n) = 1..n
      /\ \A i \in 1..n : SubSeq(w[c], 1, n)[i] = w[c][i]
  BY <1>1, <1>2
<1>4. /\ v \in [Conns -> Seq(Nat)] /\ v[c] = SubSeq(w[c], 1, n)
      /\ \A d \in Conns : d # c => v[d] = w[d]
  BY <1>1, <1>3, Zenon
<1> HIDE DEF v
<1>5. \A d \in Conns : \A i \in DOMAIN v[d] : i \in DOMAIN w[d] /\ v[d][i] = w[d][i]
  BY <1>2, <1>3, <1>4, SMTT(30)
<1>6. OnWires(v, S, D) /\ Between(v, r, D)
  BY <1>4, <1>5, SMTT(30) DEF Flow, OnWires, Between
<1>7. \A d \in Conns : AllSent(w, r, S, d) => AllSent(v, r, S, d)
  BY <1>5, Zenon DEF AllSent
<1> QED  BY <1>6, <1>7, Zenon DEF Flow, v

\* The hub reads the first event on a connection.
LEMMA FlowRead ==
    ASSUME NEW w, NEW r, NEW S, NEW D, Flow(w, r, S, D), NEW c \in Conns, w[c] # <<>>
    PROVE  LET v == [w EXCEPT ![c] = Tail(@)]
               q == Append(r, [event |-> Head(w[c]), conn |-> c])
           IN  /\ Flow(v, q, S, D)
               /\ \A d \in Conns : AllSent(w, r, S, d) => AllSent(v, q, S, d)
<1> DEFINE v == [w EXCEPT ![c] = Tail(@)]
           e == Head(w[c])
           q == Append(r, [event |-> e, conn |-> c])
           m == Len(r) + 1
<1>1. w[c] \in Seq(Nat) /\ w \in [Conns -> Seq(Nat)]
  BY Zenon DEF Flow, OnWires
<1>2. /\ e = w[c][1] /\ e \in Nat /\ Tail(w[c]) \in Seq(Nat)
      /\ 1 \in DOMAIN w[c]
      /\ \A i \in DOMAIN Tail(w[c]) : /\ i + 1 \in DOMAIN w[c] /\ 1 < i + 1 /\ i \in Nat
                                      /\ Tail(w[c])[i] = w[c][i + 1]
  <2>1. /\ Head(w[c]) = w[c][1] /\ Tail(w[c]) \in Seq(Nat) /\ Len(Tail(w[c])) = Len(w[c]) - 1
        /\ \A i \in 1..Len(Tail(w[c])) : Tail(w[c])[i] = w[c][i + 1]
    BY <1>1, HeadTailProperties
  <2>2. /\ DOMAIN w[c] = 1..Len(w[c]) /\ Len(w[c]) \in Nat /\ Len(w[c]) # 0
        /\ DOMAIN Tail(w[c]) = 1..(Len(w[c]) - 1)
    BY <1>1, <2>1, LenProperties, EmptySeq, Zenon
  <2>3. w[c][1] \in Nat
    BY <1>1, <2>2, ElementOfSeq, SMTT(30)
  <2> QED  BY <2>1, <2>2, <2>3
<1>3. r \in Seq([event : Nat, conn : Conns]) /\ [event |-> e, conn |-> c] \in [event : Nat, conn : Conns]
  BY <1>2, Zenon DEF Flow, Read
<1>4. /\ q \in Seq([event : Nat, conn : Conns]) /\ DOMAIN q = DOMAIN r \union {m}
      /\ q[m] = [event |-> e, conn |-> c]
      /\ \A i \in DOMAIN r : q[i] = r[i] /\ i < m /\ i \in Nat
      /\ m \in Nat
  <2>1. /\ q \in Seq([event : Nat, conn : Conns]) /\ Len(q) = Len(r) + 1
        /\ q[Len(r) + 1] = [event |-> e, conn |-> c]
        /\ \A i \in 1..Len(r) : q[i] = r[i]
    BY <1>3, AppendProperties
  <2>2. DOMAIN q = 1..(Len(r) + 1) /\ DOMAIN r = 1..Len(r) /\ Len(r) \in Nat
    BY <1>3, <2>1, LenProperties, Zenon
  <2> HIDE DEF q
  <2> QED  BY <2>1, <2>2
<1>5. /\ v \in [Conns -> Seq(Nat)] /\ v[c] = Tail(w[c])
      /\ \A d \in Conns : d # c => v[d] = w[d]
  BY <1>1, <1>2, Zenon
<1>6. q[m].event = e /\ q[m].conn = c
  BY <1>4
<1> HIDE DEF v, q, m, e
\* What is on a wire afterwards was there before, behind the first.
<1>7. \A d \in Conns : \A i \in DOMAIN v[d] :
         \E k \in DOMAIN w[d] : v[d][i] = w[d][k] /\ (d = c => k = i + 1 /\ 1 < k) /\ (d # c => k = i)
  <2> SUFFICES ASSUME NEW d \in Conns, NEW i \in DOMAIN v[d]
               PROVE  \E k \in DOMAIN w[d] :
                         v[d][i] = w[d][k] /\ (d = c => k = i + 1 /\ 1 < k) /\ (d # c => k = i)
    OBVIOUS
  <2>1. CASE d = c
    <3>1. /\ i + 1 \in DOMAIN w[c] /\ v[c][i] = w[c][i + 1] /\ 1 < i + 1
      BY <1>2, <1>5, <2>1, Zenon
    <3> QED  BY <2>1, <3>1, Zenon
  <2>2. CASE d # c
    BY <1>5, <2>2, Zenon
  <2> QED  BY <2>1, <2>2, Zenon
<1>8. \A i \in DOMAIN v[c] : e < v[c][i] /\ v[c][i] \in S \union D
  <2> SUFFICES ASSUME NEW i \in DOMAIN v[c] PROVE e < v[c][i] /\ v[c][i] \in S \union D
    OBVIOUS
  <2>1. PICK k \in DOMAIN w[c] : v[c][i] = w[c][k] /\ 1 < k
    BY <1>7, Zenon
  <2> QED  BY <1>2, <2>1, Zenon DEF Flow, OnWires
<1>9. OnWires(v, S, D)
  <2>1. \A d \in Conns : \A i, j \in DOMAIN v[d] : i < j => v[d][i] < v[d][j]
    <3>1. \A i, j \in DOMAIN v[c] : i < j => v[c][i] < v[c][j]
      <4> SUFFICES ASSUME NEW i \in DOMAIN v[c], NEW j \in DOMAIN v[c], i < j
                   PROVE  v[c][i] < v[c][j]
        OBVIOUS
      <4>1. /\ i + 1 \in DOMAIN w[c] /\ v[c][i] = w[c][i + 1] /\ i \in Nat
            /\ j + 1 \in DOMAIN w[c] /\ v[c][j] = w[c][j + 1] /\ j \in Nat
        BY <1>2, <1>5, Zenon
      <4>2. i + 1 < j + 1
        BY <4>1
      <4> QED  BY <4>1, <4>2, Zenon DEF Flow, OnWires
    <3> QED  BY <1>5, <3>1, Zenon DEF Flow, OnWires
  <2>2. \A d \in Conns : \A i \in DOMAIN v[d] : v[d][i] \in S \union D
    BY <1>5, <1>8, Zenon DEF Flow, OnWires
  <2>3. \A b, d \in Conns : \A i \in DOMAIN v[b], j \in DOMAIN v[d] :
           b # d /\ v[b][i] = v[d][j] => v[b][i] \in D
    <3> SUFFICES ASSUME NEW b \in Conns, NEW d \in Conns, NEW i \in DOMAIN v[b],
                        NEW j \in DOMAIN v[d], b # d, v[b][i] = v[d][j]
                 PROVE  v[b][i] \in D
      OBVIOUS
    <3>1. PICK k \in DOMAIN w[b] : v[b][i] = w[b][k]
      BY <1>7, Zenon
    <3>2. PICK l \in DOMAIN w[d] : v[d][j] = w[d][l]
      BY <1>7, Zenon
    <3> QED  BY <3>1, <3>2, Zenon DEF Flow, OnWires
  <2> QED  BY <1>5, <2>1, <2>2, <2>3, Zenon DEF OnWires
<1>10. Read(q, S, D)
  <2>1. \A i \in DOMAIN q : q[i].event \in S \union D
    BY <1>2, <1>4, <1>6, SMTT(30) DEF Flow, Read, OnWires
  <2>2. \A i \in DOMAIN r : /\ r[i].event = e => r[i].event \in D
                            /\ r[i].conn = c => r[i].event < e
    BY <1>2, Zenon DEF Flow, Between
  <2>3. ASSUME NEW i \in DOMAIN q, NEW j \in DOMAIN q, i < j
        PROVE  /\ q[i].event = q[j].event => q[i].event \in D
               /\ q[i].conn = q[j].conn => q[i].event < q[j].event
    <3>1. i \in DOMAIN r /\ q[i] = r[i]
      BY <1>4, <2>3, SMTT(30)
    <3>2. CASE j \in DOMAIN r
      BY <1>4, <2>3, <3>1, <3>2, Zenon DEF Flow, Read
    <3>3. CASE j = m
      BY <1>6, <2>2, <3>1, <3>3, Zenon
    <3> QED  BY <1>4, <3>2, <3>3, Zenon
  <2> QED  BY <1>4, <2>1, <2>3, Zenon DEF Read
<1>11. Between(v, q, D)
  <2> SUFFICES ASSUME NEW i \in DOMAIN q, NEW d \in Conns, NEW j \in DOMAIN v[d]
               PROVE  /\ q[i].conn = d => q[i].event < v[d][j]
                      /\ q[i].event = v[d][j] => q[i].event \in D
    BY Zenon DEF Between
  <2>1. PICK k \in DOMAIN w[d] : v[d][j] = w[d][k]
    BY <1>7, Zenon
  <2>2. CASE i \in DOMAIN r
    BY <1>4, <2>1, <2>2, Zenon DEF Flow, Between
  <2>3. CASE i = m /\ d = c
    BY <1>6, <1>8, <1>2, <2>3, <2>1, SMTT(30) DEF Flow, OnWires
  <2>4. CASE i = m /\ d # c
    BY <1>6, <1>2, <2>4, <2>1 DEF Flow, OnWires
  <2> QED  BY <1>4, <2>2, <2>3, <2>4, Zenon
<1>12. \A d \in Conns : AllSent(w, r, S, d) => AllSent(v, q, S, d)
  <2> SUFFICES ASSUME NEW d \in Conns, AllSent(w, r, S, d) PROVE AllSent(v, q, S, d)
    OBVIOUS
  <2>1. \A j \in DOMAIN v[d] : v[d][j] \in S
    BY <1>7, Zenon DEF AllSent
  <2>2. \A i \in DOMAIN q : q[i].conn = d => q[i].event \in S
    BY <1>2, <1>4, <1>6, SMTT(30) DEF AllSent
  <2> QED  BY <2>1, <2>2, Zenon DEF AllSent
<1> QED  BY <1>9, <1>10, <1>11, <1>12, Zenon DEF Flow, v, q, e

\* The wires, what has been read, and what the forwarder knows of both. A
\* connection on which no send has failed has carried only what was sent.
Delivery ==
    /\ Flow(wire, received, Range(sent), doubtful)
    /\ \A c \in Conns : state[c] # "failed" => AllSent(wire, received, Range(sent), c)

\* What was sent is older than what is to be sent next.
LEMMA SentIsOlder ==
    ASSUME Sound, Books, Waiting # <<>>
    PROVE  \A x \in Range(sent) : x \in Nat /\ x < Head(Waiting)
<1>1. Waiting \in Seq(Nat) /\ sent \in Seq(Nat)
  BY Zenon DEF Books, Ledger
<1>2. Head(Waiting) = Waiting[1] /\ 1 \in DOMAIN Waiting
  BY <1>1, HeadTailProperties, LenProperties, EmptySeq
<1>3. \A i \in DOMAIN sent : sent[i] \in Nat
  BY <1>1, ElementOfSeq, LenProperties, Zenon
<1> QED  BY <1>2, <1>3 DEF Books, Ledger, Range

LEMMA OkDelivers ==
    ASSUME Sound, Delivery, NEW e \in Nat, SendOk(e), \A x \in Range(sent) : x \in Nat /\ x < e
    PROVE  Delivery'
<1>1. /\ sender \in Conns /\ state[sender] # "failed" /\ state' = state
      /\ received' = received /\ doubtful' = doubtful /\ sent' = Append(sent, e)
  BY ForwarderConstants DEF Sound, SendOk, Usable, Conns
<1>2. Range(sent') = Range(sent) \union {e}
  BY <1>1, RangeAppend, SMTT(30) DEF Sound
<1>3. CASE state[sender] # "up"
  <2>1. wire' = wire
    BY <1>3, Zenon DEF SendOk
  <2>2. Flow(wire, received, Range(sent'), doubtful)
    BY <1>2, FlowGrows, Zenon DEF Delivery
  <2> QED  BY <1>1, <1>2, <2>1, <2>2, Zenon DEF Delivery, AllSent
<1>4. CASE state[sender] = "up"
  <2>1. wire' = [wire EXCEPT ![sender] = Append(@, e)]
    BY <1>4, Zenon DEF SendOk
  <2>2. AllSent(wire, received, Range(sent), sender)
    BY <1>1, Zenon DEF Delivery
  <2>3. Flow(wire', received, Range(sent'), doubtful)
    BY <1>1, <1>2, <2>1, <2>2, FlowPut, Zenon DEF Delivery
  <2>4. wire \in [Conns -> Seq(Nat)] /\ wire[sender] \in Seq(Nat)
    BY <1>1, Zenon DEF Delivery, Flow, OnWires
  <2>5. PICK m \in Nat : Grown(wire[sender], Append(wire[sender], e), e, m)
    BY <2>4, AppendGrows, Zenon
  <2>6. /\ wire'[sender] = Append(wire[sender], e)
        /\ \A d \in Conns : d # sender => wire'[d] = wire[d]
    BY <1>1, <2>1, <2>4, Zenon
  <2>7. \A j \in DOMAIN wire'[sender] : wire'[sender][j] \in Range(sent')
    BY <1>2, <2>2, <2>5, <2>6, Zenon DEF Grown, AllSent
  <2>8. \A d \in Conns : state[d] # "failed" => AllSent(wire', received, Range(sent'), d)
    BY <1>1, <1>2, <2>6, <2>7, Zenon DEF Delivery, AllSent
  <2> QED  BY <1>1, <2>3, <2>8, Zenon DEF Delivery
<1> QED  BY <1>3, <1>4, Zenon

LEMMA FailDelivers ==
    ASSUME Sound, Delivery, NEW e \in Nat, SendFails(e),
           Usable => \A x \in Range(sent) : x \in Nat /\ x < e
    PROVE  Delivery'
<1>1. received' = received /\ sent' = sent
  BY Zenon DEF SendFails
<1>2. CASE ~ Usable
  BY <1>1, <1>2, Zenon DEF SendFails, Delivery
<1>3. CASE Usable
  <2>1. sender \in Conns /\ state[sender] # "failed"
    BY <1>3, ForwarderConstants DEF Sound, Usable, Conns
  <2>2. state' = [state EXCEPT ![sender] = "failed"]
    BY <1>3, Zenon DEF SendFails
  <2>3. state'[sender] = "failed" /\ \A d \in Conns : d # sender => state'[d] = state[d]
    BY <2>1, <2>2, Zenon DEF Sound
  <2>4. CASE wire' = wire /\ doubtful' = doubtful
    BY <1>1, <2>3, <2>4, Zenon DEF Delivery
  <2>5. CASE /\ wire' = [wire EXCEPT ![sender] = Append(@, e)]
             /\ doubtful' = doubtful \union {e}
    <3>1. AllSent(wire, received, Range(sent), sender)
      BY <2>1, Zenon DEF Delivery
    <3>2. Flow(wire', received, Range(sent), doubtful')
      BY <1>3, <2>1, <2>5, <3>1, FlowPut, Zenon DEF Delivery
    <3>3. \A d \in Conns : d # sender => wire'[d] = wire[d]
      BY <2>5, Zenon DEF Delivery, Flow, OnWires
    <3>4. \A d \in Conns : state'[d] # "failed" => AllSent(wire', received, Range(sent), d)
      BY <2>3, <3>3, Zenon DEF Delivery, AllSent
    <3> QED  BY <1>1, <3>2, <3>4, Zenon DEF Delivery
  <2> QED  BY <1>3, <2>4, <2>5, Zenon DEF SendFails
<1> QED  BY <1>2, <1>3, Zenon

\* A step that touches neither the wires nor the books.
LEMMA QuietDelivers ==
    ASSUME Delivery, UNCHANGED <<wire, received, sent, doubtful>>,
           \A c \in Conns : state'[c] # "failed" => state[c] # "failed"
    PROVE  Delivery'
BY Zenon DEF Delivery

LEMMA ReconnectKeeps ==
    ASSUME Sound, ReconnectOk \/ ReconnectFails
    PROVE  \A c \in Conns : state'[c] # "failed" => state[c] # "failed"
BY Zenon DEF Sound, ReconnectOk, ReconnectFails

LEMMA NextDelivery == Sound /\ Books /\ Delivery /\ [RollupNext]_<<vars, rollup>> => Delivery'
<1> SUFFICES ASSUME Sound, Books, Delivery, [RollupNext]_<<vars, rollup>> PROVE Delivery'
  OBVIOUS
<1>1. ASSUME Forward PROVE Delivery'
  BY <1>1, QuietDelivers, Zenon DEF Forward
<1>2. ASSUME flush_pending_events PROVE Delivery'
  <2>1. pending # <<>> /\ Head(pending) \in Nat
    BY <1>2, HeadIsNat, Zenon DEF flush_pending_events
  <2>2. Waiting # <<>> /\ Head(Waiting) = Head(pending)
    <3>1. InHand => cur \in 1..MaxEvents
      BY ForwarderConstants DEF Sound
    <3> QED  BY <2>1, <3>1, AppendEnds DEF Waiting, Sound
  <2>3. \A x \in Range(sent) : x \in Nat /\ x < Head(pending)
    BY <2>2, SentIsOlder, Zenon
  <2>4. SendOk(Head(pending)) \/ SendFails(Head(pending))
    BY <1>2, Zenon DEF flush_pending_events
  <2> QED  BY <2>1, <2>3, <2>4, OkDelivers, FailDelivers, Zenon
<1>3. ASSUME FlushDone PROVE Delivery'
  BY <1>3, QuietDelivers, Zenon DEF FlushDone
<1>4. ASSUME ReconnectAfterFlush PROVE Delivery'
  BY <1>4, ReconnectKeeps, QuietDelivers, Zenon DEF ReconnectAfterFlush
<1>5. ASSUME SendCurrent PROVE Delivery'
  <2>1. pc = "send" /\ InHand /\ cur \in 1..MaxEvents /\ cur \in Nat
    BY <1>5, ForwarderConstants DEF SendCurrent, Sound, InHand
  <2>2. ASSUME Usable PROVE \A x \in Range(sent) : x \in Nat /\ x < cur
    <3>1. pending = <<>>
      BY <2>1, <2>2, Zenon DEF Sound
    <3>2. Waiting # <<>> /\ Head(Waiting) = cur
      BY <2>1, <3>1, AppendEnds DEF Waiting, Sound
    <3> QED  BY <3>2, SentIsOlder, Zenon
  <2>3. SendOk(cur) \/ SendFails(cur)
    BY <1>5, Zenon DEF SendCurrent
  <2>4. SendOk(cur) => Usable
    BY Zenon DEF SendOk
  <2> QED  BY <2>1, <2>2, <2>3, <2>4, OkDelivers, FailDelivers, Zenon
<1>6. ASSUME ReconnectAndDrain PROVE Delivery'
  BY <1>6, ReconnectKeeps, QuietDelivers, Zenon DEF ReconnectAndDrain
<1>7. ASSUME NEW c \in Conns, Cut(c) PROVE Delivery'
  <2>1. PICK n \in 0..Len(wire[c]) : wire' = [wire EXCEPT ![c] = SubSeq(@, 1, n)]
    BY <1>7, Zenon DEF Cut
  <2>2. UNCHANGED <<received, sent, doubtful>>
    BY <1>7, Zenon DEF Cut
  <2>3. \A d \in Conns : state'[d] # "failed" => state[d] # "failed"
    BY <1>7, Zenon DEF Cut, Sound
  <2>4. /\ Flow(wire', received, Range(sent), doubtful)
        /\ \A d \in Conns : AllSent(wire, received, Range(sent), d)
                            => AllSent(wire', received, Range(sent), d)
    BY <2>1, FlowCut, Zenon DEF Delivery
  <2> QED  BY <2>2, <2>3, <2>4, Zenon DEF Delivery
<1>8. ASSUME NEW c \in Conns, HubReads(c) PROVE Delivery'
  <2>1. /\ wire[c] # <<>> /\ wire' = [wire EXCEPT ![c] = Tail(@)]
        /\ received' = Append(received, [event |-> Head(wire[c]), conn |-> c])
        /\ UNCHANGED <<state, sent, doubtful>>
    BY <1>8, Zenon DEF HubReads
  <2>2. /\ Flow(wire', received', Range(sent), doubtful)
        /\ \A d \in Conns : AllSent(wire, received, Range(sent), d)
                            => AllSent(wire', received', Range(sent), d)
    BY <2>1, FlowRead, Zenon DEF Delivery
  <2> QED  BY <2>1, <2>2, Zenon DEF Delivery
<1>9. ASSUME UNCHANGED vars PROVE Delivery'
  BY <1>9, QuietDelivers, Zenon DEF vars
<1> QED
  BY <1>1, <1>2, <1>3, <1>4, <1>5, <1>6, <1>7, <1>8, <1>9, SMTT(30)
  DEF RollupNext, Agent, Consume

LEMMA InitDelivery == Init => Delivery
<1> SUFFICES ASSUME Init PROVE Delivery
  OBVIOUS
<1>1. DOMAIN <<>> = {} /\ <<>> \in Seq(Nat) /\ <<>> \in Seq([event : Nat, conn : Conns])
  OBVIOUS
<1>2. \A c \in Conns : DOMAIN wire[c] = {}
  BY <1>1, Zenon DEF Init
<1>3. wire \in [Conns -> Seq(Nat)]
  BY <1>1, Zenon DEF Init
<1>4. received \in Seq([event : Nat, conn : Conns]) /\ DOMAIN received = {}
  BY <1>1, Zenon DEF Init
<1> QED  BY <1>2, <1>3, <1>4, Zenon DEF Delivery, Flow, OnWires, Read, Between, AllSent

\* The hub reads an event twice only when a send of it failed after the bytes
\* had left, and the events of one connection in order, however connections
\* are cut and replaced while older ones are still being read
\* (HubForwarder!HubSees).
THEOREM HubReadsInOrder == RollupSpec => []HubSees
<1>1. RollupInit => Sound /\ Books /\ Delivery
  BY InitSound, InitBooks, InitDelivery, Zenon DEF RollupInit
<1>2. Sound /\ Books /\ [RollupNext]_<<vars, rollup>> => Books'
  BY StepIsQueueStep, NextBooks, Zenon
<1>3. Delivery => HubSees
  BY Zenon DEF Delivery, Flow, Read, HubSees
<1> QED  BY <1>1, <1>2, <1>3, NextSound, NextDelivery, PTL DEF RollupSpec

=============================================================================
