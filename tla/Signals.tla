------------------------------ MODULE Signals ------------------------------
(***************************************************************************)
(* The signal engine (core/src/signals/signal.rs) and how the graph keeps  *)
(* what it emits (update_signals in core/src/graph.rs): one signal of one  *)
(* entity, a window of samples from which a value is computed at most once *)
(* per step.                                                               *)
(*                                                                         *)
(* Callers are the tasks that process events. on_event runs in one section *)
(* of the engine's lock, the node is written in a later section of the     *)
(* node table's lock. Timestamps come with the events, in any order.       *)
(***************************************************************************)
EXTENDS Naturals, Sequences, Functions, TLC

CONSTANTS
    Callers,        \* tasks that call process_event
    Values,         \* samples of a gauge; a counter's samples are all 1
    window_ms, step_ms,
    MaxTs,          \* bound: the largest timestamp
    MaxSamples,     \* bound: the number of samples
    NoPoint         \* nothing emitted

ASSUME SignalConstants ==
    /\ window_ms \in Nat /\ step_ms \in Nat /\ MaxTs \in Nat /\ MaxSamples \in Nat
    /\ Values \subseteq Nat

Samples == [ts : 0..MaxTs, value : Values]
Points == [ts : 0..MaxTs, sum : Nat, count : Nat]

ASSUME NoPointIsNone == NoPoint \notin Points

VARIABLES
    samples,        \* states[key]: the samples of the window, oldest arrival first
    last_emit_ts,   \* last_emit_ts[key], or NoPoint
    caller,         \* per caller: the points that on_event returned, yet to be written
    signal,         \* the node signal::<name>::<entity> of the graph, or NoPoint
    \* history
    arrived,        \* every sample, in the order of arrival
    emitted,        \* the last point emitted, or NoPoint
    rivals          \* the points that were yet to be written when it was emitted

signalVars == <<samples, last_emit_ts, caller, signal, arrived, emitted, rivals>>

SignalInit ==
    /\ samples = <<>> /\ last_emit_ts = NoPoint
    /\ caller = [c \in Callers |-> <<>>]
    /\ signal = NoPoint
    /\ arrived = <<>> /\ emitted = NoPoint /\ rivals = {}

-----------------------------------------------------------------------------
(* on_event. *)

monus(a, b) == IF a < b THEN 0 ELSE a - b

\* Mutant: samples of exactly the window's age go too.
trim_Strict(s, now_ts) ==
    LET live == {i \in DOMAIN s : s[i].ts > monus(now_ts, window_ms) \/ i = Len(s)} IN
    SubSeq(s, CHOOSE i \in live : \A j \in live : i <= j, Len(s))

\* Samples are popped from the front while they are too old, so that one that
\* is not keeps the older ones that arrived after it. (The sample just pushed
\* carries now_ts: the loop never empties the window.)
trim(s, now_ts) ==
    LET live == {i \in DOMAIN s : s[i].ts >= monus(now_ts, window_ms)} IN
    SubSeq(s, CHOOSE i \in live : \A j \in live : i <= j, Len(s))

\* The value is sum / count for a gauge and count / window for a counter.
compute_value(s) ==
    [sum |-> FoldFunction(LAMBDA x, acc : x.value + acc, 0, s), count |-> Len(s)]

should_emit(ts) == last_emit_ts = NoPoint \/ monus(ts, last_emit_ts) >= step_ms

\* The first section of update_signals, for an event from which extract_sample
\* takes the sample x.
on_event(c, x) ==
    /\ caller[c] = <<>>
    /\ Len(arrived) < MaxSamples
    /\ arrived' = Append(arrived, x)
    /\ samples' = trim(Append(samples, x), x.ts)
    /\ IF should_emit(x.ts)
       THEN /\ emitted' = [ts |-> x.ts] @@ compute_value(samples')
            /\ last_emit_ts' = x.ts
            /\ caller' = [caller EXCEPT ![c] = <<emitted'>>]
            /\ rivals' = {Head(caller[d]) : d \in {d \in Callers : caller[d] # <<>>}}
       ELSE UNCHANGED <<emitted, last_emit_ts, caller, rivals>>
    /\ UNCHANGED signal

\* Mutant: a point only fills an empty place.
InsertNode_Once(c) ==
    /\ caller[c] # <<>>
    /\ signal' = IF signal = NoPoint THEN Head(caller[c]) ELSE signal
    /\ caller' = [caller EXCEPT ![c] = <<>>]
    /\ UNCHANGED <<samples, last_emit_ts, arrived, emitted, rivals>>

\* The second section: the node is replaced, whatever its last_update.
InsertNode(c) ==
    /\ caller[c] # <<>>
    /\ signal' = Head(caller[c])
    /\ caller' = [caller EXCEPT ![c] = <<>>]
    /\ UNCHANGED <<samples, last_emit_ts, arrived, emitted, rivals>>

SignalNext ==
    \E c \in Callers : InsertNode(c) \/ \E x \in Samples : on_event(c, x)

SignalSpec == SignalInit /\ [][SignalNext]_signalVars

-----------------------------------------------------------------------------
(* Properties. *)

IsSuffixOf(s, t) == Len(s) <= Len(t) /\ s = SubSeq(t, Len(t) - Len(s) + 1, Len(t))

\* However late or early events arrive, no sample that lies in the window of
\* the newest one is missing from the window, and while events arrive in the
\* order of their timestamps the window holds nothing else.
WindowExact ==
    LET gone == Len(arrived) - Len(samples)
        InOrder == \A i, j \in DOMAIN arrived : i < j => arrived[i].ts <= arrived[j].ts IN
    /\ IsSuffixOf(samples, arrived)
    /\ \A i \in 1..gone : \E j \in DOMAIN arrived : arrived[i].ts + window_ms < arrived[j].ts
    /\ InOrder => \A i \in DOMAIN samples :
                      samples[i].ts + window_ms >= arrived[Len(arrived)].ts

\* Two callers may write their points in the opposite order, and then the graph
\* shows the older one; but never longer than until the next point: when no
\* caller has a point left to write, it shows the last one emitted, or one that
\* was yet to be written when that was emitted.
NodeIsRecent ==
    (\A c \in Callers : caller[c] = <<>>) => signal \in {emitted} \union rivals

=============================================================================
