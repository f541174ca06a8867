----------------------------- MODULE EdgeRollup -----------------------------
(***************************************************************************)
(* The consumer loop of run_daemon (agent/src/main.rs): it takes an event  *)
(* from the bus, asks should_forward (agent/src/hub_forwarder.rs) whether  *)
(* the hub should hear of it, and waits for forward_event_with_retry,      *)
(* which HubForwarder models, before it takes the next one.                *)
(*                                                                         *)
(* Of an event only what should_forward looks at is kept: whether its type *)
(* is always forwarded, measures a resource's load, binds a process to a   *)
(* resource or is never forwarded; the pid and entity; and its value, as   *)
(* above 80, below 1, between, or no number.                               *)
(***************************************************************************)
EXTENDS HubForwarder

CONSTANTS
    Bindings,       \* pairs of a pid and an entity
    NoPid,          \* the event carries no pid
    None            \* no utilization recorded

ASSUME RollupConstants == NoPid \notin Bindings /\ None \notin {"low", "mid", "high"}

VARIABLES
    forwarded_bindings,
    last_util_values,
    \* history, per binding
    told,           \* the last load an event for the hub has carried
    latest          \* the last load an event from the probe has carried

rollup == <<forwarded_bindings, last_util_values, told, latest>>

Levels == {"low", "mid", "high"}

\* ErrorHw, ErrorNet, ProcessState, TransportDrop, TopoLinkDown; ComputeUtil
\* and ComputeMem; StorageIops, StorageQDepth and TransportBw; the others.
Events ==
    [type : {"always", "bind", "never"}, key : {NoPid}, value : {"text"}]
        \union [type : {"bind"}, key : Bindings, value : {"text"}]
        \union [type : {"compute"}, key : Bindings \union {NoPid}, value : Levels \union {"text"}]

RollupInit ==
    /\ Init
    /\ forwarded_bindings = {}
    /\ last_util_values = [b \in Bindings |-> None]
    /\ told = [b \in Bindings |-> None]
    /\ latest = [b \in Bindings |-> None]

-----------------------------------------------------------------------------
(* should_forward. *)

NewBinding(e) == e.key \in Bindings \ forwarded_bindings

Swing(last, current) == <<last, current>> \in {<<"high", "low">>, <<"low", "high">>}

should_forward(e) ==
    \/ e.type = "always"
    \/ e.type \in {"bind", "compute"} /\ NewBinding(e)
    \/ /\ e.type = "compute" /\ e.key \in forwarded_bindings
       /\ Swing(last_util_values[e.key], e.value)

\* Mutant: a swing is reported and not remembered.
Remember_FirstOnly(e) ==
    /\ forwarded_bindings' = IF e.type \in {"bind", "compute"} /\ NewBinding(e)
                             THEN forwarded_bindings \union {e.key} ELSE forwarded_bindings
    /\ last_util_values' =
         IF e.type = "compute" /\ e.value \in Levels /\ NewBinding(e)
         THEN [last_util_values EXCEPT ![e.key] = e.value] ELSE last_util_values

\* What it remembers of an event it lets through: the binding, whether or not
\* the event will reach the hub, and the load when the event carries one.
Remember(e) ==
    /\ forwarded_bindings' = IF e.type \in {"bind", "compute"} /\ NewBinding(e)
                             THEN forwarded_bindings \union {e.key} ELSE forwarded_bindings
    /\ last_util_values' =
         IF e.type = "compute" /\ e.value \in Levels /\ e.key \in Bindings /\ should_forward(e)
         THEN [last_util_values EXCEPT ![e.key] = e.value] ELSE last_util_values

-----------------------------------------------------------------------------

Measures(e) == e.type = "compute" /\ e.key \in Bindings /\ e.value \in Levels

\* One turn of the loop up to the forwarder. process_event of the graph is
\* modelled in StateGraph.
Consume(e) ==
    /\ pc = "idle"
    /\ IF should_forward(e) THEN Forward ELSE UNCHANGED vars
    /\ Remember(e)
    /\ latest' = IF Measures(e) THEN [latest EXCEPT ![e.key] = e.value] ELSE latest
    /\ told' = IF Measures(e) /\ should_forward(e)
               THEN [told EXCEPT ![e.key] = e.value] ELSE told

RollupNext ==
    \/ \E e \in Events : Consume(e)
    \/ (Agent \/ \E c \in Conns : Cut(c) \/ HubReads(c)) /\ UNCHANGED rollup

RollupSpec == RollupInit /\ [][RollupNext]_<<vars, rollup>> /\ WF_vars(Agent)

-----------------------------------------------------------------------------
(* Properties. *)

\* The hub's picture of a load is never the opposite of the agent's: once the
\* hub has been told one load of a binding, a load at the other extreme is
\* passed on, however many events in between were folded away. (A binding
\* announced by an event without a number is never told again.)
PictureHolds ==
    \A b \in Bindings : ~ Swing(told[b], latest[b])

=============================================================================
