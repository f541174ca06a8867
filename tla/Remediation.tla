---------------------------- MODULE Remediation ----------------------------
(***************************************************************************)
(* What the hub does about a fault: the diagnose route behind its          *)
(* ExecuteGuard (hub/src/main.rs), and the Kubernetes controller and its   *)
(* operator loop (hub/src/k8s_controller.rs).                              *)
(*                                                                         *)
(* Diagnose requests, the tasks spawned for fault events and the operator  *)
(* run concurrently in one hub process. All they remember is in memory; a  *)
(* restart forgets it. The Kubernetes API keeps the taints and the phases  *)
(* of the ArkRemediationRequests, and any call to it may fail. A command   *)
(* that passes the guard is handed to send_fix_command, which is modelled  *)
(* in Connections: here only that it was tried.                            *)
(***************************************************************************)
EXTENDS Naturals, Sequences, FiniteSets

CONSTANTS
    Nodes,
    Requests,           \* concurrent GET /api/v1/diagnose?execute=true
    Faults,             \* concurrent tasks spawned for fault events
    Remediations,       \* ArkRemediationRequest objects
    Kinds,              \* what their specs may say, a subset of SpecKinds
    execute_cooldown,   \* ExecuteGuard.cooldown_ms, in ticks
    max_actions,        \* ExecuteGuard.max_actions
    max_concurrency,    \* permits of ExecuteGuard.semaphore
    list_limit,         \* ListParams.limit of a poll
    cooldown_duration,  \* K8sController.cooldown_duration, in ticks
    MaxTime,            \* bound: the last tick
    MaxProcs,           \* bound: processes of a diagnosed job
    MaxFailures,        \* bound: API calls that fail
    MaxRestarts,        \* bound: restarts of the hub
    Never               \* no entry in a map of times

SpecKinds == {"no spec", "no node", "dry run", "taint_only", "taint_evict", "unsupported"}

ASSUME RemediationConstants ==
    /\ Kinds \subseteq SpecKinds
    /\ max_actions \in Nat \ {0} /\ max_concurrency \in Nat \ {0}
    /\ execute_cooldown \in Nat /\ IsFiniteSet(Requests)
    /\ {list_limit, MaxTime, MaxProcs, MaxFailures, MaxRestarts} \subseteq Nat
    /\ Never \notin Nat

VARIABLES
    now, failures, restarts,
    diag,               \* per request: where it is, its now_ts, what is left to do
    permits,            \* ExecuteGuard.semaphore
    last_action_ms,     \* ExecuteGuard.last_action_ms, by node and action
    sent,               \* history: when each key last passed the guard
    ctl,                \* per caller: its call of handle_irreversible_fault
    processed_nodes,    \* K8sController.processed_nodes
    tainted,            \* API: the nodes with the ark.io/hardware-failure taint
    occupied,           \* API: the nodes with a pod that an eviction is for
    refused,            \* history: the remediations with an eviction the API refused
    evicted_at,         \* history: when the controller last evicted a node's pods
    spec,               \* API: the spec of each remediation, or Never
    phase,              \* API: its status.phase
    op,                 \* the operator loop
    runs                \* history: executions of each remediation, unmarked ones

guard == <<diag, permits, last_action_ms, sent>>
cluster == <<tainted, occupied, refused>>
controller == <<ctl, processed_nodes, evicted_at>>
operator == <<spec, phase, op, runs>>
vars == <<now, failures, restarts, guard, controller, cluster, operator>>

Actions == {"KillProcess", "GracefulShutdown"}
Keys == Nodes \X Actions
Callers == Requests \union Faults
Idle == [pc |-> "idle"]
Jobs == UNION {[1..n -> Nodes] : n \in 0..MaxProcs}
Start == [pc |-> "list"]

Init ==
    /\ now = 0 /\ failures = 0 /\ restarts = 0
    /\ diag = [r \in Requests |-> Idle]
    /\ permits = max_concurrency
    /\ last_action_ms = [k \in Keys |-> Never]
    /\ sent = [k \in Keys |-> Never]
    /\ ctl = [c \in Callers |-> Idle]
    /\ processed_nodes = [n \in Nodes |-> Never]
    /\ tainted = {} /\ occupied = {} /\ refused = {} /\ evicted_at = [n \in Nodes |-> Never]
    /\ spec = [o \in Remediations |-> Never] /\ phase = [o \in Remediations |-> "Pending"]
    /\ op = Start
    /\ runs = [o \in Remediations |-> [all |-> 0, unmarked |-> 0]]

\* A call to the API fails, or it does not.
Fails ==
    /\ failures < MaxFailures
    /\ failures' = failures + 1
Works == UNCHANGED failures

-----------------------------------------------------------------------------
(* handle_irreversible_fault, called by c for node n. *)

InCooldown(n) ==
    processed_nodes[n] # Never /\ now - processed_nodes[n] < cooldown_duration

\* The cooldown is checked under a read lock that is dropped at once.
Check(c) ==
    /\ ctl[c].pc = "check"
    /\ ctl' = [ctl EXCEPT ![c] = IF InCooldown(ctl[c].node) THEN Idle ELSE [@ EXCEPT !.pc = "taint"]]
    /\ UNCHANGED <<now, failures, restarts, guard, processed_nodes, evicted_at, cluster, operator>>

\* Mutant: a failed taint does not end the call.
Taint_GoesOn(c) ==
    /\ ctl[c].pc = "taint"
    /\ \/ Works /\ tainted' = tainted \union {ctl[c].node}
       \/ Fails /\ UNCHANGED tainted
    /\ ctl' = [ctl EXCEPT ![c].pc = "evict"]
    /\ UNCHANGED <<now, restarts, guard, processed_nodes, evicted_at, occupied, refused, operator>>

\* taint_node; its failure ends the call and leaves no record.
Taint(c) ==
    /\ ctl[c].pc = "taint"
    /\ \/ /\ Works
          /\ tainted' = tainted \union {ctl[c].node}
          /\ ctl' = [ctl EXCEPT ![c].pc = "evict"]
       \/ /\ Fails
          /\ ctl' = [ctl EXCEPT ![c] = Idle]
          /\ UNCHANGED tainted
    /\ UNCHANGED <<now, restarts, guard, processed_nodes, evicted_at, occupied, refused, operator>>

\* evict_pods_on_node: the pods on the node go, unless the API refuses one
\* (a disruption budget), which is only logged.
EvictsAll(n) == occupied' = occupied \ {n}
Refuses == UNCHANGED occupied

\* Its failure, when the pods could not be listed, is ignored.
Evict(c) ==
    /\ ctl[c].pc = "evict"
    /\ ctl' = [ctl EXCEPT ![c].pc = "record"]
    /\ \/ /\ Works /\ (EvictsAll(ctl[c].node) \/ Refuses)
          /\ evicted_at' = [evicted_at EXCEPT ![ctl[c].node] = now]
       \/ Fails /\ UNCHANGED <<occupied, evicted_at>>
    /\ UNCHANGED <<now, restarts, guard, processed_nodes, tainted, refused, operator>>

Record(c) ==
    /\ ctl[c].pc = "record"
    /\ processed_nodes' = [processed_nodes EXCEPT ![ctl[c].node] = now]
    /\ ctl' = [ctl EXCEPT ![c] = Idle]
    /\ UNCHANGED <<now, failures, restarts, guard, evicted_at, cluster, operator>>

handle_irreversible_fault(c) == Check(c) \/ Taint(c) \/ Evict(c) \/ Record(c)

\* handle_connection spawns a task for an event that detect_irreversible_fault
\* takes for a fault.
FaultDetected(f) ==
    /\ ctl[f] = Idle
    /\ \E n \in Nodes : ctl' = [ctl EXCEPT ![f] = [pc |-> "check", node |-> n]]
    /\ UNCHANGED <<now, failures, restarts, guard, processed_nodes, evicted_at, cluster, operator>>

-----------------------------------------------------------------------------
(* GET /api/v1/diagnose with execute. *)

\* The request takes the time, then matches the rules and walks the graph.
Diagnose(r) ==
    /\ diag[r] = Idle
    /\ diag' = [diag EXCEPT ![r] = [pc |-> "matching", now_ts |-> now]]
    /\ UNCHANGED <<now, failures, restarts, permits, last_action_ms, sent, controller,
                   cluster, operator>>

\* Where a request goes when its actions are done: with a degraded link every
\* node of the job is isolated too, whether or not the guard let it act.
AfterActions(d) ==
    IF d.procs # <<>>
    THEN [pc |-> "isolating", left |-> d.procs]
    ELSE Idle

\* Mutant: a permit is taken whether or not there is one.
PolicyAndAcquire_Blind(r) ==
    /\ diag[r].pc = "matching"
    /\ \E procs \in Jobs, degraded \in BOOLEAN :
         diag' = [diag EXCEPT ![r] =
                    [pc |-> "acting", now_ts |-> diag[r].now_ts, degraded |-> degraded,
                     todo |-> procs, procs |-> IF degraded THEN procs ELSE <<>>]]
    /\ permits' = permits - 1
    /\ UNCHANGED <<now, failures, restarts, last_action_ms, sent, controller, cluster, operator>>

\* build_policy_actions, cut to max_actions, and try_acquire: a request that
\* gets no permit sends nothing.
PolicyAndAcquire(r) ==
    /\ diag[r].pc = "matching"
    /\ \E procs \in Jobs, degraded \in BOOLEAN :
         LET d == [pc |-> "acting", now_ts |-> diag[r].now_ts, degraded |-> degraded,
                   todo |-> SubSeq(procs, 1, IF Len(procs) < max_actions THEN Len(procs)
                                             ELSE max_actions),
                   procs |-> IF degraded THEN procs ELSE <<>>] IN
         IF permits > 0
         THEN diag' = [diag EXCEPT ![r] = d] /\ permits' = permits - 1
         ELSE diag' = [diag EXCEPT ![r] = AfterActions(d)] /\ UNCHANGED permits
    /\ UNCHANGED <<now, failures, restarts, last_action_ms, sent, controller, cluster, operator>>

\* Mutant: the check and the record use a plain difference of u64.
Act_Wraps(r) ==
    /\ diag[r].pc = "acting" /\ diag[r].todo # <<>>
    /\ LET d == diag[r]
           k == <<Head(d.todo), IF d.degraded THEN "KillProcess" ELSE "GracefulShutdown">>
           prev == last_action_ms[k] IN
       IF prev # Never /\ prev <= d.now_ts /\ d.now_ts - prev < execute_cooldown
       THEN UNCHANGED <<last_action_ms, sent>>
       ELSE /\ last_action_ms' = [last_action_ms EXCEPT ![k] = d.now_ts]
            /\ sent' = [sent EXCEPT ![k] = now]
    /\ diag' = [diag EXCEPT ![r].todo = Tail(@)]
    /\ UNCHANGED <<now, failures, restarts, permits, controller, cluster, operator>>

\* One turn of the loop: check_and_record_cooldown, in one section of its
\* mutex, with the time the request began; then send_fix_command, the outcome
\* of which does not undo the record.
Act(r) ==
    /\ diag[r].pc = "acting" /\ diag[r].todo # <<>>
    /\ LET d == diag[r]
           k == <<Head(d.todo), IF d.degraded THEN "KillProcess" ELSE "GracefulShutdown">>
           prev == last_action_ms[k] IN
       IF prev # Never /\ (IF d.now_ts < prev THEN 0 ELSE d.now_ts - prev) < execute_cooldown
       THEN UNCHANGED <<last_action_ms, sent>>
       ELSE /\ last_action_ms' = [last_action_ms EXCEPT ![k] = d.now_ts]
            /\ sent' = [sent EXCEPT ![k] = now]
    /\ diag' = [diag EXCEPT ![r].todo = Tail(@)]
    /\ UNCHANGED <<now, failures, restarts, permits, controller, cluster, operator>>

\* Mutant: the permit is forgotten.
ActionsDone_Leaks(r) ==
    /\ diag[r].pc = "acting" /\ diag[r].todo = <<>>
    /\ diag' = [diag EXCEPT ![r] = AfterActions(@)]
    /\ UNCHANGED <<now, failures, restarts, permits, last_action_ms, sent, controller,
                   cluster, operator>>

\* The permit is dropped at the end of the loop.
ActionsDone(r) ==
    /\ diag[r].pc = "acting" /\ diag[r].todo = <<>>
    /\ permits' = permits + 1
    /\ diag' = [diag EXCEPT ![r] = AfterActions(@)]
    /\ UNCHANGED <<now, failures, restarts, last_action_ms, sent, controller, cluster, operator>>

\* The request calls the controller itself, for one process after the other.
Isolate(r) ==
    /\ diag[r].pc = "isolating" /\ ctl[r] = Idle
    /\ LET left == diag[r].left IN
       /\ ctl' = [ctl EXCEPT ![r] = [pc |-> "check", node |-> Head(left)]]
       /\ diag' = [diag EXCEPT ![r] = IF Len(left) = 1 THEN [pc |-> "waiting"]
                                      ELSE [pc |-> "isolating", left |-> Tail(left)]]
    /\ UNCHANGED <<now, failures, restarts, permits, last_action_ms, sent, processed_nodes,
                   evicted_at, cluster, operator>>

Respond(r) ==
    /\ diag[r].pc = "waiting" /\ ctl[r] = Idle
    /\ diag' = [diag EXCEPT ![r] = Idle]
    /\ UNCHANGED <<now, failures, restarts, permits, last_action_ms, sent, controller,
                   cluster, operator>>

\* The client closes its connection: the handler is dropped where it waits, and
\* with it the permit it holds and its call of the controller.
Cancel(r) ==
    /\ diag[r] # Idle
    /\ diag' = [diag EXCEPT ![r] = Idle]
    /\ permits' = IF diag[r].pc = "acting" THEN permits + 1 ELSE permits
    /\ ctl' = [ctl EXCEPT ![r] = Idle]
    /\ UNCHANGED <<now, failures, restarts, last_action_ms, sent, processed_nodes, evicted_at,
                   cluster, operator>>

Request(r) ==
    \/ Cancel(r) \/ PolicyAndAcquire(r) \/ Act(r) \/ ActionsDone(r)
    \/ Isolate(r) \/ Respond(r) \/ handle_irreversible_fault(r)

-----------------------------------------------------------------------------
(* run_operator_loop. *)

\* A user creates a remediation request.
Create(o) ==
    /\ spec[o] = Never
    /\ \E kind \in Kinds, n \in Nodes : spec' = [spec EXCEPT ![o] = [kind |-> kind, node |-> n]]
    /\ UNCHANGED <<now, failures, restarts, guard, controller, cluster, phase, op, runs>>

\* patch_request_status: its failure is ignored by every caller.
patch_request_status(o, p) ==
    \/ Works /\ phase' = [phase EXCEPT ![o] = p]
    \/ Fails /\ UNCHANGED phase

\* What one list call returns: all requests (a server may disregard the limit),
\* or as many as the limit allows. The rest of a longer list is not asked for.
Page(listed) ==
    LET all == {o \in Remediations : spec[o] # Never} IN
    listed = all \/ (listed \subseteq all /\ Cardinality(listed) = list_limit)

\* Mutant: requests that are Running are taken up again.
List_TakesRunning ==
    /\ op.pc = "list"
    /\ \/ /\ Works
          /\ \E listed \in SUBSET Remediations :
                /\ Page(listed)
                /\ op' = [pc |-> "next", todo |->
                             {o \in listed : phase[o] \notin {"Succeeded", "Failed"}}]
       \/ Fails /\ UNCHANGED op
    /\ UNCHANGED <<now, restarts, guard, controller, cluster, spec, phase, runs>>

\* One poll: the requests that are neither running nor finished. Only this
\* loop writes phases, so that the listed phase is the current one.
List ==
    /\ op.pc = "list"
    /\ \/ /\ Works
          /\ \E listed \in SUBSET Remediations :
                /\ Page(listed)
                /\ op' = [pc |-> "next", todo |->
                             {o \in listed : phase[o] \notin {"Succeeded", "Failed", "Running"}}]
       \/ Fails /\ UNCHANGED op
    /\ UNCHANGED <<now, restarts, guard, controller, cluster, spec, phase, runs>>

\* A malformed request is Failed at once, any other one is marked Running.
Begin == \E o \in Remediations :
    /\ op.pc = "next" /\ o \in op.todo
    /\ IF spec[o].kind \in {"no spec", "no node"}
       THEN /\ patch_request_status(o, "Failed")
            /\ op' = [op EXCEPT !.todo = @ \ {o}]
            /\ UNCHANGED runs
       ELSE /\ patch_request_status(o, "Running")
            /\ op' = [pc |-> "execute", todo |-> op.todo \ {o}, cur |-> o]
            /\ runs' = [runs EXCEPT ![o] = [all |-> @.all + 1, unmarked |->
                             IF phase'[o] = "Running" THEN @.unmarked ELSE @.unmarked + 1]]
    /\ UNCHANGED <<now, restarts, guard, controller, cluster, spec>>

\* Mutant: a failed taint is reported as done.
execute_operator_action_Optimist ==
    /\ op.pc = "execute"
    /\ LET o == op.cur
           kind == spec[o].kind
           to(pc, result) == op' = [pc |-> pc, todo |-> op.todo, cur |-> o, result |-> result] IN
       \/ kind = "dry run" /\ Works /\ to("finish", "Succeeded") /\ UNCHANGED tainted
       \/ kind = "unsupported" /\ Works /\ to("finish", "Failed") /\ UNCHANGED tainted
       \/ /\ kind \in {"taint_only", "taint_evict"}
          /\ \/ /\ Works /\ tainted' = tainted \union {spec[o].node}
                /\ to(IF kind = "taint_only" THEN "finish" ELSE "evict", "Succeeded")
             \/ Fails /\ to("finish", "Succeeded") /\ UNCHANGED tainted
    /\ UNCHANGED <<now, restarts, guard, controller, occupied, refused, spec, phase, runs>>

\* execute_operator_action up to the taint. There is no cooldown here.
execute_operator_action ==
    /\ op.pc = "execute"
    /\ LET o == op.cur
           kind == spec[o].kind
           to(pc, result) == op' = [pc |-> pc, todo |-> op.todo, cur |-> o, result |-> result] IN
       \/ kind = "dry run" /\ Works /\ to("finish", "Succeeded") /\ UNCHANGED tainted
       \/ kind = "unsupported" /\ Works /\ to("finish", "Failed") /\ UNCHANGED tainted
       \/ /\ kind \in {"taint_only", "taint_evict"}
          /\ \/ /\ Works /\ tainted' = tainted \union {spec[o].node}
                /\ to(IF kind = "taint_only" THEN "finish" ELSE "evict", "Succeeded")
             \/ Fails /\ to("finish", "Failed") /\ UNCHANGED tainted
    /\ UNCHANGED <<now, restarts, guard, controller, occupied, refused, spec, phase, runs>>

\* ... and its eviction. That the pods could not be listed is not ignored here;
\* that the API refused some of them, or all, still is.
OperatorEvict ==
    /\ op.pc = "evict"
    /\ \/ /\ Works /\ EvictsAll(spec[op.cur].node)
          /\ refused' = refused \ {op.cur}
          /\ op' = [op EXCEPT !.pc = "finish"]
       \/ /\ Works /\ Refuses
          /\ refused' = refused \union {op.cur}
          /\ op' = [op EXCEPT !.pc = "finish"]
       \/ /\ Fails /\ UNCHANGED <<occupied, refused>>
          /\ op' = [op EXCEPT !.pc = "finish", !.result = "Failed"]
    /\ UNCHANGED <<now, restarts, guard, controller, tainted, spec, phase, runs>>

Finish ==
    /\ op.pc = "finish"
    /\ patch_request_status(op.cur, op.result)
    /\ op' = [pc |-> "next", todo |-> op.todo]
    /\ UNCHANGED <<now, restarts, guard, controller, cluster, spec, runs>>

Sleep ==
    /\ op.pc = "next" /\ op.todo = {}
    /\ op' = Start
    /\ UNCHANGED <<now, failures, restarts, guard, controller, cluster, spec, phase, runs>>

Operator ==
    \/ List \/ Begin \/ execute_operator_action \/ OperatorEvict \/ Finish \/ Sleep

-----------------------------------------------------------------------------

Tick ==
    /\ now < MaxTime
    /\ now' = now + 1
    /\ UNCHANGED <<failures, restarts, guard, controller, cluster, operator>>

\* The cluster places a pod that does not tolerate the taint.
Schedule(n) ==
    /\ n \notin tainted
    /\ occupied' = occupied \union {n}
    /\ UNCHANGED <<now, failures, restarts, guard, controller, tainted, refused, operator>>

\* The hub process dies and starts again.
Restart ==
    /\ restarts < MaxRestarts
    /\ restarts' = restarts + 1
    /\ diag' = [r \in Requests |-> Idle] /\ permits' = max_concurrency
    /\ last_action_ms' = [k \in Keys |-> Never] /\ sent' = [k \in Keys |-> Never]
    /\ ctl' = [c \in Callers |-> Idle]
    /\ processed_nodes' = [n \in Nodes |-> Never]
    /\ op' = Start
    /\ UNCHANGED <<now, failures, cluster, evicted_at, spec, phase, runs>>

Next ==
    \/ \E r \in Requests : Diagnose(r) \/ Request(r)
    \/ \E f \in Faults : FaultDetected(f) \/ handle_irreversible_fault(f)
    \/ \E o \in Remediations : Create(o)
    \/ \E n \in Nodes : Schedule(n)
    \/ Operator \/ Tick \/ Restart

Spec == Init /\ [][Next]_vars

-----------------------------------------------------------------------------
(* Properties. *)

TypeOK ==
    /\ now \in 0..MaxTime /\ permits \in 0..max_concurrency
    /\ \A r \in Requests : diag[r].pc \in {"idle", "matching", "acting", "isolating", "waiting"}
    /\ \A c \in Callers : ctl[c].pc \in {"idle", "check", "taint", "evict", "record"}
    /\ last_action_ms \in [Keys -> 0..MaxTime \union {Never}]
    /\ processed_nodes \in [Nodes -> 0..MaxTime \union {Never}]
    /\ tainted \subseteq Nodes /\ occupied \subseteq Nodes
    /\ phase \in [Remediations -> {"Pending", "Running", "Succeeded", "Failed"}]
    /\ op.pc \in {"list", "next", "execute", "evict", "finish"}

\* The semaphore is never over- or underspent: the permits that are not free
\* are held by the requests that are acting, whichever way a request ends.
PermitsHeld ==
    permits + Cardinality({r \in Requests : diag[r].pc = "acting"}) = max_concurrency

\* The guard's cooldown in real time: two commands of one kind to one node are
\* apart by the cooldown, less the time the first one's request had spent
\* before it reached the guard. A request that began before another one acted
\* never acts after it within the cooldown.
CooldownUpToLag ==
    [][\A k \in Keys : (sent[k] # Never /\ last_action_ms'[k] \notin {last_action_ms[k], Never}) =>
          /\ now - sent[k] >= execute_cooldown - (sent[k] - last_action_ms[k])
          /\ last_action_ms'[k] > last_action_ms[k]]_vars

\* No pod is evicted from a node that still accepts new ones, and a node counts
\* as processed only when it was tainted: a fault whose taint failed is
\* handled again.
TaintFirst ==
    \A n \in Nodes : evicted_at[n] # Never \/ processed_nodes[n] # Never => n \in tainted

\* A phase tells the truth: a request that Succeeded has tainted its node, and
\* a taint_evict has left no pod there that was to go, nor has one come back;
\* unless the API refused an eviction, which Succeeded does not tell.
Carried(o) ==
    /\ spec[o].kind \in {"taint_only", "taint_evict"} => spec[o].node \in tainted
    /\ spec[o].kind = "taint_evict" => spec[o].node \notin occupied \/ o \in refused
SucceededIsTrue == \A o \in Remediations : phase[o] = "Succeeded" => Carried(o)

\* A request is executed a second time only when the phase Running could not be
\* written the first time, whatever else fails and whenever the hub restarts.
RunsOnce == \A o \in Remediations : runs[o].all - runs[o].unmarked <= 1

\* The controller leaves a node alone for the cooldown after it evicted its pods.
NodeCooldown ==
    [][\A n \in Nodes : evicted_at'[n] # evicted_at[n] /\ evicted_at[n] # Never =>
          evicted_at'[n] - evicted_at[n] >= cooldown_duration]_vars

=============================================================================
