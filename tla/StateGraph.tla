----------------------------- MODULE StateGraph -----------------------------
(***************************************************************************)
(* The causal graph of core/src/graph.rs, with its callers.                *)
(*                                                                         *)
(* `process_event' takes the locks of the graph several times: once for    *)
(* the handler, once to read last_cleanup_ts, once for the snapshot of     *)
(* cleanup_old_errors, once to apply it and once to write last_cleanup_ts. *)
(* Each of these sections is an action, and a Worker is a caller that runs *)
(* them in order: the agent has one (its consumer loop), the hub one per   *)
(* WebSocket connection.                                                   *)
(*                                                                         *)
(* The one `nodes' map is split by NodeType, whose id formats are          *)
(* disjoint: "pid-N", the entity's own name, "error-<entity>". The         *)
(* last_update of a Resource is left out: the graph never reads it. The    *)
(* edge vector is a set, so the order of edges with equal ts is a choice.  *)
(* The last section, update_signals, writes only "signal::..." nodes, which *)
(* no edge reaches and no cleanup removes; it is left out.                 *)
(***************************************************************************)
EXTENDS Naturals, FiniteSets

CONSTANTS
    Workers,        \* concurrent callers of process_event
    Hosts,          \* event.node_id, the namespace prefix of every node id
    Pids,           \* process ids of one host
    Entities,       \* event.entity_id: gpus, nics, disks, "network"
    MaxTs,          \* bound: event timestamps are 1..MaxTs, in any order
    Interval,       \* cleanup_interval_ms
    ErrorWindow,    \* error_window_ms
    ProcessWindow,  \* the ten minutes of process_cutoff
    EdgeTtl,        \* EDGE_TTL_MS
    MaxEdges,       \* MAX_EDGES
    Absent          \* no node with this id

ASSUME GraphConstants ==
    /\ MaxTs \in Nat /\ MaxEdges \in Nat /\ Interval \in Nat \ {0}
    /\ ErrorWindow \in Nat /\ ProcessWindow \in Nat /\ EdgeTtl \in Nat

\* An absent node is told apart from a present one.
ASSUME AbsentIsNoNode ==
    /\ Absent \notin Nat
    /\ Absent \notin [ts : Nat, state : {"none", "running", "dead"}]

Ts == 1..MaxTs

\* namespace_node_id: every id carries the host of its event.
ProcIds == Hosts \X Pids
ResIds == Hosts \X Entities

\* "dead" stands for the states exit and zombie, "none" for a missing key.
States == {"none", "running", "dead"}
EdgeTypes == {"Consumes", "WaitsOn", "BlockedBy"}
\* The target of a BlockedBy edge is the error node of that entity.
Edges == [type : EdgeTypes, from : ProcIds, to : ResIds, ts : Ts]
Keys == [type : EdgeTypes, from : ProcIds, to : ResIds]

VARIABLES
    proc,           \* the Process nodes: last_update and metadata["state"]
    errs,           \* the Error nodes: last_update
    res,            \* the Resource nodes that exist
    edges, edge_index, edge_out_index,
    last_cleanup,   \* last_cleanup_ts
    pc,             \* where each worker is in process_event
    now,            \* event.ts of the event it is processing
    doomed          \* its cleanup snapshot: error_ids and dead_pids

graph == <<proc, errs, res, edges, edge_index, edge_out_index>>
vars == <<proc, errs, res, edges, edge_index, edge_out_index,
          last_cleanup, pc, now, doomed>>

NoDoomed == [errors |-> {}, pids |-> {}]

\* u64::saturating_sub
Minus(a, b) == IF a > b THEN a - b ELSE 0

Init ==
    /\ proc = [n \in ProcIds |-> Absent]
    /\ errs = [n \in ResIds |-> Absent]
    /\ res = {}
    /\ edges = {} /\ edge_index = {}
    /\ edge_out_index = [n \in ProcIds |-> {}]
    /\ last_cleanup = 0
    /\ pc = [w \in Workers |-> "idle"]
    /\ now = [w \in Workers |-> 0]
    /\ doomed = [w \in Workers |-> NoDoomed]

-----------------------------------------------------------------------------
(* Edges and their two indexes. *)

edge_key(e) == [type |-> e.type, from |-> e.from, to |-> e.to]

OutOf(n, E) == {[type |-> e.type, to |-> e.to] : e \in {x \in E : x.from = n}}

\* An edge whose key is known is left as it is, its ts included.
upsert_edges(new) ==
    LET fresh == {e \in new : edge_key(e) \notin edge_index} IN
    /\ edges' = edges \union fresh
    /\ edge_index' = edge_index \union {edge_key(e) : e \in fresh}
    /\ edge_out_index' =
         [n \in ProcIds |-> edge_out_index[n] \union OutOf(n, fresh)]

\* Mutant: the cleanup forgets the indexes.
rebuild_indexes_Forgotten(E) == UNCHANGED <<edge_index, edge_out_index>>

\* Mutant: the adjacency index is not cleared before it is filled again.
rebuild_indexes_Keeps(E) ==
    /\ edge_index' = {edge_key(e) : e \in E}
    /\ edge_out_index' = [n \in ProcIds |-> edge_out_index[n] \union OutOf(n, E)]

rebuild_indexes(E) ==
    /\ edge_index' = {edge_key(e) : e \in E}
    /\ edge_out_index' = [n \in ProcIds |-> OutOf(n, E)]

\* Mutant: the capacity check is dropped.
truncate_Never(E) == {E}

\* The newest MaxEdges edges; edges of one ts may be kept or not.
truncate(E) ==
    IF Cardinality(E) <= MaxEdges THEN {E}
    ELSE {K \in SUBSET E : /\ Cardinality(K) = MaxEdges
                           /\ \A k \in K, d \in E \ K : k.ts >= d.ts}

Edge(ty, n, r, t) == [type |-> ty, from |-> n, to |-> r, ts |-> t]

-----------------------------------------------------------------------------
(* The handlers: what the first lock section of process_event does. *)

\* Worker w enters process_event with an event of time t.
Take(w, t) ==
    /\ pc[w] = "idle"
    /\ pc' = [pc EXCEPT ![w] = "check"]
    /\ now' = [now EXCEPT ![w] = t]
    /\ UNCHANGED <<last_cleanup, doomed>>

\* The process node that a resource event creates when it is missing.
EnsureProc(n, t, st) ==
    proc' = [proc EXCEPT ![n] =
               IF proc[n] = Absent THEN [ts |-> t, state |-> st] ELSE proc[n]]

\* value = "start": the node is created or overwritten; edges stay.
ProcessStart(w) == \E h \in Hosts, p \in Pids, t \in Ts :
    /\ Take(w, t)
    /\ proc' = [proc EXCEPT ![<<h, p>>] = [ts |-> t, state |-> "running"]]
    /\ UNCHANGED <<errs, res, edges, edge_index, edge_out_index>>

\* value = "exit" or "zombie": a known node is marked, an unknown one ignored.
ProcessExit(w) == \E h \in Hosts, p \in Pids, t \in Ts :
    /\ Take(w, t)
    /\ proc' = [proc EXCEPT ![<<h, p>>] =
                  IF proc[<<h, p>>] = Absent THEN Absent
                  ELSE [ts |-> t, state |-> "dead"]]
    /\ UNCHANGED <<errs, res, edges, edge_index, edge_out_index>>

\* compute.util and compute.mem, with a pid.
handle_compute_event(w) ==
    \E h \in Hosts, p \in Pids, r \in Entities, t \in Ts :
    /\ Take(w, t)
    /\ res' = res \union {<<h, r>>}
    /\ EnsureProc(<<h, p>>, t, "none")
    /\ upsert_edges({Edge("Consumes", <<h, p>>, <<h, r>>, t)})
    /\ UNCHANGED errs

\* transport.drop with a pid, its own or that of "network-pid-N", creates the
\* missing process as running; transport.bw below 1.0 or with IO_WAIT creates
\* it without a state.
handle_transport_event(w) ==
    \E h \in Hosts, p \in Pids, r \in Entities, t \in Ts,
       st \in {"running", "none"} :
    /\ Take(w, t)
    /\ res' = res \union {<<h, r>>}
    /\ EnsureProc(<<h, p>>, t, st)
    /\ upsert_edges({Edge("WaitsOn", <<h, p>>, <<h, r>>, t)})
    /\ UNCHANGED errs

\* Compute and drop events without a pid, transport.bw at speed, and storage
\* events (handle_storage_event, with neither transport branch taken).
ResourceOnly(w) == \E h \in Hosts, r \in Entities, t \in Ts :
    /\ Take(w, t)
    /\ res' = res \union {<<h, r>>}
    /\ UNCHANGED <<proc, errs, edges, edge_index, edge_out_index>>

\* error.hw, error.net and topo.link_down: the error node is created when it
\* is missing and left alone otherwise, and blocks every consumer of the entity.
handle_error_event(w) == \E h \in Hosts, r \in Entities, t \in Ts :
    /\ Take(w, t)
    /\ errs' = [errs EXCEPT ![<<h, r>>] =
                  IF errs[<<h, r>>] = Absent THEN t ELSE errs[<<h, r>>]]
    /\ upsert_edges({Edge("BlockedBy", e.from, <<h, r>>, t) :
                       e \in {x \in edges : x.type = "Consumes" /\ x.to = <<h, r>>}})
    /\ UNCHANGED <<proc, res>>

\* Other process.state values, intent.run and action.exec: no handler, but
\* the rest of process_event runs.
NoHandler(w) == \E t \in Ts :
    Take(w, t) /\ UNCHANGED graph

-----------------------------------------------------------------------------
(* The rest of process_event. *)

Return(w) ==
    /\ pc' = [pc EXCEPT ![w] = "idle"]
    /\ now' = [now EXCEPT ![w] = 0]

\* should_cleanup, under the read lock of last_cleanup_ts.
CheckCleanup(w) ==
    /\ pc[w] = "check"
    /\ IF \/ last_cleanup = 0
          \/ Minus(now[w], last_cleanup) >= Interval
       THEN pc' = [pc EXCEPT ![w] = "snapshot"] /\ UNCHANGED now
       ELSE Return(w)
    /\ UNCHANGED <<proc, errs, res, edges, edge_index, edge_out_index,
                   last_cleanup, doomed>>

\* An error that the cleanup at time t drops.
ErrorExpired(n, t) == errs[n] # Absent /\ errs[n] < Minus(t, ErrorWindow)

\* A process that the cleanup at time t drops.
ProcDead(n, t) ==
    /\ proc[n] # Absent
    /\ \/ proc[n].state = "dead"
       \/ /\ proc[n].ts < Minus(t, ProcessWindow)
          /\ proc[n].state # "running"

\* Mutant: the state of a stale process is not looked at.
CleanupSnapshot_AnyState(w) ==
    /\ pc[w] = "snapshot"
    /\ doomed' = [doomed EXCEPT ![w] =
                    [errors |-> {n \in ResIds : ErrorExpired(n, now[w])},
                     pids   |-> {n \in ProcIds : proc[n] # Absent
                                   /\ proc[n].ts < Minus(now[w], ProcessWindow)}]]
    /\ pc' = [pc EXCEPT ![w] = "apply"]
    /\ UNCHANGED <<proc, errs, res, edges, edge_index, edge_out_index,
                   last_cleanup, now>>

\* cleanup_old_errors, first part: the sets, under the read lock of nodes.
CleanupSnapshot(w) ==
    /\ pc[w] = "snapshot"
    /\ doomed' = [doomed EXCEPT ![w] =
                    [errors |-> {n \in ResIds : ErrorExpired(n, now[w])},
                     pids   |-> {n \in ProcIds : ProcDead(n, now[w])}]]
    /\ pc' = [pc EXCEPT ![w] = "apply"]
    /\ UNCHANGED <<proc, errs, res, edges, edge_index, edge_out_index,
                   last_cleanup, now>>

\* Mutant: the first of the three retains is missing.
Retained_KeepsBlocked(D, t) ==
    {e \in edges : e.from \notin D.pids /\ e.ts >= Minus(t, EdgeTtl)}

\* The edges that survive the removal of D and the TTL at time t.
Retained(D, t) ==
    {e \in edges : /\ ~ (e.type = "BlockedBy" /\ e.to \in D.errors)
                   /\ e.from \notin D.pids
                   /\ e.ts >= Minus(t, EdgeTtl)}

\* cleanup_old_errors, second part: the snapshot is applied under all write
\* locks, without a second look at the nodes it names.
CleanupApply(w) ==
    /\ pc[w] = "apply"
    /\ errs' = [n \in ResIds |-> IF n \in doomed[w].errors THEN Absent ELSE errs[n]]
    /\ proc' = [n \in ProcIds |-> IF n \in doomed[w].pids THEN Absent ELSE proc[n]]
    /\ \E kept \in truncate(Retained(doomed[w], now[w])) :
          /\ edges' = kept
          /\ rebuild_indexes(kept)
    /\ doomed' = [doomed EXCEPT ![w] = NoDoomed]
    /\ pc' = [pc EXCEPT ![w] = "stamp"]
    /\ UNCHANGED <<res, last_cleanup, now>>

\* Mutant: the time of the next cleanup is recorded, not that of this one.
StampCleanup_Next(w) ==
    /\ pc[w] = "stamp"
    /\ last_cleanup' = now[w] + Interval
    /\ Return(w)
    /\ UNCHANGED <<proc, errs, res, edges, edge_index, edge_out_index, doomed>>

StampCleanup(w) ==
    /\ pc[w] = "stamp"
    /\ last_cleanup' = now[w]
    /\ Return(w)
    /\ UNCHANGED <<proc, errs, res, edges, edge_index, edge_out_index, doomed>>

process_event(w) ==
    \/ ProcessStart(w) \/ ProcessExit(w)
    \/ handle_compute_event(w) \/ handle_transport_event(w)
    \/ ResourceOnly(w) \/ handle_error_event(w) \/ NoHandler(w)
    \/ CheckCleanup(w) \/ CleanupSnapshot(w) \/ CleanupApply(w)
    \/ StampCleanup(w)

Next == \E w \in Workers : process_event(w)

Spec == Init /\ [][Next]_vars

-----------------------------------------------------------------------------
(* The root-cause query. An error has no outgoing edge, so the search ends  *)
(* one edge from the process it starts at.                                  *)

find_root_cause_by_id(n) ==
    [errors |-> {r \in ResIds : /\ [type |-> "BlockedBy", to |-> r] \in edge_out_index[n]
                                /\ errs[r] # Absent},
     waits  |-> {r \in ResIds : [type |-> "WaitsOn", to |-> r] \in edge_out_index[n]}]

-----------------------------------------------------------------------------
(* Properties. *)

TypeOK ==
    /\ proc \in [ProcIds -> [ts : Ts, state : States] \union {Absent}]
    /\ errs \in [ResIds -> Ts \union {Absent}]
    /\ res \subseteq ResIds
    /\ edges \subseteq Edges
    /\ edge_index \subseteq Keys
    /\ edge_out_index \in [ProcIds -> SUBSET [type : EdgeTypes, to : ResIds]]
    /\ last_cleanup \in 0..MaxTs
    /\ pc \in [Workers -> {"idle", "check", "snapshot", "apply", "stamp"}]
    /\ now \in [Workers -> 0..MaxTs]
    /\ \A w \in Workers : pc[w] # "idle" => now[w] \in Ts
    /\ doomed \in [Workers -> [errors : SUBSET ResIds, pids : SUBSET ProcIds]]

\* The two indexes that upsert_edge consults and find_root_cause walks say
\* exactly what the edge vector says, and no edge is recorded twice, however
\* upserts and cleanups of several callers interleave.
IndexesExact ==
    /\ edge_index = {edge_key(e) : e \in edges}
    /\ edge_out_index = [n \in ProcIds |-> OutOf(n, edges)]
    /\ \A e, f \in edges : edge_key(e) = edge_key(f) => e = f

\* Both ends of every edge are nodes of the graph and belong to one host: no
\* cleanup, not even one that applies an outdated snapshot, leaves an edge
\* hanging from a process or an error it removed, and an error of one host
\* never blocks a process of another.
NoDangling ==
    \A e \in edges :
        /\ proc[e.from] # Absent
        /\ IF e.type = "BlockedBy" THEN errs[e.to] # Absent ELSE e.to \in res
        /\ e.from[1] = e.to[1]

\* `why' tells the truth: the query, which walks the adjacency index and looks
\* the errors up in the node map, reports every edge on which the process is
\* blocked or waits, and nothing for a process that is gone.
WhyExact ==
    \A n \in ProcIds :
        /\ find_root_cause_by_id(n) =
             [errors |-> {e.to : e \in {x \in edges : x.from = n /\ x.type = "BlockedBy"}},
              waits  |-> {e.to : e \in {x \in edges : x.from = n /\ x.type = "WaitsOn"}}]
        /\ proc[n] = Absent => find_root_cause_by_id(n) = [errors |-> {}, waits |-> {}]

\* "Only processes that have exited, or that have not been updated for long
\* and are not running, are removed": what the comment in cleanup_old_errors
\* says of the node that is removed, at the time it is removed.
CleanupRemovesOnlyDead ==
    [][\A w \in Workers : CleanupApply(w) =>
         \A n \in ProcIds : proc[n] # Absent /\ proc'[n] = Absent =>
            \/ proc[n].state = "dead"
            \/ /\ proc[n].state # "running"
               /\ proc[n].ts < Minus(now[w], ProcessWindow)]_vars

\* With one caller a cleanup is complete: when its write locks are released no
\* exited process, no error older than the window and no edge older than the
\* TTL is left, and the edges are within MAX_EDGES.
CleanupComplete ==
    [][\A w \in Workers : CleanupApply(w) =>
         /\ \A n \in ProcIds : ~ ProcDead(n, now[w])'
         /\ \A n \in ResIds : ~ ErrorExpired(n, now[w])'
         /\ \A e \in edges' : e.ts >= Minus(now[w], EdgeTtl)
         /\ Cardinality(edges') <= MaxEdges]_vars

=============================================================================
