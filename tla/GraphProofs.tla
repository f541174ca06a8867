---------------------------- MODULE GraphProofs ----------------------------
(***************************************************************************)
(* Theorems about the graph: what its tables hold (StateGraph), for any    *)
(* hosts, pids, entities, windows and number of callers, and that the      *)
(* guards of its locks exclude each other (GraphLocks), for any number of  *)
(* tasks and any choice of the operations they call.                       *)
(***************************************************************************)
EXTENDS StateGraph, GraphLocks, SequenceTheorems, TLAPS

-----------------------------------------------------------------------------
(* Type correctness. *)

\* A cleanup keeps a subset of the edges it is given.
LEMMA TruncateSubset ==
    ASSUME NEW E, NEW K \in truncate(E)
    PROVE  K \subseteq E
  BY Zenon DEF truncate

\* The key of an edge is a key.
LEMMA KeyTyped == \A e \in Edges : edge_key(e) \in Keys
  BY Zenon DEF edge_key, Edges, Keys

\* Upserting well-typed edges keeps the edge vector and its indexes typed.
LEMMA UpsertTyped ==
    ASSUME NEW new, new \subseteq Edges, TypeOK, upsert_edges(new)
    PROVE  /\ edges' \subseteq Edges
           /\ edge_index' \subseteq Keys
           /\ edge_out_index' \in [ProcIds -> SUBSET [type : EdgeTypes, to : ResIds]]
  <1> DEFINE fresh == {e \in new : edge_key(e) \notin edge_index}
  <1>1. edges' \subseteq Edges
    BY Zenon DEF upsert_edges, TypeOK
  <1>2. edge_index' \subseteq Keys
    BY KeyTyped, Zenon DEF upsert_edges, TypeOK
  <1>3. \A n \in ProcIds : OutOf(n, fresh) \subseteq [type : EdgeTypes, to : ResIds]
    BY DEF OutOf, Edges
  <1>4. edge_out_index' =
          [n \in ProcIds |-> edge_out_index[n] \union OutOf(n, fresh)]
    BY Zenon DEF upsert_edges
  <1>5. edge_out_index' \in [ProcIds -> SUBSET [type : EdgeTypes, to : ResIds]]
    BY <1>3, <1>4, Zenon DEF TypeOK
  <1> QED
    BY <1>1, <1>2, <1>5, Zenon

\* Rebuilding the indexes from typed edges gives typed indexes.
LEMMA RebuildTyped ==
    ASSUME NEW E, E \subseteq Edges, rebuild_indexes(E)
    PROVE  /\ edge_index' \subseteq Keys
           /\ edge_out_index' \in [ProcIds -> SUBSET [type : EdgeTypes, to : ResIds]]
  <1>1. edge_index' \subseteq Keys
    BY KeyTyped, Zenon DEF rebuild_indexes
  <1>2. \A n \in ProcIds : OutOf(n, E) \subseteq [type : EdgeTypes, to : ResIds]
    BY DEF OutOf, Edges
  <1> QED
    BY <1>1, <1>2, Zenon DEF rebuild_indexes

\* What entering process_event does to the worker keeps its part typed.
LEMMA TakeTyped ==
    ASSUME TypeOK, NEW w \in Workers, NEW t \in Ts, Take(w, t)
    PROVE  /\ last_cleanup' \in 0..MaxTs
           /\ pc' \in [Workers -> {"idle", "check", "snapshot", "apply", "stamp"}]
           /\ now' \in [Workers -> 0..MaxTs]
           /\ \A v \in Workers : pc'[v] # "idle" => now'[v] \in Ts
           /\ doomed' \in [Workers -> [errors : SUBSET ResIds, pids : SUBSET ProcIds]]
  <1>1. t \in 0..MaxTs
    BY GraphConstants DEF Ts
  <1> QED
    BY <1>1, Zenon DEF TypeOK, Take

\* Returning to idle keeps the worker's part typed.
LEMMA ReturnTyped ==
    ASSUME TypeOK, NEW w \in Workers, Return(w)
    PROVE  /\ pc' \in [Workers -> {"idle", "check", "snapshot", "apply", "stamp"}]
           /\ now' \in [Workers -> 0..MaxTs]
           /\ \A v \in Workers : pc'[v] # "idle" => now'[v] \in Ts
  <1>1. 0 \in 0..MaxTs
    BY GraphConstants
  <1> QED
    BY <1>1, Zenon DEF TypeOK, Return

\* Creating a missing process node keeps the process nodes typed.
LEMMA EnsureProcTyped ==
    ASSUME TypeOK, NEW n \in ProcIds, NEW t \in Ts, NEW st \in States,
           EnsureProc(n, t, st)
    PROVE  proc' \in [ProcIds -> [ts : Ts, state : States] \union {Absent}]
  BY Zenon DEF TypeOK, EnsureProc

\* The initial graph is well typed.
LEMMA InitTyped == Init => TypeOK
  <1>1. 0 \in 0..MaxTs
    BY GraphConstants
  <1> QED
    BY <1>1 DEF Init, TypeOK, NoDoomed

\* Every step keeps the graph and the workers well typed.
LEMMA NextTyped == TypeOK /\ [Next]_vars => TypeOK'
  <1> SUFFICES ASSUME TypeOK, [Next]_vars PROVE TypeOK'
    OBVIOUS
  <1>0. CASE UNCHANGED vars
    BY <1>0, Zenon DEF TypeOK, vars
  <1>S. ASSUME NEW w \in Workers, process_event(w) PROVE TypeOK'
    <2>1. CASE ProcessStart(w)
      <3> PICK h \in Hosts, p \in Pids, t \in Ts :
            /\ Take(w, t)
            /\ proc' = [proc EXCEPT ![<<h, p>>] = [ts |-> t, state |-> "running"]]
            /\ UNCHANGED <<errs, res, edges, edge_index, edge_out_index>>
        BY <2>1, Zenon DEF ProcessStart
      <3>1. proc' \in [ProcIds -> [ts : Ts, state : States] \union {Absent}]
        BY Zenon DEF TypeOK, States
      <3> QED BY <3>1, TakeTyped, Zenon DEF TypeOK
    <2>2. CASE ProcessExit(w)
      <3> PICK h \in Hosts, p \in Pids, t \in Ts :
            /\ Take(w, t)
            /\ proc' = [proc EXCEPT ![<<h, p>>] =
                          IF proc[<<h, p>>] = Absent THEN Absent
                          ELSE [ts |-> t, state |-> "dead"]]
            /\ UNCHANGED <<errs, res, edges, edge_index, edge_out_index>>
        BY <2>2, Zenon DEF ProcessExit
      <3>1. proc' \in [ProcIds -> [ts : Ts, state : States] \union {Absent}]
        BY Zenon DEF TypeOK, States
      <3> QED BY <3>1, TakeTyped, Zenon DEF TypeOK
    <2>3. CASE handle_compute_event(w)
      <3> PICK h \in Hosts, p \in Pids, r \in Entities, t \in Ts :
            /\ Take(w, t)
            /\ res' = res \union {<<h, r>>}
            /\ EnsureProc(<<h, p>>, t, "none")
            /\ upsert_edges({Edge("Consumes", <<h, p>>, <<h, r>>, t)})
            /\ UNCHANGED errs
        BY <2>3, Zenon DEF handle_compute_event
      <3>1. <<h, p>> \in ProcIds /\ <<h, r>> \in ResIds /\ "none" \in States
        BY Zenon DEF ProcIds, ResIds, States
      <3>2. proc' \in [ProcIds -> [ts : Ts, state : States] \union {Absent}]
        BY <3>1, EnsureProcTyped, Zenon
      <3>3. {Edge("Consumes", <<h, p>>, <<h, r>>, t)} \subseteq Edges
        BY <3>1 DEF Edge, Edges, EdgeTypes
      <3>4. /\ edges' \subseteq Edges
            /\ edge_index' \subseteq Keys
            /\ edge_out_index' \in [ProcIds -> SUBSET [type : EdgeTypes, to : ResIds]]
        BY <3>3, UpsertTyped, Zenon
      <3>5. res' \subseteq ResIds
        BY <3>1, Zenon DEF TypeOK
      <3> QED BY <3>2, <3>4, <3>5, TakeTyped, Zenon DEF TypeOK
    <2>4. CASE handle_transport_event(w)
      <3> PICK h \in Hosts, p \in Pids, r \in Entities, t \in Ts, st \in {"running", "none"} :
            /\ Take(w, t)
            /\ res' = res \union {<<h, r>>}
            /\ EnsureProc(<<h, p>>, t, st)
            /\ upsert_edges({Edge("WaitsOn", <<h, p>>, <<h, r>>, t)})
            /\ UNCHANGED errs
        BY <2>4, Zenon DEF handle_transport_event
      <3>1. <<h, p>> \in ProcIds /\ <<h, r>> \in ResIds /\ st \in States
        BY Zenon DEF ProcIds, ResIds, States
      <3>2. proc' \in [ProcIds -> [ts : Ts, state : States] \union {Absent}]
        BY <3>1, EnsureProcTyped, Zenon
      <3>3. {Edge("WaitsOn", <<h, p>>, <<h, r>>, t)} \subseteq Edges
        BY <3>1 DEF Edge, Edges, EdgeTypes
      <3>4. /\ edges' \subseteq Edges
            /\ edge_index' \subseteq Keys
            /\ edge_out_index' \in [ProcIds -> SUBSET [type : EdgeTypes, to : ResIds]]
        BY <3>3, UpsertTyped, Zenon
      <3>5. res' \subseteq ResIds
        BY <3>1, Zenon DEF TypeOK
      <3> QED BY <3>2, <3>4, <3>5, TakeTyped, Zenon DEF TypeOK
    <2>5. CASE ResourceOnly(w)
      <3> PICK h \in Hosts, r \in Entities, t \in Ts :
            /\ Take(w, t)
            /\ res' = res \union {<<h, r>>}
            /\ UNCHANGED <<proc, errs, edges, edge_index, edge_out_index>>
        BY <2>5, Zenon DEF ResourceOnly
      <3>1. res' \subseteq ResIds
        BY Zenon DEF TypeOK, ResIds
      <3> QED BY <3>1, TakeTyped, Zenon DEF TypeOK
    <2>6. CASE handle_error_event(w)
      <3> PICK h \in Hosts, r \in Entities, t \in Ts :
            /\ Take(w, t)
            /\ errs' = [errs EXCEPT ![<<h, r>>] =
                          IF errs[<<h, r>>] = Absent THEN t ELSE errs[<<h, r>>]]
            /\ upsert_edges({Edge("BlockedBy", e.from, <<h, r>>, t) :
                  e \in {x \in edges : x.type = "Consumes" /\ x.to = <<h, r>>}})
            /\ UNCHANGED <<proc, res>>
        BY <2>6, Zenon DEF handle_error_event
      <3>1. <<h, r>> \in ResIds
        BY Zenon DEF ResIds
      <3>2. errs' \in [ResIds -> Ts \union {Absent}]
        BY <3>1, Zenon DEF TypeOK
      <3>3. \A e \in Edges : Edge("BlockedBy", e.from, <<h, r>>, t) \in Edges
        BY <3>1, Zenon DEF Edge, Edges, EdgeTypes
      <3>4. {Edge("BlockedBy", e.from, <<h, r>>, t) :
               e \in {x \in edges : x.type = "Consumes" /\ x.to = <<h, r>>}} \subseteq Edges
        BY <3>3, Zenon DEF TypeOK
      <3>5. /\ edges' \subseteq Edges
            /\ edge_index' \subseteq Keys
            /\ edge_out_index' \in [ProcIds -> SUBSET [type : EdgeTypes, to : ResIds]]
        BY <3>4, UpsertTyped, Zenon
      <3> QED BY <3>2, <3>5, TakeTyped, Zenon DEF TypeOK
    <2>7. CASE NoHandler(w)
      BY <2>7, TakeTyped, Zenon DEF TypeOK, NoHandler, graph
    <2>8. CASE CheckCleanup(w)
      <3>1. CASE Return(w)
        BY <2>8, <3>1, ReturnTyped, Zenon DEF TypeOK, CheckCleanup
      <3>2. CASE pc' = [pc EXCEPT ![w] = "snapshot"] /\ UNCHANGED now
        BY <2>8, <3>2, Zenon DEF TypeOK, CheckCleanup
      <3> QED BY <2>8, <3>1, <3>2, Zenon DEF CheckCleanup
    <2>9. CASE CleanupSnapshot(w)
      BY <2>9, Zenon DEF TypeOK, CleanupSnapshot
    <2>10. CASE CleanupApply(w)
      <3> PICK kept \in truncate(Retained(doomed[w], now[w])) :
            edges' = kept /\ rebuild_indexes(kept)
        BY <2>10, Zenon DEF CleanupApply
      <3>1. kept \subseteq Edges
        BY TruncateSubset, Zenon DEF Retained, TypeOK
      <3>2. /\ edge_index' \subseteq Keys
            /\ edge_out_index' \in [ProcIds -> SUBSET [type : EdgeTypes, to : ResIds]]
        BY <3>1, RebuildTyped, Zenon
      <3>3. proc' \in [ProcIds -> [ts : Ts, state : States] \union {Absent}]
        BY <2>10, Zenon DEF CleanupApply, TypeOK
      <3>4. errs' \in [ResIds -> Ts \union {Absent}]
        BY <2>10, Zenon DEF CleanupApply, TypeOK
      <3>5. doomed' \in [Workers -> [errors : SUBSET ResIds, pids : SUBSET ProcIds]]
        BY <2>10, Zenon DEF CleanupApply, TypeOK, NoDoomed
      <3> QED BY <2>10, <3>1, <3>2, <3>3, <3>4, <3>5, Zenon DEF CleanupApply, TypeOK
    <2>11. CASE StampCleanup(w)
      BY <2>11, ReturnTyped, Zenon DEF TypeOK, StampCleanup
    <2> QED
      BY <1>S, <2>1, <2>2, <2>3, <2>4, <2>5, <2>6, <2>7, <2>8, <2>9, <2>10, <2>11, Zenon
         DEF process_event
  <1> QED
    BY <1>0, <1>S, Zenon DEF Next

\* process_event keeps every piece of the graph well typed, for any number of
\* concurrent callers.
THEOREM TypeCorrect == Spec => []TypeOK
  BY InitTyped, NextTyped, PTL DEF Spec

-----------------------------------------------------------------------------
(* The indexes. *)

\* An upsert keeps the indexes exact: it looks at the key index, so it never
\* adds a second edge with a known key. The new edges are told apart by key.
LEMMA UpsertExact ==
    ASSUME NEW new, new \subseteq Edges, TypeOK, IndexesExact, upsert_edges(new),
           \A e, f \in new : edge_key(e) = edge_key(f) => e = f
    PROVE  IndexesExact'
  <1> DEFINE fresh == {e \in new : edge_key(e) \notin edge_index}
  <1>1. /\ edges' = edges \union fresh
        /\ edge_index' = edge_index \union {edge_key(e) : e \in fresh}
        /\ edge_out_index' =
             [n \in ProcIds |-> edge_out_index[n] \union OutOf(n, fresh)]
    BY Zenon DEF upsert_edges
  <1>2. edge_index' = {edge_key(e) : e \in edges'}
    BY <1>1, Zenon DEF IndexesExact
  <1>3. \A n \in ProcIds : OutOf(n, edges \union fresh) = OutOf(n, edges) \union OutOf(n, fresh)
    BY Zenon DEF OutOf
  <1>4. edge_out_index' = [n \in ProcIds |-> OutOf(n, edges')]
    BY <1>1, <1>3, Zenon DEF IndexesExact
  <1>5. ASSUME NEW e \in edges', NEW f \in edges', edge_key(e) = edge_key(f)
        PROVE  e = f
    <2>1. \A x \in edges : edge_key(x) \in edge_index
      BY Zenon DEF IndexesExact
    <2>2. \A x \in fresh : x \in new /\ edge_key(x) \notin edge_index
      OBVIOUS
    <2> QED
      BY <1>1, <1>5, <2>1, <2>2, Zenon DEF IndexesExact
  <1> QED
    BY <1>2, <1>4, <1>5, Zenon DEF IndexesExact

\* Every step keeps the indexes exact.
LEMMA NextExact == TypeOK /\ IndexesExact /\ [Next]_vars => IndexesExact'
  <1> SUFFICES ASSUME TypeOK, IndexesExact, [Next]_vars PROVE IndexesExact'
    OBVIOUS
  <1>0. ASSUME UNCHANGED <<edges, edge_index, edge_out_index>> PROVE IndexesExact'
    BY <1>0, Zenon DEF IndexesExact
  <1>S. ASSUME NEW w \in Workers, process_event(w) PROVE IndexesExact'
    <2>1. CASE ProcessStart(w) \/ ProcessExit(w) \/ ResourceOnly(w) \/ NoHandler(w)
      BY <1>0, <2>1, Zenon DEF ProcessStart, ProcessExit, ResourceOnly, NoHandler, graph
    <2>2. CASE handle_compute_event(w)
      <3> PICK h \in Hosts, p \in Pids, r \in Entities, t \in Ts :
            upsert_edges({Edge("Consumes", <<h, p>>, <<h, r>>, t)})
        BY <2>2, Zenon DEF handle_compute_event
      <3>1. {Edge("Consumes", <<h, p>>, <<h, r>>, t)} \subseteq Edges
        BY DEF Edge, Edges, EdgeTypes, ProcIds, ResIds
      <3> QED BY <3>1, UpsertExact, Zenon
    <2>3. CASE handle_transport_event(w)
      <3> PICK h \in Hosts, p \in Pids, r \in Entities, t \in Ts :
            upsert_edges({Edge("WaitsOn", <<h, p>>, <<h, r>>, t)})
        BY <2>3, Zenon DEF handle_transport_event
      <3>1. {Edge("WaitsOn", <<h, p>>, <<h, r>>, t)} \subseteq Edges
        BY DEF Edge, Edges, EdgeTypes, ProcIds, ResIds
      <3> QED BY <3>1, UpsertExact, Zenon
    <2>4. CASE handle_error_event(w)
      <3> PICK h \in Hosts, r \in Entities, t \in Ts :
            upsert_edges({Edge("BlockedBy", e.from, <<h, r>>, t) :
              e \in {x \in edges : x.type = "Consumes" /\ x.to = <<h, r>>}})
        BY <2>4, Zenon DEF handle_error_event
      <3> DEFINE new == {Edge("BlockedBy", e.from, <<h, r>>, t) :
              e \in {x \in edges : x.type = "Consumes" /\ x.to = <<h, r>>}}
      <3>1. \A e \in Edges : Edge("BlockedBy", e.from, <<h, r>>, t) \in Edges
        BY Zenon DEF Edge, Edges, EdgeTypes, ResIds
      <3>2. new \subseteq Edges
        BY <3>1, Zenon DEF TypeOK
      <3>3. \A a, b : edge_key(Edge("BlockedBy", a, <<h, r>>, t))
                      = edge_key(Edge("BlockedBy", b, <<h, r>>, t)) => a = b
        BY Zenon DEF Edge, edge_key
      <3>4. \A e, f \in new : edge_key(e) = edge_key(f) => e = f
        BY <3>3, Zenon
      <3>5. upsert_edges(new)
        OBVIOUS
      <3> HIDE DEF new
      <3> QED BY <3>2, <3>4, <3>5, UpsertExact, Zenon
    <2>5. CASE CheckCleanup(w) \/ CleanupSnapshot(w) \/ StampCleanup(w)
      BY <1>0, <2>5, Zenon DEF CheckCleanup, CleanupSnapshot, StampCleanup
    <2>6. CASE CleanupApply(w)
      <3> PICK kept \in truncate(Retained(doomed[w], now[w])) :
            edges' = kept /\ rebuild_indexes(kept)
        BY <2>6, Zenon DEF CleanupApply
      <3>1. kept \subseteq edges
        BY TruncateSubset, Zenon DEF Retained
      <3> QED BY <3>1, Zenon DEF rebuild_indexes, IndexesExact
    <2> QED
      BY <1>S, <2>1, <2>2, <2>3, <2>4, <2>5, <2>6, Zenon DEF process_event
  <1> QED
    BY <1>0, <1>S, Zenon DEF Next, vars

\* However the lock sections of concurrent callers interleave, the key index
\* and the adjacency index say what the edge vector says, and no edge is
\* recorded twice.
THEOREM IndexesCorrect == Spec => []IndexesExact
  <1>1. Init => IndexesExact
    BY DEF Init, IndexesExact, OutOf
  <1> QED
    BY <1>1, NextExact, TypeCorrect, PTL DEF Spec

-----------------------------------------------------------------------------
(* The ends of the edges. *)

\* What NoDangling says of one edge.
Anchored(e) ==
    /\ proc[e.from] # Absent
    /\ IF e.type = "BlockedBy" THEN errs[e.to] # Absent ELSE e.to \in res
    /\ e.from[1] = e.to[1]

\* Every step keeps both ends of every edge in the graph: a handler inserts
\* the nodes before the edge, and the retains of a cleanup drop exactly the
\* edges of the nodes it removes.
LEMMA NextAnchored == TypeOK /\ NoDangling /\ [Next]_vars => NoDangling'
  <1> SUFFICES ASSUME TypeOK, NoDangling, [Next]_vars,
                      NEW e \in edges'
               PROVE  Anchored(e)'
    BY Zenon DEF NoDangling, Anchored
  <1>0. e \in edges => Anchored(e) /\ e \in Edges
    BY Zenon DEF NoDangling, Anchored, TypeOK
  <1>A. ASSUME NEW n \in ProcIds, NEW t \in Ts, NEW st \in {"running", "none"},
               EnsureProc(n, t, st)
        PROVE  /\ proc'[n] # Absent
               /\ \A m \in ProcIds : proc[m] # Absent => proc'[m] # Absent
    <2>1. [ts |-> t, state |-> st] # Absent
      BY GraphConstants, AbsentIsNoNode DEF Ts
    <2> QED BY <1>A, <2>1, Zenon DEF EnsureProc, TypeOK
  <1>S. ASSUME NEW w \in Workers, process_event(w) PROVE Anchored(e)'
    <2>1. CASE ProcessStart(w)
      <3> PICK h \in Hosts, p \in Pids, t \in Ts :
            /\ proc' = [proc EXCEPT ![<<h, p>>] = [ts |-> t, state |-> "running"]]
            /\ UNCHANGED <<errs, res, edges>>
        BY <2>1, Zenon DEF ProcessStart
      <3>1. [ts |-> t, state |-> "running"] # Absent
        BY GraphConstants, AbsentIsNoNode DEF Ts
      <3> QED BY <1>0, <3>1, Zenon DEF Anchored, TypeOK, Edges
    <2>2. CASE ProcessExit(w)
      <3> PICK h \in Hosts, p \in Pids, t \in Ts :
            /\ proc' = [proc EXCEPT ![<<h, p>>] =
                          IF proc[<<h, p>>] = Absent THEN Absent
                          ELSE [ts |-> t, state |-> "dead"]]
            /\ UNCHANGED <<errs, res, edges>>
        BY <2>2, Zenon DEF ProcessExit
      <3>1. [ts |-> t, state |-> "dead"] # Absent
        BY GraphConstants, AbsentIsNoNode DEF Ts
      <3> QED BY <1>0, <3>1, Zenon DEF Anchored, TypeOK, Edges
    <2>3. CASE handle_compute_event(w) \/ handle_transport_event(w)
      <3> PICK h \in Hosts, p \in Pids, r \in Entities, t \in Ts,
               st \in {"running", "none"}, ty \in {"Consumes", "WaitsOn"} :
            /\ res' = res \union {<<h, r>>}
            /\ EnsureProc(<<h, p>>, t, st)
            /\ upsert_edges({Edge(ty, <<h, p>>, <<h, r>>, t)})
            /\ UNCHANGED errs
        BY <2>3, Zenon DEF handle_compute_event, handle_transport_event
      <3>1. <<h, p>> \in ProcIds
        BY Zenon DEF ProcIds
      <3>2. /\ proc'[<<h, p>>] # Absent
            /\ \A m \in ProcIds : proc[m] # Absent => proc'[m] # Absent
        BY <1>A, <3>1, Zenon
      <3>3. CASE e \in edges
        BY <1>0, <3>2, <3>3, Zenon DEF Anchored, Edges
      <3>4. CASE e = Edge(ty, <<h, p>>, <<h, r>>, t)
        BY <3>2, <3>4, Zenon DEF Anchored, Edge
      <3> QED BY <3>3, <3>4, Zenon DEF upsert_edges
    <2>4. CASE ResourceOnly(w)
      BY <1>0, <2>4, Zenon DEF ResourceOnly, Anchored
    <2>5. CASE handle_error_event(w)
      <3> PICK h \in Hosts, r \in Entities, t \in Ts :
            /\ errs' = [errs EXCEPT ![<<h, r>>] =
                          IF errs[<<h, r>>] = Absent THEN t ELSE errs[<<h, r>>]]
            /\ upsert_edges({Edge("BlockedBy", x.from, <<h, r>>, t) :
                  x \in {y \in edges : y.type = "Consumes" /\ y.to = <<h, r>>}})
            /\ UNCHANGED <<proc, res>>
        BY <2>5, Zenon DEF handle_error_event
      <3>1. t # Absent /\ <<h, r>> \in ResIds
        BY GraphConstants, AbsentIsNoNode DEF Ts, ResIds
      <3>2. /\ errs'[<<h, r>>] # Absent
            /\ \A n \in ResIds : errs[n] # Absent => errs'[n] # Absent
        BY <3>1, Zenon DEF TypeOK
      <3>3. CASE e \in edges
        BY <1>0, <3>2, <3>3, Zenon DEF Anchored, Edges
      <3>4. ASSUME NEW x \in edges, x.type = "Consumes", x.to = <<h, r>>,
                   e = Edge("BlockedBy", x.from, <<h, r>>, t)
            PROVE  Anchored(e)'
        <4>1. proc[x.from] # Absent /\ x.from[1] = x.to[1]
          BY Zenon DEF NoDangling
        <4> QED BY <3>2, <3>4, <4>1, Zenon DEF Anchored, Edge
      <3> QED BY <3>3, <3>4, Zenon DEF upsert_edges
    <2>6. CASE NoHandler(w)
      BY <1>0, <2>6, Zenon DEF NoHandler, graph, Anchored
    <2>7. CASE CheckCleanup(w) \/ CleanupSnapshot(w) \/ StampCleanup(w)
      BY <1>0, <2>7, Zenon DEF CheckCleanup, CleanupSnapshot, StampCleanup, Anchored
    <2>8. CASE CleanupApply(w)
      <3> PICK kept \in truncate(Retained(doomed[w], now[w])) : edges' = kept
        BY <2>8, Zenon DEF CleanupApply
      <3>1. e \in Retained(doomed[w], now[w])
        BY TruncateSubset, Zenon
      <3>2. /\ e \in edges /\ e.from \notin doomed[w].pids
            /\ e.type = "BlockedBy" => e.to \notin doomed[w].errors
        BY <3>1, Zenon DEF Retained
      <3>3. e.from \in ProcIds /\ e.to \in ResIds
        BY <1>0, <3>2, Zenon DEF Edges
      <3>4. proc'[e.from] = proc[e.from]
        BY <2>8, <3>2, <3>3, Zenon DEF CleanupApply
      <3>5. e.type = "BlockedBy" => errs'[e.to] = errs[e.to]
        BY <2>8, <3>2, <3>3, Zenon DEF CleanupApply
      <3> QED BY <1>0, <2>8, <3>2, <3>4, <3>5, Zenon DEF Anchored, CleanupApply
    <2> QED
      BY <1>S, <2>1, <2>2, <2>3, <2>4, <2>5, <2>6, <2>7, <2>8, Zenon DEF process_event
  <1>U. CASE UNCHANGED vars
    BY <1>0, <1>U, Zenon DEF vars, Anchored
  <1> QED
    BY <1>S, <1>U, Zenon DEF Next

\* No edge ever hangs from a node that is not in the graph, or joins two hosts:
\* not even when a cleanup applies a snapshot that other callers have outdated.
THEOREM NoDanglingEdges == Spec => []NoDangling
  <1>1. Init => NoDangling
    BY Zenon DEF Init, NoDangling
  <1> QED
    BY <1>1, NextAnchored, TypeCorrect, PTL DEF Spec

-----------------------------------------------------------------------------
(* The root-cause query. *)

\* Exact indexes and anchored edges are all that an exact answer needs.
LEMMA ExactAnswer == TypeOK /\ IndexesExact /\ NoDangling => WhyExact
  <1> SUFFICES ASSUME TypeOK, IndexesExact, NoDangling, NEW n \in ProcIds
               PROVE
        /\ find_root_cause_by_id(n) =
             [errors |-> {e.to : e \in {x \in edges : x.from = n /\ x.type = "BlockedBy"}},
              waits  |-> {e.to : e \in {x \in edges : x.from = n /\ x.type = "WaitsOn"}}]
        /\ proc[n] = Absent => find_root_cause_by_id(n) = [errors |-> {}, waits |-> {}]
    BY Zenon DEF WhyExact
  <1>1. edge_out_index[n] = OutOf(n, edges)
    BY Zenon DEF IndexesExact
  <1>2. \A ty, r : [type |-> ty, to |-> r] \in edge_out_index[n] <=>
           \E e \in edges : e.from = n /\ e.type = ty /\ e.to = r
    BY <1>1, Zenon DEF OutOf
  <1>3. \A e \in edges : e.to \in ResIds
    BY Zenon DEF TypeOK, Edges
  <1>4. \A e \in edges : e.type = "BlockedBy" => errs[e.to] # Absent
    BY Zenon DEF NoDangling
  <1> DEFINE B == {r \in ResIds : /\ [type |-> "BlockedBy", to |-> r] \in edge_out_index[n]
                                  /\ errs[r] # Absent}
             W == {r \in ResIds : [type |-> "WaitsOn", to |-> r] \in edge_out_index[n]}
  <1>5. B = {e.to : e \in {x \in edges : x.from = n /\ x.type = "BlockedBy"}}
    BY <1>2, <1>3, <1>4
  <1>6. W = {e.to : e \in {x \in edges : x.from = n /\ x.type = "WaitsOn"}}
    BY <1>2, <1>3
  <1>7. proc[n] = Absent => B = {} /\ W = {}
    BY <1>5, <1>6 DEF NoDangling
  <1>8. find_root_cause_by_id(n) = [errors |-> B, waits |-> W]
    BY Zenon DEF find_root_cause_by_id
  <1> HIDE DEF B, W
  <1> QED BY <1>5, <1>6, <1>7, <1>8, Zenon

\* The root-cause query is exact at every moment, for any number of callers.
THEOREM WhyCorrect == Spec => []WhyExact
  BY ExactAnswer, TypeCorrect, IndexesCorrect, NoDanglingEdges, PTL

-----------------------------------------------------------------------------
(* One caller: the agent, and the replay of the hub. *)

\* The cleanup snapshot of a worker that is about to apply it is up to date.
SnapshotFresh ==
    \A w \in Workers : pc[w] = "apply" =>
        doomed[w] = [errors |-> {n \in ResIds : ErrorExpired(n, now[w])},
                     pids   |-> {n \in ProcIds : ProcDead(n, now[w])}]

\* With one worker nothing happens between the snapshot and its use.
LEMMA NextFresh ==
    ASSUME NEW w0, Workers = {w0}
    PROVE  TypeOK /\ SnapshotFresh /\ [Next]_vars => SnapshotFresh'
  <1> SUFFICES ASSUME TypeOK, SnapshotFresh, [Next]_vars PROVE SnapshotFresh'
    OBVIOUS
  <1>1. CASE UNCHANGED vars
    BY <1>1, Zenon DEF vars, SnapshotFresh, ErrorExpired, ProcDead
  <1>2. CASE CleanupSnapshot(w0)
    BY <1>2, Zenon DEF CleanupSnapshot, SnapshotFresh, TypeOK, ErrorExpired, ProcDead
  <1>3. ASSUME process_event(w0), ~ CleanupSnapshot(w0) PROVE pc'[w0] # "apply"
    BY <1>3, Zenon DEF process_event, ProcessStart, ProcessExit, handle_compute_event,
         handle_transport_event, ResourceOnly, handle_error_event, NoHandler, Take,
         CheckCleanup, CleanupApply, StampCleanup, Return, TypeOK
  <1> QED
    BY <1>1, <1>2, <1>3, Zenon DEF Next, SnapshotFresh

\* With a single caller a cleanup removes only processes that have exited, or
\* are stale and not running, at the moment it removes them.
THEOREM OneCallerRemovesOnlyDead ==
    ASSUME NEW w0, Workers = {w0}
    PROVE  Spec => CleanupRemovesOnlyDead
  <1>1. Init => SnapshotFresh
    BY Zenon DEF Init, SnapshotFresh
  <1>2. SnapshotFresh /\ [Next]_vars =>
        [\A w \in Workers : CleanupApply(w) =>
           \A n \in ProcIds : proc[n] # Absent /\ proc'[n] = Absent =>
              \/ proc[n].state = "dead"
              \/ /\ proc[n].state # "running"
                 /\ proc[n].ts < Minus(now[w], ProcessWindow)]_vars
    BY DEF SnapshotFresh, CleanupApply, ProcDead
  <1> QED
    BY <1>1, <1>2, NextFresh, TypeCorrect, PTL DEF Spec, CleanupRemovesOnlyDead

\* With a single caller a cleanup leaves nothing behind that it is there to
\* remove, and at most MAX_EDGES edges.
THEOREM OneCallerCleansUp ==
    ASSUME NEW w0, Workers = {w0}
    PROVE  Spec => CleanupComplete
  <1> DEFINE Complete(w) ==
         /\ \A n \in ProcIds : ~ ProcDead(n, now[w])'
         /\ \A n \in ResIds : ~ ErrorExpired(n, now[w])'
         /\ \A e \in edges' : e.ts >= Minus(now[w], EdgeTtl)
         /\ Cardinality(edges') <= MaxEdges
  <1>1. Init => SnapshotFresh
    BY Zenon DEF Init, SnapshotFresh
  <1>2. ASSUME TypeOK, SnapshotFresh, NEW w \in Workers, CleanupApply(w)
        PROVE  Complete(w)
    <2> PICK kept \in truncate(Retained(doomed[w], now[w])) : edges' = kept
      BY <1>2, Zenon DEF CleanupApply
    <2>1. ASSUME NEW n \in ProcIds PROVE ~ ProcDead(n, now[w])'
      <3>1. n \in doomed[w].pids <=> ProcDead(n, now[w])
        BY <1>2 DEF SnapshotFresh, CleanupApply
      <3>2. proc'[n] = (IF n \in doomed[w].pids THEN Absent ELSE proc[n]) /\ now' = now
        BY <1>2, Zenon DEF CleanupApply
      <3>3. CASE n \in doomed[w].pids
        BY <3>2, <3>3, Zenon DEF ProcDead
      <3>4. CASE n \notin doomed[w].pids
        BY <3>1, <3>2, <3>4, Zenon DEF ProcDead
      <3> QED BY <3>3, <3>4, Zenon
    <2>2. \A n \in ResIds : ~ ErrorExpired(n, now[w])'
      BY <1>2 DEF SnapshotFresh, CleanupApply, ErrorExpired
    <2>3. \A e \in edges' : e.ts >= Minus(now[w], EdgeTtl)
      BY TruncateSubset, Zenon DEF Retained
    <2>4. Cardinality(edges') <= MaxEdges
      BY GraphConstants DEF truncate
    <2> QED BY <2>1, <2>2, <2>3, <2>4, Zenon
  <1>3. TypeOK /\ SnapshotFresh /\ [Next]_vars =>
          [\A w \in Workers : CleanupApply(w) => Complete(w)]_vars
    BY <1>2, Zenon
  <1> QED
    BY <1>1, <1>3, NextFresh, TypeCorrect, PTL DEF Spec, CleanupComplete

-----------------------------------------------------------------------------
(* Locks. *)

Modes == {"read", "write"}
Claims == [task : Tasks, mode : Modes]
Want(l, m) == [lock |-> l, mode |-> m]

\* What the plans have in common: each takes at least one lock, and none twice.
IsPlan(p) ==
    /\ Len(p) \in Nat \ {0}
    /\ \A i \in 1..Len(p) : p[i] = Want(p[i].lock, p[i].mode)
                            /\ p[i].lock \in Locks /\ p[i].mode \in Modes
    /\ \A i, j \in 1..Len(p) : i # j => p[i].lock # p[j].lock

LEMMA PlansTyped == \A o \in Ops : o # "none" /\ IsPlan(Plan[o])
<1>1. \A l \in Locks : /\ Read(l) = Want(l, "read") /\ Write(l) = Want(l, "write")
                       /\ Read(l).lock = l /\ Read(l).mode = "read"
                       /\ Write(l).lock = l /\ Write(l).mode = "write"
  BY Zenon DEF Read, Write, Want
<1>2. ASSUME NEW l \in Locks, NEW m \in Modes PROVE IsPlan(<<Want(l, m)>>)
  BY DEF IsPlan, Want
<1>3. ASSUME NEW l1 \in Locks, NEW l2 \in Locks, l1 # l2, NEW m \in Modes
      PROVE  IsPlan(<<Want(l1, m), Want(l2, m)>>)
  BY <1>3 DEF IsPlan, Want
<1>4. ASSUME NEW l1 \in Locks, NEW l2 \in Locks, NEW l3 \in Locks, NEW l4 \in Locks, NEW m \in Modes,
             l1 # l2, l1 # l3, l1 # l4, l2 # l3, l2 # l4, l3 # l4
      PROVE  IsPlan(<<Want(l1, m), Want(l2, m), Want(l3, m), Want(l4, m)>>)
  BY <1>4 DEF IsPlan, Want
<1>5. /\ Plan["process_state"] = <<Write("nodes")>>
      /\ Plan["handler"] = <<Write("nodes"), Write("edges"),
                             Write("edge_index"), Write("edge_out_index")>>
      /\ Plan["should_cleanup"] = <<Read("last_cleanup_ts")>>
      /\ Plan["snapshot"] = <<Read("nodes")>>
      /\ Plan["apply"] = <<Write("nodes"), Write("edges"),
                           Write("edge_index"), Write("edge_out_index")>>
      /\ Plan["stamp"] = <<Write("last_cleanup_ts")>>
      /\ Plan["signals"] = <<Write("signals")>>
      /\ Plan["metrics"] = <<Read("nodes"), Read("edges")>>
      /\ Plan["resources"] = <<Read("edge_out_index")>>
      /\ Plan["all_edges"] = <<Read("edges")>>
      /\ Plan["why"] = <<Read("edge_out_index"), Read("nodes")>>
  BY Zenon DEF Plan
<1>6. \A o \in Ops : o \in {"process_state", "handler", "should_cleanup", "snapshot", "apply",
                            "stamp", "signals", "metrics", "resources", "all_edges", "why"}
  BY OpsAreMethods, Zenon DEF Plan
<1>7. IsPlan(<<Write("nodes")>>) /\ IsPlan(<<Read("last_cleanup_ts")>>) /\ IsPlan(<<Read("nodes")>>)
      /\ IsPlan(<<Write("last_cleanup_ts")>>) /\ IsPlan(<<Write("signals")>>)
      /\ IsPlan(<<Read("edge_out_index")>>) /\ IsPlan(<<Read("edges")>>)
  BY <1>1, <1>2, Zenon DEF Locks, Modes
<1>8. IsPlan(<<Read("nodes"), Read("edges")>>) /\ IsPlan(<<Read("edge_out_index"), Read("nodes")>>)
  BY <1>1, <1>3, Zenon DEF Locks, Modes
<1>9. IsPlan(<<Write("nodes"), Write("edges"), Write("edge_index"), Write("edge_out_index")>>)
  BY <1>1, <1>4, Zenon DEF Locks, Modes
<1> QED  BY <1>5, <1>6, <1>7, <1>8, <1>9, Zenon

-----------------------------------------------------------------------------
(* Who holds a lock has taken it, who waits for it takes it next. *)

\* The lock l is the one t takes next; t has taken it already.
IsNext(o, n, t, l, m) ==
    /\ o[t] \in Ops /\ n[t] \in 1..Len(Plan[o[t]])
    /\ Plan[o[t]][n[t]] = Want(l, m)
Taken(o, n, t, l, m) ==
    /\ o[t] \in Ops
    /\ \E i \in 1..Len(Plan[o[t]]) : i < n[t] /\ Plan[o[t]][i] = Want(l, m)

Types ==
    /\ op \in [Tasks -> Ops \union {"none"}]
    /\ next \in [Tasks -> Nat \ {0}]
    /\ \A t \in Tasks : op[t] = "none" => next[t] = 1
    /\ holders \in [Locks -> SUBSET Claims]
    /\ queue \in [Locks -> Seq(Claims)]

HoldersOk(l) ==
    /\ \A c \in holders[l] : Taken(op, next, c.task, l, c.mode)
    /\ \A c, d \in holders[l] : c # d => c.mode = "read" /\ d.mode = "read"

QueueOk(l) ==
    /\ \A i \in DOMAIN queue[l] : IsNext(op, next, queue[l][i].task, l, queue[l][i].mode)
    /\ \A i, j \in DOMAIN queue[l] : i # j => queue[l][i].task # queue[l][j].task

LockInv == Types /\ \A l \in Locks : HoldersOk(l) /\ QueueOk(l)

LEMMA ClaimTyped ==
    ASSUME NEW c \in Claims
    PROVE  c.task \in Tasks /\ c.mode \in Modes /\ c = [task |-> c.task, mode |-> c.mode]
BY Zenon DEF Claims

\* No task has taken the lock it takes next, or takes two locks next.
LEMMA TakenOnce ==
    ASSUME NEW t, NEW l, NEW m, NEW k, NEW n, IsNext(op, next, t, l, m)
    PROVE  /\ ~ Taken(op, next, t, l, n)
           /\ IsNext(op, next, t, k, n) => k = l /\ n = m
<1>1. IsPlan(Plan[op[t]])
  BY PlansTyped, Zenon DEF IsNext
<1>2. Want(l, m).lock = l /\ Want(l, m).mode = m /\ \A x, y : Want(x, y).lock = x /\ Want(x, y).mode = y
  BY Zenon DEF Want
<1>3. ~ Taken(op, next, t, l, n)
  <2> SUFFICES ASSUME Taken(op, next, t, l, n) PROVE FALSE
    OBVIOUS
  <2>1. PICK i \in 1..Len(Plan[op[t]]) : i < next[t] /\ Plan[op[t]][i] = Want(l, n)
    BY Zenon DEF Taken
  <2>2. i # next[t] /\ next[t] \in 1..Len(Plan[op[t]]) /\ Plan[op[t]][next[t]] = Want(l, m)
    BY <1>1, <2>1, SMTT(30) DEF IsNext, IsPlan
  <2>3. Plan[op[t]][i].lock = l /\ Plan[op[t]][next[t]].lock = l
    BY <1>2, <2>1, <2>2, Zenon
  <2> QED  BY <1>1, <2>2, <2>3, Zenon DEF IsPlan
<1>4. IsNext(op, next, t, k, n) => k = l /\ n = m
  BY <1>2 DEF IsNext
<1> QED  BY <1>3, <1>4, Zenon

\* The claims of an extended, and of a shortened queue.
LEMMA Extended ==
    ASSUME NEW s \in Seq(Claims), NEW c \in Claims
    PROVE  /\ Append(s, c) \in Seq(Claims)
           /\ \A i \in DOMAIN Append(s, c) : i = Len(s) + 1 \/ i \in DOMAIN s
           /\ Append(s, c)[Len(s) + 1] = c
           /\ \A i \in DOMAIN s : Append(s, c)[i] = s[i] /\ i # Len(s) + 1
<1>1. /\ Append(s, c) \in Seq(Claims) /\ Len(Append(s, c)) = Len(s) + 1
      /\ Append(s, c)[Len(s) + 1] = c /\ \A i \in 1..Len(s) : Append(s, c)[i] = s[i]
  BY AppendProperties
<1>2. /\ DOMAIN Append(s, c) = 1..(Len(s) + 1) /\ DOMAIN s = 1..Len(s) /\ Len(s) \in Nat
  BY <1>1, LenProperties, Zenon
<1> QED  BY <1>1, <1>2

LEMMA Shorter ==
    ASSUME NEW s \in Seq(Claims), s # <<>>
    PROVE  /\ Tail(s) \in Seq(Claims) /\ Head(s) \in Claims
           /\ 1 \in DOMAIN s /\ Head(s) = s[1]
           /\ \A i \in DOMAIN Tail(s) : i + 1 \in DOMAIN s /\ i + 1 # 1 /\ Tail(s)[i] = s[i + 1]
           /\ \A i, j \in DOMAIN Tail(s) : i # j => i + 1 # j + 1
<1>1. /\ Head(s) = s[1] /\ Head(s) \in Claims /\ Tail(s) \in Seq(Claims) /\ Len(Tail(s)) = Len(s) - 1
      /\ \A i \in 1..Len(Tail(s)) : Tail(s)[i] = s[i + 1]
  BY HeadTailProperties
<1>2. /\ DOMAIN s = 1..Len(s) /\ Len(s) \in Nat /\ Len(s) # 0
      /\ DOMAIN Tail(s) = 1..(Len(s) - 1)
  BY <1>1, LenProperties, EmptySeq, Zenon
<1> QED  BY <1>1, <1>2

LEMMA InitInv == LockInit => LockInv
<1> SUFFICES ASSUME LockInit PROVE LockInv
  OBVIOUS
<1>1. Types
  BY EmptySeq DEF LockInit, Types
<1>2. ASSUME NEW l \in Locks PROVE HoldersOk(l) /\ QueueOk(l)
  <2>1. holders[l] = {} /\ queue[l] = <<>>
    BY Zenon DEF LockInit
  <2>2. DOMAIN <<>> = {}
    BY EmptySeq
  <2> QED  BY <2>1, <2>2, Zenon DEF HoldersOk, QueueOk
<1> QED  BY <1>1, <1>2, Zenon DEF LockInv

-----------------------------------------------------------------------------
(* LockInv is inductive. *)

\* A task whose op and next stay as they are.
LEMMA Undisturbed ==
    ASSUME NEW u, op'[u] = op[u], next'[u] = next[u]
    PROVE  \A l, m : /\ Taken(op, next, u, l, m) <=> Taken(op', next', u, l, m)
                     /\ IsNext(op, next, u, l, m) <=> IsNext(op', next', u, l, m)
BY Zenon DEF Taken, IsNext

\* A queue that gets the claim of a task that was in none.
LEMMA QueueGrows ==
    ASSUME NEW l \in Locks, NEW s \in Seq(Claims), NEW c \in Claims,
           \A i \in DOMAIN s : s[i].task # c.task /\ IsNext(op', next', s[i].task, l, s[i].mode),
           \A i, j \in DOMAIN s : i # j => s[i].task # s[j].task,
           IsNext(op', next', c.task, l, c.mode), queue'[l] = Append(s, c)
    PROVE  QueueOk(l)'
<1> DEFINE q == Append(s, c)
<1>1. /\ \A i \in DOMAIN q : i = Len(s) + 1 \/ i \in DOMAIN s
      /\ q[Len(s) + 1] = c
      /\ \A i \in DOMAIN s : q[i] = s[i] /\ i # Len(s) + 1
  BY Extended, Zenon
<1>2. \A i \in DOMAIN q : IsNext(op', next', q[i].task, l, q[i].mode)
  BY <1>1, Zenon
<1>3. \A i, j \in DOMAIN q : i # j => q[i].task # q[j].task
  BY <1>1, Zenon
<1> QED  BY <1>2, <1>3, Zenon DEF QueueOk

LEMMA CallInv ==
    ASSUME LockInv, NEW t \in Tasks, Call(t) PROVE LockInv'
<1>0. Types
  BY Zenon DEF LockInv
<1>1. PICK o \in Ops :
        /\ op[t] = "none" /\ op' = [op EXCEPT ![t] = o]
        /\ queue' = [queue EXCEPT ![Plan[o][1].lock] =
                       Append(@, [task |-> t, mode |-> Plan[o][1].mode])]
  BY Zenon DEF Call
<1> DEFINE k == Plan[o][1].lock
           c == [task |-> t, mode |-> Plan[o][1].mode]
<1>2. UNCHANGED <<next, holders>>
  BY Zenon DEF Call
<1>3. IsPlan(Plan[o]) /\ o # "none" /\ op[t] \notin Ops
  BY <1>1, PlansTyped, Zenon
<1>4. 1 \in 1..Len(Plan[o]) /\ k \in Locks /\ Plan[o][1] = Want(k, c.mode) /\ c.mode \in Modes
  BY <1>3 DEF IsPlan
<1>5. c \in Claims /\ c.task = t
  BY <1>4, Zenon DEF Claims
<1>6. op'[t] = o /\ next'[t] = 1 /\ \A u \in Tasks : u # t => op'[u] = op[u] /\ next'[u] = next[u]
  BY <1>0, <1>1, <1>2, Zenon DEF Types
<1>7. IsNext(op', next', t, k, c.mode)
  BY <1>4, <1>6, Zenon DEF IsNext
<1>8. /\ queue'[k] = Append(queue[k], c) /\ queue[k] \in Seq(Claims)
      /\ \A l \in Locks : l # k => queue'[l] = queue[l]
  BY <1>0, <1>1, <1>4, Zenon DEF Types
<1>9. Types'
  <2>1. Append(queue[k], c) \in Seq(Claims)
    BY <1>5, <1>8, Extended, Zenon
  <2>2. queue' \in [Locks -> Seq(Claims)]
    BY <1>0, <1>1, <1>4, <2>1, Zenon DEF Types
  <2>3. op' \in [Tasks -> Ops \union {"none"}] /\ \A u \in Tasks : op'[u] = "none" => next'[u] = 1
    BY <1>0, <1>1, <1>2, <1>3, Zenon DEF Types
  <2> QED  BY <1>0, <1>2, <2>2, <2>3, Zenon DEF Types
<1> HIDE DEF c, k
<1>10. ASSUME NEW l \in Locks PROVE HoldersOk(l)'
  <2>1. ASSUME NEW d \in holders[l] PROVE Taken(op', next', d.task, l, d.mode)
    <3>1. Taken(op, next, d.task, l, d.mode)
      BY Zenon DEF LockInv, HoldersOk
    <3>2. d.task \in Tasks /\ d.task # t
      BY <1>0, <1>3, <3>1, ClaimTyped, Zenon DEF Types, Taken
    <3> QED  BY <1>6, <3>1, <3>2, Undisturbed, Zenon
  <2> QED  BY <1>2, <2>1, Zenon DEF LockInv, HoldersOk
<1>11. ASSUME NEW l \in Locks, NEW i \in DOMAIN queue[l]
       PROVE  queue[l][i].task # t /\ IsNext(op', next', queue[l][i].task, l, queue[l][i].mode)
  <2>1. IsNext(op, next, queue[l][i].task, l, queue[l][i].mode)
    BY Zenon DEF LockInv, QueueOk
  <2>2. queue[l][i] \in Claims
    BY <1>0, ElementOfSeq, LenProperties, SMTT(30) DEF Types
  <2>3. queue[l][i].task \in Tasks /\ queue[l][i].task # t
    BY <1>3, <2>1, <2>2, ClaimTyped, Zenon DEF IsNext
  <2> QED  BY <1>6, <2>1, <2>3, Undisturbed, Zenon
<1>12. ASSUME NEW l \in Locks PROVE QueueOk(l)'
  <2>1. \A i, j \in DOMAIN queue[l] : i # j => queue[l][i].task # queue[l][j].task
    BY Zenon DEF LockInv, QueueOk
  <2>2. CASE l = k
    <3>1. IsNext(op', next', c.task, l, c.mode) /\ queue'[l] = Append(queue[l], c) /\ queue[l] \in Seq(Claims)
      BY <1>5, <1>7, <1>8, <2>2, Zenon
    <3>2. \A i \in DOMAIN queue[l] :
             queue[l][i].task # c.task /\ IsNext(op', next', queue[l][i].task, l, queue[l][i].mode)
      BY <1>5, <1>11, Zenon
    <3> QED  BY <1>5, <2>1, <3>1, <3>2, QueueGrows, Zenon
  <2>3. CASE l # k
    <3>1. queue'[l] = queue[l]
      BY <1>8, <2>3, Zenon
    <3> QED  BY <1>11, <2>1, <3>1, Zenon DEF QueueOk
  <2> QED  BY <2>2, <2>3, Zenon
<1> QED  BY <1>9, <1>10, <1>12, Zenon DEF LockInv

LEMMA FinishInv ==
    ASSUME LockInv, NEW t \in Tasks, Finish(t) PROVE LockInv'
<1>0. Types
  BY Zenon DEF LockInv
<1>1. /\ op[t] # "none" /\ next[t] > Len(Plan[op[t]])
      /\ holders' = [l \in Locks |-> {c \in holders[l] : c.task # t}]
      /\ op' = [op EXCEPT ![t] = "none"] /\ next' = [next EXCEPT ![t] = 1] /\ queue' = queue
  BY Zenon DEF Finish
<1>2. \A u \in Tasks : u # t => op'[u] = op[u] /\ next'[u] = next[u]
  BY <1>0, <1>1, Zenon DEF Types
<1>3. Types'
  BY <1>0, <1>1 DEF Types
<1>4. ASSUME NEW l \in Locks PROVE HoldersOk(l)'
  <2>1. holders'[l] = {c \in holders[l] : c.task # t}
    BY <1>1, Zenon
  <2>2. ASSUME NEW d \in holders'[l] PROVE Taken(op', next', d.task, l, d.mode)
    <3>1. Taken(op, next, d.task, l, d.mode) /\ d.task \in Tasks /\ d.task # t
      BY <1>0, <2>1, <2>2, ClaimTyped, Zenon DEF LockInv, HoldersOk, Types
    <3> QED  BY <1>2, <3>1, Undisturbed, Zenon
  <2> QED  BY <2>1, <2>2, Zenon DEF LockInv, HoldersOk
<1>5. ASSUME NEW l \in Locks PROVE QueueOk(l)'
  <2>1. ASSUME NEW i \in DOMAIN queue[l] PROVE IsNext(op', next', queue[l][i].task, l, queue[l][i].mode)
    <3>1. IsNext(op, next, queue[l][i].task, l, queue[l][i].mode)
      BY Zenon DEF LockInv, QueueOk
    <3>2. queue[l][i] \in Claims
      BY <1>0, ElementOfSeq, LenProperties DEF Types
    <3>3. ~ IsNext(op, next, t, l, queue[l][i].mode)
      <4>1. IsNext(op, next, t, l, queue[l][i].mode) => IsPlan(Plan[op[t]])
        BY PlansTyped, Zenon DEF IsNext
      <4> QED  BY <1>1, <4>1, SMTT(30) DEF IsNext, IsPlan
    <3>4. queue[l][i].task \in Tasks /\ queue[l][i].task # t
      BY <3>1, <3>2, <3>3, ClaimTyped, Zenon
    <3> QED  BY <1>2, <3>1, <3>4, Undisturbed, Zenon
  <2> QED  BY <1>1, <2>1, ZenonT(30) DEF LockInv, QueueOk
<1> QED  BY <1>3, <1>4, <1>5, Zenon DEF LockInv

LEMMA Inside == ASSUME NEW n \in Nat \ {0}, NEW m \in Nat \ {0}, ~ (n > m) PROVE n \in 1..m
OBVIOUS

LEMMA GrantInv ==
    ASSUME LockInv, NEW l \in Locks, Grant(l) PROVE LockInv'
<1> DEFINE c == Head(queue[l])
           t == c.task
           plan == Plan[op[t]]
           n == next[t] + 1
           rest == [queue EXCEPT ![l] = Tail(@)]
           k == plan[n].lock
           e == [task |-> t, mode |-> plan[n].mode]
<1>0. Types /\ queue[l] \in Seq(Claims)
  BY Zenon DEF LockInv, Types
<1>1. /\ queue[l] # <<>> /\ op' = op
      /\ IF c.mode = "write" THEN holders[l] = {} ELSE \A h \in holders[l] : h.mode = "read"
      /\ holders' = [holders EXCEPT ![l] = @ \union {c}]
      /\ next' = [next EXCEPT ![t] = @ + 1]
      /\ queue' = IF n > Len(plan) THEN rest ELSE [rest EXCEPT ![k] = Append(@, e)]
  BY Zenon DEF Grant
<1>2. /\ Tail(queue[l]) \in Seq(Claims) /\ c \in Claims
      /\ 1 \in DOMAIN queue[l] /\ c = queue[l][1]
      /\ \A i \in DOMAIN Tail(queue[l]) : /\ i + 1 \in DOMAIN queue[l] /\ i + 1 # 1
                                          /\ Tail(queue[l])[i] = queue[l][i + 1]
      /\ \A i, j \in DOMAIN Tail(queue[l]) : i # j => i + 1 # j + 1
  BY <1>0, <1>1, Shorter, Zenon
<1>3. t \in Tasks /\ c.mode \in Modes /\ IsNext(op, next, t, l, c.mode)
  BY <1>2, ClaimTyped, Zenon DEF LockInv, QueueOk
<1>4. IsPlan(plan) /\ op[t] \in Ops /\ next[t] \in 1..Len(plan) /\ plan[next[t]] = Want(l, c.mode)
  BY <1>3, PlansTyped, Zenon DEF IsNext
<1> HIDE DEF c
<1>5. /\ next'[t] = n /\ next[t] \in Nat \ {0} /\ n \in Nat \ {0}
      /\ \A u \in Tasks : u # t => next'[u] = next[u]
  <2>1. next \in [Tasks -> Nat \ {0}]
    BY <1>0, Zenon DEF Types
  <2>2. next' = [next EXCEPT ![t] = next[t] + 1]
    BY <1>1, Zenon
  <2> HIDE DEF t
  <2>3. next[t] \in Nat \ {0} /\ next[t] + 1 \in Nat \ {0}
    BY <1>3, <2>1
  <2>4. next'[t] = next[t] + 1 /\ \A u \in Tasks : u # t => next'[u] = next[u]
    BY <1>3, <2>1, <2>2, Zenon
  <2> QED  BY <2>3, <2>4, Zenon
<1>6. Taken(op', next', t, l, c.mode)
  <2>1. op'[t] \in Ops /\ Plan[op'[t]] = plan
    BY <1>1, <1>4, Zenon
  <2>2. next[t] < next'[t]
    <3> HIDE DEF t
    <3> QED  BY <1>5
  <2> QED  BY <1>4, <2>1, <2>2, Zenon DEF Taken
<1>7. ASSUME NEW u \in Tasks, NEW j, NEW m, Taken(op, next, u, j, m) PROVE Taken(op', next', u, j, m)
  <2>1. next[u] <= next'[u] /\ next[u] \in Nat /\ next'[u] \in Nat
    <3>1. next[u] \in Nat
      BY <1>0, Zenon DEF Types
    <3> HIDE DEF t
    <3> QED  BY <1>5, <3>1
  <2>2. IsPlan(Plan[op[u]])
    BY <1>7, PlansTyped, Zenon DEF Taken
  <2>3. PICK i \in 1..Len(Plan[op[u]]) : i < next[u] /\ Plan[op[u]][i] = Want(j, m)
    BY <1>7, Zenon DEF Taken
  <2>4. i < next'[u]
    BY <2>1, <2>2, <2>3 DEF IsPlan
  <2> QED  BY <1>1, <1>7, <2>3, <2>4, Zenon DEF Taken
<1>8. ASSUME NEW j \in Locks PROVE HoldersOk(j)'
  <2>1. ASSUME NEW d \in holders[j] PROVE Taken(op', next', d.task, j, d.mode)
    <3>1. Taken(op, next, d.task, j, d.mode) /\ d.task \in Tasks
      BY <1>0, ClaimTyped, Zenon DEF LockInv, HoldersOk, Types
    <3> QED  BY <1>7, <3>1, Zenon
  <2>2. CASE j # l
    <3>1. holders'[j] = holders[j]
      BY <1>0, <1>1, <2>2, Zenon DEF Types
    <3> QED  BY <2>1, <3>1, Zenon DEF LockInv, HoldersOk
  <2>3. CASE j = l
    <3>1. holders'[j] = holders[j] \union {c}
      BY <1>0, <1>1, <2>3, Zenon DEF Types
    <3>2. \A a \in holders[j] : a.mode = "read" /\ c.mode = "read"
      BY <1>1, <1>3, <2>3, Zenon DEF Modes
    <3>3. \A a, b \in holders'[j] : a # b => a.mode = "read" /\ b.mode = "read"
      BY <3>1, <3>2, Zenon
    <3>4. \A d \in holders'[j] : Taken(op', next', d.task, j, d.mode)
      BY <1>6, <2>1, <2>3, <3>1, Zenon
    <3> QED  BY <3>3, <3>4, Zenon DEF HoldersOk
  <2> QED  BY <2>2, <2>3, Zenon
\* What is left of the queues has no claim of t.
<1>9. /\ rest \in [Locks -> Seq(Claims)] /\ rest[l] = Tail(queue[l])
      /\ \A j \in Locks : j # l => rest[j] = queue[j]
  BY <1>0, <1>2, Zenon DEF Types
<1>10. ASSUME NEW j \in Locks, NEW i \in DOMAIN rest[j]
       PROVE  /\ rest[j][i].task # t
              /\ IsNext(op', next', rest[j][i].task, j, rest[j][i].mode)
  <2>1. PICK h \in DOMAIN queue[j] : rest[j][i] = queue[j][h] /\ (j = l => h # 1)
    BY <1>2, <1>9, <1>10, Zenon
  <2>2. IsNext(op, next, rest[j][i].task, j, rest[j][i].mode)
    BY <2>1, Zenon DEF LockInv, QueueOk
  <2>3. rest[j][i] \in Claims
    BY <1>9, <1>10, ElementOfSeq, LenProperties
  <2>4. rest[j][i].task # t
    <3>1. CASE j = l
      <4>1. queue[l][h].task # queue[l][1].task
        BY <1>2, <2>1, <3>1, Zenon DEF LockInv, QueueOk
      <4> QED  BY <1>2, <2>1, <3>1, <4>1, Zenon
    <3>2. CASE j # l
      BY <1>3, <2>2, <3>2, TakenOnce
    <3> QED  BY <3>1, <3>2, Zenon
  <2>5. rest[j][i].task \in Tasks
    BY <2>3, ClaimTyped, Zenon
  <2> QED  BY <1>1, <1>5, <2>2, <2>4, <2>5, Undisturbed, Zenon
<1>11. ASSUME NEW j \in Locks, NEW i \in DOMAIN rest[j], NEW h \in DOMAIN rest[j], i # h
       PROVE  rest[j][i].task # rest[j][h].task
  <2>1. CASE j = l
    <3>1. /\ i + 1 \in DOMAIN queue[l] /\ h + 1 \in DOMAIN queue[l] /\ i + 1 # h + 1
          /\ rest[j][i] = queue[l][i + 1] /\ rest[j][h] = queue[l][h + 1]
      BY <1>2, <1>9, <1>11, <2>1, Zenon
    <3> QED  BY <3>1, Zenon DEF LockInv, QueueOk
  <2>2. CASE j # l
    BY <1>9, <1>11, <2>2, Zenon DEF LockInv, QueueOk
  <2> QED  BY <2>1, <2>2, Zenon
<1> HIDE DEF rest
<1>12. CASE n > Len(plan)
  <2>1. queue' = rest
    BY <1>1, <1>12, Zenon
  <2>2. Types'
    BY <1>0, <1>1, <1>2, <1>3, <1>4, <1>5, <1>9, <2>1, PlansTyped, ZenonT(30) DEF Types
  <2>3. ASSUME NEW j \in Locks PROVE QueueOk(j)'
    BY <1>10, <1>11, <2>1, Zenon DEF QueueOk
  <2> QED  BY <1>8, <2>2, <2>3, Zenon DEF LockInv
<1>13. CASE ~ (n > Len(plan))
  <2>1. n \in 1..Len(plan)
    BY <1>4, <1>5, <1>13, Inside, Zenon DEF IsPlan
  <2>2. k \in Locks /\ plan[n] = Want(k, e.mode) /\ e.mode \in Modes
    BY <1>4, <2>1, Zenon DEF IsPlan
  <2>3. e \in Claims /\ e.task = t
    BY <1>3, <2>2, Zenon DEF Claims
  <2>4. IsNext(op', next', t, k, e.mode)
    BY <1>1, <1>4, <1>5, <2>1, <2>2, Zenon DEF IsNext
  <2> HIDE DEF k, e
  <2>5. queue' = [rest EXCEPT ![k] = Append(rest[k], e)]
    BY <1>1, <1>13, ZenonT(30) DEF k, e
  <2>6. Append(rest[k], e) \in Seq(Claims)
    BY <1>9, <2>2, <2>3, Extended, Zenon
  <2>7. /\ queue' \in [Locks -> Seq(Claims)] /\ queue'[k] = Append(rest[k], e)
        /\ \A j \in Locks : j # k => queue'[j] = rest[j]
    BY <1>9, <2>2, <2>5, <2>6, Zenon
  <2>8. Types'
    BY <1>0, <1>1, <1>2, <1>3, <1>4, <1>5, <2>7, PlansTyped, ZenonT(30) DEF Types
  <2>9. ASSUME NEW j \in Locks PROVE QueueOk(j)'
    <3>1. CASE j = k
      <4>1. \A i \in DOMAIN rest[k] : rest[k][i].task # e.task
                                      /\ IsNext(op', next', rest[k][i].task, k, rest[k][i].mode)
        BY <1>10, <2>2, <2>3, Zenon
      <4>2. \A i, h \in DOMAIN rest[k] : i # h => rest[k][i].task # rest[k][h].task
        BY <1>11, <2>2, Zenon
      <4>3. IsNext(op', next', e.task, k, e.mode) /\ rest[k] \in Seq(Claims)
        BY <1>9, <2>2, <2>3, <2>4, Zenon
      <4> QED  BY <2>2, <2>3, <2>7, <3>1, <4>1, <4>2, <4>3, QueueGrows, Zenon
    <3>2. CASE j # k
      <4>1. queue'[j] = rest[j]
        BY <2>7, <3>2, Zenon
      <4> QED  BY <1>10, <1>11, <4>1, Zenon DEF QueueOk
    <3> QED  BY <3>1, <3>2, Zenon
  <2> QED  BY <1>8, <2>8, <2>9, Zenon DEF LockInv
<1> QED  BY <1>12, <1>13, Zenon

LEMMA LocksCorrect == LockSpec => []LockInv
<1>1. LockInv /\ [LockNext]_lockVars => LockInv'
  <2> SUFFICES ASSUME LockInv, [LockNext]_lockVars PROVE LockInv'
    OBVIOUS
  <2>1. ASSUME UNCHANGED lockVars PROVE LockInv'
    BY <2>1 DEF lockVars, LockInv, Types, HoldersOk, QueueOk
  <2> QED  BY <2>1, CallInv, FinishInv, GrantInv, Zenon DEF LockNext
<1> QED  BY <1>1, InitInv, PTL DEF LockSpec

-----------------------------------------------------------------------------
(* The order of the locks. *)

Rank ==
    [nodes |-> 1, edges |-> 2, edge_index |-> 3, edge_out_index |-> 4,
     last_cleanup_ts |-> 1, signals |-> 1]

LEMMA Ranks ==
    /\ \A l \in Locks : Rank[l] \in 1..4
    /\ Rank["nodes"] = 1 /\ Rank["edges"] = 2 /\ Rank["edge_index"] = 3 /\ Rank["edge_out_index"] = 4
BY DEF Rank, Locks

\* Every method but find_root_cause takes its locks in the order of their ranks.
Ascends(p) == \A i, j \in 1..Len(p) : i < j => Rank[p[i].lock] < Rank[p[j].lock]

LEMMA PlansAscend == \A o \in Ops \ {"why"} : Ascends(Plan[o])
<1>1. \A l \in Locks : Read(l).lock = l /\ Write(l).lock = l
  BY Zenon DEF Read, Write
<1>2. ASSUME NEW x PROVE Ascends(<<x>>)
  BY DEF Ascends
<1>3. ASSUME NEW x, NEW y, x.lock = "nodes", y.lock = "edges" PROVE Ascends(<<x, y>>)
  <2> DEFINE p == <<x, y>>
  <2>1. Len(p) = 2 /\ p[1].lock = "nodes" /\ p[2].lock = "edges"
    BY <1>3
  <2> HIDE DEF p
  <2>2. \A i, j \in 1..2 : i < j => i = 1 /\ j = 2
    OBVIOUS
  <2>3. 1 < 2
    OBVIOUS
  <2>4. Ascends(p)
    BY <2>1, <2>2, <2>3, Ranks, Zenon DEF Ascends
  <2> QED  BY <2>4 DEF p
<1>4. ASSUME NEW x, NEW y, NEW z, NEW w,
             x.lock = "nodes", y.lock = "edges", z.lock = "edge_index", w.lock = "edge_out_index"
      PROVE  Ascends(<<x, y, z, w>>)
  <2> DEFINE p == <<x, y, z, w>>
  <2>1. /\ Len(p) = 4 /\ p[1].lock = "nodes" /\ p[2].lock = "edges"
        /\ p[3].lock = "edge_index" /\ p[4].lock = "edge_out_index"
    BY <1>4
  <2> HIDE DEF p
  <2>2. Rank[p[1].lock] = 1 /\ Rank[p[2].lock] = 2 /\ Rank[p[3].lock] = 3 /\ Rank[p[4].lock] = 4
    BY <2>1, Ranks, Zenon
  <2> DEFINE f(i) == Rank[p[i].lock]
  <2>3. f(1) = 1 /\ f(2) = 2 /\ f(3) = 3 /\ f(4) = 4
    BY <2>2, Zenon
  <2> HIDE DEF f
  <2>4. \A i, j \in 1..4 : i < j => f(i) < f(j)
    BY <2>3
  <2>5. Ascends(p)
    BY <2>1, <2>4, Zenon DEF Ascends, f
  <2> QED  BY <2>5 DEF p
<1>5. /\ Plan["process_state"] = <<Write("nodes")>>
      /\ Plan["handler"] = <<Write("nodes"), Write("edges"),
                             Write("edge_index"), Write("edge_out_index")>>
      /\ Plan["should_cleanup"] = <<Read("last_cleanup_ts")>>
      /\ Plan["snapshot"] = <<Read("nodes")>>
      /\ Plan["apply"] = <<Write("nodes"), Write("edges"),
                           Write("edge_index"), Write("edge_out_index")>>
      /\ Plan["stamp"] = <<Write("last_cleanup_ts")>>
      /\ Plan["signals"] = <<Write("signals")>>
      /\ Plan["metrics"] = <<Read("nodes"), Read("edges")>>
      /\ Plan["resources"] = <<Read("edge_out_index")>>
      /\ Plan["all_edges"] = <<Read("edges")>>
  BY Zenon DEF Plan
<1>6. \A o \in Ops \ {"why"} :
         o \in {"process_state", "handler", "should_cleanup", "snapshot", "apply",
               "stamp", "signals", "metrics", "resources", "all_edges"}
  BY OpsAreMethods, Zenon DEF Plan
<1>7. /\ Write("nodes").lock = "nodes" /\ Write("edges").lock = "edges"
      /\ Write("edge_index").lock = "edge_index" /\ Write("edge_out_index").lock = "edge_out_index"
      /\ Read("nodes").lock = "nodes" /\ Read("edges").lock = "edges"
  BY <1>1, Zenon DEF Locks
<1>8. Ascends(<<Write("nodes"), Write("edges"), Write("edge_index"), Write("edge_out_index")>>)
  BY <1>4, <1>7, Zenon
<1>9. Ascends(<<Read("nodes"), Read("edges")>>)
  BY <1>3, <1>7, Zenon
<1> QED  BY <1>2, <1>5, <1>6, <1>8, <1>9, Zenon

\* A task that waits holds only locks of a lower rank.
LEMMA HoldsLower ==
    ASSUME LockInv, "why" \notin Ops, NEW u, NEW l \in Locks, NEW k \in Locks, Holds(u, l), Waits(u, k)
    PROVE  Rank[l] < Rank[k]
<1>1. PICK m : Taken(op, next, u, l, m)
  BY DEF Holds, LockInv, HoldersOk
<1>2. PICK n : IsNext(op, next, u, k, n)
  BY Zenon DEF Waits, LockInv, QueueOk
<1>3. PICK i \in 1..Len(Plan[op[u]]) : i < next[u] /\ Plan[op[u]][i] = Want(l, m)
  BY <1>1, Zenon DEF Taken
<1>4. op[u] \in Ops /\ next[u] \in 1..Len(Plan[op[u]]) /\ Plan[op[u]][next[u]] = Want(k, n)
  BY <1>2, Zenon DEF IsNext
<1>5. Ascends(Plan[op[u]])
  BY <1>4, PlansAscend, Zenon
<1>6. Plan[op[u]][i].lock = l /\ Plan[op[u]][next[u]].lock = k
  <2>1. \A x, y : Want(x, y).lock = x
    BY Zenon DEF Want
  <2> QED  BY <1>3, <1>4, <2>1, Zenon
<1> QED  BY <1>3, <1>4, <1>5, <1>6, Zenon DEF Ascends

\* A task waits for one lock at a time.
LEMMA WaitsOnce ==
    ASSUME LockInv, NEW t, NEW l \in Locks, NEW k \in Locks, Waits(t, l), Waits(t, k)
    PROVE  k = l
<1>1. (\E m : IsNext(op, next, t, l, m)) /\ (\E n : IsNext(op, next, t, k, n))
  BY Zenon DEF Waits, LockInv, QueueOk
<1> QED  BY <1>1, TakenOnce, Zenon

\* No deadlock, for any number of tasks and any methods but find_root_cause: in
\* a set of tasks that wait for each other, whoever waits for a lock waits for
\* a task that waits for one of a higher rank (GraphLocks!NoDeadlock).
THEOREM GraphNeverDeadlocks ==
    ASSUME "why" \notin Ops
    PROVE  LockSpec => []NoDeadlock
<1>1. LockInv => NoDeadlock
  <2> SUFFICES ASSUME LockInv, NEW S \in SUBSET Tasks, NEW s \in S,
                      \A t \in S : \E u \in S : WaitsFor(t, u)
               PROVE  FALSE
    <3>1. ASSUME LockInv, NEW S \in (SUBSET Tasks) \ {{}} PROVE \E s : s \in S
      OBVIOUS
    <3> QED  BY <3>1, Zenon DEF NoDeadlock
  <2>1. \A t \in S : \E k \in Locks : Waits(t, k)
    BY Zenon DEF WaitsFor
  <2>2. ASSUME NEW u \in S, NEW l \in Locks, Holds(u, l)
        PROVE  \E v \in S, k \in Locks : Waits(v, k) /\ Rank[l] < Rank[k]
    BY <2>1, <2>2, HoldsLower, Zenon
  <2>3. ASSUME NEW t \in S, NEW l \in Locks, Waits(t, l)
        PROVE  \E v \in S, k \in Locks : Waits(v, k) /\ Rank[l] < Rank[k]
    <3>1. PICK u \in S : Holds(u, l) \/ (u # t /\ Head(queue[l]).task = u)
      <4>1. PICK u \in S : WaitsFor(t, u)
        BY Zenon
      <4>2. PICK k \in Locks : Waits(t, k) /\ (Holds(u, k) \/ (u # t /\ Head(queue[k]).task = u))
        BY <4>1, Zenon DEF WaitsFor
      <4>3. k = l
        BY <2>3, <4>2, WaitsOnce, Zenon
      <4> QED  BY <4>2, <4>3, Zenon
    <3>2. CASE Holds(u, l)
      BY <2>2, <3>2, Zenon
    <3>3. CASE u # t /\ Head(queue[l]).task = u
      <4>1. queue[l] \in Seq(Claims) /\ queue[l] # <<>>
        <5>1. queue[l] \in Seq(Claims)
          BY Zenon DEF LockInv, Types
        <5>2. DOMAIN <<>> = {}
          BY EmptySeq
        <5> QED  BY <2>3, <5>1, <5>2, Zenon DEF Waits
      <4>2. Waits(u, l)
        BY <3>3, <4>1, Shorter, Zenon DEF Waits
      <4>3. PICK w \in S : Holds(w, l) \/ (w # u /\ Head(queue[l]).task = w)
        <5>1. PICK w \in S : WaitsFor(u, w)
          BY Zenon
        <5>2. PICK k \in Locks : Waits(u, k) /\ (Holds(w, k) \/ (w # u /\ Head(queue[k]).task = w))
          BY <5>1, Zenon DEF WaitsFor
        <5>3. k = l
          BY <4>2, <5>2, WaitsOnce, Zenon
        <5> QED  BY <5>2, <5>3, Zenon
      <4> QED  BY <2>2, <3>3, <4>3, Zenon
    <3> QED  BY <3>1, <3>2, <3>3, Zenon
  <2> DEFINE At(n) == \E v \in S, k \in Locks : Waits(v, k) /\ Rank[k] >= n
  <2>4. At(1)
    BY <2>1, Ranks DEF At
  <2>5. ASSUME NEW n \in Nat, At(n) PROVE At(n + 1)
    <3>1. PICK v \in S, k \in Locks : Waits(v, k) /\ Rank[k] >= n
      BY <2>5, Zenon
    <3>2. PICK x \in S, j \in Locks : Waits(x, j) /\ Rank[k] < Rank[j]
      BY <2>3, <3>1, Zenon
    <3>3. Rank[j] >= n + 1
      BY <3>1, <3>2, Ranks
    <3> QED  BY <3>2, <3>3, Zenon
  <2>6. ~ At(5)
    BY Ranks
  <2> HIDE DEF At
  <2>7. At(2)
    BY <2>4, <2>5
  <2>8. At(3)
    BY <2>5, <2>7
  <2>9. At(4)
    BY <2>5, <2>8
  <2> QED  BY <2>5, <2>6, <2>9
<1> QED  BY <1>1, LocksCorrect, PTL

=============================================================================
