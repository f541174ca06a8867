----------------------------- MODULE GraphLocks -----------------------------
(***************************************************************************)
(* The locks of the causal graph (core/src/graph.rs) and the order in      *)
(* which each of its methods takes them.                                   *)
(*                                                                         *)
(* Every method acquires the tokio RwLocks of its plan one by one, holds   *)
(* all of them, works, and drops them together. StateGraph takes each such *)
(* section as one step; this module is about whether it ever ends. What a  *)
(* method does between two sections holds no lock, so each section is an   *)
(* operation of its own.                                                   *)
(***************************************************************************)
EXTENDS Naturals, Sequences

CONSTANTS
    Tasks,      \* the tokio tasks that call the graph
    Ops         \* the operations they call, a subset of the domain of Plan

Locks == {"nodes", "edges", "edge_index", "edge_out_index", "last_cleanup_ts", "signals"}

Write(l) == [lock |-> l, mode |-> "write"]
Read(l) == [lock |-> l, mode |-> "read"]

\* Mutant: the apply section of the cleanup takes the adjacency index first.
Plan_IndexFirst ==
    [process_state  |-> <<Write("nodes")>>,
     handler        |-> <<Write("nodes"), Write("edges"),
                          Write("edge_index"), Write("edge_out_index")>>,
     should_cleanup |-> <<Read("last_cleanup_ts")>>,
     snapshot       |-> <<Read("nodes")>>,
     apply          |-> <<Write("edge_out_index"), Write("nodes"), Write("edges"),
                          Write("edge_index")>>,
     stamp          |-> <<Write("last_cleanup_ts")>>,
     signals        |-> <<Write("signals")>>,
     metrics        |-> <<Read("nodes"), Read("edges")>>,
     resources      |-> <<Read("edge_out_index")>>,
     all_edges      |-> <<Read("edges")>>,
     why            |-> <<Read("edge_out_index"), Read("nodes")>>]

\* The locks of each section, in the order of its `.await's: process_state also
\* stands for the node insertion of update_signals, handler for the compute,
\* transport and error handlers, snapshot for every read of nodes alone
\* (get_active_processes, get_nodes_async), all_edges for get_all_edges_async.
Plan ==
    [process_state  |-> <<Write("nodes")>>,
     handler        |-> <<Write("nodes"), Write("edges"),
                          Write("edge_index"), Write("edge_out_index")>>,
     should_cleanup |-> <<Read("last_cleanup_ts")>>,
     snapshot       |-> <<Read("nodes")>>,
     apply          |-> <<Write("nodes"), Write("edges"),
                          Write("edge_index"), Write("edge_out_index")>>,
     stamp          |-> <<Write("last_cleanup_ts")>>,
     signals        |-> <<Write("signals")>>,
     metrics        |-> <<Read("nodes"), Read("edges")>>,
     resources      |-> <<Read("edge_out_index")>>,
     all_edges      |-> <<Read("edges")>>,
     why            |-> <<Read("edge_out_index"), Read("nodes")>>]

ASSUME OpsAreMethods == Ops \subseteq DOMAIN Plan

VARIABLES
    op,         \* the operation each task is in, or "none"
    next,       \* the index in its plan of the lock it takes next
    holders,    \* per lock: the tasks that hold it, and how
    queue       \* per lock: the tasks that wait for it, first come first served

lockVars == <<op, next, holders, queue>>

LockInit ==
    /\ op = [t \in Tasks |-> "none"]
    /\ next = [t \in Tasks |-> 1]
    /\ holders = [l \in Locks |-> {}]
    /\ queue = [l \in Locks |-> <<>>]

Holds(t, l) == \E c \in holders[l] : c.task = t
Waits(t, l) == \E i \in DOMAIN queue[l] : queue[l][i].task = t

\* A task calls a method: it queues for the first lock of its plan.
Call(t) == \E o \in Ops :
    /\ op[t] = "none"
    /\ op' = [op EXCEPT ![t] = o]
    /\ queue' = [queue EXCEPT ![Plan[o][1].lock] =
                   Append(@, [task |-> t, mode |-> Plan[o][1].mode])]
    /\ UNCHANGED <<next, holders>>

\* tokio's RwLock is fair: only the task at the head of the queue may enter,
\* a writer when nobody holds the lock, a reader when no writer does.
Grant(l) ==
    /\ queue[l] # <<>>
    /\ LET c == Head(queue[l]) IN
       /\ IF c.mode = "write" THEN holders[l] = {}
          ELSE \A h \in holders[l] : h.mode = "read"
       /\ holders' = [holders EXCEPT ![l] = @ \union {c}]
       /\ next' = [next EXCEPT ![c.task] = @ + 1]
       /\ LET rest == [queue EXCEPT ![l] = Tail(@)]
              n == next[c.task] + 1
              plan == Plan[op[c.task]] IN
          queue' = IF n > Len(plan) THEN rest
                   ELSE [rest EXCEPT ![plan[n].lock] =
                           Append(@, [task |-> c.task, mode |-> plan[n].mode])]
    /\ UNCHANGED op

\* The method has all its locks, does its work and drops every guard.
Finish(t) ==
    /\ op[t] # "none"
    /\ next[t] > Len(Plan[op[t]])
    /\ holders' = [l \in Locks |-> {c \in holders[l] : c.task # t}]
    /\ op' = [op EXCEPT ![t] = "none"]
    /\ next' = [next EXCEPT ![t] = 1]
    /\ UNCHANGED queue

LockNext ==
    \/ \E t \in Tasks : Call(t) \/ Finish(t)
    \/ \E l \in Locks : Grant(l)

\* tokio runs every task that can run, and its locks hand over in order; a
\* task need not call another method.
Fairness ==
    /\ \A t \in Tasks : WF_lockVars(Finish(t))
    /\ \A l \in Locks : WF_lockVars(Grant(l))

LockSpec == LockInit /\ [][LockNext]_lockVars /\ Fairness

-----------------------------------------------------------------------------

LocksTypeOK ==
    /\ op \in [Tasks -> Ops \union {"none"}]
    /\ next \in [Tasks -> 1..5]
    /\ \A l \in Locks : /\ holders[l] \subseteq [task : Tasks, mode : {"read", "write"}]
                        /\ queue[l] \in Seq([task : Tasks, mode : {"read", "write"}])
    /\ \A t \in Tasks : op[t] = "none" =>
          next[t] = 1 /\ \A l \in Locks : ~ Holds(t, l) /\ ~ Waits(t, l)

\* t waits for a lock that u holds, or for which u is the first in line.
WaitsFor(t, u) ==
    \E l \in Locks : /\ Waits(t, l)
                     /\ Holds(u, l) \/ (u # t /\ Head(queue[l]).task = u)

\* No deadlock among the callers of the graph: whatever set of tasks one looks
\* at, one of them waits for none of the set. It rests on the order in which the
\* methods take their locks, which find_root_cause does not keep.
NoDeadlock ==
    \A S \in (SUBSET Tasks) \ {{}} : \E t \in S : \A u \in S : ~ WaitsFor(t, u)

\* Every call of a method of the graph returns: process_event, the cleanup,
\* the metrics task and the queries of IPC and the HTTP API never block each
\* other for good.
CallsReturn == \A t \in Tasks : op[t] # "none" ~> op[t] = "none"

\* `why' is answered: the query of a root cause returns its chain.
WhyReturns == \A t \in Tasks : op[t] = "why" ~> op[t] = "none"

=============================================================================
