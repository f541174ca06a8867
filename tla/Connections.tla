---------------------------- MODULE Connections ----------------------------
(***************************************************************************)
(* The hub's table of connections (hub/src/main.rs): handle_connection     *)
(* registers the sender of a WebSocket under a temporary id, moves it to   *)
(* the node's own id at the first event, and removes it at the end;        *)
(* send_fix_command looks a node up and hands it a command.                *)
(*                                                                         *)
(* Every socket is served by a task of its own, so the task of an old      *)
(* connection may learn of its end after the node has reconnected. What    *)
(* else an event does is in HubIngest.                                     *)
(***************************************************************************)
EXTENDS Naturals, FiniteSets

CONSTANTS
    Nodes,      \* node ids that events carry
    Addrs,      \* temporary ids, "node-<ip>"
    Sockets,    \* accepted connections, each used once
    Owner,      \* the node at the other end of a socket
    Addr,       \* the temporary id of a socket
    None

ASSUME SocketsHaveEnds ==
    /\ Owner \in [Sockets -> Nodes] /\ Addr \in [Sockets -> Addrs]
    /\ Nodes \intersect Addrs = {} /\ None \notin Sockets \union Nodes \union Addrs

Ids == Nodes \union Addrs

VARIABLES
    connections,    \* id -> the socket whose sender is stored, or None
    node_id,        \* per socket: the id its task knows it by
    task,           \* per socket: its read task: "none", "reading", "moving",
                    \* "returned", "errored"
    rx,             \* per socket: does the write task still receive?
    up,             \* per socket: is the WebSocket intact?
    reply           \* the last answer of POST /api/v1/fix and its node

vars == <<connections, node_id, task, rx, up, reply>>

Init ==
    /\ connections = [i \in Ids |-> None]
    /\ node_id = [s \in Sockets |-> None]
    /\ task = [s \in Sockets |-> "none"]
    /\ rx = [s \in Sockets |-> FALSE] /\ up = [s \in Sockets |-> FALSE]
    /\ reply = [node |-> None, ok |-> TRUE]

-----------------------------------------------------------------------------
(* handle_connection. *)

\* Mutant: the task does not remember the temporary id it registered.
Accept_Anonymous(s) ==
    /\ task[s] = "none"
    /\ task' = [task EXCEPT ![s] = "reading"]
    /\ rx' = [rx EXCEPT ![s] = TRUE]
    /\ up' = [t \in Sockets |-> t = s \/ (up[t] /\ Owner[t] # Owner[s])]
    /\ connections' = [connections EXCEPT ![Addr[s]] = s]
    /\ UNCHANGED <<node_id, reply>>

\* A new connection is registered at once, under its temporary id. An agent
\* opens one only when it has given up the one before.
Accept(s) ==
    /\ task[s] = "none"
    /\ task' = [task EXCEPT ![s] = "reading"]
    /\ rx' = [rx EXCEPT ![s] = TRUE]
    /\ up' = [t \in Sockets |-> t = s \/ (up[t] /\ Owner[t] # Owner[s])]
    /\ node_id' = [node_id EXCEPT ![s] = Addr[s]]
    /\ connections' = [connections EXCEPT ![Addr[s]] = s]
    /\ UNCHANGED reply

\* Mutant: the entry under the old id is left behind.
ReadEvent_LeavesOld(s) ==
    /\ task[s] = "reading" /\ node_id[s] # Owner[s]
    /\ node_id' = [node_id EXCEPT ![s] = Owner[s]]
    /\ task' = [task EXCEPT ![s] = "moving"]
    /\ UNCHANGED <<connections, rx, up, reply>>

\* The first event with the node's id moves the entry: whatever stands under
\* the temporary id is removed, ... Events that were sent before the connection
\* broke are still read.
ReadEvent(s) ==
    /\ task[s] = "reading" /\ node_id[s] # Owner[s]
    /\ connections' = [connections EXCEPT ![node_id[s]] = None]
    /\ node_id' = [node_id EXCEPT ![s] = Owner[s]]
    /\ task' = [task EXCEPT ![s] = "moving"]
    /\ UNCHANGED <<rx, up, reply>>

\* ... and the sender is inserted under the node's id, in a second call.
Reinsert(s) ==
    /\ task[s] = "moving"
    /\ connections' = [connections EXCEPT ![node_id[s]] = s]
    /\ task' = [task EXCEPT ![s] = "reading"]
    /\ UNCHANGED <<node_id, rx, up, reply>>

\* Mutant: the temporary id is removed instead of the current one.
ReadEnd_ByAddr(s) ==
    /\ task[s] = "reading"
    /\ task' = [task EXCEPT ![s] = "returned"]
    /\ rx' = [rx EXCEPT ![s] = FALSE] /\ up' = [up EXCEPT ![s] = FALSE]
    /\ connections' = [connections EXCEPT ![Addr[s]] = None]
    /\ UNCHANGED <<node_id, reply>>

\* A close frame or the end of the stream: whatever the table holds under the
\* task's id is removed, and the write task is aborted.
ReadEnd(s) ==
    /\ task[s] = "reading"
    /\ task' = [task EXCEPT ![s] = "returned"]
    /\ rx' = [rx EXCEPT ![s] = FALSE] /\ up' = [up EXCEPT ![s] = FALSE]
    /\ connections' = [connections EXCEPT ![node_id[s]] = None]
    /\ UNCHANGED <<node_id, reply>>

\* A read error returns early (`msg?'): the entry and the write task stay.
ReadError(s) ==
    /\ task[s] = "reading"
    /\ task' = [task EXCEPT ![s] = "errored"]
    /\ up' = [up EXCEPT ![s] = FALSE]
    /\ UNCHANGED <<connections, node_id, rx, reply>>

\* The connection breaks; its read task has not noticed.
Break(s) ==
    /\ up[s]
    /\ up' = [up EXCEPT ![s] = FALSE]
    /\ UNCHANGED <<connections, node_id, task, rx, reply>>

-----------------------------------------------------------------------------

\* send_fix_command: the command goes into the channel of the entry. The
\* write task ends at the first message it cannot write; from then on the
\* channel is closed and the send fails. The system may take several messages
\* for a broken connection before it reports the error.
send_fix_command(n) ==
    LET s == connections[n] IN
    /\ reply' = [node |-> n, ok |-> s # None /\ rx[s]]
    /\ \/ s # None /\ ~ up[s] /\ rx' = [rx EXCEPT ![s] = FALSE]
       \/ rx' = rx

\* POST /api/v1/fix; the diagnose route sends in the same way.
Fix(n) ==
    /\ send_fix_command(n)
    /\ UNCHANGED <<connections, node_id, task, up>>

Serve(s) == Accept(s) \/ ReadEvent(s) \/ Reinsert(s) \/ ReadEnd(s) \/ ReadError(s)

Next ==
    \/ \E s \in Sockets : Serve(s) \/ Break(s)
    \/ \E n \in Nodes : Fix(n)

Spec == Init /\ [][Next]_vars

-----------------------------------------------------------------------------

TypeOK ==
    /\ connections \in [Ids -> Sockets \union {None}]
    /\ node_id \in [Sockets -> Ids \union {None}]
    /\ task \in [Sockets -> {"none", "reading", "moving", "returned", "errored"}]
    /\ rx \in [Sockets -> BOOLEAN] /\ up \in [Sockets -> BOOLEAN]
    /\ reply \in [node : Nodes \union {None}, ok : BOOLEAN]
    /\ \A s \in Sockets : /\ up[s] => task[s] \in {"reading", "moving"}
                          /\ task[s] = "none" <=> node_id[s] = None

\* Every entry is the one that its own task will remove: a sender is stored
\* under the id its task knows and under no other, so a command for a node
\* never goes to another node's connection, and no entry outlives a task that
\* ended in order.
EntriesOwned ==
    \A i \in Ids, s \in Sockets : connections[i] = s =>
        /\ node_id[s] = i /\ i \in {Owner[s], Addr[s]}
        /\ task[s] \in {"reading", "errored"}

\* A sender is displaced while its connection stands only on behalf of another
\* socket that goes by the same id: a reconnect of the node, or a node behind
\* the same address that has not sent an event yet.
LostToNamesake ==
    [][\A i \in Ids, s \in Sockets :
          (connections[i] = s /\ connections'[i] # s /\ up'[s]) =>
              \/ node_id'[s] # i
              \/ \E t \in Sockets \ {s} : node_id[t] = i \/ node_id'[t] = i]_vars

\* The answer "node not connected" is true: it is not given of a node whose
\* connection stands and has sent an event that the hub has dealt with.
NotConnectedIsTrue ==
    [][\A n \in Nodes : Fix(n) /\ ~ reply'.ok =>
          ~ \E s \in Sockets : up[s] /\ node_id[s] = n /\ task[s] = "reading"]_vars

=============================================================================
