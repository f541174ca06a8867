---------------------------- MODULE FixDelivery ----------------------------
(***************************************************************************)
(* A fix command on its way from the hub to a process: send_fix_command    *)
(* (Connections), the WebSocket, the command listener of the agent         *)
(* (agent/src/hub_forwarder.rs) and the ActionExecutor                     *)
(* (agent/src/exec/executor.rs).                                           *)
(*                                                                         *)
(* A listener handles one command at a time and awaits it, sleeps          *)
(* included. A reconnect aborts the listener of the connection given up,   *)
(* wherever it is.                                                         *)
(***************************************************************************)
EXTENDS Connections, Sequences

CONSTANTS
    Targets,        \* bound: the nodes that commands are issued for
    Wanted,         \* the actions that commands ask for, a subset of ActionNames
    MaxCommands     \* bound: commands that are issued

\* GracefulShutdown with signal, wait and force_kill; NetworkRestart; the
\* actions that are one step (Signal, KillProcess, CgroupThrottle, ...); text
\* that names no action.
ActionNames == {"graceful", "network", "single", "unknown"}

ASSUME DeliveryConstants == 
    Targets \subseteq Nodes /\ Wanted \subseteq ActionNames /\ MaxCommands \in Nat

VARIABLES
    inbox,          \* per socket: commands sent to the agent, not yet read
    listener,       \* per socket: the listener task and the step it is at
    orphan,         \* per socket: the `ip link set' that outlives its aborted listener
    link,           \* per node: the interface, "up" or "down"
    issued,         \* commands issued so far; they are numbered
    \* history
    handled,        \* per node: the commands taken up, in order
    left_down       \* nodes where bringing the interface up failed or is nobody's task

agent == <<inbox, listener, orphan, link, issued, handled, left_down>>
allVars == <<vars, agent>>

DeliveryInit ==
    /\ Init
    /\ inbox = [s \in Sockets |-> <<>>]
    /\ listener = [s \in Sockets |-> "none"]
    /\ orphan = [s \in Sockets |-> "none"]
    /\ link = [n \in Nodes |-> "up"]
    /\ issued = 0
    /\ handled = [n \in Nodes |-> <<>>] /\ left_down = {}

-----------------------------------------------------------------------------
(* The hub's side, and the network. *)

\* A connection that is gone loses what the agent has not yet received.
LosesSuffix(s) ==
    \E k \in 0..Len(inbox[s]) : inbox' = [inbox EXCEPT ![s] = SubSeq(@, 1, k)]

\* POST /api/v1/fix for the process on node n; a command written to a broken
\* connection reaches nobody.
Command(n, a) ==
    /\ issued < MaxCommands /\ issued' = issued + 1
    /\ Fix(n)
    /\ LET s == connections[n] IN
       inbox' = IF reply'.ok /\ up[s]
                THEN [inbox EXCEPT ![s] = Append(@, [id |-> issued + 1, action |-> a])]
                ELSE inbox
    /\ UNCHANGED <<listener, orphan, link, handled, left_down>>

HubReadsOn(s) ==
    /\ ReadEvent(s) \/ Reinsert(s)
    /\ UNCHANGED agent

HubLetsGo(s) ==
    /\ ReadEnd(s) \/ ReadError(s) \/ Break(s)
    /\ LosesSuffix(s)
    /\ UNCHANGED <<listener, orphan, link, issued, handled, left_down>>

-----------------------------------------------------------------------------
(* connect and reconnect. *)

Live == {"waiting", "signal", "sleep", "kill", "down", "up"}

\* Mutant: a reconnect leaves the old listener running.
AbortListeners_Forgets(old, new) ==
    /\ listener' = [s \in Sockets |-> IF s \in new THEN "waiting" ELSE listener[s]]
    /\ UNCHANGED <<inbox, orphan, left_down>>

\* handle.abort() for the old connections of an agent, wherever their listeners
\* are: one between taking the interface down and bringing it up never does the
\* latter, and an `ip' that it was waiting for is not killed with it. The new
\* connection, if there is one, starts a listener.
AbortListeners(old, new) ==
    /\ listener' = [s \in Sockets |-> IF s \in new THEN "waiting"
                                      ELSE IF s \in old /\ listener[s] \in Live THEN "ended"
                                      ELSE listener[s]]
    /\ inbox' = [s \in Sockets |-> IF s \in old THEN <<>> ELSE inbox[s]]
    /\ orphan' = [s \in Sockets |-> IF s \in old /\ listener[s] \in {"down", "up"} THEN listener[s]
                                    ELSE orphan[s]]
    /\ left_down' = left_down \union {Owner[s] : s \in {t \in old : listener[t] = "up"}}

SocketsOf(n) == {s \in Sockets : Owner[s] = n}

\* connect, the first one or that of a reconnect, gets through.
Connect(s) ==
    /\ Accept(s)
    /\ AbortListeners(SocketsOf(Owner[s]) \ {s}, {s})
    /\ UNCHANGED <<link, issued, handled>>

\* A reconnect that does not: the old connection is given up all the same.
ReconnectFails(n) ==
    /\ \E s \in SocketsOf(n) : listener[s] \in Live
    /\ up' = [s \in Sockets |-> up[s] /\ Owner[s] # n]
    /\ AbortListeners(SocketsOf(n), {})
    /\ UNCHANGED <<connections, node_id, task, rx, reply, link, issued, handled>>

-----------------------------------------------------------------------------
(* The listener's loop and handle_command. *)

\* The step at which the executor begins with an action.
FirstStep ==
    [graceful |-> "signal", network |-> "down", single |-> "kill", unknown |-> "waiting"]

\* Mutant: the listener ends with a command it cannot make an action of.
handle_command_Returns(s) ==
    /\ listener[s] = "waiting" /\ inbox[s] # <<>>
    /\ inbox' = [inbox EXCEPT ![s] = Tail(@)]
    /\ handled' = [handled EXCEPT ![Owner[s]] = Append(@, Head(inbox[s]).id)]
    /\ listener' = [listener EXCEPT ![s] =
                      IF Head(inbox[s]).action = "unknown" THEN "ended"
                      ELSE FirstStep[Head(inbox[s]).action]]
    /\ UNCHANGED <<vars, orphan, link, issued, left_down>>

\* The next command is made an action and begun; one that names no action is
\* an error that is logged, and the loop goes on.
handle_command(s) ==
    /\ listener[s] = "waiting" /\ inbox[s] # <<>>
    /\ inbox' = [inbox EXCEPT ![s] = Tail(@)]
    /\ handled' = [handled EXCEPT ![Owner[s]] = Append(@, Head(inbox[s]).id)]
    /\ listener' = [listener EXCEPT ![s] = FirstStep[Head(inbox[s]).action]]
    /\ UNCHANGED <<vars, orphan, link, issued, left_down>>

\* A close frame, an error or the end of the stream ends the loop.
ListenerEnds(s) ==
    /\ listener[s] = "waiting" /\ inbox[s] = <<>> /\ ~ up[s]
    /\ listener' = [listener EXCEPT ![s] = "ended"]
    /\ UNCHANGED <<vars, inbox, orphan, link, issued, handled, left_down>>

-----------------------------------------------------------------------------
(* ActionExecutor. Any command it runs on the host may fail. *)

At(s, step, next) == listener[s] = step /\ listener' = [listener EXCEPT ![s] = next]

\* Signal, sleep, kill: with force_kill, which every command of the hub has, a
\* failed signal does not end it. One-step actions share the last step.
graceful_shutdown(s) ==
    /\ At(s, "signal", "sleep") \/ At(s, "sleep", "kill") \/ At(s, "kill", "waiting")
    /\ UNCHANGED <<vars, inbox, orphan, link, issued, handled, left_down>>

\* Mutant: the interface is not brought up again.
restart_network_interface_DownOnly(s) ==
    /\ At(s, "down", "waiting")
    /\ \/ link' = [link EXCEPT ![Owner[s]] = "down"]
       \/ UNCHANGED link
    /\ UNCHANGED <<vars, inbox, orphan, issued, handled, left_down>>

\* Down, one second, up; a failed `up' leaves the interface down.
restart_network_interface(s) ==
    /\ LET n == Owner[s] IN
       \/ At(s, "down", "up") /\ link' = [link EXCEPT ![n] = "down"] /\ UNCHANGED left_down
       \/ At(s, "down", "waiting") /\ UNCHANGED <<link, left_down>>
       \/ /\ At(s, "up", "waiting") /\ link' = [link EXCEPT ![n] = "up"]
          /\ left_down' = left_down \ {n}
       \/ At(s, "up", "waiting") /\ left_down' = left_down \union {n} /\ UNCHANGED link
    /\ UNCHANGED <<vars, inbox, orphan, issued, handled>>

\* The `ip' of an aborted listener ends: it takes effect, or fails, or had not
\* been started.
OrphanEnds(s) ==
    LET n == Owner[s] IN
    /\ orphan[s] # "none" /\ orphan' = [orphan EXCEPT ![s] = "none"]
    /\ \/ /\ link' = [link EXCEPT ![n] = orphan[s]]
          /\ left_down' = IF orphan[s] = "down" THEN left_down \union {n} ELSE left_down \ {n}
       \/ UNCHANGED <<link, left_down>>
    /\ UNCHANGED <<vars, inbox, listener, issued, handled>>

Listen(s) ==
    \/ handle_command(s) \/ ListenerEnds(s)
    \/ graceful_shutdown(s) \/ restart_network_interface(s)

DeliveryNext ==
    \/ \E s \in Sockets : Connect(s) \/ HubReadsOn(s) \/ HubLetsGo(s) \/ Listen(s) \/ OrphanEnds(s)
    \/ \E n \in Nodes : ReconnectFails(n)
    \/ \E n \in Targets, a \in Wanted : Command(n, a)

\* The runtime polls a listener that can go on; sleeps and the commands it
\* runs on the host end.
DeliverySpec ==
    /\ DeliveryInit /\ [][DeliveryNext]_allVars
    /\ \A s \in Sockets : WF_allVars(Listen(s))

-----------------------------------------------------------------------------
(* Properties. *)

\* A node takes up the commands it was sent in the order in which they were
\* sent, none of them twice, even when they were sent over different
\* connections.
CommandsInOrder ==
    \A n \in Nodes : \A i, j \in DOMAIN handled[n] : i < j => handled[n][i] < handled[n][j]

\* Commands that have reached an agent do not wait for ever behind one that
\* fails or makes no sense: each is taken up, or goes down with its connection.
InboxDrains == \A s \in Sockets : inbox[s] # <<>> ~> inbox[s] = <<>>

\* An interface is down only while a listener that lives is about to bring it
\* up, or after that failed, was cut off by a reconnect in between, or an `ip
\* link set down' took effect when its listener was gone. Each of these marks
\* stands only until the next successful `up'.
DownWhileRestarting ==
    \A n \in Nodes : link[n] = "down" =>
        n \in left_down \/ \E s \in SocketsOf(n) : listener[s] = "up"

=============================================================================
