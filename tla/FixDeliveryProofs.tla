------------------------- MODULE FixDeliveryProofs -------------------------
(***************************************************************************)
(* Proofs about the connection table and the command listeners, for any    *)
(* nodes, addresses, sockets and number of commands.                       *)
(***************************************************************************)
EXTENDS FixDelivery, SequenceTheorems, TLAPS

Messages == [id : Nat, action : ActionNames]

ListenerTypes ==
    /\ inbox \in [Sockets -> Seq(Messages)]
    /\ listener \in [Sockets -> Live \union {"none", "ended"}]
    /\ orphan \in [Sockets -> {"none", "down", "up"}]
    /\ link \in [Nodes -> {"up", "down"}]
    /\ issued \in Nat
    /\ handled \in [Nodes -> Seq(Nat)]
    /\ left_down \subseteq Nodes

\* A task goes by no id before it is accepted, by its address's until the first
\* event and by its node's from then on; there is no listener without a
\* connection.
Registered ==
    \A s \in Sockets :
        /\ node_id[s] \in {None, Owner[s], Addr[s]}
        /\ task[s] = "moving" => node_id[s] = Owner[s]
        /\ task[s] = "none" => listener[s] = "none" /\ inbox[s] = <<>>

TableInv == TypeOK /\ Registered /\ EntriesOwned

\* The types of the agents' side.
LEMMA ListenerTyped == DeliverySpec => []ListenerTypes
<1> USE SocketsHaveEnds DEF ListenerTypes, Live
<1>1. DeliveryInit => ListenerTypes
  BY DEF DeliveryInit
<1>2. ASSUME ListenerTypes, [DeliveryNext]_allVars
      PROVE  ListenerTypes'
  <2> USE <1>2
  <2>1. ASSUME NEW old \in SUBSET Sockets, NEW new, AbortListeners(old, new)
        PROVE  /\ inbox' \in [Sockets -> Seq(Messages)]
               /\ listener' \in [Sockets -> Live \union {"none", "ended"}]
               /\ left_down' \subseteq Nodes
               /\ orphan' \in [Sockets -> {"none", "down", "up"}]
    <3>1. inbox' \in [Sockets -> Seq(Messages)]
      BY <2>1 DEF AbortListeners
    <3>2. listener' \in [Sockets -> Live \union {"none", "ended"}]
      BY <2>1, Zenon DEF AbortListeners
    <3>3. left_down' \subseteq Nodes
      BY <2>1 DEF AbortListeners
    <3>4. orphan' \in [Sockets -> {"none", "down", "up"}]
      BY <2>1, Zenon DEF AbortListeners
    <3> QED BY <3>1, <3>2, <3>3, <3>4, Zenon
  <2>2. ASSUME NEW s \in Sockets, Connect(s)
        PROVE  ListenerTypes'
    BY <2>1, <2>2, Zenon DEF Connect, SocketsOf
  <2>3. ASSUME NEW s \in Sockets, HubReadsOn(s)
        PROVE  ListenerTypes'
    BY <2>3, Zenon DEF HubReadsOn, agent
  <2>4. ASSUME NEW s \in Sockets, HubLetsGo(s)
        PROVE  ListenerTypes'
    <3>1. \A k \in 0..Len(inbox[s]) : SubSeq(inbox[s], 1, k) \in Seq(Messages)
      BY LenProperties, SubSeqProperties, inbox[s] \in Seq(Messages)
    <3> QED BY <2>4, <3>1 DEF HubLetsGo, LosesSuffix
  <2>5. ASSUME NEW s \in Sockets, Listen(s)
        PROVE  ListenerTypes'
    <3>1. CASE handle_command(s)
      <4>1. Head(inbox[s]) \in Messages /\ Tail(inbox[s]) \in Seq(Messages)
        BY <3>1, HeadTailProperties DEF handle_command
      <4>2. Head(inbox[s]).id \in Nat /\ Head(inbox[s]).action \in ActionNames
        BY <4>1, Zenon DEF Messages
      <4>3. FirstStep[Head(inbox[s]).action] \in Live
        BY <4>2 DEF FirstStep, ActionNames
      <4>4. inbox' \in [Sockets -> Seq(Messages)] /\ UNCHANGED <<orphan, link, issued, left_down>>
        BY <3>1, <4>1, Zenon DEF handle_command
      <4>5. listener' \in [Sockets -> Live \union {"none", "ended"}]
        BY <3>1, <4>3, Zenon DEF handle_command
      <4>6. handled' \in [Nodes -> Seq(Nat)]
        BY <3>1, <4>2 DEF handle_command
      <4> QED BY <4>4, <4>5, <4>6, Zenon
    <3>2. CASE ListenerEnds(s)
      BY <3>2, Zenon DEF ListenerEnds
    <3>3. CASE graceful_shutdown(s)
      BY <3>3, Zenon DEF graceful_shutdown, At
    <3>4. CASE restart_network_interface(s)
      BY <3>4, Zenon DEF restart_network_interface, At
    <3> QED BY <2>5, <3>1, <3>2, <3>3, <3>4, Zenon DEF Listen
  <2>6. ASSUME NEW n \in Nodes, ReconnectFails(n)
        PROVE  ListenerTypes'
    BY <2>1, <2>6, Zenon DEF ReconnectFails, SocketsOf
  <2>7. ASSUME NEW n \in Targets, NEW a \in Wanted, Command(n, a)
        PROVE  ListenerTypes'
    <3>1. [id |-> issued + 1, action |-> a] \in Messages
      BY DeliveryConstants DEF Messages
    <3>2. \A s \in Sockets : Append(inbox[s], [id |-> issued + 1, action |-> a]) \in Seq(Messages)
      BY <3>1
    <3>3. inbox' \in [Sockets -> Seq(Messages)]
      BY <2>7, <3>2, Zenon DEF Command
    <3> QED BY <2>7, <3>3 DEF Command
  <2>8. CASE UNCHANGED allVars
    BY <2>8, Zenon DEF allVars, agent
  <2>9. ASSUME NEW s \in Sockets, OrphanEnds(s)
        PROVE  ListenerTypes'
    <3>1. orphan[s] \in {"down", "up"} /\ Owner[s] \in Nodes
      BY <2>9, Zenon DEF OrphanEnds
    <3>2. /\ orphan' = [orphan EXCEPT ![s] = "none"] /\ UNCHANGED <<inbox, listener, issued, handled>>
          /\ \/ /\ link' = [link EXCEPT ![Owner[s]] = orphan[s]]
                /\ left_down' = IF orphan[s] = "down" THEN left_down \union {Owner[s]}
                                ELSE left_down \ {Owner[s]}
             \/ UNCHANGED <<link, left_down>>
      BY <2>9, Zenon DEF OrphanEnds
    <3>3. orphan' \in [Sockets -> {"none", "down", "up"}]
      BY <3>2, Zenon
    <3>4. link' \in [Nodes -> {"up", "down"}] /\ left_down' \subseteq Nodes
      <4>1. CASE UNCHANGED <<link, left_down>>
        BY <4>1, Zenon
      <4>2. CASE link' = [link EXCEPT ![Owner[s]] = orphan[s]]
        <5>1. link' \in [Nodes -> {"up", "down"}]
          BY <3>1, <4>2, Zenon
        <5>2. left_down' \subseteq Nodes
          <6>1. left_down' \subseteq left_down \union {Owner[s]}
            BY <3>2, Zenon
          <6> QED BY <3>1, <6>1, Zenon
        <5> QED BY <5>1, <5>2, Zenon
      <4> QED BY <3>2, <4>1, <4>2, Zenon
    <3> QED BY <3>2, <3>3, <3>4, Zenon
  <2> QED BY <2>2, <2>3, <2>4, <2>5, <2>6, <2>7, <2>8, <2>9, Zenon DEF DeliveryNext
<1> QED BY <1>1, <1>2, PTL DEF DeliverySpec

LEMMA InitTable == DeliveryInit => TableInv
BY SocketsHaveEnds DEF DeliveryInit, Init, TableInv, TypeOK, Registered, EntriesOwned, Ids

\* Each step of the hub, and those of the agents, keep the table in order.
LEMMA NextTable ==
    ASSUME ListenerTypes, TableInv, [DeliveryNext]_allVars
    PROVE  TableInv'
<1> USE SocketsHaveEnds DEF TableInv, TypeOK, Registered, EntriesOwned, Ids
<1>1. ASSUME NEW s \in Sockets, Connect(s)
      PROVE  TableInv'
  <2>1. TypeOK'
    BY <1>1 DEF Connect, Accept
  <2>2. Registered'
    BY <1>1 DEF Connect, Accept, AbortListeners, SocketsOf, Live
  <2>3. EntriesOwned'
    BY <1>1 DEF Connect, Accept
  <2> QED BY <2>1, <2>2, <2>3, Zenon
<1>2. ASSUME NEW s \in Sockets, HubReadsOn(s)
      PROVE  TableInv'
  <2>1. CASE ReadEvent(s)
    BY <1>2, <2>1 DEF HubReadsOn, ReadEvent, agent
  <2>2. CASE Reinsert(s)
    BY <1>2, <2>2 DEF HubReadsOn, Reinsert, agent
  <2> QED BY <1>2, <2>1, <2>2, Zenon DEF HubReadsOn
<1>3. ASSUME NEW s \in Sockets, HubLetsGo(s)
      PROVE  TableInv'
  <2>1. CASE ReadEnd(s)
    <3>1. TypeOK'
      BY <2>1 DEF ReadEnd
    <3>2. Registered'
      BY <1>3, <2>1 DEF HubLetsGo, ReadEnd, LosesSuffix
    <3>3. EntriesOwned'
      BY <2>1 DEF ReadEnd
    <3> QED BY <3>1, <3>2, <3>3, Zenon
  <2>2. CASE ReadError(s)
    BY <1>3, <2>2 DEF HubLetsGo, ReadError, LosesSuffix
  <2>3. CASE Break(s)
    BY <1>3, <2>3 DEF HubLetsGo, Break, LosesSuffix
  <2> QED BY <1>3, <2>1, <2>2, <2>3, Zenon DEF HubLetsGo
<1>4. ASSUME NEW s \in Sockets, Listen(s)
      PROVE  TableInv'
  <2>1. UNCHANGED vars
    BY <1>4, Zenon DEF Listen, handle_command, ListenerEnds, graceful_shutdown, restart_network_interface
  <2>2. /\ listener[s] # "none"
        /\ \A t \in Sockets \ {s} : listener'[t] = listener[t] /\ inbox'[t] = inbox[t]
    BY <1>4 DEF Listen, handle_command, ListenerEnds, graceful_shutdown,
       restart_network_interface, At, ListenerTypes
  <2> QED BY <2>1, <2>2 DEF vars
<1>5. ASSUME NEW n \in Nodes, ReconnectFails(n)
      PROVE  TableInv'
  <2>1. TypeOK'
    BY <1>5, Zenon DEF ReconnectFails
  <2>2. Registered'
    BY <1>5, Zenon DEF ReconnectFails, AbortListeners, SocketsOf, Live
  <2>3. EntriesOwned'
    BY <1>5, Zenon DEF ReconnectFails
  <2> QED BY <2>1, <2>2, <2>3, Zenon
<1>6. ASSUME NEW n \in Targets, NEW a \in Wanted, Command(n, a)
      PROVE  TableInv'
  <2>1. /\ UNCHANGED <<connections, node_id, task, up, listener>>
        /\ reply' = [node |-> n, ok |-> connections[n] # None /\ rx[connections[n]]]
        /\ rx' = rx \/ \E x : rx' = [rx EXCEPT ![x] = FALSE]
    BY <1>6, Zenon DEF Command, Fix, send_fix_command
  <2>2. n \in Nodes /\ \A t \in Sockets : task[t] = "none" => connections[n] # t
    BY DeliveryConstants, Zenon
  <2>3. TypeOK'
    <3>1. rx' \in [Sockets -> BOOLEAN]
      <4>1. rx \in [Sockets -> BOOLEAN]
        BY Zenon
      <4>2. \A x : [rx EXCEPT ![x] = FALSE] \in [Sockets -> BOOLEAN]
        BY <4>1
      <4>3. CASE rx' = rx
        BY <4>1, <4>3, Zenon
      <4>4. ASSUME NEW x, rx' = [rx EXCEPT ![x] = FALSE] PROVE rx' \in [Sockets -> BOOLEAN]
        BY <4>2, <4>4
      <4> QED BY <2>1, <4>3, <4>4, Zenon
    <3>2. (connections[n] # None /\ rx[connections[n]]) \in BOOLEAN
      BY Zenon
    <3>3. reply' \in [node : Nodes \union {None}, ok : BOOLEAN]
      BY <2>1, <2>2, <3>2, Zenon
    <3> QED BY <2>1, <3>1, <3>3, Zenon
  <2>4. Registered'
    <3>1. \A t \in Sockets : inbox'[t] = inbox[t] \/ (t = connections[n] /\ up[t])
      BY <1>6 DEF Command, ListenerTypes
    <3> QED  BY <2>1, <2>2, <3>1, Zenon
  <2>5. EntriesOwned'
    BY <2>1, Zenon
  <2> QED  BY <2>3, <2>4, <2>5, Zenon
<1>7. CASE UNCHANGED allVars
  BY <1>7, Zenon DEF allVars, vars, agent
<1>8. ASSUME NEW s \in Sockets, OrphanEnds(s)
      PROVE  TableInv'
  BY <1>8, Zenon DEF OrphanEnds, vars
<1> QED BY <1>1, <1>2, <1>3, <1>4, <1>5, <1>6, <1>7, <1>8, Zenon DEF DeliveryNext

LEMMA TableCorrect == DeliverySpec => []TableInv
BY InitTable, NextTable, ListenerTyped, PTL DEF DeliverySpec

\* Every entry of the hub's table is the one that its own task removes, for any
\* nodes, addresses and number of connections.
THEOREM EntriesCorrect == DeliverySpec => []EntriesOwned
BY TableCorrect, PTL DEF TableInv

\* The hub's tables and tasks are of their types, and a connection that stands
\* has a task that reads it.
THEOREM TableTyped == DeliverySpec => []TypeOK
BY TableCorrect, PTL DEF TableInv

\* A sender is displaced while its connection stands only on behalf of another
\* socket that goes by the same id.
THEOREM DisplacedByNamesake == DeliverySpec => LostToNamesake
<1> USE SocketsHaveEnds DEF TableInv, TypeOK, Registered, EntriesOwned, Ids
<1>1. ASSUME TableInv, [DeliveryNext]_allVars,
             NEW i \in Ids, NEW s \in Sockets, connections[i] = s, connections'[i] # s, up'[s]
      PROVE  \/ node_id'[s] # i
             \/ \E t \in Sockets \ {s} : node_id[t] = i \/ node_id'[t] = i
  <2> USE <1>1
  <2>1. ASSUME NEW t \in Sockets, Accept(t)
        PROVE  t # s /\ node_id'[t] = i
    BY <2>1 DEF Accept
  <2>2. ASSUME NEW t \in Sockets, ReadEvent(t)
        PROVE  IF t = s THEN node_id'[s] # i ELSE node_id[t] = i
    BY <2>2, Zenon DEF ReadEvent
  <2>3. ASSUME NEW t \in Sockets, Reinsert(t) \/ ReadEnd(t)
        PROVE  t # s /\ node_id[t] = i
    BY <2>3, SMTT(30) DEF Reinsert, ReadEnd
  <2>4. \E t \in Sockets : Accept(t) \/ ReadEvent(t) \/ Reinsert(t) \/ ReadEnd(t)
    BY Zenon DEF DeliveryNext, Connect, HubReadsOn, HubLetsGo, ReadError, Break, Listen, handle_command,
           ListenerEnds, graceful_shutdown, restart_network_interface, ReconnectFails, Command,
           Fix, OrphanEnds, allVars, vars
  <2> QED BY <2>1, <2>2, <2>3, <2>4, Zenon
<1>2. TableInv /\ [DeliveryNext]_allVars =>
        [\A i \in Ids, s \in Sockets :
          (connections[i] = s /\ connections'[i] # s /\ up'[s]) =>
              \/ node_id'[s] # i
              \/ \E t \in Sockets \ {s} : node_id[t] = i \/ node_id'[t] = i]_vars
  BY <1>1
<1> QED BY <1>2, TableCorrect, PTL DEF DeliverySpec, LostToNamesake

-----------------------------------------------------------------------------
(* The interfaces. *)

LEMMA NextLink ==
    ASSUME ListenerTypes, TableInv, DownWhileRestarting, [DeliveryNext]_allVars
    PROVE  DownWhileRestarting'
<1> USE SocketsHaveEnds DEF ListenerTypes, DownWhileRestarting, SocketsOf, Live
<1>1. ASSUME NEW s \in Sockets, Connect(s)
      PROVE  DownWhileRestarting'
  <2>1. listener[s] = "none"
    BY <1>1, Zenon DEF Connect, Accept, TableInv, Registered
  <2>2. SUFFICES ASSUME NEW n \in Nodes, link'[n] = "down", n \notin left_down'
                 PROVE  \E t \in SocketsOf(n) : listener'[t] = "up"
    OBVIOUS
  <2>3. PICK t \in SocketsOf(n) : listener[t] = "up"
    BY <1>1, <2>2, Zenon DEF Connect, AbortListeners
  <2>4. t # s /\ t \notin SocketsOf(Owner[s]) \ {s}
    BY <1>1, <2>1, <2>2, <2>3 DEF Connect, AbortListeners
  <2> QED BY <1>1, <2>3, <2>4, Zenon DEF Connect, AbortListeners
<1>2. ASSUME NEW s \in Sockets, HubReadsOn(s) \/ HubLetsGo(s)
      PROVE  DownWhileRestarting'
  BY <1>2 DEF HubReadsOn, HubLetsGo, agent
<1>3. ASSUME NEW s \in Sockets, Listen(s)
      PROVE  DownWhileRestarting'
  <2>1. CASE handle_command(s) \/ ListenerEnds(s) \/ graceful_shutdown(s)
    BY <2>1 DEF handle_command, ListenerEnds, graceful_shutdown, At
  <2>2. CASE restart_network_interface(s)
    BY <2>2 DEF restart_network_interface, At
  <2> QED BY <1>3, <2>1, <2>2, Zenon DEF Listen
<1>4. ASSUME NEW n \in Nodes, ReconnectFails(n)
      PROVE  DownWhileRestarting'
  BY <1>4 DEF ReconnectFails, AbortListeners
<1>5. ASSUME NEW n \in Targets, NEW a \in Wanted, Command(n, a)
      PROVE  DownWhileRestarting'
  BY <1>5, Zenon DEF Command
<1>6. CASE UNCHANGED allVars
  BY <1>6, Zenon DEF allVars, agent
<1>7. ASSUME NEW s \in Sockets, OrphanEnds(s)
      PROVE  DownWhileRestarting'
  <2>1. CASE UNCHANGED <<link, left_down>>
    <3>1. listener' = listener
      BY <1>7, Zenon DEF OrphanEnds
    <3> QED BY <2>1, <3>1, Zenon
  <2>2. CASE /\ link' = [link EXCEPT ![Owner[s]] = orphan[s]]
             /\ left_down' = IF orphan[s] = "down" THEN left_down \union {Owner[s]}
                             ELSE left_down \ {Owner[s]}
    <3>1. Owner[s] \in Nodes /\ listener' = listener
      BY <1>7, Zenon DEF OrphanEnds
    <3> QED BY <2>2, <3>1
  <2> QED BY <1>7, <2>1, <2>2, Zenon DEF OrphanEnds
<1> QED BY <1>1, <1>2, <1>3, <1>4, <1>5, <1>6, <1>7, Zenon DEF DeliveryNext

\* An interface that is down is about to be brought up, or that failed, was cut
\* off by a reconnect, or it went down when the listener was gone already: for
\* any number of nodes, connections and commands.
THEOREM DownIsAccountedFor == DeliverySpec => []DownWhileRestarting
<1>1. DeliveryInit => DownWhileRestarting
  BY Zenon DEF DeliveryInit, DownWhileRestarting
<1> QED BY <1>1, NextLink, ListenerTyped, TableCorrect, PTL DEF DeliverySpec

-----------------------------------------------------------------------------
(* The order of commands. *)

\* A node has at most one connection that stands, and only one of its sockets
\* holds commands: a reconnect throws away what the old listener had not read.
OneInbox ==
    \A s, t \in Sockets : s # t /\ Owner[s] = Owner[t] /\ (up[s] \/ inbox[s] # <<>>) =>
        ~ up[t] /\ inbox[t] = <<>>

\* The numbers in an inbox go up, they are above those the node has taken up,
\* and none is above the last one issued.
Ascending ==
    \A s \in Sockets : \A i \in 1..Len(inbox[s]) :
        /\ inbox[s][i].id <= issued
        /\ \A j \in 1..Len(inbox[s]) : i < j => inbox[s][i].id < inbox[s][j].id
        /\ \A k \in 1..Len(handled[Owner[s]]) : handled[Owner[s]][k] < inbox[s][i].id

HandledIssued == \A n \in Nodes : \A k \in 1..Len(handled[n]) : handled[n][k] <= issued

OrderInv == OneInbox /\ Ascending /\ HandledIssued /\ CommandsInOrder

\* Steps that only shorten inboxes and take connections down keep the order.
LEMMA Shortened ==
    ASSUME ListenerTypes, TypeOK, OrderInv, UNCHANGED <<issued, handled>>,
           \A t \in Sockets : /\ up'[t] => up[t]
                              /\ Len(inbox'[t]) \in Nat /\ Len(inbox'[t]) <= Len(inbox[t])
                              /\ inbox[t] = <<>> => inbox'[t] = <<>>
                              /\ \A i \in 1..Len(inbox'[t]) : inbox'[t][i] = inbox[t][i]
    PROVE  OrderInv'
<1>1. \A t \in Sockets : Len(inbox[t]) \in Nat
  BY DEF ListenerTypes
<1>2. OneInbox'
  BY Zenon DEF OrderInv, OneInbox
<1>3. Ascending'
  <2> SUFFICES ASSUME NEW t \in Sockets, NEW i \in 1..Len(inbox'[t])
               PROVE  /\ inbox'[t][i].id <= issued
                      /\ \A j \in 1..Len(inbox'[t]) : i < j => inbox'[t][i].id < inbox'[t][j].id
                      /\ \A k \in 1..Len(handled[Owner[t]]) : handled[Owner[t]][k] < inbox'[t][i].id
    BY Zenon DEF Ascending
  <2>1. i \in 1..Len(inbox[t]) /\ inbox'[t][i] = inbox[t][i]
    BY <1>1
  <2>2. \A j \in 1..Len(inbox'[t]) : j \in 1..Len(inbox[t]) /\ inbox'[t][j] = inbox[t][j]
    BY <1>1
  <2> QED BY <2>1, <2>2, Zenon DEF OrderInv, Ascending
<1>4. HandledIssued' /\ CommandsInOrder'
  BY Zenon DEF OrderInv, HandledIssued, CommandsInOrder
<1> QED BY <1>2, <1>3, <1>4, Zenon DEF OrderInv

\* A command with the next number, behind the ones that wait, keeps them in
\* order and above the ones taken up.
LEMMA NewestAscends ==
    ASSUME NEW n \in Nat, NEW L \in Nat, NEW H \in Nat, NEW q, NEW r, NEW h,
           \A i \in 1..L : /\ q[i].id \in Nat /\ q[i].id <= n
                           /\ \A j \in 1..L : i < j => q[i].id < q[j].id
                           /\ \A k \in 1..H : h[k] < q[i].id,
           \A k \in 1..H : h[k] \in Nat /\ h[k] <= n,
           \A i \in 1..L : r[i] = q[i],
           r[L + 1].id = n + 1
    PROVE  \A i \in 1..(L + 1) :
               /\ r[i].id <= n + 1
               /\ \A j \in 1..(L + 1) : i < j => r[i].id < r[j].id
               /\ \A k \in 1..H : h[k] < r[i].id
<1> SUFFICES ASSUME NEW i \in 1..(L + 1)
             PROVE  /\ r[i].id <= n + 1
                    /\ \A j \in 1..(L + 1) : i < j => r[i].id < r[j].id
                    /\ \A k \in 1..H : h[k] < r[i].id
  OBVIOUS
<1>1. CASE i = L + 1
  <2>1. r[i].id = n + 1
    BY <1>1, Zenon
  <2>2. \A j \in 1..(L + 1) : ~ (i < j)
    BY <1>1
  <2>3. \A k \in 1..H : h[k] < n + 1
    OBVIOUS
  <2> QED  BY <2>1, <2>2, <2>3
<1>2. CASE i # L + 1
  <2>1. i \in 1..L /\ r[i] = q[i]
    BY <1>2
  <2>2. r[i].id \in Nat /\ r[i].id <= n /\ \A k \in 1..H : h[k] < r[i].id
    BY <2>1, Zenon
  <2>3. ASSUME NEW j \in 1..(L + 1), i < j PROVE r[i].id < r[j].id
    <3>1. CASE j = L + 1
      BY <2>2, <3>1
    <3>2. CASE j # L + 1
      <4>1. j \in 1..L /\ r[j] = q[j]
        BY <3>2
      <4> QED  BY <2>1, <2>3, <4>1, Zenon
    <3> QED  BY <3>1, <3>2, Zenon
  <2> QED  BY <2>2, <2>3
<1> QED  BY <1>1, <1>2, Zenon

LEMMA NextOrder ==
    ASSUME ListenerTypes, ListenerTypes', TableInv, OrderInv, [DeliveryNext]_allVars
    PROVE  OrderInv'
<1> USE SocketsHaveEnds
<1> TypeOK
  BY Zenon DEF TableInv
<1>1. ASSUME NEW s \in Sockets, Connect(s)
      PROVE  OrderInv'
  <2>1. inbox[s] = <<>>
    BY <1>1, Zenon DEF Connect, Accept, TableInv, Registered
  <2>2. \A t \in Sockets : inbox'[t] = IF Owner[t] = Owner[s] THEN <<>> ELSE inbox[t]
    BY <1>1, <2>1, Zenon DEF Connect, AbortListeners, SocketsOf
  <2>3. \A t \in Sockets : up'[t] <=> t = s \/ (up[t] /\ Owner[t] # Owner[s])
    BY <1>1, Zenon DEF Connect, Accept, TypeOK
  <2>4. UNCHANGED <<issued, handled>>
    BY <1>1, Zenon DEF Connect
  <2>5. OneInbox'
    BY <2>2, <2>3, Zenon DEF OrderInv, OneInbox
  <2>6. Ascending'
    BY <2>2, <2>4 DEF OrderInv, Ascending
  <2>7. HandledIssued' /\ CommandsInOrder'
    BY <2>4, Zenon DEF OrderInv, HandledIssued, CommandsInOrder
  <2> QED BY <2>5, <2>6, <2>7, Zenon DEF OrderInv
<1>2. ASSUME NEW s \in Sockets, HubReadsOn(s)
      PROVE  OrderInv'
  <2>1. UNCHANGED <<up, inbox, issued, handled>>
    BY <1>2, Zenon DEF HubReadsOn, ReadEvent, Reinsert, agent
  <2> QED BY <2>1, Shortened DEF ListenerTypes
<1>3. ASSUME NEW s \in Sockets, HubLetsGo(s)
      PROVE  OrderInv'
  <2>1. \A t \in Sockets : up'[t] => up[t]
    BY <1>3, Zenon DEF HubLetsGo, ReadEnd, ReadError, Break, TypeOK
  <2>2. PICK k \in 0..Len(inbox[s]) : inbox' = [inbox EXCEPT ![s] = SubSeq(@, 1, k)]
    BY <1>3, Zenon DEF HubLetsGo, LosesSuffix
  <2>3. /\ Len(SubSeq(inbox[s], 1, k)) = k
        /\ \A i \in 1..k : SubSeq(inbox[s], 1, k)[i] = inbox[s][i]
        /\ k = 0 => SubSeq(inbox[s], 1, k) = <<>>
    BY SubSeqProperties, LenProperties, EmptySeq, inbox[s] \in Seq(Messages) DEF ListenerTypes
  <2>4. UNCHANGED <<issued, handled>>
    BY <1>3, Zenon DEF HubLetsGo
  <2> QED BY <2>1, <2>2, <2>3, <2>4, Shortened DEF ListenerTypes
<1>4. ASSUME NEW s \in Sockets, handle_command(s)
      PROVE  OrderInv'
  <2> DEFINE n == Owner[s]
             e == Head(inbox[s]).id
  <2>1. /\ inbox[s] \in Seq(Messages) /\ inbox[s] # <<>>
        /\ inbox' = [inbox EXCEPT ![s] = Tail(@)]
        /\ handled' = [handled EXCEPT ![n] = Append(@, e)]
        /\ UNCHANGED <<up, issued>>
    BY <1>4, Zenon DEF handle_command, ListenerTypes, vars
  <2>2. /\ Len(Tail(inbox[s])) = Len(inbox[s]) - 1 /\ Len(inbox[s]) \in Nat \ {0}
        /\ \A i \in 1..Len(Tail(inbox[s])) : Tail(inbox[s])[i] = inbox[s][i + 1]
        /\ Head(inbox[s]) = inbox[s][1]
    BY <2>1, HeadTailProperties, EmptySeq
  <2>3. /\ handled[n] \in Seq(Nat) /\ e \in Nat /\ n \in Nodes
        /\ Len(handled'[n]) = Len(handled[n]) + 1
        /\ \A k \in 1..Len(handled[n]) + 1 :
              handled'[n][k] = IF k <= Len(handled[n]) THEN handled[n][k] ELSE e
    <3>1. n \in Nodes /\ handled[n] \in Seq(Nat)
      <4>1. handled \in [Nodes -> Seq(Nat)] /\ n \in Nodes
        BY Zenon DEF ListenerTypes
      <4> QED BY <4>1, Zenon
    <3>2. e \in Nat
      <4>1. Head(inbox[s]) \in Messages
        BY <2>1, HeadTailProperties, Zenon
      <4> QED BY <4>1, Zenon DEF Messages
    <3> QED BY <2>1, <3>1, <3>2 DEF ListenerTypes
  <2>4. \A m \in Nodes : m # n => handled'[m] = handled[m]
    BY <2>1, Zenon DEF ListenerTypes
  <2>5. \A t \in Sockets : t # s => inbox'[t] = inbox[t]
    BY <2>1, Zenon DEF ListenerTypes
  <2>6. /\ Len(inbox'[s]) = Len(inbox[s]) - 1
        /\ \A i \in 1..Len(inbox'[s]) : inbox'[s][i] = inbox[s][i + 1]
    <3>1. inbox'[s] = Tail(inbox[s])
      BY <2>1, Zenon DEF ListenerTypes
    <3> QED BY <3>1, <2>2, Zenon
  <2>12. Len(inbox[s]) \in Nat \ {0}
    BY <2>2, Zenon
  <2>7. /\ e <= issued
        /\ \A j \in 2..Len(inbox[s]) : e < inbox[s][j].id
        /\ \A k \in 1..Len(handled[n]) : handled[n][k] < e
    BY <2>2 DEF OrderInv, Ascending
  <2>8. OneInbox'
    BY <2>1, <2>5, Zenon DEF OrderInv, OneInbox
  <2>9. Ascending'
    <3> SUFFICES ASSUME NEW t \in Sockets, NEW i \in 1..Len(inbox'[t])
                 PROVE  /\ inbox'[t][i].id <= issued'
                        /\ \A j \in 1..Len(inbox'[t]) : i < j => inbox'[t][i].id < inbox'[t][j].id
                        /\ \A k \in 1..Len(handled'[Owner[t]]) :
                              handled'[Owner[t]][k] < inbox'[t][i].id
      BY Zenon DEF Ascending
    <3>1. CASE t = s
      <4>1. i + 1 \in 2..Len(inbox[s]) /\ inbox'[t][i] = inbox[s][i + 1]
        BY <2>6, <2>12, <3>1
      <4>2. \A j \in 1..Len(inbox'[t]) :
              j + 1 \in 2..Len(inbox[s]) /\ inbox'[t][j] = inbox[s][j + 1]
        BY <2>6, <2>12, <3>1
      <4>3. inbox[s][i + 1].id <= issued
        BY <4>1, <2>12 DEF OrderInv, Ascending
      <4>4. \A j \in 1..Len(inbox'[t]) : i < j => inbox[s][i + 1].id < inbox[s][j + 1].id
        <5> SUFFICES ASSUME NEW j \in 1..Len(inbox'[t]), i < j
                     PROVE  inbox[s][i + 1].id < inbox[s][j + 1].id
          OBVIOUS
        <5>1. /\ i + 1 \in 1..Len(inbox[s]) /\ j + 1 \in 1..Len(inbox[s])
              /\ i + 1 < j + 1
          BY <4>1, <4>2, <2>6, <2>12, <3>1
        <5> QED BY <5>1, Zenon DEF OrderInv, Ascending
      <4>5. \A k \in 1..Len(handled[n]) : handled[n][k] < inbox[s][i + 1].id
        BY <4>1, <2>12 DEF OrderInv, Ascending
      <4>6. \A k \in 1..Len(handled'[n]) : handled'[n][k] < inbox[s][i + 1].id
        BY <2>3, <2>7, <4>1, <4>5
      <4>7. issued' = issued
        BY <2>1, Zenon
      <4> QED BY <3>1, <4>1, <4>2, <4>3, <4>4, <4>6, <4>7, Zenon
    <3>2. CASE t # s
      <4>1. Owner[t] # n
        BY <2>1, <2>5, <3>2, EmptySeq DEF OrderInv, OneInbox
      <4>2. handled'[Owner[t]] = handled[Owner[t]]
        BY <2>4, <4>1, Zenon
      <4> QED BY <2>1, <2>5, <3>2, <4>2, Zenon DEF OrderInv, Ascending
    <3> QED BY <3>1, <3>2, Zenon
  <2>10. HandledIssued'
    BY <2>1, <2>3, <2>4, <2>7 DEF OrderInv, HandledIssued, ListenerTypes
  <2>11. CommandsInOrder'
    <3> SUFFICES ASSUME NEW m \in Nodes, NEW i \in DOMAIN handled'[m], NEW j \in DOMAIN handled'[m],
                        i < j
                 PROVE  handled'[m][i] < handled'[m][j]
      BY Zenon DEF CommandsInOrder
    <3>1. DOMAIN handled[m] = 1..Len(handled[m]) /\ DOMAIN handled'[m] = 1..Len(handled'[m])
      BY LenProperties, Zenon DEF ListenerTypes
    <3>2. CASE m = n
      <4>1. i \in 1..Len(handled[n]) /\ handled'[m][i] = handled[n][i]
        BY <2>3, <3>1, <3>2
      <4>2. CASE j = Len(handled[n]) + 1
        <5>1. handled'[m][j] = e
          BY <2>3, <3>2, <4>2
        <5> QED BY <2>7, <4>1, <5>1, Zenon
      <4>3. CASE j # Len(handled[n]) + 1
        <5>1. j \in 1..Len(handled[n]) /\ handled'[m][j] = handled[n][j]
          BY <2>3, <3>1, <3>2, <4>3
        <5> QED BY <3>1, <3>2, <4>1, <5>1, Zenon DEF OrderInv, CommandsInOrder
      <4> QED BY <4>2, <4>3, Zenon
    <3>3. CASE m # n
      BY <2>4, <3>3, Zenon DEF OrderInv, CommandsInOrder
    <3> QED BY <3>2, <3>3, Zenon
  <2> QED BY <2>8, <2>9, <2>10, <2>11, Zenon DEF OrderInv
<1>5. ASSUME NEW s \in Sockets,
             ListenerEnds(s) \/ graceful_shutdown(s) \/ restart_network_interface(s) \/ OrphanEnds(s)
      PROVE  OrderInv'
  <2>1. UNCHANGED <<up, inbox, issued, handled>>
    BY <1>5, Zenon DEF ListenerEnds, graceful_shutdown, restart_network_interface, OrphanEnds, vars
  <2> QED BY <2>1, Shortened DEF ListenerTypes
<1>6. ASSUME NEW n \in Nodes, ReconnectFails(n)
      PROVE  OrderInv'
  <2>1. \A t \in Sockets : inbox'[t] = IF Owner[t] = n THEN <<>> ELSE inbox[t]
    BY <1>6, Zenon DEF ReconnectFails, AbortListeners, SocketsOf
  <2>2. \A t \in Sockets : up'[t] => up[t]
    BY <1>6, Zenon DEF ReconnectFails, TypeOK
  <2>3. UNCHANGED <<issued, handled>>
    BY <1>6, Zenon DEF ReconnectFails
  <2> QED BY <2>1, <2>2, <2>3, Shortened, EmptySeq DEF ListenerTypes
<1>7. ASSUME NEW n \in Targets, NEW a \in Wanted, Command(n, a)
      PROVE  OrderInv'
  <2> DEFINE s == connections[n]
             e == [id |-> issued + 1, action |-> a]
  <2>1. UNCHANGED <<up, handled>> /\ issued' = issued + 1 /\ issued \in Nat
    BY <1>7, Zenon DEF Command, Fix, ListenerTypes
  <2>2. HandledIssued' /\ CommandsInOrder'
    BY <2>1 DEF OrderInv, HandledIssued, CommandsInOrder, ListenerTypes
  <2>5. \A t \in Sockets : \A i \in 1..Len(inbox[t]) : inbox[t][i].id \in Nat
    <3>1. \A t \in Sockets : inbox[t] \in Seq(Messages)
      BY Zenon DEF ListenerTypes
    <3>2. \A t \in Sockets : \A i \in 1..Len(inbox[t]) : inbox[t][i] \in Messages
      BY <3>1, ElementOfSeq, Zenon
    <3> QED BY <3>2, Zenon DEF Messages
  <2>3. CASE inbox' = inbox
    <3>2. OneInbox'
      BY <2>1, <2>3, Zenon DEF OrderInv, OneInbox
    <3>3. Ascending'
      BY <2>1, <2>3, <2>5, SMTT(30) DEF OrderInv, Ascending
    <3> QED BY <2>2, <3>2, <3>3, Zenon DEF OrderInv
  <2>4. CASE inbox' # inbox
    <3>1. s \in Sockets /\ up[s] /\ inbox' = [inbox EXCEPT ![s] = Append(@, e)]
      BY <1>7, <2>4, DeliveryConstants DEF Command, Fix, send_fix_command, TypeOK, Ids, ListenerTypes
    <3>2. OneInbox'
      BY <2>1, <3>1, SMTT(30) DEF OrderInv, OneInbox, ListenerTypes
    <3>3. Ascending'
      <4> SUFFICES ASSUME NEW t \in Sockets, NEW i \in 1..Len(inbox'[t])
                   PROVE  /\ inbox'[t][i].id <= issued'
                          /\ \A j \in 1..Len(inbox'[t]) : i < j => inbox'[t][i].id < inbox'[t][j].id
                          /\ \A k \in 1..Len(handled'[Owner[t]]) :
                                handled'[Owner[t]][k] < inbox'[t][i].id
        BY Zenon DEF Ascending
      <4>1. CASE t # s
        <5>1. inbox'[t] = inbox[t]
          BY <3>1, <4>1, Zenon DEF ListenerTypes
        <5> QED BY <2>1, <2>5, <5>1 DEF OrderInv, Ascending
      <4>2. CASE t = s
        <5>1. /\ Len(inbox'[s]) = Len(inbox[s]) + 1 /\ Len(inbox[s]) \in Nat
              /\ \A k \in 1..Len(inbox[s]) : inbox'[s][k] = inbox[s][k]
              /\ inbox'[s][Len(inbox[s]) + 1].id = issued + 1
          <6>1. inbox'[s] = Append(inbox[s], e) /\ inbox[s] \in Seq(Messages)
            BY <3>1, Zenon DEF ListenerTypes
          <6> QED BY <6>1
        <5>2. \A k \in 1..Len(handled[Owner[s]]) :
                handled[Owner[s]][k] \in Nat /\ handled[Owner[s]][k] <= issued
          <6>1. Owner[s] \in Nodes /\ handled[Owner[s]] \in Seq(Nat)
            BY <3>1, Zenon DEF ListenerTypes
          <6>2. \A k \in 1..Len(handled[Owner[s]]) : handled[Owner[s]][k] \in Nat
            BY <6>1, ElementOfSeq, Zenon
          <6> QED BY <6>1, <6>2, Zenon DEF OrderInv, HandledIssued
        <5>3. Len(handled[Owner[s]]) \in Nat
          BY <3>1, LenProperties, Zenon DEF ListenerTypes
        <5>4. \A m \in 1..Len(inbox[s]) :
                /\ inbox[s][m].id \in Nat /\ inbox[s][m].id <= issued
                /\ \A j \in 1..Len(inbox[s]) : m < j => inbox[s][m].id < inbox[s][j].id
                /\ \A k \in 1..Len(handled[Owner[s]]) : handled[Owner[s]][k] < inbox[s][m].id
          BY <2>5, <3>1, Zenon DEF OrderInv, Ascending
        <5>5. \A m \in 1..(Len(inbox[s]) + 1) :
                /\ inbox'[s][m].id <= issued + 1
                /\ \A j \in 1..(Len(inbox[s]) + 1) : m < j => inbox'[s][m].id < inbox'[s][j].id
                /\ \A k \in 1..Len(handled[Owner[s]]) : handled[Owner[s]][k] < inbox'[s][m].id
          <6> DEFINE L == Len(inbox[s])
                     H == Len(handled[Owner[s]])
                     q == inbox[s]
                     r == inbox'[s]
                     h == handled[Owner[s]]
          <6>1. issued \in Nat /\ L \in Nat /\ H \in Nat
            BY <2>1, <5>1, <5>3, Zenon
          <6>2. \A m \in 1..L : /\ q[m].id \in Nat /\ q[m].id <= issued
                                /\ \A j \in 1..L : m < j => q[m].id < q[j].id
                                /\ \A k \in 1..H : h[k] < q[m].id
            BY <5>4, Zenon
          <6>3. /\ \A k \in 1..H : h[k] \in Nat /\ h[k] <= issued
                /\ \A m \in 1..L : r[m] = q[m]
                /\ r[L + 1].id = issued + 1
            BY <5>1, <5>2, Zenon
          <6> HIDE DEF L, H, q, r, h
          <6>4. \A m \in 1..(L + 1) :
                  /\ r[m].id <= issued + 1
                  /\ \A j \in 1..(L + 1) : m < j => r[m].id < r[j].id
                  /\ \A k \in 1..H : h[k] < r[m].id
            BY <6>1, <6>2, <6>3, NewestAscends, SMTT(60)
          <6> QED BY <6>4, Zenon DEF L, H, q, r, h
        <5> QED BY <2>1, <4>2, <5>1, <5>5, Zenon
      <4> QED BY <4>1, <4>2, Zenon
    <3> QED BY <2>2, <3>2, <3>3, Zenon DEF OrderInv
  <2> QED BY <2>3, <2>4, Zenon
<1>8. CASE UNCHANGED allVars
  BY <1>8, Shortened DEF allVars, vars, agent, ListenerTypes
<1> QED BY <1>1, <1>2, <1>3, <1>4, <1>5, <1>6, <1>7, <1>8, Zenon DEF DeliveryNext, Listen

\* A node takes up commands in the order they were issued, none twice, across
\* any number of reconnects.
THEOREM CommandsOrdered == DeliverySpec => []CommandsInOrder
<1>1. DeliveryInit => OrderInv
  BY DEF DeliveryInit, Init, OrderInv, OneInbox, Ascending, HandledIssued, CommandsInOrder
<1>2. OrderInv => CommandsInOrder
  BY Zenon DEF OrderInv
<1> QED BY <1>1, <1>2, NextOrder, ListenerTyped, TableCorrect, PTL DEF DeliverySpec

=============================================================================
