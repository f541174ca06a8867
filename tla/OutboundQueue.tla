--------------------------- MODULE OutboundQueue ---------------------------
(***************************************************************************)
(* What the agent's forwarder promises the rest of the agent: events leave *)
(* in the order they were taken, each at most once, and one is given up    *)
(* only when it is the oldest of more than Capacity that wait, and then it *)
(* is counted. Connections, retries and flushes are not visible here.      *)
(***************************************************************************)
EXTENDS Naturals, Sequences

CONSTANT Capacity

VARIABLES
    taken,      \* the number of events taken; they are numbered from 1
    queue,      \* the events that wait, oldest first
    out,        \* the events that have left, in order
    lost        \* the number of events given up

vars == <<taken, queue, out, lost>>

Init == taken = 0 /\ queue = <<>> /\ out = <<>> /\ lost = 0

Take ==
    /\ taken' = taken + 1
    /\ queue' = Append(queue, taken + 1)
    /\ UNCHANGED <<out, lost>>

Send ==
    /\ queue # <<>>
    /\ out' = Append(out, Head(queue))
    /\ queue' = Tail(queue)
    /\ UNCHANGED <<taken, lost>>

GiveUp ==
    /\ Len(queue) > Capacity
    /\ queue' = Tail(queue)
    /\ lost' = lost + 1
    /\ UNCHANGED <<taken, out>>

Next == Take \/ Send \/ GiveUp

Spec == Init /\ [][Next]_vars

=============================================================================
