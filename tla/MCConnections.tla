--------------------------- MODULE MCConnections ---------------------------
(* Two nodes behind one address; the first one reconnects. *)
EXTENDS Connections, TLC

CONSTANTS n1, n2, a1, s1, s2, s3

MCOwner == s1 :> n1 @@ s2 :> n1 @@ s3 :> n2
MCAddr == [s \in Sockets |-> a1]

Symmetry == Permutations({s1, s2})

=============================================================================
