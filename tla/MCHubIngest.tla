---------------------------- MODULE MCHubIngest ----------------------------
(***************************************************************************)
(* Small instances of HubIngest.                                           *)
(***************************************************************************)
EXTENDS HubIngest, TLC

CONSTANTS e1, e2, e3

\* e1 and e2 are just within a window of 1, e3 prunes both.
Times == e1 :> 1 @@ e2 :> 2 @@ e3 :> 4
Symmetry == Permutations(Conns)

=============================================================================
