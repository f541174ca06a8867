---------------------------- MODULE MCStateGraph ----------------------------
(***************************************************************************)
(* Small instances of StateGraph.                                          *)
(***************************************************************************)
EXTENDS StateGraph, TLC

\* Workers, and hosts, are interchangeable in the specification.
Symmetry == Permutations(Workers) \union Permutations(Hosts)

=============================================================================
