--------------------------- MODULE MCRemediation ---------------------------
(***************************************************************************)
(* Two parts of the hub on one node, which share no state but the taints   *)
(* and the controller: concurrent diagnose requests, with a clock that     *)
(* runs; and the operator loop with a fault task, failing calls of the API *)
(* and a restart. A behaviour exercises one of the two.                    *)
(***************************************************************************)
EXTENDS Remediation, TLC

VARIABLE part

Symmetry == Permutations(Requests) \union Permutations(Remediations)

MCInit == Init /\ part \in {"diagnose", "operator"}

DiagnosePart ==
    /\ part = "diagnose"
    /\ \/ \E r \in Requests : Diagnose(r) \/ Request(r)
       \/ Tick
    /\ failures' = 0

OperatorPart ==
    /\ part = "operator"
    /\ \/ \E f \in Faults : FaultDetected(f) \/ handle_irreversible_fault(f)
       \/ \E o \in Remediations : Create(o)
       \/ \E n \in Nodes : Schedule(n)
       \/ Operator \/ Tick \/ Restart
    /\ now' <= 1

MCNext == (DiagnosePart \/ OperatorPart) /\ UNCHANGED part

MCSpec == MCInit /\ [][MCNext]_<<vars, part>>

=============================================================================
