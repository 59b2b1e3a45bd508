------------------------------ MODULE BpfPrograms -------------------------------
(***************************************************************************)
(* The six programs over the runtime they share.  One of them is attached; *)
(* the variables of the others keep their initial values.                  *)
(***************************************************************************)
EXTENDS LatencyTracers, EventTracers

vars == <<program, ring, latencyVars, eventVars>>

TypeOK == program \in Programs /\ LatencyTypeOK /\ EventTypeOK

Init ==
    /\ program \in Programs /\ ring = <<>>
    /\ LatencyInit /\ EventInit

\* What becomes of a record that was read is the business of EventPipeline.
Read == Consume /\ UNCHANGED <<program, latencyVars, eventVars>>

Next ==
    \/ LatencyNext /\ UNCHANGED eventVars
    \/ EventNext /\ UNCHANGED latencyVars
    \/ Read

Spec == Init /\ [][Next]_vars

=============================================================================
