------------------------------- MODULE Volume -------------------------------
(***************************************************************************)
(* What a ReconFS volume promises: a commit is one change, which a power   *)
(* cut leaves wholly done or wholly not, and which is never lost once its  *)
(* caller has been told.                                                   *)
(***************************************************************************)
CONSTANT Nothing

VARIABLES
    committed,   \* what a mount finds if the power fails now
    current,     \* what the mounted volume shows, or Nothing
    proposed     \* what a commit under way would make it, or Nothing

vars == <<committed, current, proposed>>

Init == committed # Nothing /\ current = Nothing /\ proposed = Nothing

Mount ==
    /\ current = Nothing
    /\ current' = committed
    /\ UNCHANGED <<committed, proposed>>

Propose ==
    /\ current # Nothing /\ proposed = Nothing
    /\ proposed' # Nothing
    /\ UNCHANGED <<committed, current>>

\* The caller is told that the change is real.
Acknowledge ==
    /\ proposed # Nothing
    /\ committed' = proposed
    /\ current' = proposed
    /\ proposed' = Nothing

PowerFails ==
    /\ committed' \in {committed} \cup ({proposed} \ {Nothing})
    /\ current' = Nothing
    /\ proposed' = Nothing

Next == Mount \/ Propose \/ Acknowledge \/ PowerFails

Spec == Init /\ [][Next]_vars
=============================================================================
