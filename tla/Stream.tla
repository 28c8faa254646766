------------------------------- MODULE Stream -------------------------------
(***************************************************************************)
(* What a pipe promises those who share it, and a connection the two       *)
(* programs at its ends: the bytes accepted from the writing side come out *)
(* of the reading side in that order, each once, and a reader is told that *)
(* the input has ended only when nobody can write and nothing is left.     *)
(***************************************************************************)
EXTENDS Sequences, Naturals

VARIABLES
    pending,    \* accepted and not handed over yet
    out,        \* what was handed over last
    open,       \* somebody may still write
    told        \* a reader has been told that the input has ended

vars == <<pending, out, open, told>>

Init == pending = <<>> /\ out = <<>> /\ open = TRUE /\ told = FALSE

Accept ==
    /\ open = TRUE
    /\ Len(pending') > Len(pending)
    /\ SubSeq(pending', 1, Len(pending)) = pending
    /\ UNCHANGED <<out, open, told>>

Deliver ==
    /\ told = FALSE
    /\ pending = out' \o pending'
    /\ out' # <<>>
    /\ UNCHANGED <<open, told>>

Close ==
    /\ open' = FALSE
    /\ UNCHANGED <<pending, out, told>>

TellEnd ==
    /\ open = FALSE
    /\ pending = <<>>
    /\ told' = TRUE
    /\ UNCHANGED <<pending, out, open>>

Next == Accept \/ Deliver \/ Close \/ TellEnd

Spec == Init /\ [][Next]_vars
=============================================================================
