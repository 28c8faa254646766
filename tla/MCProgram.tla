----------------------------- MODULE MCProgram ------------------------------
(* Two programs of up to two threads: the second takes the slot, the       *)
(* address space and the place in the signal arrays that the first leaves. *)
EXTENDS Program
=============================================================================
