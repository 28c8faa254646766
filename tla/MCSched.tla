------------------------------ MODULE MCSched ------------------------------
(***************************************************************************)
(* Two processors for TLC: the boot thread, an idle thread each, the       *)
(* worker, and slots for the threads that come and go.                     *)
(***************************************************************************)
EXTENDS Sched, TLC

CONSTANTS c0, c1, i0, i1

MCIdleOf == (c0 :> i0) @@ (c1 :> i1)

\* The order ring_insert leaves the threads of bring-up in: each new one goes
\* directly behind the boot thread.
MCRing == <<Boot, Worker, i1, i0>>

\* The threads of programs are interchangeable: no property names one.
MCSymmetry == Permutations(Users)
=============================================================================
