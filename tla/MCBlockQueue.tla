---------------------------- MODULE MCBlockQueue ----------------------------
(***************************************************************************)
(* Three callers of a small disk, one of which wait_sleep turns away.      *)
(***************************************************************************)
EXTENDS BlockQueue
=============================================================================
