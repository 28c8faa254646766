---------------------------- MODULE MCReconfsTxn ----------------------------
(***************************************************************************)
(* A volume of two table leaves, so that moving one can dirty the other.   *)
(***************************************************************************)
EXTENDS ReconfsTxn
=============================================================================
