---------------------------- MODULE MCVirtioBlk -----------------------------
(***************************************************************************)
(* A queue of four descriptors: room for two requests without data, so    *)
(* that one that timed out can be outstanding beside the next one, and the *)
(* queue can run out.                                                      *)
(***************************************************************************)
EXTENDS VirtioBlk
=============================================================================
