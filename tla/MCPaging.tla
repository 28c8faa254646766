------------------------------ MODULE MCPaging ------------------------------
(* Three processors, two slots, a page of heap to each program and fewer   *)
(* frames than programs that come and go can ask for.                      *)
EXTENDS Paging, TLC

Symmetric == Permutations(Cpus) \cup Permutations(Spaces) \cup Permutations(Frames)
=============================================================================
