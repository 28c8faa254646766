------------------------------ MODULE MCBcache ------------------------------
(* Two entries, two whole units and one off the end of the disk; two      *)
(* threads that read and one that writes, past the cache too.              *)
EXTENDS Bcache, TLC

Symmetric == Permutations(CanRead \ CanWrite) \cup Permutations(Units \ Tail)
=============================================================================
