---------------------------- MODULE MCTimerWheel ----------------------------
(***************************************************************************)
(* A wheel small enough for every tick count to be visited: three levels   *)
(* of two slots, and tick counts that wrap.                                *)
(***************************************************************************)
EXTENDS TimerWheel
=============================================================================
