------------------------------- MODULE MCPipe -------------------------------
(***************************************************************************)
(* Three threads of a process with two descriptors, over a pipe of two     *)
(* bytes that one write fills.                                             *)
(***************************************************************************)
EXTENDS Pipe

CONSTANTS t1

\* For one thread that may sleep; the others that may are like it.
\* A call cut off by the close of the other end returns (pipe_close_read and
\* pipe_close_write wake every sleeper of the other side).
CloseReleasesT1 == CloseReleases(t1)
=============================================================================
