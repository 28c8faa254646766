-------------------------------- MODULE MCTcp -------------------------------
(***************************************************************************)
(* Sequence numbers modulo 16 that wrap in the first bytes the client      *)
(* sends, and small buffers.                                               *)
(***************************************************************************)
EXTENDS Tcp, TLC

MCIss == (Client :> 14) @@ (Server :> 5)
MCMaxBytes == (Client :> 3) @@ (Server :> 0)
MCMaxConns == (Client :> 1) @@ (Server :> 1)

\* Of the side that writes in this instance: what it has written is
\* acknowledged, or it finds the connection reset (tcp_tick).
ClientBytesSettle == BytesSettle(Client)
=============================================================================
