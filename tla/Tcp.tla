-------------------------------- MODULE Tcp ---------------------------------
(***************************************************************************)
(* A connection between two machines that both run kernel/core/tcp.c, over *)
(* a network that loses, repeats and reorders segments.  The client opens  *)
(* it, the server's listener accepts it.  What tcp_lock covers is one      *)
(* action.                                                                 *)
(*                                                                         *)
(* Sequence numbers are modulo SeqSpace (2^32 in the code) and compared by *)
(* half of it, the initial ones chosen so that they wrap.  Time is left    *)
(* out: a timer that is armed may run out at any tick.  A segment that     *)
(* send_segment cannot build is one the network loses.                     *)
(***************************************************************************)
EXTENDS Integers, Sequences, FiniteSets, FiniteSetsExt

CONSTANTS
    Client, Server,
    SeqSpace,
    Iss,                \* initial_sequence of each side's first connection
    IssStep,            \* what the next one differs by
    TCP_BUFFER_SIZE,
    ChunkSize,          \* sizeof(chunk): the most one segment carries
    TCP_MAX_RETRIES,
    WriteLens, ReadLens,    \* what a call may ask for
    MaxBytes,           \* bound on the bytes each side writes
    MaxConns,           \* bound on the connections each side makes
    MaxRepeats,         \* bound on the segments the network repeats
    WireRoom            \* bound on the segments under way at once

Hosts == {Client, Server}
Peer(h) == IF h = Client THEN Server ELSE Client

ASSUME TcpAssumption ==
    /\ Client # Server
    /\ SeqSpace \in Nat /\ SeqSpace % 2 = 0 /\ SeqSpace > 0
    /\ Iss \in [Hosts -> 0 .. SeqSpace - 1]
    /\ IssStep \in Nat
    /\ {TCP_BUFFER_SIZE, ChunkSize} \subseteq Nat \ {0}
    /\ {TCP_MAX_RETRIES, MaxRepeats, WireRoom} \subseteq Nat
    /\ MaxBytes \in [Hosts -> Nat] /\ MaxConns \in [Hosts -> Nat]
    /\ WriteLens \cup ReadLens \subseteq Nat \ {0}

VARIABLES
    conn,       \* the one connection of each side, conns[]
    listener,   \* the server's listening entry: "listen", "closed", "free"
    net,        \* segments under way
    made,       \* connections made by each side
    written,    \* bytes each side has written
    repeats,    \* segments repeated by the network
    pending, out, open, told
                \* history, by writing side: accepted and not read yet, read
                \* last, whether it may still write, whether the end was told

history == <<pending, out, open, told>>
tcp_vars == <<conn, listener, net, made, written, repeats, history>>

States == {"FREE", "CLOSED", "SYN_SENT", "SYN_RECEIVED", "ESTABLISHED",
           "FIN_WAIT_1", "FIN_WAIT_2", "CLOSE_WAIT", "LAST_ACK", "TIME_WAIT"}

\* free_conn, and what alloc_conn finds.
free_conn ==
    [state |-> "FREE", snd_una |-> 0, snd_nxt |-> 0, snd_wnd |-> 0,
     rcv_nxt |-> 0, tx |-> <<>>, rx |-> <<>>, armed |-> FALSE, retries |-> 0,
     peer_closed |-> FALSE, reset |-> FALSE, accept_pending |-> FALSE]

TcpInit ==
    /\ conn = [h \in Hosts |-> free_conn]
    /\ listener = "listen"
    /\ net = {}
    /\ made = [h \in Hosts |-> 0]
    /\ written = [h \in Hosts |-> 0]
    /\ repeats = 0
    /\ pending = [h \in Hosts |-> <<>>]
    /\ out = [h \in Hosts |-> <<>>]
    /\ open = [h \in Hosts |-> TRUE]
    /\ told = [h \in Hosts |-> FALSE]

-----------------------------------------------------------------------------
(* Sequence numbers and segments.                                          *)

Plus(a, n) == (a + n) % SeqSpace
Minus(a, b) == (a - b) % SeqSpace

\* (i32)(a - b) < 0, and <= 0.
seq_lt(a, b) == Minus(a, b) >= SeqSpace \div 2
seq_le(a, b) == a = b \/ seq_lt(a, b)

rx_free(c) == TCP_BUFFER_SIZE - Len(c.rx)

\* Built from the connection as it is when the segment goes out.
send_segment(h, c, flags, seq, data) ==
    [to |-> Peer(h), flags |-> flags, seq |-> seq, ack |-> c.rcv_nxt,
     wnd |-> rx_free(c), data |-> data]

\* For a segment that belongs to no connection.
send_reset(m) ==
    LET after == Plus(m.seq, Len(m.data)
                             + IF "SYN" \in m.flags THEN 1 ELSE 0)
        Reset(flags, seq, ack) ==
            [to |-> Peer(m.to), flags |-> flags, seq |-> seq, ack |-> ack,
             wnd |-> 0, data |-> <<>>]
    IN  IF "ACK" \in m.flags THEN Reset({"RST"}, m.ack, 0)
                             ELSE Reset({"RST", "ACK"}, 0, after)

\* What goes out while the wire is full is lost.
Wire(under_way, segments) ==
    net' = IF Cardinality(under_way \cup segments) <= WireRoom
           THEN under_way \cup segments ELSE under_way

initial_sequence(h) == Plus(Iss[h], made[h] * IssStep)

\* A connection before anything has come back on it.
Opened(h, state, rcv_nxt, wnd) ==
    [free_conn EXCEPT !.state = state,
                      !.snd_una = initial_sequence(h),
                      !.snd_nxt = Plus(initial_sequence(h), 1),
                      !.rcv_nxt = rcv_nxt,
                      !.snd_wnd = wnd,
                      !.armed = TRUE]

Sets(h, c) == conn' = [conn EXCEPT ![h] = c]

-----------------------------------------------------------------------------
(* What a program asks.                                                    *)

tcp_open(h) ==
    LET c == Opened(h, "SYN_SENT", 0, 0)
    IN  /\ h = Client
        /\ conn[h].state = "FREE" /\ made[h] < MaxConns[h]
        /\ Sets(h, c)
        /\ made' = [made EXCEPT ![h] = @ + 1]
        /\ Wire(net, {send_segment(h, c, {"SYN"}, c.snd_una, <<>>)})
        /\ UNCHANGED <<listener, written, repeats, history>>

\* socket_accept asks through the listening socket, while there is one.
tcp_accept_ready(h) ==
    /\ conn[h].accept_pending
    /\ listener # "free"
    /\ Sets(h, [conn[h] EXCEPT !.accept_pending = FALSE])
    /\ UNCHANGED <<listener, net, made, written, repeats, history>>

\* A program has the connection it opened, or has accepted.
Held(h) == conn[h].state # "FREE" /\ ~conn[h].accept_pending

\* As many bytes as the send buffer has room for are kept; one segment with
\* the first of them goes out at once.  A byte is its number in the stream.
tcp_write(h, len) ==
    LET c == conn[h]
        n == Min({len, TCP_BUFFER_SIZE - Len(c.tx)})
        bytes == [i \in 1 .. n |-> written[h] + i]
        chunk == Min({n, ChunkSize})
        send_now == IF c.snd_wnd > 0 /\ chunk > c.snd_wnd THEN c.snd_wnd
                                                          ELSE chunk
    IN  /\ Held(h) /\ c.state = "ESTABLISHED"
        /\ n > 0 /\ written[h] + n <= MaxBytes[h]
        /\ Sets(h, [c EXCEPT !.tx = @ \o bytes,
                             !.snd_nxt = Plus(@, send_now),
                             !.armed = TRUE,
                             !.retries = 0])
        /\ Wire(net, {send_segment(h, c, {"ACK"}, c.snd_nxt,
                                   SubSeq(bytes, 1, send_now))})
        /\ written' = [written EXCEPT ![h] = @ + n]
        /\ pending' = [pending EXCEPT ![h] = @ \o bytes]
        /\ UNCHANGED <<listener, made, repeats, out, open, told>>

\* Zero bytes from a connection whose peer has closed is the end.
tcp_read(h, len) ==
    LET c == conn[h]
        n == Min({len, Len(c.rx)})
        w == Peer(h)
    IN  /\ Held(h)
        /\ IF n > 0
           THEN /\ Sets(h, [c EXCEPT !.rx = SubSeq(@, n + 1, Len(@))])
                /\ out' = [out EXCEPT ![w] = SubSeq(c.rx, 1, n)]
                /\ pending' = [pending EXCEPT ![w] =
                                  SubSeq(@, n + 1, Len(@))]
                /\ UNCHANGED told
           ELSE /\ c.peer_closed
                /\ told' = [told EXCEPT ![w] = TRUE]
                /\ UNCHANGED <<conn, out, pending>>
        /\ UNCHANGED <<listener, net, made, written, repeats, open>>

\* The FIN goes out once and takes a sequence number.
tcp_shutdown(h) ==
    LET c == conn[h]
        Fin(state) ==
            /\ Sets(h, [c EXCEPT !.snd_nxt = Plus(@, 1), !.state = state])
            /\ Wire(net, {send_segment(h, c, {"FIN", "ACK"}, c.snd_nxt, <<>>)})
            /\ open' = [open EXCEPT ![h] = FALSE]
    IN  /\ Held(h)
        /\ \/ c.state = "ESTABLISHED" /\ Fin("FIN_WAIT_1")
           \/ c.state = "CLOSE_WAIT" /\ Fin("LAST_ACK")
           \/ c.state = "SYN_SENT" /\ Sets(h, free_conn)
              /\ UNCHANGED <<net, open>>
        /\ UNCHANGED <<listener, made, written, repeats, pending, out, told>>

\* The server's program closes its listening socket.
ListenerShutdown ==
    /\ listener = "listen"
    /\ listener' = "free"
    /\ UNCHANGED <<conn, net, made, written, repeats, history>>

-----------------------------------------------------------------------------
(* Receiving: each of these takes a connection and a segment and gives the *)
(* connection afterwards and what it sends.                                *)

\* Bytes the far end has confirmed leave the send buffer.
AckArrives(c, m) ==
    LET acked == Minus(m.ack, c.snd_una)
        inside == seq_le(c.snd_una, m.ack) /\ seq_le(m.ack, c.snd_nxt)
    IN  IF "ACK" \notin m.flags THEN c
        ELSE [c EXCEPT
                !.snd_wnd = m.wnd,
                !.tx = IF inside /\ acked <= Len(@)
                       THEN SubSeq(@, acked + 1, Len(@)) ELSE @,
                !.snd_una = IF inside THEN m.ack ELSE @,
                !.retries = IF inside THEN 0 ELSE @]

\* Everything is acknowledged, what did not fit as well.
deliver_all(c, data) ==
    LET n == Min({Len(data), rx_free(c)})
    IN  [c EXCEPT !.rx = @ \o SubSeq(data, 1, n),
                  !.rcv_nxt = Plus(@, Len(data))]

\* What does not fit is not acknowledged.
deliver(c, data) ==
    LET n == Min({Len(data), rx_free(c)})
    IN  [c EXCEPT !.rx = @ \o SubSeq(data, 1, n), !.rcv_nxt = Plus(@, n)]

\* Whatever arrives is taken to be next.
DataArrivesAny(c, m) == IF m.data # <<>> THEN deliver(c, m.data) ELSE c

DataArrives(c, m) ==
    IF m.data # <<>> /\ m.seq = c.rcv_nxt THEN deliver(c, m.data) ELSE c

FinArrives(c, m) ==
    IF "FIN" \in m.flags /\ m.seq = c.rcv_nxt
    THEN [c EXCEPT !.rcv_nxt = Plus(@, 1),
                   !.peer_closed = TRUE,
                   !.state = IF @ = "ESTABLISHED" THEN "CLOSE_WAIT"
                                                  ELSE "TIME_WAIT"]
    ELSE IF /\ c.state = "FIN_WAIT_1" /\ "ACK" \in m.flags
            /\ m.ack = c.snd_nxt
    THEN [c EXCEPT !.state = "FIN_WAIT_2"]
    ELSE c

\* ESTABLISHED, FIN_WAIT_1 and FIN_WAIT_2: acknowledgement, data, FIN, in
\* that order; data, in or out of order, and a FIN in order are acknowledged.
Conversing(h, c, m) ==
    LET c1 == DataArrives(AckArrives(c, m), m)
        c2 == FinArrives(c1, m)
        Ack(k) == send_segment(h, k, {"ACK"}, k.snd_nxt, <<>>)
    IN  [conn |-> c2,
         send |-> (IF m.data # <<>> THEN {Ack(c1)} ELSE {})
                  \cup (IF c2.rcv_nxt # c1.rcv_nxt THEN {Ack(c2)} ELSE {})]

\* The answer to our SYN.
SynSent(h, c, m) ==
    LET c1 == [c EXCEPT !.rcv_nxt = Plus(m.seq, 1), !.snd_una = m.ack,
                        !.snd_wnd = m.wnd, !.state = "ESTABLISHED",
                        !.retries = 0]
    IN  IF {"SYN", "ACK"} \subseteq m.flags /\ m.ack = c.snd_nxt
        THEN [conn |-> c1,
              send |-> {send_segment(h, c1, {"ACK"}, c1.snd_nxt, <<>>)}]
        ELSE [conn |-> c, send |-> {}]

\* The answer to our SYN and ACK.
SynReceived(c, m) ==
    IF "ACK" \in m.flags /\ m.ack = c.snd_nxt
    THEN [c EXCEPT !.snd_una = m.ack, !.state = "ESTABLISHED",
                   !.accept_pending = TRUE, !.retries = 0]
    ELSE c

\* The switch of tcp_receive, for a connection that was found.
Switch(h, c, m) ==
    IF "RST" \in m.flags
    THEN [conn |-> [c EXCEPT !.reset = TRUE, !.state = "CLOSED"], send |-> {}]
    ELSE CASE c.state = "SYN_SENT" -> SynSent(h, c, m)
           [] c.state = "SYN_RECEIVED" ->
                [conn |-> SynReceived(c, m), send |-> {}]
           [] c.state \in {"ESTABLISHED", "FIN_WAIT_1", "FIN_WAIT_2"} ->
                Conversing(h, c, m)
           [] c.state = "LAST_ACK" /\ "ACK" \in m.flags
                                   /\ m.ack = c.snd_nxt ->
                [conn |-> free_conn, send |-> {}]
           [] OTHER -> [conn |-> c, send |-> {}]

\* find_conn found the connection.
ReceivedByConn(h, m) ==
    LET r == Switch(h, conn[h], m)
    IN  /\ conn[h].state # "FREE"
        /\ Sets(h, r.conn)
        /\ Wire(net \ {m}, r.send)
        /\ UNCHANGED <<listener, made>>

Listens(h) == h = Server /\ listener = "listen"

\* It found the listener: a SYN makes a connection, unless there is no room
\* for one; a reset is taken for the listener's own.
ReceivedByListener(h, m) ==
    LET c == Opened(h, "SYN_RECEIVED", Plus(m.seq, 1), m.wnd)
    IN  /\ conn[h].state = "FREE" /\ Listens(h)
        /\ IF "RST" \notin m.flags /\ "SYN" \in m.flags /\ made[h] < MaxConns[h]
           THEN /\ Sets(h, c)
                /\ made' = [made EXCEPT ![h] = @ + 1]
                /\ Wire(net \ {m},
                        {send_segment(h, c, {"SYN", "ACK"}, c.snd_una, <<>>)})
                /\ UNCHANGED listener
           ELSE /\ listener' = IF "RST" \in m.flags THEN "closed"
                                                    ELSE listener
                /\ net' = net \ {m}
                /\ UNCHANGED <<conn, made>>

\* It found nothing: a reset answers anything but a reset.
ReceivedByNobody(h, m) ==
    /\ conn[h].state = "FREE" /\ ~Listens(h)
    /\ Wire(net \ {m}, IF "RST" \in m.flags THEN {} ELSE {send_reset(m)})
    /\ UNCHANGED <<conn, listener, made>>

tcp_receive(h) ==
    /\ \E m \in net : /\ m.to = h
                      /\ \/ ReceivedByConn(h, m)
                         \/ ReceivedByListener(h, m)
                         \/ ReceivedByNobody(h, m)
    /\ UNCHANGED <<written, repeats, history>>

-----------------------------------------------------------------------------
(* Time, and the network.                                                  *)

\* The wait after closing has run out.
TimeWaitEnds(h) ==
    /\ conn[h].state = "TIME_WAIT"
    /\ Sets(h, free_conn)
    /\ UNCHANGED net

\* The retries are not counted.
RetransmitEndless(h) ==
    LET c == conn[h]
        n == Min({Len(c.tx), ChunkSize})
    IN  /\ c.tx # <<>> /\ c.armed
        /\ conn' = conn
        /\ Wire(net, {send_segment(h, c, {"ACK"}, c.snd_una,
                                  SubSeq(c.tx, 1, n))})

\* The timer has run out with bytes not acknowledged: the oldest of them go
\* out again, and after TCP_MAX_RETRIES times the connection is given up.
Retransmit(h) ==
    LET c == conn[h]
        n == Min({Len(c.tx), ChunkSize})
    IN  /\ c.tx # <<>> /\ c.armed
        /\ IF c.retries >= TCP_MAX_RETRIES
           THEN Sets(h, [c EXCEPT !.state = "CLOSED", !.reset = TRUE])
                /\ UNCHANGED net
           ELSE /\ Sets(h, [c EXCEPT !.retries = @ + 1])
                /\ Wire(net, {send_segment(h, c, {"ACK"}, c.snd_una,
                                           SubSeq(c.tx, 1, n))})

tcp_tick(h) ==
    /\ TimeWaitEnds(h) \/ Retransmit(h)
    /\ UNCHANGED <<listener, made, written, repeats, history>>

\* External: the wire.
Lose ==
    /\ \E m \in net : net' = net \ {m}
    /\ UNCHANGED <<conn, listener, made, written, repeats, history>>

\* A segment arrives and is still under way: it will arrive again.
Repeated(h) ==
    /\ repeats < MaxRepeats
    /\ repeats' = repeats + 1
    /\ \E m \in net :
         /\ m.to = h /\ conn[h].state # "FREE"
         /\ LET r == Switch(h, conn[h], m)
            IN  Sets(h, r.conn) /\ Wire(net, r.send)
    /\ UNCHANGED <<listener, made, written, history>>

-----------------------------------------------------------------------------
TcpNext ==
    \/ \E h \in Hosts : \/ tcp_open(h) \/ tcp_accept_ready(h) \/ tcp_shutdown(h)
                        \/ \E n \in WriteLens : tcp_write(h, n)
                        \/ \E n \in ReadLens : tcp_read(h, n)
                        \/ tcp_receive(h) \/ tcp_tick(h) \/ Repeated(h)
    \/ ListenerShutdown
    \/ Lose

TcpSpec == TcpInit /\ [][TcpNext]_tcp_vars

\* A program that goes on accepting and reading also runs the stack
\* (socket_recvfrom: "Run the stack first"), so a timer that has run out is
\* seen and bytes that have come are taken.  Nothing is assumed of the network.
GoesOn(h) ==
    tcp_tick(h) \/ tcp_accept_ready(h) \/ \E n \in ReadLens : tcp_read(h, n)

TcpFairSpec == TcpSpec /\ \A h \in Hosts : WF_tcp_vars(GoesOn(h))

-----------------------------------------------------------------------------
(* Properties.                                                             *)

Segments ==
    [to : Hosts, flags : SUBSET {"SYN", "ACK", "FIN", "RST"},
     seq : 0 .. SeqSpace - 1, ack : 0 .. SeqSpace - 1,
     wnd : 0 .. TCP_BUFFER_SIZE, data : Seq(Nat)]

TcpTypeOK ==
    /\ \A h \in Hosts :
         /\ conn[h].state \in States
         /\ Len(conn[h].tx) <= TCP_BUFFER_SIZE
         /\ Len(conn[h].rx) <= TCP_BUFFER_SIZE
         /\ conn[h].retries \in 0 .. TCP_MAX_RETRIES
    /\ listener \in {"listen", "closed", "free"}
    /\ net \subseteq Segments

\* The connection of one side is the other end of the connection of the
\* other side.
Joined(h) ==
    /\ conn[h].state # "FREE" /\ conn[Peer(h)].state # "FREE"
    /\ made[h] = 1 /\ made[Peer(h)] = 1

\* No byte leaves the send buffer before the other side has it: what has
\* been written and is neither in the other side's buffer nor read is still
\* there to be sent again (tcp_receive: "and only then"; deliver:
\* "Acknowledging bytes that were dropped is how a stream silently loses
\* data").
KeptUntilDelivered ==
    \A h \in Hosts :
        Joined(h) =>
            LET here == Len(conn[Peer(h)].rx)
                missing == SubSeq(pending[h], here + 1, Len(pending[h]))
                tx == conn[h].tx
            IN  /\ Len(missing) <= Len(tx)
                /\ missing = SubSeq(tx, Len(tx) - Len(missing) + 1, Len(tx))

\* Each direction of a connection is a stream of bytes with one end, however
\* segments are lost, repeated and reordered.
Up == INSTANCE Stream WITH
    pending <- pending[Client], out <- out[Client], told <- told[Client],
    open <- open[Client]
Down == INSTANCE Stream WITH
    pending <- pending[Server], out <- out[Server], told <- told[Server],
    open <- open[Server]
IsStream == Up!Spec /\ Down!Spec

\* Closing the listener leaves what nobody has accepted yet established.
Orphaned == conn[Server].accept_pending /\ listener = "free"

\* Bytes written are settled: they are acknowledged, or the program finds
\* the connection reset or gone.  No number of lost, repeated or late
\* segments keeps them waiting for ever, and neither does a full window
\* (tcp_tick), unless the connection has nobody at its other end.
BytesSettle(h) ==
    conn[h].tx # <<>> ~> (conn[h].tx = <<>> \/ conn[h].reset \/ Orphaned)

\* Claimed by the comment on tcp_tick ("so that a machine which is not
\* receiving anything still makes progress on what it has sent") and by the
\* timer tcp_open arms: an attempt to connect is answered, refused or given
\* up, and does not stay in SYN_SENT.
OpenSettles ==
    conn[Client].state = "SYN_SENT" ~> conn[Client].state # "SYN_SENT"

\* Claimed by tcp_receive ("the listener stays listening"): nothing that
\* arrives closes the listener.
ListenerStays == listener # "closed"
=============================================================================
