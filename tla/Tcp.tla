-------------------------------- MODULE Tcp ---------------------------------
(***************************************************************************)
(* net/tcp.c: its sockets, their buffers and the segments that arrive.     *)
(*                                                                         *)
(* A socket is a number; memory is the set of blocks that are allocated    *)
(* (the structure of a socket and its two buffers), and any kmalloc may    *)
(* fail. Programs use the sockets they were given and have not closed. The *)
(* peers are honest: they number their bytes from PeerISN and acknowledge  *)
(* what was sent to them; their segments arrive late, twice, in any order, *)
(* or never. Only segments that the checksum test lets through are         *)
(* modelled. Nothing is put on the wire (tcp_send_segment ends in a        *)
(* printf), so what is sent is what the peers may acknowledge.             *)
(***************************************************************************)
EXTENDS Integers, Sequences, SequencesExt, FiniteSets, FiniteSetsExt

CONSTANTS
  Peer,        \* remote ends, none of them 0
  Port,        \* bound: ports given to tcp_bind
  FirstPort,   \* 1024
  PortSpace,   \* 2^16
  SeqSpace,    \* 2^32
  ISN,         \* bound: first numbers, each socket's own (sockfd * 0x12345678)
  ListenISN,   \* 0x12345678
  PeerISN,     \* the peers' first number
  BufSize,     \* 8192: bytes of a buffer
  Mss,         \* 1460
  Window,      \* bound: windows announced by the peers
  FirstWindow, \* 4096: the window before any is announced
  QueueMax,    \* 10: connections waiting to be accepted
  Lens,        \* bound: bytes of a receive and of a segment
  SendLens,    \* bound: bytes of a send
  MaxIn,       \* bound: bytes a peer sends in a connection
  MaxOut,      \* bound: bytes sent to it
  MaxSocks,    \* bound: structures ever made
  MaxOwn,      \* bound: calls of tcp_socket
  MaxConnects  \* bound: connections tried on the sockets there are

ASSUME TcpAssumption ==
  /\ {PortSpace, SeqSpace} \subseteq Nat \ {0} /\ {MaxSocks, MaxIn, MaxOut} \subseteq Nat
  /\ 0 \notin Peer /\ Port \subseteq Nat /\ FirstPort \in 0 .. PortSpace - 1
  /\ ISN \cup {ListenISN, PeerISN} \subseteq 0 .. SeqSpace - 1
  /\ {BufSize, Mss, QueueMax} \subseteq Nat \ {0} /\ Lens \cup SendLens \subseteq Nat \ {0}
  /\ Window \cup {FirstWindow} \subseteq Nat
  \* No number is used twice in a connection, and a window is small against
  \* the space of numbers (16 bits against 32).
  /\ MaxOut < SeqSpace /\ \A len \in Lens : MaxIn + len <= SeqSpace
  /\ \A w \in Window \cup {FirstWindow} : w + Mss <= SeqSpace

VARIABLES
  tcp_sockets,      \* the list, newest first
  sock,             \* the structures
  buf,              \* the buffers, by the socket they were made for
  next_local_port,
  made,             \* how many sockets there have been
  held,             \* the sockets programs have
  live,             \* the allocated blocks
  accepted,         \* history: what tcp_accept returned
  dropped,          \* history: a connection found the accept queue full
  misread,          \* history: tcp_recv gave a byte that does not follow the last
  broken            \* a block was freed twice, or was used after that

vars == <<tcp_sockets, sock, buf, next_local_port, made, held, live, accepted,
          dropped, misread, broken>>

Socks == 1 .. MaxSocks
QueueSlots == 0 .. QueueMax - 1

\* owner: the socket the buffers were made for. The rest is history, of one
\* connection: sent, acked, offered are the bytes sent, the most acknowledged
\* and the largest window announced; whole says that every segment sent was
\* recorded, heard that the peer's SYN came.
NewSocket(s, port, isn) ==
  [port |-> port, remote |-> 0, state |-> "CLOSED", type |-> "ACTIVE",
   send_seq |-> 0, recv_seq |-> 0, send_ack |-> 0, window |-> FirstWindow,
   outstanding |-> {}, queue |-> [i \in QueueSlots |-> 0], head |-> 0, count |-> 0,
   owner |-> s, isn |-> isn, conn |-> 0, sent |-> 0, acked |-> 0,
   offered |-> FirstWindow, whole |-> TRUE, heard |-> FALSE]

\* A byte is <<connection, its number in it>>. last: history, the last one taken.
EmptyBuffer == [data |-> [i \in 0 .. BufSize - 1 |-> <<0, 0>>],
                head |-> 0, tail |-> 0, used |-> 0, last |-> <<0, 0>>]

Blocks(s) == {<<s, "sock">>, <<s, "send">>, <<s, "recv">>}

Init ==
  /\ tcp_sockets = <<>>
  /\ sock = [s \in Socks |-> NewSocket(0, 0, 0)]
  /\ buf = [s \in Socks |-> [send |-> EmptyBuffer, recv |-> EmptyBuffer]]
  /\ next_local_port = FirstPort
  /\ made = 0 /\ held = {} /\ live = {}
  /\ accepted = <<>> /\ dropped = FALSE /\ misread = FALSE /\ broken = FALSE

Plus(a, b)  == (a + b) % SeqSpace
Minus(a, b) == (a - b) % SeqSpace

(***************************************************************************)
(* tcp_buffer_enqueue and tcp_buffer_dequeue: a ring.                      *)
(***************************************************************************)
HasRoom(b, len) == BufSize - b.used >= len

Place(b, j) == IF b.tail + j <= BufSize THEN b.tail + j - 1 ELSE b.tail + j - 1 - BufSize

tcp_buffer_enqueue(b, bytes) ==
  [b EXCEPT !.data = [i \in DOMAIN @ |->
                        LET js == {j \in DOMAIN bytes : Place(b, j) = i}
                        IN  IF js = {} THEN @[i] ELSE bytes[CHOOSE j \in js : TRUE]],
            !.tail = (@ + Len(bytes)) % BufSize, !.used = @ + Len(bytes)]

Taken(b, len) == IF len < b.used THEN len ELSE b.used

tcp_buffer_dequeue(b, len) ==
  LET n == Taken(b, len)
  IN  [bytes |-> [j \in 1 .. n |-> b.data[IF b.head + j <= BufSize THEN b.head + j - 1
                                          ELSE b.head + j - 1 - BufSize]],
       rest  |-> [b EXCEPT !.head = (@ + n) % BufSize, !.used = @ - n]]

Follows(a, b) == b = <<a[1], a[2] + 1>> \/ (b[1] > a[1] /\ b[2] = 1)

-----------------------------------------------------------------------------
(***************************************************************************)
(* tcp_socket. failed are the blocks for which there is no memory: without *)
(* a structure nothing is done, without a buffer tcp_cleanup_socket        *)
(* returns the rest. The port is used up.                                  *)
(***************************************************************************)
\* Mutant: a socket that cannot be completed is left as it is.
AfterCleanup_kept(blocks) == blocks

AfterCleanup(blocks) == {}

tcp_socket(failed, isn) ==
  LET s == made + 1 IN
  /\ made < MaxSocks /\ Cardinality({r \in 1 .. made : sock[r].owner = r}) < MaxOwn
  /\ <<s, "sock">> \notin failed
  /\ made' = s
  /\ next_local_port' = (next_local_port + 1) % PortSpace
  /\ sock' = [sock EXCEPT ![s] = NewSocket(s, next_local_port, isn)]
  /\ IF failed = {}
       THEN /\ live' = live \cup Blocks(s)
            /\ tcp_sockets' = <<s>> \o tcp_sockets /\ held' = held \cup {s}
       ELSE /\ live' = live \cup AfterCleanup(Blocks(s) \ failed)
            /\ UNCHANGED <<tcp_sockets, held>>
  /\ UNCHANGED <<buf, accepted, dropped, misread, broken>>

\* No check at all: a socket can take a port that others have, at any time.
tcp_bind(s, port) ==
  /\ sock' = [sock EXCEPT ![s].port = port]
  /\ UNCHANGED <<tcp_sockets, buf, next_local_port, made, held, live, accepted,
                 dropped, misread, broken>>

tcp_listen(s) ==
  /\ sock' = [sock EXCEPT ![s].type = "PASSIVE", ![s].state = "LISTEN"]
  /\ UNCHANGED <<tcp_sockets, buf, next_local_port, made, held, live, accepted,
                 dropped, misread, broken>>

\* The slot keeps its pointer.
tcp_accept(s) ==
  LET t == sock[s].queue[sock[s].head] IN
  /\ sock[s].type = "PASSIVE" /\ sock[s].count > 0
  /\ sock' = [sock EXCEPT ![s].head = (@ + 1) % QueueMax, ![s].count = @ - 1]
  /\ accepted' = Append(accepted, [by |-> s, got |-> t])
  /\ held' = held \cup {t}
  /\ UNCHANGED <<tcp_sockets, buf, next_local_port, made, live, dropped, misread, broken>>

(***************************************************************************)
(* tcp_send_segment as it changes a socket: a segment with data, SYN or    *)
(* FIN is added to the outstanding ones, if there is memory for the entry; *)
(* nobody looks whether there was.                                         *)
(***************************************************************************)
tcp_enqueue_segment(c, seq, len, ok) ==
  IF ok THEN [c EXCEPT !.outstanding = @ \cup {[seq |-> seq, len |-> len]}]
        ELSE [c EXCEPT !.whole = FALSE]

\* How often tcp_connect was called on the sockets there are.
Connects == MapThenSumSet(LAMBDA t : sock[t].conn, Socks)

\* Without memory for the segment itself the state stays CLOSED; the call may
\* be repeated.
tcp_connect(s, peer, ok, recorded) ==
  LET c == [sock[s] EXCEPT !.remote = peer, !.type = "ACTIVE",
                           !.send_seq = sock[s].isn, !.recv_seq = 0,
                           !.conn = @ + 1, !.sent = 0, !.acked = 0, !.offered = 0,
                           !.whole = TRUE, !.heard = FALSE]
  IN
  /\ sock[s].state = "CLOSED"
  /\ Connects < MaxConnects
  /\ sock' = [sock EXCEPT ![s] =
                IF ok THEN [tcp_enqueue_segment(c, c.send_seq, 0, recorded) EXCEPT !.state = "SYN_SENT"]
                      ELSE c]
  /\ UNCHANGED <<tcp_sockets, buf, next_local_port, made, held, live, accepted,
                 dropped, misread, broken>>

WindowFull(c) == Minus(c.send_seq, c.send_ack) >= c.window

\* A round of the loop of tcp_send: at most Mss bytes, unless the window is full.
SendRound(a, recorded) ==
  LET k == IF a.left < Mss THEN a.left ELSE Mss
  IN  IF a.left = 0 \/ WindowFull(a.c) THEN a
      ELSE [c    |-> [tcp_enqueue_segment(a.c, a.c.send_seq, k, recorded) EXCEPT
                        !.send_seq = Plus(@, k), !.sent = @ + k],
            left |-> a.left - k]

\* The loop, with memory for n segments.
SendLoop(c, len, n, recorded) ==
  LET rounds[i \in 0 .. n] ==
        IF i = 0 THEN [c |-> c, left |-> len] ELSE SendRound(rounds[i - 1], recorded)
  IN  rounds[n].c

\* All the bytes go to the send buffer, from which nothing is ever taken; what
\* the window does not let out is not sent later.
tcp_send(s, len, n, recorded) ==
  LET c == sock[s] IN
  /\ c.state = "ESTABLISHED"
  /\ c.sent + len <= MaxOut
  /\ HasRoom(buf[c.owner].send, len)
  /\ buf' = [buf EXCEPT ![c.owner].send = tcp_buffer_enqueue(@, [j \in 1 .. len |-> <<0, 0>>])]
  /\ sock' = [sock EXCEPT ![s] = SendLoop(c, len, n, recorded)]
  /\ UNCHANGED <<tcp_sockets, next_local_port, made, held, live, accepted,
                 dropped, misread, broken>>

tcp_recv(s, len) ==
  LET o == sock[s].owner
      r == tcp_buffer_dequeue(buf[o].recv, len)
      seen == <<buf[o].recv.last>> \o r.bytes
  IN
  /\ buf[o].recv.used > 0
  /\ buf' = [buf EXCEPT ![o].recv = [r.rest EXCEPT !.last = seen[Len(seen)]]]
  /\ misread' = (misread \/ \E j \in DOMAIN r.bytes : ~ Follows(seen[j], seen[j + 1]))
  /\ UNCHANGED <<tcp_sockets, sock, next_local_port, made, held, live, accepted, dropped, broken>>

(***************************************************************************)
(* tcp_close. Whatever the state, the socket is taken from the list and    *)
(* tcp_cleanup_socket frees it. The connections a listening socket has in  *)
(* its slots, accepted or not, are closed first; they have its buffers.    *)
(***************************************************************************)
Queued(s)    == {sock[s].queue[i] : i \in QueueSlots} \ {0}
Listed       == Range(tcp_sockets)
Reachable    == Listed \cup held \cup UNION {Queued(s) : s \in Listed \cup held}
Parts(s)     == {<<s, "sock">>, <<sock[s].owner, "send">>, <<sock[s].owner, "recv">>}
SharesItsBuffers(s) == \E t \in Reachable \ {s} : sock[t].owner = sock[s].owner

FreedByCleanup(s) == Parts(s)

tcp_close(s) ==
  /\ broken' = SharesItsBuffers(s)
  /\ sock' = [sock EXCEPT ![s] = [NewSocket(@.owner, 0, 0) EXCEPT     \* never looked at again
                !.state = IF sock[s].state = "ESTABLISHED" THEN "FIN_WAIT_1" ELSE sock[s].state]]
  /\ IF s \in Listed
       THEN \E i \in DOMAIN tcp_sockets :
              tcp_sockets[i] = s /\ tcp_sockets' = RemoveAt(tcp_sockets, i)
       ELSE UNCHANGED tcp_sockets
  /\ held' = held \ {s}
  /\ live' = live \ FreedByCleanup(s)
  /\ buf' = [buf EXCEPT ![sock[s].owner] = [send |-> EmptyBuffer, recv |-> EmptyBuffer]]
  /\ UNCHANGED <<next_local_port, made, accepted, dropped, misread>>

-----------------------------------------------------------------------------
(***************************************************************************)
(* tcp_handle_packet                                                       *)
(***************************************************************************)

\* Mutant: only the first number of a segment is compared.
Acknowledged_begin(seg, ack) == seg.seq <= ack

\* Compared as plain numbers, without regard to wrap-around.
Acknowledged(seg, ack) == Plus(seg.seq, seg.len) <= ack

tcp_dequeue_segment(c, ack) ==
  [c EXCEPT !.outstanding = {seg \in @ : ~ Acknowledged(seg, ack)}]

\* A listening socket takes every segment for its port; another one only what
\* its peer sends. The newest comes first.
Matching(port, peer) ==
  {i \in DOMAIN tcp_sockets :
     LET s == tcp_sockets[i]
     IN  sock[s].port = port /\ (sock[s].type = "PASSIVE" \/ sock[s].remote = peer)}

\* What a peer may send to a socket, at whatever time it arrives.
Segments(c) ==
  LET ack(k) == Plus(c.isn, k + 1)
      seg(flags, seq, k, bytes) ==
        [flags |-> flags, seq |-> seq, k |-> k, ack |-> ack(k), bytes |-> bytes]
  IN  {seg({"SYN"}, PeerISN, 0, <<>>), seg({"SYN", "ACK"}, PeerISN, 0, <<>>),
       seg({"RST"}, 0, 0, <<>>), seg({"FIN"}, Plus(PeerISN, MaxIn + 1), 0, <<>>)}
      \cup {seg(flags, Plus(PeerISN, MaxIn + 1), k, <<>>) :
              flags \in {{"ACK"}, {"FIN", "ACK"}}, k \in 0 .. c.sent}
      \cup {seg({"PSH", "ACK"}, Plus(PeerISN, i), k, [j \in 1 .. len |-> <<c.conn, i + j - 1>>]) :
              i \in 1 .. MaxIn, k \in {0, c.sent}, len \in Lens}

\* Mutant: the number of the segment is not looked at.
IsNext_any(c, seg) == seg.bytes # <<>>

IsNext(c, seg) == seg.bytes # <<>> /\ seg.seq = c.recv_seq

\* TCP_ESTABLISHED. A segment out of order counts as an acknowledgment; one in
\* order does not.
Established(c, seg, recorded) ==
  CASE "FIN" \in seg.flags ->
         tcp_enqueue_segment([c EXCEPT !.recv_seq = Plus(seg.seq, 1), !.state = "LAST_ACK"],
                             c.send_seq, 0, recorded)
    [] "FIN" \notin seg.flags /\ "RST" \in seg.flags -> [c EXCEPT !.state = "CLOSED"]
    [] seg.flags \cap {"FIN", "RST"} = {} /\ IsNext(c, seg) ->
         IF HasRoom(buf[c.owner].recv, Len(seg.bytes))
           THEN [c EXCEPT !.recv_seq = Plus(@, Len(seg.bytes))] ELSE c
    [] seg.flags \cap {"FIN", "RST"} = {} /\ ~ IsNext(c, seg) /\ "ACK" \in seg.flags ->
         [tcp_dequeue_segment(c, seg.ack) EXCEPT
            !.send_ack = seg.ack, !.acked = IF seg.k > @ THEN seg.k ELSE @]
    [] OTHER -> c

\* TCP_SYN_SENT
SynSent(c, seg, recorded) ==
  CASE {"SYN", "ACK"} \subseteq seg.flags ->
         [c EXCEPT !.recv_seq = Plus(seg.seq, 1), !.send_seq = seg.ack,
                   !.state = "ESTABLISHED", !.heard = TRUE]
    [] "SYN" \in seg.flags /\ "ACK" \notin seg.flags ->
         [tcp_enqueue_segment(c, c.send_seq, 0, recorded) EXCEPT
            !.recv_seq = Plus(seg.seq, 1), !.send_seq = Plus(@, 1),
            !.state = "SYN_RECEIVED", !.heard = TRUE]
    [] OTHER -> c

\* The states in which a segment does nothing but move to another one.
Moved(state, flags) ==
  CASE state = "SYN_RECEIVED" /\ "ACK" \in flags -> "ESTABLISHED"
    [] state = "FIN_WAIT_1" /\ "ACK" \in flags -> "FIN_WAIT_2"
    [] state = "FIN_WAIT_1" /\ "ACK" \notin flags /\ "FIN" \in flags -> "CLOSING"
    [] state = "FIN_WAIT_2" /\ "FIN" \in flags -> "TIME_WAIT"
    [] state = "CLOSING" /\ "ACK" \in flags -> "TIME_WAIT"
    [] state \in {"CLOSE_WAIT", "LAST_ACK"} /\ "ACK" \in flags -> "CLOSED"
    [] OTHER -> state

Respond(c, seg, recorded) ==
  CASE c.state = "ESTABLISHED" -> Established(c, seg, recorded)
    [] c.state = "SYN_SENT"    -> SynSent(c, seg, recorded)
    [] OTHER                   -> [c EXCEPT !.state = Moved(@, seg.flags)]

\* Every segment sets the window, however old it is.
tcp_handle_packet(s, peer, seg, window, recorded) ==
  LET c == [sock[s] EXCEPT !.remote = IF @ = 0 THEN peer ELSE @]
      takes == c.state = "ESTABLISHED" /\ seg.flags = {"PSH", "ACK"} /\ IsNext(c, seg)
               /\ HasRoom(buf[c.owner].recv, Len(seg.bytes))
  IN
  /\ sock[s].state # "LISTEN" \/ "SYN" \notin seg.flags
  /\ sock' = [sock EXCEPT ![s] = [Respond(c, seg, recorded) EXCEPT
                                    !.window = window,
                                    !.offered = IF window > @ THEN window ELSE @]]
  /\ buf' = IF takes THEN [buf EXCEPT ![c.owner].recv = tcp_buffer_enqueue(@, seg.bytes)] ELSE buf
  /\ UNCHANGED <<tcp_sockets, next_local_port, made, held, live, accepted,
                 dropped, misread, broken>>

\* Mutant: the place is counted from the first slot.
FreeSlot_first(c) == c.count % QueueMax

FreeSlot(c) == (c.head + c.count) % QueueMax

\* TCP_LISTEN. The new socket is a byte copy of the listening one. It is not put
\* into tcp_sockets, so no segment ever reaches it; and if the queue is full,
\* nobody has it. ok: there is memory for it.
handle_SYN(s, peer, window, ok, recorded) ==
  LET c     == [sock[s] EXCEPT !.remote = IF @ = 0 THEN peer ELSE @]
      t     == made + 1
      after == [tcp_enqueue_segment(c, ListenISN, 0, recorded) EXCEPT
                  !.recv_seq = Plus(PeerISN, 1), !.send_seq = Plus(ListenISN, 1)]
      copy  == [after EXCEPT !.state = "SYN_RECEIVED", !.remote = peer]
      full  == c.count >= QueueMax
  IN
  /\ sock[s].state = "LISTEN"
  /\ IF ok
       THEN /\ made < MaxSocks /\ made' = t
            /\ live' = live \cup {<<t, "sock">>}
            /\ sock' = [sock EXCEPT ![t] = copy,
                          ![s] = IF full THEN [after EXCEPT !.window = window]
                                 ELSE [after EXCEPT !.window = window, !.count = @ + 1,
                                                    !.queue[FreeSlot(c)] = t]]
            /\ dropped' = (dropped \/ full)
       ELSE /\ sock' = [sock EXCEPT ![s] = [after EXCEPT !.window = window]]
            /\ UNCHANGED <<made, live, dropped>>
  /\ UNCHANGED <<tcp_sockets, buf, next_local_port, held, accepted, misread, broken>>

Next ==
  /\ ~ broken
  /\ \/ \E failed \in SUBSET Blocks(made + 1), isn \in ISN : tcp_socket(failed, isn)
     \/ \E s \in held :
          \/ \E port \in Port : tcp_bind(s, port)
          \/ tcp_listen(s)
          \/ tcp_accept(s)
          \/ \E peer \in Peer, ok, recorded \in BOOLEAN : tcp_connect(s, peer, ok, recorded)
          \/ \E len \in SendLens, n \in 0 .. MaxOut, recorded \in BOOLEAN :
               tcp_send(s, len, n, recorded)
          \/ \E len \in Lens : tcp_recv(s, len)
          \/ tcp_close(s)
     \/ \E port \in 0 .. PortSpace - 1, peer \in Peer, window \in Window, recorded \in BOOLEAN :
          /\ Matching(port, peer) # {}
          /\ LET s == tcp_sockets[Min(Matching(port, peer))]
             IN  \/ \E seg \in Segments(sock[s]) : tcp_handle_packet(s, peer, seg, window, recorded)
                 \/ \E ok \in BOOLEAN : handle_SYN(s, peer, window, ok, recorded)

Spec == Init /\ [][Next]_vars

-----------------------------------------------------------------------------
(***************************************************************************)
(* Properties                                                              *)
(***************************************************************************)

\* However calls fail half way and sockets are closed, up to the first close of
\* a socket whose buffers another one has: what programs, the list and the
\* accept queues refer to is allocated, and nothing else is, unless a
\* connection found its queue full.
MemoryExact ==
  ~ broken =>
    LET needed == UNION {Parts(s) : s \in Reachable}
    IN  needed \subseteq live /\ (live = needed \/ dropped)

\* A socket hands out no connection twice, nothing but connections made from it
\* or from the one it was made from, and all in the order in which they were
\* made, also around the end of the queue. (A connection accepted while others
\* waited has a copy of the queue: tcp_accept on it hands those out again.)
AcceptedInOrder ==
  \A j \in DOMAIN accepted :
    LET a == accepted[j] IN
    /\ a.got # 0 /\ sock[a.got].owner = sock[a.by].owner
    /\ \A i \in 1 .. j - 1 : accepted[i].by = a.by => accepted[i].got < a.got

\* tcp_recv gives the peer's bytes in their order, none twice and none left
\* out, whatever order segments come in; those of an earlier connection of the
\* socket come first. And it gives or takes bytes only after the peer's SYN.
ReceivedInOrder ==
  /\ ~ misread
  /\ \A s \in Listed : sock[s].state \in {"ESTABLISHED", "LAST_ACK"} => sock[s].heard

UnackedKept(c) ==
  c.state = "ESTABLISHED" /\ c.whole /\ c.isn + 1 + c.sent < SeqSpace =>
    \A k \in c.acked + 1 .. c.sent : \E seg \in c.outstanding :
      c.isn + k \in seg.seq .. seg.seq + seg.len - 1

\* What was sent and not acknowledged is in the table of outstanding segments,
\* if there was memory for its entries, as long as the numbers have not wrapped
\* around. (After that a segment can be dropped as acknowledged that is not.)
\* And no byte is sent beyond the largest window announced, counted from the
\* highest acknowledgment, but for the rest of a chunk.
SentAccounted ==
  \A s \in Listed :
    UnackedKept(sock[s]) /\ sock[s].sent <= sock[s].acked + sock[s].offered + Mss - 1

=============================================================================
