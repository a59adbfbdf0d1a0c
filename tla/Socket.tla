------------------------------- MODULE Socket -------------------------------
(***************************************************************************)
(* The socket layer: net/socket.c, and net/socket_integration.c, which     *)
(* hands it the segments that arrive. (The layer does not use tcp.c; see   *)
(* module Tcp for that one.)                                               *)
(*                                                                         *)
(* A socket is the page of its structure. A peer stands for a remote       *)
(* address and port; 0 is "any". Calls name a socket by its descriptor,    *)
(* which is unique among the sockets in the list. The fields state and     *)
(* closed are written and never read: they are left out, and with them     *)
(* shutdown, which writes nothing else.                                    *)
(***************************************************************************)
EXTENDS Mm, Sequences, SequencesExt

CONSTANTS
  Peer,          \* remote ends, none of them 0
  FirstDynamic,  \* 1024: where the counters of dynamic ports begin
  PortSpace,     \* 2^16: port numbers wrap here
  PageBytes,     \* bytes of a page, 4096: a larger buffer takes two pages
  BufSize,       \* 4096: bytes of a new socket's buffers
  QueueMax,      \* 32: connections waiting to be accepted
  Types,         \* bound: kinds of socket made, of TCP, UDP and RAW
  Port,          \* bound: ports given to bind; 0 asks for a dynamic one
  Lens,          \* bound: bytes of a send, a receive, a segment
  OptSizes,      \* bound: sizes given to setsockopt
  MaxFd,         \* bound: descriptors ever handed out
  MaxResizes     \* bound: calls of setsockopt that replace a buffer

ASSUME SocketAssumption ==
  /\ Types \subseteq {"TCP", "UDP", "RAW"}
  /\ 0 \notin Peer /\ Lens \subseteq Nat \ {0} /\ OptSizes \subseteq Nat
  /\ BufSize \in Nat \ {0} /\ BufSize <= PageBytes /\ QueueMax \in Nat \ {0}
  /\ PortSpace \in Nat \ {0} /\ FirstDynamic \in 1 .. PortSpace - 1

VARIABLES
  page_bitmap,
  socket_list,     \* the sockets, newest first
  sock,            \* the structures, by page
  next_socket_fd,  \* how many descriptors have been handed out
  bind_port,       \* dynamic_port of bind
  connect_port,    \* dynamic_port of connect, another variable of that name
  accepted,        \* history: what accept returned, in order
  big,             \* history: a buffer of more than a page was asked for
  resizes,         \* history: how often a buffer was replaced
  misread,         \* history: recv gave bytes other than the next ones
  broken           \* "no"; "freed": a buffer or a connection still referred to
                   \* was freed; "ring": recv divided by zero or copied from
                   \* outside the buffer

vars == <<page_bitmap, socket_list, sock, next_socket_fd, bind_port,
          connect_port, accepted, big, resizes, misread, broken>>

history  == <<accepted, big, resizes, misread, broken>>
counters == <<next_socket_fd, bind_port, connect_port>>

\* The receive buffer holds rused bytes from rpos on, around its end. replaced:
\* it was replaced by another while it was not in its first state.
NewSocket(fd, type, sbuf, rbuf, size) ==
  [fd |-> fd, type |-> type, port |-> 0, remote |-> 0,
   sbuf |-> sbuf, rbuf |-> rbuf, ssize |-> size, rsize |-> size, sused |-> 0,
   rpos |-> 0, rused |-> 0, replaced |-> FALSE, queue |-> <<>>, connected |-> FALSE, listening |-> FALSE,
   bound |-> FALSE]

Nothing == NewSocket(0, "none", NULL, NULL, 0)

Init ==
  /\ page_bitmap = mm_init
  /\ socket_list = <<>>
  /\ sock = [p \in Pages |-> Nothing]
  /\ next_socket_fd = 0
  /\ bind_port = FirstDynamic /\ connect_port = FirstDynamic
  /\ accepted = <<>> /\ big = FALSE /\ resizes = 0
  /\ misread = FALSE /\ broken = "no"

Open == Range(socket_list)

TCP(s) == sock[s].type = "TCP"

\* A buffer is known by its first page; kmalloc marks the others, wherever they
\* are, and kfree never returns them.
PagesOf(size) == IF size <= PageBytes THEN 1 ELSE 2

-----------------------------------------------------------------------------
\* Mutant: of the buffers of a socket that cannot be made, one is kept.
Rollback_one(bitmap, r2, r3, struct) == kfree(kfree(bitmap, r3), struct)

Rollback(bitmap, r2, r3, struct) == kfree(kfree(kfree(bitmap, r2), r3), struct)

\* The descriptor is used up even if the buffers cannot be had.
socket(type) ==
  LET r1  == kmalloc(page_bitmap, 1)
      r2  == kmalloc(r1.bitmap, 1)
      r3  == kmalloc(r2.bitmap, 1)
      fd  == next_socket_fd
      add(b, s) == /\ page_bitmap' = b
                   /\ sock' = [sock EXCEPT ![r1.page] = s]
                   /\ socket_list' = <<r1.page>> \o socket_list
  IN
  /\ next_socket_fd < MaxFd
  /\ r1.page # NULL
  /\ next_socket_fd' = next_socket_fd + 1
  /\ IF type # "TCP" THEN add(r1.bitmap, NewSocket(fd, type, NULL, NULL, 0))
     ELSE IF r2.page # NULL /\ r3.page # NULL
       THEN add(r3.bitmap, NewSocket(fd, type, r2.page, r3.page, BufSize))
     ELSE /\ page_bitmap' = Rollback(r3.bitmap, r2.page, r3.page, r1.page)
          /\ UNCHANGED <<sock, socket_list>>
  /\ UNCHANGED <<bind_port, connect_port, history>>

MayBind(s) == ~ sock[s].bound

\* Nobody looks whether another socket has the port.
bind(s, port) ==
  /\ MayBind(s)
  /\ sock' = [sock EXCEPT ![s].port = IF port = 0 THEN bind_port ELSE port,
                          ![s].bound = TRUE]
  /\ bind_port' = IF port = 0 THEN (bind_port + 1) % PortSpace ELSE bind_port
  /\ UNCHANGED <<page_bitmap, socket_list, next_socket_fd, connect_port, history>>

\* The handshake is simulated. A raw socket is left as it is but for the
\* addresses.
connect(s, peer) ==
  LET c      == sock[s]
      linked == c.type # "RAW"
  IN
  /\ ~ c.connected
  /\ sock' = [sock EXCEPT ![s].remote = peer,
                          ![s].port = IF c.bound THEN @ ELSE connect_port,
                          ![s].bound = TRUE,
                          ![s].connected = linked]
  /\ connect_port' = IF c.bound THEN connect_port ELSE (connect_port + 1) % PortSpace
  /\ UNCHANGED <<page_bitmap, socket_list, next_socket_fd, bind_port, history>>

MayListen(s) == TCP(s) /\ sock[s].bound

\* A second call empties the queue: what waited in it is never accepted.
listen(s) ==
  /\ MayListen(s)
  /\ sock' = [sock EXCEPT ![s].listening = TRUE, ![s].queue = <<>>]
  /\ UNCHANGED <<page_bitmap, socket_list, counters, history>>

\* Mutant: the front of the queue does not move.
AfterAccept_stay(queue) == queue

AfterAccept(queue) == Tail(queue)

accept(s) ==
  /\ TCP(s) /\ sock[s].listening /\ sock[s].queue # <<>>
  /\ accepted' = Append(accepted, sock[Head(sock[s].queue)].fd)
  /\ sock' = [sock EXCEPT ![s].queue = AfterAccept(@)]
  /\ UNCHANGED <<page_bitmap, socket_list, counters, big, resizes, misread, broken>>

\* Nothing in the tree takes bytes out of the send buffer. (A datagram is only
\* printed.)
send(s, len) ==
  /\ TCP(s) /\ sock[s].connected
  /\ sock[s].sused + len <= sock[s].ssize
  /\ sock' = [sock EXCEPT ![s].sused = @ + len]
  /\ UNCHANGED <<page_bitmap, socket_list, counters, accepted, big, resizes, misread, broken>>

\* A TCP socket that is given no address.
sendto(s, len) == send(s, len)

(***************************************************************************)
(* recv, and recvfrom: the bytes from rpos on, the rest from the buffer's  *)
(* beginning.                                                              *)
(***************************************************************************)
\* The places of the buffer that n bytes are copied from.
Copied(c, n) ==
  [j \in 1 .. n |-> IF c.rpos + j <= c.rsize THEN c.rpos + j - 1 ELSE c.rpos + j - 1 - c.rsize]

\* The places where the oldest n bytes are.
Oldest(c, n) == [j \in 1 .. n |-> (c.rpos + j - 1) % c.rsize]

\* Mutant: the position is not brought back to the buffer's beginning.
NextPos_plain(c, n) == c.rpos + n

NextPos(c, n) == (c.rpos + n) % c.rsize

recv(s, len) ==
  LET c     == sock[s]
      n     == IF len < c.rused THEN len ELSE c.rused
      sound == c.rpos <= c.rsize /\ n <= c.rsize /\ c.rsize > 0
  IN
  /\ TCP(s) /\ c.connected /\ c.rused > 0
  /\ IF sound
       THEN /\ sock' = [sock EXCEPT ![s].rpos = NextPos(c, n),
                                    ![s].rused = c.rused - n]
            /\ misread' = (misread \/ (~ c.replaced /\ Copied(c, n) # Oldest(c, n)))
            /\ UNCHANGED broken
       ELSE broken' = "ring" /\ UNCHANGED <<sock, misread>>
  /\ UNCHANGED <<page_bitmap, socket_list, counters, accepted, big, resizes>>

\* On a datagram socket recvfrom answers 0 bytes from nobody, always.
recvfrom(s, len) == recv(s, len)

Waits(s) == \E t \in Open : sock[t].listening /\ s \in Range(sock[t].queue)

Shares(s, buf) == buf # NULL /\ \E t \in Open \ {s} : buf \in {sock[t].sbuf, sock[t].rbuf}

FreedByClose(s) == {s, sock[s].sbuf, sock[s].rbuf}

closesocket(s) ==
  /\ \E i \in DOMAIN socket_list :
       socket_list[i] = s /\ socket_list' = RemoveAt(socket_list, i)
  /\ page_bitmap' = page_bitmap \ {p \in FreedByClose(s) : p >= ReservedPages}
  /\ sock' = [sock EXCEPT ![s] = Nothing]              \* never looked at again
  /\ broken' = IF Shares(s, sock[s].sbuf) \/ Shares(s, sock[s].rbuf) \/ Waits(s)
               THEN "freed" ELSE "no"
  /\ UNCHANGED <<counters, accepted, big, resizes, misread>>

\* The new buffer of setsockopt: the old one is freed first; without memory,
\* or of size 0, there is none.
Replace(buf, size) ==
  LET freed == kfree(page_bitmap, buf)
      r     == IF size = 0 THEN [page |-> NULL, bitmap |-> freed]
               ELSE kmalloc(freed, PagesOf(size))
  IN  [page |-> r.page, bitmap |-> r.bitmap, size |-> IF r.page = NULL THEN 0 ELSE size]

setsockopt_SNDBUF(s, size) ==
  LET r == Replace(sock[s].sbuf, size) IN
  /\ sock[s].sbuf # NULL /\ resizes < MaxResizes
  /\ resizes' = resizes + 1
  /\ page_bitmap' = r.bitmap
  /\ sock' = [sock EXCEPT ![s].sbuf = r.page, ![s].ssize = r.size]
  /\ broken' = IF Shares(s, sock[s].sbuf) THEN "freed" ELSE "no"
  /\ big' = (big \/ PagesOf(size) > 1)
  /\ UNCHANGED <<socket_list, counters, accepted, misread>>

\* Position and fill stay as they were; the bytes are gone.
setsockopt_RCVBUF(s, size) ==
  LET r == Replace(sock[s].rbuf, size) IN
  /\ sock[s].rbuf # NULL /\ resizes < MaxResizes
  /\ resizes' = resizes + 1
  /\ page_bitmap' = r.bitmap
  /\ sock' = [sock EXCEPT ![s].rbuf = r.page, ![s].rsize = r.size,
                          ![s].replaced = @ \/ sock[s].rused > 0 \/ sock[s].rpos > 0]
  /\ broken' = IF Shares(s, sock[s].rbuf) THEN "freed" ELSE "no"
  /\ big' = (big \/ PagesOf(size) > 1)
  /\ UNCHANGED <<socket_list, counters, accepted, misread>>

-----------------------------------------------------------------------------
(***************************************************************************)
(* socket_tcp_handle_packet. The first socket of the list that has the     *)
(* port and whose remote end is the sender, or none.                       *)
(***************************************************************************)
First(places) == socket_list[Min(places)]

Matching(port, peer) ==
  {i \in DOMAIN socket_list : LET s == socket_list[i]
                              IN  TCP(s) /\ sock[s].port = port /\ sock[s].remote \in {0, peer}}

Listeners(port) ==
  {i \in DOMAIN socket_list : LET s == socket_list[i]
                              IN  TCP(s) /\ sock[s].listening /\ sock[s].port = port}

\* A SYN that no socket matches: the new socket is a copy of the listening one.
handle_SYN(port, peer) ==
  LET r     == kmalloc(page_bitmap, 1)
      l     == First(Listeners(port))
      child == [sock[l] EXCEPT !.fd = next_socket_fd, !.remote = peer,
                               !.connected = TRUE, !.listening = FALSE]
  IN
  /\ Matching(port, peer) = {} /\ Listeners(port) # {}
  /\ r.page # NULL /\ next_socket_fd < MaxFd
  /\ next_socket_fd' = next_socket_fd + 1
  /\ IF Len(sock[l].queue) < QueueMax
       THEN /\ page_bitmap' = r.bitmap
            /\ sock' = [sock EXCEPT ![r.page] = child, ![l].queue = Append(@, r.page)]
            /\ socket_list' = <<r.page>> \o socket_list
       ELSE UNCHANGED <<page_bitmap, sock, socket_list>>
  /\ UNCHANGED <<bind_port, connect_port, history>>

\* socket_tcp_connection_closed is not in the tree; FIN does the same.
handle_FIN(port, peer) ==
  /\ Matching(port, peer) # {}
  /\ LET s == First(Matching(port, peer))
     IN  sock' = [sock EXCEPT ![s].connected = FALSE]
  /\ UNCHANGED <<page_bitmap, socket_list, counters, history>>

\* socket_tcp_data_received is not in the tree: bytes for which there is room
\* follow the ones there are.
socket_tcp_data_received(c, len) == [c EXCEPT !.rused = @ + len]

handle_data(port, peer, len) ==
  LET s == First(Matching(port, peer)) IN
  /\ Matching(port, peer) # {}
  /\ sock[s].connected
  /\ sock[s].rused + len <= sock[s].rsize
  /\ sock' = [sock EXCEPT ![s] = socket_tcp_data_received(@, len)]
  /\ UNCHANGED <<page_bitmap, socket_list, counters, accepted, big, resizes, misread, broken>>

Next ==
  /\ broken = "no"
  /\ \/ \E type \in Types : socket(type)
     \/ \E s \in Open :
          \/ \E port \in Port : bind(s, port)
          \/ \E peer \in Peer : connect(s, peer)
          \/ listen(s)
          \/ accept(s)
          \/ \E len \in Lens : send(s, len) \/ sendto(s, len)
          \/ \E len \in Lens : recv(s, len) \/ recvfrom(s, len)
          \/ closesocket(s)
          \/ \E size \in OptSizes : setsockopt_SNDBUF(s, size)
          \/ \E size \in OptSizes : setsockopt_RCVBUF(s, size)
     \/ \E port \in 1 .. PortSpace - 1, peer \in Peer :
          \/ handle_SYN(port, peer)
          \/ handle_FIN(port, peer)
          \/ \E len \in Lens : handle_data(port, peer, len)

Spec == Init /\ [][Next]_vars

-----------------------------------------------------------------------------
(***************************************************************************)
(* Properties                                                              *)
(***************************************************************************)

Buffers(s) == {sock[s].sbuf, sock[s].rbuf} \ {NULL}
InUse      == Open \cup UNION {Buffers(s) : s \in Open}

SharedOnlyByCopies ==
  broken = "no" =>
    /\ Open \cap UNION {Buffers(s) : s \in Open} = {}
    /\ \A s \in Open : sock[s].sbuf = sock[s].rbuf => sock[s].sbuf = NULL
    /\ \A s, t \in Open : s # t /\ Buffers(s) \cap Buffers(t) # {} =>
         sock[s].port = sock[t].port /\ sock[s].bound /\ sock[t].bound

\* Whatever calls fail half way, and however sockets are made, copied, resized
\* and closed, up to the first free of something still referred to: the structure
\* and the buffers of every socket are marked used, and as long as no buffer of
\* more than a page was asked for, nothing else but the kernel is. No buffer is
\* a structure, the two buffers of a socket are two, and two sockets share
\* buffers only if one is a connection made from the other, with its port.
MemoryExact ==
  /\ broken # "freed" =>
       /\ InUse \subseteq page_bitmap
       /\ ~ big => page_bitmap = Reserved \cup InUse
  /\ SharedOnlyByCopies

FlagsAgree ==
  broken = "no" =>
    \A s \in Open :
      LET c == sock[s] IN
      /\ c.connected => c.bound /\ c.remote # 0
      /\ c.listening => c.bound /\ TCP(s)
      /\ c.listening => \A i \in DOMAIN c.queue :
           c.queue[i] \in Open /\ sock[c.queue[i]].port = c.port

AcceptedOnce ==
  /\ \A i, j \in DOMAIN accepted : i # j => accepted[i] # accepted[j]
  /\ \A s \in Open, i \in DOMAIN accepted : accepted[i] = sock[s].fd => sock[s].remote # 0

\* The flags of a socket tell one story, in whatever order the calls and the
\* segments came: only a bound socket is connected or listens, only a TCP one
\* listens or has a queue, and what waits in a queue is an open socket of the
\* same port. No connection is handed to two callers of accept, and no socket
\* that the program made itself is handed to one.
ConnectionsAgree == FlagsAgree /\ AcceptedOnce

\* recv gives the bytes in the order in which they arrived, none twice and none
\* left out, across the end of the buffer too, as long as the buffer was not
\* replaced with bytes in it. It divides by zero, or reads outside the buffer,
\* only if setsockopt has replaced the buffer under the bytes.
RecvInOrder ==
  /\ ~ misread
  /\ broken = "ring" => \E s \in Open : sock[s].replaced
  /\ \A s \in Open : ~ sock[s].replaced => sock[s].rused <= sock[s].rsize

=============================================================================
