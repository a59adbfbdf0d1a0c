-------------------------------- MODULE Udp ---------------------------------
(***************************************************************************)
(* The UDP sockets of net/udp.c, with the memory they take from mm.c.      *)
(*                                                                         *)
(* Packets come from an interrupt (network_poll, the card's handler) and   *)
(* the socket calls run with interrupts off, so a call is one step. The    *)
(* exception is a blocking udp_recvfrom that finds nothing: it calls       *)
(* schedule(), and the schedule() of kernel.c ends in switch_to_process,   *)
(* whose popfq turns interrupts on. init is alone in the ring of processes *)
(* (module Sched), so schedule() comes back at once. What is left of the   *)
(* call can be interrupted if kernel.c's version is the one linked.        *)
(***************************************************************************)
EXTENDS Mm, Sequences, SequencesExt

CONSTANTS
  UdpPort,       \* bound: port numbers; 0 is UDP_PORT_ANY
  DataLens,      \* bound: lengths of the datagrams that arrive
  BufferLens,    \* bound: lengths of the buffers given to udp_recvfrom
  SendPages,     \* bound: pages a packet to be sent takes
  MaxSockets,    \* bound: sockets open at a time
  MaxCount       \* bound: recv_count of a socket

ASSUME UdpAssumption ==
  /\ UdpPort \subseteq Nat /\ DataLens \subseteq Nat /\ BufferLens \subseteq Nat
  /\ SendPages \subseteq Nat \ {0}

VARIABLES
  linked,             \* "kernel.c" or "sched.c": which schedule() is linked
  page_bitmap,
  udp_sockets_list,   \* the open sockets, in order; a socket is its page
  udp_sock,           \* the structures, by page
  pc,                 \* where a call that waited is: "none", "woken", "locked"
  waiter,             \* its socket and its buffer's length
  hung,               \* a handler spins on a lock that is never released
  big,                \* history: a packet of more than a page was sent
  udp_broken          \* a packet was taken from an empty queue

udpVars == <<linked, page_bitmap, udp_sockets_list, udp_sock, pc, waiter, hung, big,
             udp_broken>>

\* local_port, bound, connected, recv_buf, packet_queue and recv_count of a new
\* socket.
NewUdpSocket(buf) ==
  [port |-> 0, bound |-> FALSE, connected |-> FALSE, buf |-> buf, queue |-> <<>>,
   recv_count |-> 0]

UdpInit ==
  /\ linked \in {"kernel.c", "sched.c"}
  /\ page_bitmap = mm_init
  /\ udp_sockets_list = <<>>
  /\ udp_sock = [p \in Pages |-> NewUdpSocket(NULL)]
  /\ pc = "none" /\ waiter = [s |-> NULL, len |-> 0]
  /\ hung = FALSE /\ big = FALSE /\ udp_broken = FALSE

Open == Range(udp_sockets_list)

\* The machine goes on, and no call is waiting to be finished.
Calls == ~ hung /\ ~ udp_broken /\ pc = "none"

Control == <<linked, pc, waiter, hung, udp_broken>>

-----------------------------------------------------------------------------
udp_socket ==
  LET r1 == kmalloc(page_bitmap, 1)
      r2 == kmalloc(r1.bitmap, 1)
  IN
  /\ Calls
  /\ IF r1.page = NULL THEN UNCHANGED <<page_bitmap, udp_sockets_list, udp_sock>>
     ELSE IF r2.page = NULL
       THEN /\ page_bitmap' = kfree(r2.bitmap, r1.page)
            /\ UNCHANGED <<udp_sockets_list, udp_sock>>
     ELSE /\ Len(udp_sockets_list) < MaxSockets
          /\ page_bitmap' = r2.bitmap
          /\ udp_sockets_list' = Append(udp_sockets_list, r1.page)
          /\ udp_sock' = [udp_sock EXCEPT ![r1.page] = NewUdpSocket(r2.page)]
  /\ UNCHANGED <<big, Control>>

\* udp_get_socket_by_port and udp_is_port_free: the places of the list where a
\* socket is bound to the port.
BoundTo(port) ==
  {i \in DOMAIN udp_sockets_list : LET s == udp_sockets_list[i]
                                   IN  udp_sock[s].bound /\ udp_sock[s].port = port}

\* Mutant: the test whether the port is taken is missing.
MayBind_any(s, port) == ~ udp_sock[s].bound

MayBind(s, port) == ~ udp_sock[s].bound /\ (port # 0 => BoundTo(port) = {})

udp_bind(s, port) ==
  /\ Calls
  /\ MayBind(s, port)
  /\ udp_sock' = [udp_sock EXCEPT ![s].port = port, ![s].bound = TRUE]
  /\ UNCHANGED <<page_bitmap, udp_sockets_list, big, Control>>

\* The remote address itself plays no part in what is modelled here.
udp_connect(s) ==
  /\ Calls
  /\ udp_sock' = [udp_sock EXCEPT ![s].connected = TRUE]
  /\ UNCHANGED <<page_bitmap, udp_sockets_list, big, Control>>

\* A packet is built in a block of its own, handed to ip_send and freed.
udp_sendto(s, pages, addressed) ==
  LET r == kmalloc(page_bitmap, pages) IN
  /\ Calls
  /\ udp_sock[s].bound
  /\ addressed \/ udp_sock[s].connected
  /\ page_bitmap' = IF r.page = NULL THEN r.bitmap ELSE kfree(r.bitmap, r.page)
  /\ big' = (big \/ pages > 1)
  /\ UNCHANGED <<udp_sockets_list, udp_sock, Control>>

QueuedPages(s) == {udp_sock[s].queue[i].page : i \in DOMAIN udp_sock[s].queue}

\* Mutant: the packets still queued are not freed.
FreedByClose_keeps_packets(s) == {s, udp_sock[s].buf}

FreedByClose(s) == {s, udp_sock[s].buf} \cup QueuedPages(s)

udp_close(s) ==
  /\ Calls
  /\ \E i \in DOMAIN udp_sockets_list :
       udp_sockets_list[i] = s /\ udp_sockets_list' = RemoveAt(udp_sockets_list, i)
  /\ page_bitmap' = page_bitmap \ {p \in FreedByClose(s) : p >= ReservedPages}
  /\ udp_sock' = [udp_sock EXCEPT ![s] = NewUdpSocket(NULL)]      \* never looked at again
  /\ UNCHANGED <<big, Control>>

(***************************************************************************)
(* udp_recvfrom, from the lock on: nothing there, or the first packet is   *)
(* taken, as much of it copied as fits, and freed. recv_count goes down by *)
(* what was copied. When the count says there is data and the queue is     *)
(* empty the list head is taken for a packet: anything may follow.         *)
(***************************************************************************)
\* Mutant: the count goes down by the buffer's length.
CountAfter_buffer(count, len, copied) == count - len

CountAfter(count, len, copied) == count - copied

Take(s, len) ==
  LET queue  == udp_sock[s].queue
      copied == IF len < Head(queue).len THEN len ELSE Head(queue).len
  IN
  IF udp_sock[s].recv_count = 0
    THEN UNCHANGED <<page_bitmap, udp_sock, udp_broken>>
  ELSE IF queue = <<>>
    THEN udp_broken' = TRUE /\ UNCHANGED <<page_bitmap, udp_sock>>
  ELSE /\ udp_sock' = [udp_sock EXCEPT ![s].queue = Tail(@),
                               ![s].recv_count = CountAfter(@, len, copied)]
       /\ page_bitmap' = kfree(page_bitmap, Head(queue).page)
       /\ UNCHANGED udp_broken

\* With MSG_DONTWAIT, or with data there, the call is not interrupted.
udp_recvfrom(s, len, dontwait) ==
  /\ Calls
  /\ dontwait \/ udp_sock[s].recv_count > 0
  /\ Take(s, len)
  /\ UNCHANGED <<linked, udp_sockets_list, pc, waiter, hung, big>>

\* Mutant: the call can be interrupted whichever schedule() is linked.
udp_recvfrom_wait_enabled(s, len) ==
  /\ Calls
  /\ udp_sock[s].recv_count = 0
  /\ pc' = "woken" /\ waiter' = [s |-> s, len |-> len]
  /\ UNCHANGED <<linked, page_bitmap, udp_sockets_list, udp_sock, hung, big, udp_broken>>

\* wait_event_interruptible evaluates the condition once, gives the processor
\* away and returns when schedule() does.
udp_recvfrom_wait(s, len) ==
  /\ Calls
  /\ udp_sock[s].recv_count = 0
  /\ IF linked = "kernel.c"
       THEN /\ pc' = "woken" /\ waiter' = [s |-> s, len |-> len]
            /\ UNCHANGED <<page_bitmap, udp_sock, udp_broken>>
       ELSE Take(s, len) /\ UNCHANGED <<pc, waiter>>
  /\ UNCHANGED <<linked, udp_sockets_list, hung, big>>

udp_recvfrom_lock ==
  /\ ~ hung /\ pc = "woken"
  /\ pc' = "locked"
  /\ UNCHANGED <<linked, page_bitmap, udp_sockets_list, udp_sock, waiter, hung, big, udp_broken>>

udp_recvfrom_take ==
  /\ ~ hung /\ pc = "locked"
  /\ Take(waiter.s, waiter.len)
  /\ pc' = "none" /\ waiter' = [s |-> NULL, len |-> 0]
  /\ UNCHANGED <<linked, udp_sockets_list, hung, big>>

(***************************************************************************)
(* udp_handle_packet, for a datagram that passed the tests of length and   *)
(* checksum. Nobody gives up the processor while a handler spins.          *)
(***************************************************************************)
udp_handle_packet(port, len) ==
  LET found == BoundTo(port)
      s     == udp_sockets_list[Min(found)]
      r     == kmalloc(page_bitmap, 1)
  IN
  /\ ~ hung /\ ~ udp_broken
  /\ found # {} /\ r.page # NULL
  /\ udp_sock[s].recv_count + len <= MaxCount
  /\ IF pc = "locked" /\ waiter.s = s
       THEN hung' = TRUE /\ page_bitmap' = r.bitmap /\ UNCHANGED udp_sock
       ELSE /\ page_bitmap' = r.bitmap
            /\ udp_sock' = [udp_sock EXCEPT ![s].queue = Append(@, [page |-> r.page, len |-> len]),
                                    ![s].recv_count = @ + len]
            /\ UNCHANGED hung
  /\ UNCHANGED <<linked, udp_sockets_list, pc, waiter, big, udp_broken>>

UdpNext ==
  \/ udp_socket
  \/ \E s \in Open, port \in UdpPort : udp_bind(s, port)
  \/ \E s \in Open : udp_connect(s)
  \/ \E s \in Open, n \in SendPages, addressed \in BOOLEAN : udp_sendto(s, n, addressed)
  \/ \E s \in Open : udp_close(s)
  \/ \E s \in Open, len \in BufferLens, dontwait \in BOOLEAN : udp_recvfrom(s, len, dontwait)
  \/ \E s \in Open, len \in BufferLens : udp_recvfrom_wait(s, len)
  \/ udp_recvfrom_lock
  \/ udp_recvfrom_take
  \/ \E port \in UdpPort, len \in DataLens : udp_handle_packet(port, len)

UdpSpec == UdpInit /\ [][UdpNext]_udpVars

-----------------------------------------------------------------------------
(***************************************************************************)
(* Properties                                                              *)
(***************************************************************************)

\* The bytes of the packets in a queue.
Bytes(queue) ==
  LET sum[n \in 0 .. Len(queue)] == IF n = 0 THEN 0 ELSE sum[n - 1] + queue[n].len
  IN  sum[Len(queue)]

Owned(s) == {s, udp_sock[s].buf} \cup QueuedPages(s)

\* The structure, the buffer and the packets of a socket are in different pages.
Separate(s) ==
  LET queue == udp_sock[s].queue IN
  /\ udp_sock[s].buf # s
  /\ {s, udp_sock[s].buf} \cap QueuedPages(s) = {}
  /\ \A i, j \in DOMAIN queue : queue[i].page = queue[j].page => i = j

\* Every page a socket, a receive buffer or a queued packet occupies belongs
\* to just one of them and is marked used, and no other page is: nothing leaks
\* when a call fails, a packet finds no memory, or a socket is closed with
\* packets in its queue. (The packet of a handler that hangs is lost with it.
\* Of a packet to be sent that is longer than a page kfree returns only the
\* first page, and a kmalloc that fails may have freed pages of others.)
UdpMemoryExact ==
  ~ hung /\ ~ big =>
    /\ page_bitmap = Reserved \cup UNION {Owned(s) : s \in Open}
    /\ \A s \in Open : Separate(s)
    /\ \A s, t \in Open : s # t => Owned(s) \cap Owned(t) = {}

\* An arriving datagram has one receiver: no two sockets are bound to the same
\* port, unless it is port 0.
OneSocketPerPort ==
  \A s, t \in Open : s # t /\ udp_sock[s].bound /\ udp_sock[t].bound /\ udp_sock[s].port = udp_sock[t].port
                     => udp_sock[s].port = 0

\* recv_count is never less than the bytes queued, however short the buffers
\* were into which datagrams were read: a datagram with data in it is never
\* answered by "would block".
CountCoversQueue == \A s \in Open : udp_sock[s].recv_count >= Bytes(udp_sock[s].queue)

\* A packet can make the machine spin for ever on the lock of the socket it is
\* for in one case only: the code it interrupted is a blocking receive that
\* holds that lock after its wait, in an image with the schedule() of kernel.c.
\* Every other call holds its locks with interrupts off.
HangNeedsWait ==
  hung => linked = "kernel.c" /\ pc = "locked" /\ waiter.s \in Open

=============================================================================
