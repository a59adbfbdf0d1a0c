---------------------------- MODULE SocketProofs ----------------------------
(***************************************************************************)
(* Proofs about Socket, for any number of pages, sockets, ports, peers and *)
(* buffer sizes: memory, the story the flags tell, and the receive ring.   *)
(***************************************************************************)
EXTENDS Socket, MmLemmas

(***************************************************************************)
(* The inductive invariant                                                 *)
(***************************************************************************)
Ports == Port \cup 0 .. PortSpace - 1

SockRec ==
  [fd : Nat, type : {"TCP", "UDP", "RAW", "none"}, port : Ports, remote : Peer \cup {0},
   sbuf : Pages, rbuf : Pages, ssize : Nat, rsize : Nat, sused : Nat,
   rpos : Nat, rused : Nat, replaced : BOOLEAN, queue : Seq(Pages), connected : BOOLEAN,
   listening : BOOLEAN, bound : BOOLEAN]

SockType ==
  /\ page_bitmap \subseteq Pages /\ Reserved \subseteq page_bitmap
  /\ socket_list \in Seq(Pages) /\ sock \in [Pages -> SockRec]
  /\ next_socket_fd \in Nat /\ accepted \in Seq(Nat)
  /\ bind_port \in 0 .. PortSpace - 1 /\ connect_port \in 0 .. PortSpace - 1

\* No socket is in the list twice.
ListInv == Distinct(socket_list)

\* A pointer to memory of the socket layer, or none.
Block(p) == p = NULL \/ p \in page_bitmap \ Reserved

MemInv ==
  /\ \A s \in Open : s \in page_bitmap \ Reserved /\ Block(sock[s].sbuf) /\ Block(sock[s].rbuf)
  /\ ~ big => \A p \in page_bitmap \ Reserved :
                \E s \in Open : p \in {s, sock[s].sbuf, sock[s].rbuf}

\* Two structures that have a buffer in common.
Sharing(c, d) == \E p \in {c.sbuf, c.rbuf} : p # NULL /\ p \in {d.sbuf, d.rbuf}

SharedInv ==
  /\ \A s, t \in Open : t \notin {sock[s].sbuf, sock[s].rbuf}
  /\ \A s \in Open : sock[s].sbuf = sock[s].rbuf => sock[s].sbuf = NULL
  /\ \A s, t \in Open : s # t /\ Sharing(sock[s], sock[t]) =>
       sock[s].port = sock[t].port /\ sock[s].bound /\ sock[t].bound

\* Descriptors are unique and not used again, also those that accept returned.
AcceptInv ==
  /\ \A s, t \in Open : sock[s].fd = sock[t].fd => s = t
  /\ \A s \in Open : sock[s].fd < next_socket_fd
  /\ \A i \in DOMAIN accepted : accepted[i] < next_socket_fd
  /\ \A i, j \in DOMAIN accepted : i # j => accepted[i] # accepted[j]
  /\ \A s \in Open, i \in DOMAIN accepted : accepted[i] = sock[s].fd => sock[s].remote # 0

\* d waits to be accepted at c: it has its port and a peer, and was not accepted.
WaitsAt(d, c) ==
  /\ d.bound /\ d.port = c.port /\ d.remote # 0
  /\ \A i \in DOMAIN accepted : accepted[i] # d.fd

\* The sockets in a queue.
InQueue(c) == Range(c.queue)

FlagInv ==
  \A s \in Open :
    /\ sock[s].connected => sock[s].bound /\ sock[s].remote # 0
    /\ sock[s].listening => sock[s].bound /\ sock[s].type = "TCP"

\* A socket waits in one place of one queue.
QueueInv ==
  /\ \A s \in Open : sock[s].listening =>
       /\ \A t \in InQueue(sock[s]) : t \in Open /\ WaitsAt(sock[t], sock[s])
       /\ Distinct(sock[s].queue)
  /\ \A s, t \in Open : s # t /\ sock[s].listening /\ sock[t].listening =>
       InQueue(sock[s]) \cap InQueue(sock[t]) = {}

\* The receive buffer is a ring that is not overfull, unless it was replaced.
Ring(c) == ~ c.replaced => c.rused <= c.rsize /\ (c.rpos < c.rsize \/ c.rpos = 0)

RecvInv ==
  /\ \A s \in Open : Ring(sock[s])
  /\ ~ misread
  /\ broken = "ring" => \E s \in Open : sock[s].replaced

SocketInv ==
  /\ SockType /\ ListInv /\ AcceptInv /\ RecvInv
  /\ broken # "freed" => MemInv
  /\ broken = "no" => SharedInv /\ FlagInv /\ QueueInv

-----------------------------------------------------------------------------
(***************************************************************************)
(* What a step that leaves the list alone must not touch                   *)
(***************************************************************************)

SameBuffers ==
  /\ page_bitmap' = page_bitmap
  /\ big => big'
  /\ \A t \in Open : sock'[t].sbuf = sock[t].sbuf /\ sock'[t].rbuf = sock[t].rbuf

\* A socket keeps its descriptor, and once it has them its port and a peer.
SameNames ==
  \A t \in Open :
    /\ sock'[t].fd = sock[t].fd
    /\ sock[t].remote # 0 => sock'[t].remote # 0
    /\ sock[t].bound => sock'[t].bound /\ sock'[t].port = sock[t].port

SameQueues ==
  /\ accepted' = accepted
  /\ \A t \in Open : sock'[t].listening => sock[t].listening /\ sock'[t].queue = sock[t].queue

SameRings ==
  /\ misread' = misread /\ broken' = broken
  /\ \A t \in Open :
       /\ sock'[t].rpos = sock[t].rpos /\ sock'[t].rused = sock[t].rused
       /\ sock'[t].rsize = sock[t].rsize /\ (sock'[t].replaced <=> sock[t].replaced)

LEMMA SameList ==
  ASSUME socket_list' = socket_list, ListInv
  PROVE  Open' = Open /\ ListInv'
BY DEF Open, ListInv

LEMMA NothingIsSock == Nothing \in SockRec
<1>1. <<>> \in Seq(Pages) /\ NULL \in Pages /\ 0 \in Ports
  BY MmAssumption, SocketAssumption DEF NULL, Pages, Ports
<1>2. QED
  BY <1>1 DEF Nothing, NewSocket, SockRec

LEMMA SocketsArePages == SockType => Open \subseteq Pages
<1> SUFFICES ASSUME SockType PROVE Open \subseteq Pages
  OBVIOUS
<1>1. socket_list \in Seq(Pages)
  BY DEF SockType
<1>2. \A i \in DOMAIN socket_list : socket_list[i] \in Pages
  BY <1>1, ElementOfSeq, LenProperties
<1>3. QED
  BY <1>2 DEF Open, Range

LEMMA OneChanged ==
  ASSUME SockType, NEW s \in Pages, NEW d \in SockRec, sock' = [sock EXCEPT ![s] = d]
  PROVE  /\ sock' \in [Pages -> SockRec]
         /\ sock'[s] = d
         /\ \A t \in Pages : t # s => sock'[t] = sock[t]
<1>1. sock \in [Pages -> SockRec]
  BY DEF SockType
<1> HIDE DEF SockRec
<1>2. QED
  BY <1>1

LEMMA MemKept ==
  ASSUME MemInv, Open' = Open, SameBuffers
  PROVE  MemInv'
<1>1. \A t \in Open : sock'[t].sbuf = sock[t].sbuf /\ sock'[t].rbuf = sock[t].rbuf
  BY DEF SameBuffers
<1>2. page_bitmap' = page_bitmap
  BY DEF SameBuffers
<1>3. ASSUME ~ big'
      PROVE  \A p \in page_bitmap \ Reserved : \E s \in Open : p \in {s, sock[s].sbuf, sock[s].rbuf}
  BY <1>3, Zenon DEF MemInv, SameBuffers
<1>4. \A s \in Open : s \in page_bitmap \ Reserved /\ Block(sock[s].sbuf) /\ Block(sock[s].rbuf)
  BY DEF MemInv
<1>5. \A s \in Open : (s \in page_bitmap \ Reserved /\ Block(sock[s].sbuf) /\ Block(sock[s].rbuf))'
  BY <1>1, <1>2, <1>4 DEF Block
<1>6. ASSUME ~ big'
      PROVE  \A p \in page_bitmap' \ Reserved : \E s \in Open : p \in {s, sock'[s].sbuf, sock'[s].rbuf}
  BY <1>1, <1>2, <1>3, <1>6
<1>7. QED
  BY <1>5, <1>6, Zenon DEF MemInv

LEMMA SharedKept ==
  ASSUME SharedInv, Open' = Open, SameBuffers, SameNames
  PROVE  SharedInv'
<1>1. \A t \in Open : sock'[t].sbuf = sock[t].sbuf /\ sock'[t].rbuf = sock[t].rbuf
  BY DEF SameBuffers
<1>2. \A s, t \in Open : Sharing(sock'[s], sock'[t]) => Sharing(sock[s], sock[t])
  BY <1>1 DEF Sharing
<1>3. \A s, t \in Open : s # t /\ Sharing(sock'[s], sock'[t]) =>
        sock'[s].port = sock'[t].port /\ sock'[s].bound /\ sock'[t].bound
  BY <1>2 DEF SharedInv, SameNames
<1>4. QED
  BY <1>1, <1>3 DEF SharedInv

LEMMA AcceptKept ==
  ASSUME AcceptInv, Open' = Open, SameNames, accepted' = accepted,
         next_socket_fd' = next_socket_fd
  PROVE  AcceptInv'
BY DEF AcceptInv, SameNames

LEMMA QueueKept ==
  ASSUME QueueInv, FlagInv, Open' = Open, SameNames, SameQueues
  PROVE  QueueInv'
<1>1. \A s \in Open : sock'[s].listening =>
        sock[s].listening /\ InQueue(sock'[s]) = InQueue(sock[s]) /\ sock'[s].queue = sock[s].queue
  BY DEF SameQueues, InQueue
<1>2. ASSUME NEW s \in Open, NEW t \in Open, sock[s].listening, WaitsAt(sock[t], sock[s])
      PROVE  WaitsAt(sock[t], sock[s])'
  BY <1>2 DEF WaitsAt, SameNames, SameQueues, FlagInv
<1>3. QED
  BY <1>1, <1>2 DEF QueueInv

LEMMA RingsKept ==
  ASSUME RecvInv, Open' = Open, SameRings
  PROVE  RecvInv'
BY DEF RecvInv, Ring, SameRings

-----------------------------------------------------------------------------
(***************************************************************************)
(* The calls and segments that change one socket                           *)
(***************************************************************************)

\* The whole invariant, while nothing is broken.
Sound == SocketInv /\ broken = "no"

LEMMA SoundParts ==
  ASSUME Sound
  PROVE  /\ SockType /\ ListInv /\ AcceptInv /\ RecvInv
         /\ MemInv /\ SharedInv /\ FlagInv /\ QueueInv
BY DEF Sound, SocketInv

LEMMA AllButRings ==
  ASSUME Sound, SockType', FlagInv', RecvInv', socket_list' = socket_list,
         next_socket_fd' = next_socket_fd, SameBuffers, SameNames, SameQueues
  PROVE  SocketInv'
<1>1. /\ ListInv /\ AcceptInv
      /\ MemInv /\ SharedInv /\ FlagInv /\ QueueInv
  BY SoundParts
<1>2. Open' = Open /\ ListInv'
  BY <1>1, SameList
<1>3. MemInv' /\ SharedInv'
  BY <1>1, <1>2, MemKept, SharedKept
<1>4. AcceptInv'
  BY <1>1, <1>2, AcceptKept DEF SameQueues
<1>5. QueueInv'
  BY <1>1, <1>2, QueueKept
<1>6. QED
  BY <1>2, <1>3, <1>4, <1>5 DEF SocketInv

LEMMA AllKept ==
  ASSUME Sound, SockType', FlagInv', socket_list' = socket_list, next_socket_fd' = next_socket_fd,
         SameBuffers, SameNames, SameQueues, SameRings
  PROVE  SocketInv'
<1>1. RecvInv'
  BY SoundParts, SameList, RingsKept
<1>2. QED
  BY <1>1, AllButRings

LEMMA BindStep ==
  ASSUME Sound, NEW s \in Open, NEW port \in Port, bind(s, port)
  PROVE  SocketInv'
<1> DEFINE c == sock[s]
           x == IF port = 0 THEN bind_port ELSE port
           d == [c EXCEPT !.port = x, !.bound = TRUE]
<1>1. /\ SockType /\ ListInv /\ AcceptInv /\ RecvInv
      /\ MemInv /\ SharedInv /\ FlagInv /\ QueueInv
  BY SoundParts
<1>2. s \in Pages /\ Open \subseteq Pages
  BY <1>1, SocketsArePages
<1>3. c \in SockRec
  BY <1>1, <1>2 DEF SockType
<1>4. x \in Ports
  BY <1>1 DEF SockType, Ports
<1>5. d \in SockRec /\ sock' = [sock EXCEPT ![s] = d]
  <2>1. d \in SockRec
    BY <1>3, <1>4 DEF SockRec
  <2>2. sock' = [sock EXCEPT ![s] = d]
    BY <1>1, <1>2 DEF bind, SockType
  <2>3. QED
    BY <2>1, <2>2
<1>6. /\ d.fd = c.fd /\ d.sbuf = c.sbuf /\ d.rbuf = c.rbuf /\ d.remote = c.remote
      /\ d.queue = c.queue /\ (d.listening <=> c.listening) /\ (d.connected <=> c.connected)
      /\ d.rpos = c.rpos /\ d.rused = c.rused /\ d.rsize = c.rsize /\ (d.replaced <=> c.replaced)
      /\ d.type = c.type /\ d.bound
  BY <1>3 DEF SockRec
<1>7. ~ c.bound
  BY DEF bind, MayBind
<1> HIDE DEF d
<1>8. /\ sock' \in [Pages -> SockRec] /\ sock'[s] = d
      /\ \A t \in Open : t # s => sock'[t] = sock[t]
  BY <1>1, <1>2, <1>5, OneChanged
<1>9. Open' = Open
  BY <1>1, SameList DEF bind
<1>10. SameBuffers /\ SameNames /\ SameQueues /\ SameRings
  <2>1. SameBuffers
    BY <1>6, <1>7, <1>8 DEF bind, history, SameBuffers
  <2>2. SameNames
    BY <1>6, <1>7, <1>8 DEF SameNames
  <2>3. SameQueues
    BY <1>6, <1>7, <1>8 DEF bind, history, SameQueues
  <2>4. SameRings
    BY <1>6, <1>7, <1>8 DEF bind, history, SameRings
  <2>5. QED
    BY <2>1, <2>2, <2>3, <2>4
<1>11. FlagInv'
  BY <1>1, <1>6, <1>8, <1>9 DEF FlagInv
<1>12. SockType'
  <2>1. bind_port' \in 0 .. PortSpace - 1
    <3>1. bind_port \in 0 .. PortSpace - 1 /\ PortSpace \in Nat \ {0} /\ bind_port + 1 \in Nat
      BY <1>1, SocketAssumption DEF SockType
    <3>2. (bind_port + 1) % PortSpace \in 0 .. PortSpace - 1
      BY <3>1, Division
    <3>3. bind_port' = IF port = 0 THEN (bind_port + 1) % PortSpace ELSE bind_port
      BY DEF bind
    <3>4. QED
      BY <3>1, <3>2, <3>3
  <2>2. UNCHANGED <<page_bitmap, socket_list, next_socket_fd, connect_port, accepted>>
    BY DEF bind, history
  <2>3. QED
    BY <1>1, <1>8, <2>1, <2>2 DEF SockType
<1>13. QED
  BY <1>10, <1>11, <1>12, AllKept DEF bind

LEMMA ConnectStep ==
  ASSUME Sound, NEW s \in Open, NEW peer \in Peer, connect(s, peer)
  PROVE  SocketInv'
<1> DEFINE c == sock[s]
           x == IF c.bound THEN c.port ELSE connect_port
           d == [c EXCEPT !.remote = peer, !.port = x, !.bound = TRUE, !.connected = c.type # "RAW"]
<1>1. SockType /\ ListInv /\ FlagInv
  BY SoundParts
<1>2. s \in Pages /\ Open \subseteq Pages
  BY <1>1, SocketsArePages
<1>3. c \in SockRec
  BY <1>1, <1>2 DEF SockType
<1>4. x \in Ports /\ (c.bound => x = c.port) /\ peer \in Peer \cup {0} /\ peer # 0
  BY <1>1, <1>3, SocketAssumption DEF SockType, Ports, SockRec
<1>5. sock' = [sock EXCEPT ![s] = d]
  BY <1>1, <1>2 DEF connect, SockType
<1> HIDE DEF x
<1>6. d \in SockRec
  BY <1>3, <1>4 DEF SockRec
<1>7. /\ d.fd = c.fd /\ d.sbuf = c.sbuf /\ d.rbuf = c.rbuf /\ d.remote = peer /\ d.port = x
      /\ d.queue = c.queue /\ (d.listening <=> c.listening)
      /\ d.rpos = c.rpos /\ d.rused = c.rused /\ d.rsize = c.rsize /\ (d.replaced <=> c.replaced)
      /\ d.type = c.type /\ d.bound
  BY <1>3 DEF SockRec
<1> HIDE DEF d
<1>8. /\ sock' \in [Pages -> SockRec] /\ sock'[s] = d
      /\ \A t \in Open : t # s => sock'[t] = sock[t]
  BY <1>1, <1>2, <1>5, <1>6, OneChanged
<1>9. Open' = Open
  BY <1>1, SameList DEF connect
<1>10. SameBuffers /\ SameNames /\ SameQueues /\ SameRings
  <2>1. UNCHANGED <<page_bitmap, accepted, big, misread, broken>>
    BY DEF connect, history
  <2>2. QED
    BY <1>4, <1>7, <1>8, <2>1 DEF SameBuffers, SameNames, SameQueues, SameRings
<1>11. FlagInv'
  BY <1>1, <1>4, <1>7, <1>8, <1>9 DEF FlagInv
<1>12. SockType'
  <2>1. connect_port' \in 0 .. PortSpace - 1
    BY <1>1, SocketAssumption DEF connect, SockType
  <2>2. QED
    BY <1>1, <1>8, <2>1 DEF connect, history, SockType
<1>13. QED
  BY <1>10, <1>11, <1>12, AllKept DEF connect

LEMMA SendStep ==
  ASSUME Sound, NEW s \in Open, NEW len \in Lens, send(s, len)
  PROVE  SocketInv'
<1> DEFINE c == sock[s]
           d == [c EXCEPT !.sused = c.sused + len]
<1>1. SockType /\ ListInv /\ FlagInv
  BY SoundParts
<1>2. s \in Pages /\ Open \subseteq Pages
  BY <1>1, SocketsArePages
<1>3. c \in SockRec
  BY <1>1, <1>2 DEF SockType
<1>4. sock' = [sock EXCEPT ![s] = d]
  BY <1>1, <1>2 DEF send, SockType
<1>5. c.sused + len \in Nat
  BY <1>3, SocketAssumption DEF SockRec
<1>6. d \in SockRec
  BY <1>3, <1>5 DEF SockRec
<1>7. /\ d.fd = c.fd /\ d.sbuf = c.sbuf /\ d.rbuf = c.rbuf /\ d.remote = c.remote
      /\ d.port = c.port /\ (d.bound <=> c.bound) /\ (d.connected <=> c.connected)
      /\ d.queue = c.queue /\ (d.listening <=> c.listening) /\ d.type = c.type
      /\ d.rpos = c.rpos /\ d.rused = c.rused /\ d.rsize = c.rsize /\ (d.replaced <=> c.replaced)
  BY <1>3 DEF SockRec
<1> HIDE DEF d
<1>8. /\ sock' \in [Pages -> SockRec] /\ sock'[s] = d
      /\ \A t \in Open : t # s => sock'[t] = sock[t]
  BY <1>1, <1>2, <1>4, <1>6, OneChanged
<1>9. Open' = Open
  BY <1>1, SameList DEF send
<1>10. SameBuffers /\ SameNames /\ SameQueues /\ SameRings
  BY <1>7, <1>8 DEF send, SameBuffers, SameNames, SameQueues, SameRings
<1>11. FlagInv'
  BY <1>1, <1>7, <1>8, <1>9 DEF FlagInv
<1>12. SockType'
  BY <1>1, <1>8 DEF send, counters, SockType
<1>13. QED
  BY <1>10, <1>11, <1>12, AllKept DEF send, counters

\* The first socket of the list that has a property is an open one that has it.
LEMMA FirstIsOpen ==
  ASSUME SockType, NEW P \in SUBSET DOMAIN socket_list, P # {}
  PROVE  \E i \in P : First(P) = socket_list[i] /\ First(P) \in Open
<1>1. socket_list \in Seq(Pages)
  BY DEF SockType
<1>2. P \subseteq Nat
  BY <1>1, LenProperties
<1>3. Min(P) \in P
  BY <1>2, MinOfNats
<1>4. QED
  BY <1>3 DEF First, Open, Range

LEMMA FinStep ==
  ASSUME Sound, NEW port, NEW peer \in Peer, handle_FIN(port, peer)
  PROVE  SocketInv'
<1> DEFINE m == First(Matching(port, peer))
<1>1. SockType /\ ListInv /\ FlagInv
  BY SoundParts
<1>2. m \in Open
  BY <1>1, FirstIsOpen DEF handle_FIN, Matching
<1>3. PICK s \in Open : s = m
  BY <1>2
<1> DEFINE c == sock[s]
           d == [c EXCEPT !.connected = FALSE]
<1>4. s \in Pages /\ Open \subseteq Pages
  BY <1>1, SocketsArePages
<1>5. c \in SockRec
  BY <1>1, <1>4 DEF SockType
<1>6. sock' = [sock EXCEPT ![s] = d]
  BY <1>1, <1>3, <1>4 DEF handle_FIN, SockType
<1> HIDE DEF m
<1>7. d \in SockRec
  BY <1>5 DEF SockRec
<1>8. /\ d.fd = c.fd /\ d.sbuf = c.sbuf /\ d.rbuf = c.rbuf /\ d.remote = c.remote
      /\ d.port = c.port /\ (d.bound <=> c.bound) /\ ~ d.connected
      /\ d.queue = c.queue /\ (d.listening <=> c.listening) /\ d.type = c.type
      /\ d.rpos = c.rpos /\ d.rused = c.rused /\ d.rsize = c.rsize /\ (d.replaced <=> c.replaced)
  BY <1>5 DEF SockRec
<1> HIDE DEF d
<1>9. /\ sock' \in [Pages -> SockRec] /\ sock'[s] = d
      /\ \A t \in Open : t # s => sock'[t] = sock[t]
  BY <1>1, <1>4, <1>6, <1>7, OneChanged
<1>10. Open' = Open
  BY <1>1, SameList DEF handle_FIN
<1>11. SameBuffers /\ SameNames /\ SameQueues /\ SameRings
  BY <1>8, <1>9 DEF handle_FIN, history, SameBuffers, SameNames, SameQueues, SameRings
<1>12. FlagInv'
  BY <1>1, <1>8, <1>9, <1>10 DEF FlagInv
<1>13. SockType'
  BY <1>1, <1>9 DEF handle_FIN, counters, history, SockType
<1>14. QED
  BY <1>11, <1>12, <1>13, AllKept DEF handle_FIN, counters

\* A segment with data, for which there is room in the ring.
LEMMA DataStep ==
  ASSUME Sound, NEW port, NEW peer \in Peer, NEW len \in Lens, handle_data(port, peer, len)
  PROVE  SocketInv'
<1> DEFINE m == First(Matching(port, peer))
<1>1. SockType /\ ListInv /\ FlagInv /\ AcceptInv /\ MemInv /\ SharedInv /\ QueueInv /\ RecvInv
  BY SoundParts
<1>2. m \in Open
  BY <1>1, FirstIsOpen DEF handle_data, Matching
<1>3. PICK s \in Open : s = m
  BY <1>2
<1> DEFINE c == sock[s]
           d == [c EXCEPT !.rused = c.rused + len]
<1>4. s \in Pages /\ Open \subseteq Pages
  BY <1>1, SocketsArePages
<1>5. c \in SockRec
  BY <1>1, <1>4 DEF SockType
<1>6. sock' = [sock EXCEPT ![s] = d] /\ c.rused + len <= c.rsize
  BY <1>1, <1>3, <1>4 DEF handle_data, SockType, socket_tcp_data_received
<1> HIDE DEF m
<1>7. c.rused + len \in Nat
  BY <1>5, SocketAssumption DEF SockRec
<1>8. d \in SockRec
  BY <1>5, <1>7 DEF SockRec
<1>9. /\ d.fd = c.fd /\ d.sbuf = c.sbuf /\ d.rbuf = c.rbuf /\ d.remote = c.remote
      /\ d.port = c.port /\ (d.bound <=> c.bound) /\ (d.connected <=> c.connected)
      /\ d.queue = c.queue /\ (d.listening <=> c.listening) /\ d.type = c.type
      /\ d.rpos = c.rpos /\ d.rused = c.rused + len /\ d.rsize = c.rsize /\ (d.replaced <=> c.replaced)
  BY <1>5 DEF SockRec
<1> HIDE DEF d
<1>10. /\ sock' \in [Pages -> SockRec] /\ sock'[s] = d
       /\ \A t \in Open : t # s => sock'[t] = sock[t]
  BY <1>1, <1>4, <1>6, <1>8, OneChanged
<1>11. Open' = Open
  BY <1>1, SameList DEF handle_data
<1>12. SameBuffers /\ SameNames /\ SameQueues
  BY <1>9, <1>10 DEF handle_data, SameBuffers, SameNames, SameQueues
<1>13. FlagInv'
  BY <1>1, <1>9, <1>10, <1>11 DEF FlagInv
<1>14. SockType'
  BY <1>1, <1>10 DEF handle_data, counters, SockType
<1>15. RecvInv'
  <2>1. Ring(d)
    BY <1>1, <1>6, <1>9 DEF RecvInv, Ring
  <2>2. \A t \in Open' : Ring(sock'[t])
    BY <1>1, <1>10, <1>11, <2>1 DEF RecvInv
  <2>3. misread' = misread /\ broken' = "no"
    BY DEF handle_data, Sound
  <2>4. QED
    BY <1>1, <2>2, <2>3 DEF RecvInv
<1>16. QED
  BY <1>12, <1>13, <1>14, <1>15, AllButRings DEF handle_data, counters

\* recv copies the bytes in the order in which they arrived: the places up to
\* the end of the ring and then those from its beginning.
LEMMA CopiedIsOldest ==
  ASSUME NEW c \in SockRec, NEW n \in Nat, c.rsize > 0, c.rpos < c.rsize, n <= c.rsize
  PROVE  Copied(c, n) = Oldest(c, n)
<1>1. c.rpos \in Nat /\ c.rsize \in Nat
  BY DEF SockRec
<1>2. PICK p \in Nat, r \in Nat : p = c.rpos /\ r = c.rsize
  BY <1>1
<1>3. \A k \in 0 .. n - 1 : (p + k) % r = IF p + k < r THEN p + k ELSE p + k - r
  BY <1>2
<1>4. \A j \in 1 .. n : (p + j - 1) % r = IF p + j <= r THEN p + j - 1 ELSE p + j - 1 - r
  <2>1. TAKE j \in 1 .. n
  <2>2. j - 1 \in 0 .. n - 1 /\ p + (j - 1) = p + j - 1 /\ (p + (j - 1) < r <=> p + j <= r)
    BY <1>2
  <2>3. QED
    BY <1>3, <2>2
<1>5. QED
  BY <1>2, <1>4 DEF Copied, Oldest

LEMMA RecvStep ==
  ASSUME Sound, NEW s \in Open, NEW len \in Lens, recv(s, len)
  PROVE  SocketInv'
<1> DEFINE c == sock[s]
           n == IF len < c.rused THEN len ELSE c.rused
           sound == c.rpos <= c.rsize /\ n <= c.rsize /\ c.rsize > 0
           d == [c EXCEPT !.rpos = NextPos(c, n), !.rused = c.rused - n]
<1>1. SockType /\ ListInv /\ FlagInv /\ AcceptInv /\ MemInv /\ SharedInv /\ QueueInv /\ RecvInv
  BY SoundParts
<1>2. s \in Pages /\ Open \subseteq Pages
  BY <1>1, SocketsArePages
<1>3. c \in SockRec
  BY <1>1, <1>2 DEF SockType
<1>4. /\ c.rpos \in Nat /\ c.rsize \in Nat /\ c.rused \in Nat /\ n \in Nat
      /\ n <= c.rused /\ c.rused - n \in Nat /\ c.rused > 0
  <2>1. c.rpos \in Nat /\ c.rsize \in Nat /\ c.rused \in Nat
    BY <1>3 DEF SockRec
  <2>2. c.rused > 0
    BY DEF recv
  <2>3. QED
    BY <2>1, <2>2, SocketAssumption
<1>5. Ring(c)
  BY <1>1 DEF RecvInv
<1>6. Open' = Open /\ UNCHANGED <<page_bitmap, socket_list, next_socket_fd, bind_port, connect_port, accepted, big>>
  BY <1>1, SameList DEF recv, counters
<1>7. CASE ~ sound
  <2>1. UNCHANGED <<sock, misread>> /\ broken' = "ring"
    BY <1>7 DEF recv
  <2>2. c.replaced
    BY <1>4, <1>5, <1>7 DEF Ring
  <2>3. RecvInv'
    BY <1>1, <1>6, <2>1, <2>2 DEF RecvInv
  <2>4. SockType' /\ FlagInv' /\ SameBuffers /\ SameNames /\ SameQueues
    BY <1>1, <1>6, <2>1 DEF SockType, FlagInv, SameBuffers, SameNames, SameQueues
  <2>5. QED
    BY <1>6, <2>3, <2>4, AllButRings
<1>8. CASE sound
  <2>1. /\ sock' = [sock EXCEPT ![s] = d] /\ broken' = broken
        /\ misread' = (misread \/ (~ c.replaced /\ Copied(c, n) # Oldest(c, n)))
    BY <1>1, <1>2, <1>8 DEF recv, SockType
  <2>2. NextPos(c, n) \in Nat /\ NextPos(c, n) < c.rsize
    <3>1. PICK p \in Nat, r \in Nat \ {0} : p = c.rpos + n /\ r = c.rsize
      BY <1>4, <1>8
    <3>2. p % r \in Nat /\ p % r < r
      OBVIOUS
    <3>3. QED
      BY <3>1, <3>2 DEF NextPos
  <2>3. ~ misread'
    <3>1. ASSUME ~ c.replaced PROVE Copied(c, n) = Oldest(c, n)
      <4>1. c.rpos < c.rsize /\ n <= c.rsize /\ c.rsize > 0
        BY <1>4, <1>5, <1>8, <3>1 DEF Ring
      <4>2. QED
        BY <1>3, <1>4, <4>1, CopiedIsOldest
    <3>2. ~ misread
      BY <1>1 DEF RecvInv
    <3>3. QED
      BY <2>1, <3>1, <3>2, Zenon
  <2> HIDE DEF n
  <2>4. d \in SockRec
    BY <1>3, <1>4, <2>2 DEF SockRec
  <2>5. /\ d.fd = c.fd /\ d.sbuf = c.sbuf /\ d.rbuf = c.rbuf /\ d.remote = c.remote
        /\ d.port = c.port /\ (d.bound <=> c.bound) /\ (d.connected <=> c.connected)
        /\ d.queue = c.queue /\ (d.listening <=> c.listening) /\ d.type = c.type
        /\ d.rpos = NextPos(c, n) /\ d.rused = c.rused - n /\ d.rsize = c.rsize
        /\ (d.replaced <=> c.replaced)
    BY <1>3 DEF SockRec
  <2> HIDE DEF d
  <2>6. /\ sock' \in [Pages -> SockRec] /\ sock'[s] = d
        /\ \A t \in Open : t # s => sock'[t] = sock[t]
    BY <1>1, <1>2, <2>1, <2>4, OneChanged
  <2>7. SameBuffers /\ SameNames /\ SameQueues
    BY <1>6, <2>5, <2>6 DEF SameBuffers, SameNames, SameQueues
  <2>8. FlagInv'
    BY <1>1, <1>6, <2>5, <2>6 DEF FlagInv
  <2>9. SockType'
    BY <1>1, <1>6, <2>6 DEF SockType
  <2>10. RecvInv'
    <3>1. Ring(d)
      BY <1>4, <1>5, <2>2, <2>5 DEF Ring
    <3>2. \A t \in Open' : Ring(sock'[t])
      BY <1>1, <1>6, <2>6, <3>1 DEF RecvInv
    <3>3. broken' = "no"
      BY <2>1 DEF Sound
    <3>4. QED
      BY <2>3, <3>2, <3>3 DEF RecvInv
  <2>11. QED
    BY <1>6, <2>7, <2>8, <2>9, <2>10, AllButRings
<1>9. QED
  BY <1>7, <1>8

\* listen empties the queue of the socket.
LEMMA ListenStep ==
  ASSUME Sound, NEW s \in Open, listen(s)
  PROVE  SocketInv'
<1> DEFINE c == sock[s]
           d == [c EXCEPT !.listening = TRUE, !.queue = <<>>]
<1>1. /\ SockType /\ ListInv /\ FlagInv /\ AcceptInv
      /\ MemInv /\ SharedInv /\ QueueInv /\ RecvInv
  BY SoundParts
<1>2. s \in Pages /\ Open \subseteq Pages
  BY <1>1, SocketsArePages
<1>3. c \in SockRec
  BY <1>1, <1>2 DEF SockType
<1>4. sock' = [sock EXCEPT ![s] = d]
  BY <1>1, <1>2 DEF listen, SockType
<1>5. d \in SockRec
  <2>1. <<>> \in Seq(Pages)
    OBVIOUS
  <2>2. QED
    BY <1>3, <2>1 DEF SockRec
<1>6. /\ d.fd = c.fd /\ d.sbuf = c.sbuf /\ d.rbuf = c.rbuf /\ d.remote = c.remote
      /\ d.port = c.port /\ (d.bound <=> c.bound) /\ (d.connected <=> c.connected)
      /\ d.queue = <<>> /\ d.type = c.type
      /\ d.rpos = c.rpos /\ d.rused = c.rused /\ d.rsize = c.rsize /\ (d.replaced <=> c.replaced)
  BY <1>3 DEF SockRec
<1>7. InQueue(d) = {} /\ Distinct(d.queue)
  BY <1>6 DEF InQueue, Range, Distinct
<1> HIDE DEF d
<1>8. /\ sock' \in [Pages -> SockRec] /\ sock'[s] = d
      /\ \A t \in Open : t # s => sock'[t] = sock[t]
  BY <1>1, <1>2, <1>4, <1>5, OneChanged
<1>9. Open' = Open /\ ListInv'
  BY <1>1, SameList DEF listen
<1>10. SameBuffers /\ SameNames /\ SameRings
  BY <1>6, <1>8 DEF listen, history, SameBuffers, SameNames, SameRings
<1>11. FlagInv'
  <2>1. c.bound /\ c.type = "TCP"
    BY DEF listen, MayListen, TCP
  <2>2. QED
    BY <1>1, <1>6, <1>8, <1>9, <2>1 DEF FlagInv
<1>12. SockType'
  BY <1>1, <1>8 DEF listen, counters, history, SockType
<1>13. QueueInv'
  <2>1. accepted' = accepted
    BY DEF listen, history
  <2>2. ASSUME NEW a \in Open, NEW b \in Open, sock[a].listening, WaitsAt(sock[b], sock[a])
        PROVE  WaitsAt(sock[b], sock[a])'
    BY <1>1, <1>10, <2>1, <2>2 DEF WaitsAt, SameNames, FlagInv
  <2>3. \A a \in Open : a # s => sock'[a] = sock[a]
    BY <1>8
  <2>4. QED
    BY <1>1, <1>7, <1>8, <1>9, <2>2 DEF QueueInv
<1>14. QED
  BY <1>1, <1>9, <1>10, <1>11, <1>12, <1>13, MemKept, SharedKept, AcceptKept, RingsKept
     DEF SocketInv, listen, counters, history

\* What is left of a queue when its first element was taken.
LEMMA FirstTaken ==
  ASSUME NEW S, NEW q \in Seq(S), q # <<>>, Distinct(q)
  PROVE  /\ Tail(q) \in Seq(S) /\ Head(q) \in Range(q)
         /\ Range(Tail(q)) \subseteq Range(q) \ {Head(q)}
         /\ Distinct(Tail(q))
<1> DEFINE n == Len(q)
<1>1. n \in Nat /\ n # 0 /\ DOMAIN q = 1 .. n
  BY LenProperties, EmptySeq
<1>2. /\ Tail(q) \in Seq(S) /\ Len(Tail(q)) = n - 1 /\ Head(q) = q[1]
      /\ \A i \in 1 .. n - 1 : Tail(q)[i] = q[i + 1]
  BY <1>1, HeadTailProperties
<1>3. DOMAIN Tail(q) = 1 .. n - 1
  BY <1>1, <1>2, LenProperties
<1>4. PICK r : r = Tail(q)
  OBVIOUS
<1> HIDE DEF n
<1>5. \A i \in 1 .. n - 1 : i + 1 \in 1 .. n /\ i + 1 # 1 /\ r[i] = q[i + 1]
  BY <1>1, <1>2, <1>4
<1>6. \A i, j \in 1 .. n : q[i] = q[j] => i = j
  BY <1>1 DEF Distinct
<1>7. 1 \in 1 .. n
  BY <1>1
<1>8. \A x : x \in Range(q) <=> \E i \in 1 .. n : q[i] = x
  BY <1>1, Zenon DEF Range
<1>9. \A x : x \in Range(r) <=> \E i \in 1 .. n - 1 : r[i] = x
  BY <1>3, <1>4, Zenon DEF Range
<1>10. Range(r) \subseteq Range(q) \ {q[1]}
  BY <1>5, <1>6, <1>7, <1>8, <1>9
<1>11. Distinct(r)
  <2>1. SUFFICES ASSUME NEW i \in 1 .. n - 1, NEW j \in 1 .. n - 1, r[i] = r[j]
                 PROVE  i = j
    BY <1>3, <1>4 DEF Distinct
  <2>2. i + 1 = j + 1
    BY <1>5, <1>6, <2>1
  <2>3. QED
    BY <1>1, <2>2
<1>12. q[1] \in Range(q)
  BY <1>7, <1>8
<1>13. QED
  BY <1>2, <1>4, <1>10, <1>11, <1>12

\* accept hands out a connection that nobody else was given.
LEMMA AcceptStep ==
  ASSUME Sound, NEW s \in Open, accept(s)
  PROVE  SocketInv'
<1> DEFINE c == sock[s]
           q == c.queue
           d == [c EXCEPT !.queue = Tail(q)]
           h == Head(q)
<1>1. /\ SockType /\ ListInv /\ FlagInv /\ AcceptInv
      /\ MemInv /\ SharedInv /\ QueueInv /\ RecvInv
  BY SoundParts
<1>2. s \in Pages /\ Open \subseteq Pages
  BY <1>1, SocketsArePages
<1>3. c \in SockRec
  BY <1>1, <1>2 DEF SockType
<1>4. /\ sock' = [sock EXCEPT ![s] = d] /\ c.listening /\ q # <<>>
      /\ accepted' = Append(accepted, sock[h].fd)
  BY <1>1, <1>2 DEF accept, SockType, AfterAccept
<1>5. q \in Seq(Pages) /\ Distinct(q)
  BY <1>1, <1>3, <1>4 DEF SockRec, QueueInv
<1>6. /\ Tail(q) \in Seq(Pages) /\ h \in Range(q)
      /\ Range(Tail(q)) \subseteq Range(q) \ {h} /\ Distinct(Tail(q))
  BY <1>4, <1>5, FirstTaken
<1>7. h \in Open /\ WaitsAt(sock[h], c)
  BY <1>1, <1>4, <1>6 DEF QueueInv, InQueue
<1>8. d \in SockRec
  BY <1>3, <1>6 DEF SockRec
<1>9. /\ d.fd = c.fd /\ d.sbuf = c.sbuf /\ d.rbuf = c.rbuf /\ d.remote = c.remote
      /\ d.port = c.port /\ (d.bound <=> c.bound) /\ (d.connected <=> c.connected)
      /\ d.queue = Tail(q) /\ (d.listening <=> c.listening) /\ d.type = c.type
      /\ d.rpos = c.rpos /\ d.rused = c.rused /\ d.rsize = c.rsize /\ (d.replaced <=> c.replaced)
  BY <1>3 DEF SockRec
<1> HIDE DEF d, q, h
<1>10. /\ sock' \in [Pages -> SockRec] /\ sock'[s] = d
       /\ \A t \in Open : t # s => sock'[t] = sock[t]
  BY <1>1, <1>2, <1>4, <1>8, OneChanged
<1>11. Open' = Open /\ ListInv'
  BY <1>1, SameList DEF accept
<1>12. SameBuffers /\ SameNames /\ SameRings
  BY <1>9, <1>10 DEF accept, SameBuffers, SameNames, SameRings
<1>13. FlagInv'
  BY <1>1, <1>9, <1>10, <1>11 DEF FlagInv
<1>14. sock[h].fd \in Nat /\ accepted \in Seq(Nat)
  <2>1. sock[h] \in SockRec
    BY <1>1, <1>2, <1>7 DEF SockType
  <2>2. QED
    BY <1>1, <2>1 DEF SockType, SockRec
<1>15. PICK f \in Nat : f = sock[h].fd
  BY <1>14
<1>16. /\ accepted' \in Seq(Nat) /\ Len(accepted') = Len(accepted) + 1
       /\ \A i \in 1 .. Len(accepted) : accepted'[i] = accepted[i]
       /\ accepted'[Len(accepted) + 1] = f
       /\ DOMAIN accepted = 1 .. Len(accepted) /\ DOMAIN accepted' = 1 .. Len(accepted) + 1
       /\ Len(accepted) \in Nat
  <2>1. accepted' = Append(accepted, f)
    BY <1>4, <1>15
  <2>2. QED
    BY <1>14, <2>1, AppendProperties, LenProperties
<1>17. \A i \in DOMAIN accepted' : \/ i \in DOMAIN accepted /\ accepted'[i] = accepted[i]
                                   \/ i = Len(accepted) + 1 /\ accepted'[i] = f
  <2>1. PICK n \in Nat : n = Len(accepted)
    BY <1>16
  <2>2. \A i \in 1 .. n + 1 : i \in 1 .. n \/ i = n + 1
    OBVIOUS
  <2>3. /\ DOMAIN accepted = 1 .. n /\ DOMAIN accepted' = 1 .. n + 1
        /\ \A i \in 1 .. n : accepted'[i] = accepted[i]
        /\ accepted'[n + 1] = f
    BY <1>16, <2>1
  <2>4. QED
    BY <2>1, <2>2, <2>3, Zenon
<1>18. SockType'
  BY <1>1, <1>10, <1>16 DEF accept, counters, SockType
<1>19. \A i \in DOMAIN accepted : accepted[i] # f
  BY <1>7, <1>15 DEF WaitsAt
<1>20. AcceptInv'
  <2>1. next_socket_fd' = next_socket_fd
    BY DEF accept, counters
  <2>2. \A i, j \in DOMAIN accepted' : i # j => accepted'[i] # accepted'[j]
    BY <1>1, <1>17, <1>19 DEF AcceptInv
  <2>3. f < next_socket_fd
    BY <1>1, <1>7, <1>15 DEF AcceptInv
  <2>4. \A t \in Open : sock[t].fd = f => t = h
    BY <1>1, <1>7, <1>15 DEF AcceptInv
  <2>5. sock[h].remote # 0
    BY <1>7 DEF WaitsAt
  <2>6. \A t \in Open, i \in DOMAIN accepted' : accepted'[i] = sock[t].fd => sock[t].remote # 0
    BY <1>1, <1>17, <2>4, <2>5 DEF AcceptInv
  <2>7. \A i \in DOMAIN accepted' : accepted'[i] < next_socket_fd
    BY <1>1, <1>17, <2>3 DEF AcceptInv
  <2>8. QED
    BY <1>1, <1>11, <1>12, <2>1, <2>2, <2>6, <2>7 DEF AcceptInv, SameNames
<1>21. QueueInv'
  <2>1. ASSUME NEW a \in Open, NEW b \in Open, b # h, sock[a].listening, WaitsAt(sock[b], sock[a])
        PROVE  WaitsAt(sock[b], sock[a])'
    <3>1. sock[b].fd # f
      BY <1>1, <1>7, <1>15, <2>1 DEF AcceptInv
    <3>2. \A i \in DOMAIN accepted' : accepted'[i] # sock[b].fd
      BY <1>17, <2>1, <3>1 DEF WaitsAt
    <3>3. QED
      BY <1>1, <1>12, <2>1, <3>2 DEF WaitsAt, SameNames, FlagInv
  <2>2. /\ InQueue(sock'[s]) \subseteq InQueue(sock[s]) \ {h} /\ Distinct(sock'[s].queue)
        /\ h \in InQueue(sock[s])
    BY <1>6, <1>9, <1>10 DEF InQueue, q
  <2>3. \A a \in Open : sock'[a].listening =>
          /\ sock[a].listening
          /\ InQueue(sock'[a]) \subseteq InQueue(sock[a]) \ {h}
          /\ Distinct(sock'[a].queue)
    <3>1. TAKE a \in Open
    <3>2. CASE a = s
      BY <1>4, <2>2, <3>2
    <3>3. CASE a # s
      <4>1. sock'[a] = sock[a]
        BY <1>10, <3>3
      <4>2. sock[a].listening => h \notin InQueue(sock[a])
        BY <1>1, <1>4, <2>2, <3>3 DEF QueueInv
      <4>3. QED
        BY <1>1, <4>1, <4>2 DEF QueueInv
    <3>4. QED
      BY <3>2, <3>3
  <2>4. \A a \in Open : sock'[a].listening =>
          \A b \in InQueue(sock'[a]) : b \in Open /\ WaitsAt(sock[b], sock[a])'
    BY <1>1, <2>1, <2>3 DEF QueueInv
  <2>5. \A a, b \in Open : a # b /\ sock'[a].listening /\ sock'[b].listening =>
          InQueue(sock'[a]) \cap InQueue(sock'[b]) = {}
    BY <1>1, <2>3 DEF QueueInv
  <2>6. QED
    BY <1>11, <2>3, <2>4, <2>5 DEF QueueInv
<1>22. QED
  BY <1>1, <1>11, <1>12, <1>13, <1>18, <1>20, <1>21, MemKept, SharedKept, RingsKept
     DEF SocketInv

-----------------------------------------------------------------------------
(***************************************************************************)
(* closesocket                                                             *)
(***************************************************************************)

\* What is left when a socket is taken from the list, and its structure and
\* its buffers are freed. Unless another socket uses them, or a queue holds the
\* socket, nothing that is left refers to what was freed.
LEMMA CloseStep ==
  ASSUME Sound, NEW s \in Open, closesocket(s)
  PROVE  SocketInv'
<1> DEFINE c == sock[s]
           freed == {p \in FreedByClose(s) : p >= ReservedPages}
<1>1. /\ SockType /\ ListInv /\ FlagInv /\ AcceptInv
      /\ MemInv /\ SharedInv /\ QueueInv /\ RecvInv
  BY SoundParts
<1>2. s \in Pages /\ Open \subseteq Pages
  BY <1>1, SocketsArePages
<1>3. c \in SockRec
  BY <1>1, <1>2 DEF SockType
<1>4. /\ socket_list' \in Seq(Pages) /\ Open' = Open \ {s} /\ ListInv'
  <2>1. PICK k \in DOMAIN socket_list : socket_list[k] = s /\ socket_list' = RemoveAt(socket_list, k)
    BY DEF closesocket
  <2>2. socket_list \in Seq(Pages) /\ Distinct(socket_list)
    BY <1>1 DEF SockType, ListInv
  <2>3. PICK r : r = socket_list'
    OBVIOUS
  <2>4. r \in Seq(Pages) /\ Range(r) = Range(socket_list) \ {s} /\ Distinct(r)
    BY <2>1, <2>2, <2>3, TakenOut
  <2>5. QED
    BY <2>3, <2>4 DEF Open, ListInv
<1>5. Nothing \in SockRec
  BY NothingIsSock
<1>6. sock' = [sock EXCEPT ![s] = Nothing]
  BY DEF closesocket
<1>7. sock' \in [Pages -> SockRec] /\ \A t \in Open' : sock'[t] = sock[t]
  BY <1>1, <1>2, <1>4, <1>5, <1>6, OneChanged
<1>8. /\ freed \subseteq {s, c.sbuf, c.rbuf} /\ freed \cap Reserved = {}
      /\ \A p \in {s, c.sbuf, c.rbuf} : p \in freed \/ p \in Reserved
  <2>1. c.sbuf \in Pages /\ c.rbuf \in Pages
    BY <1>3 DEF SockRec
  <2>2. \A p \in Pages : p >= ReservedPages <=> p \notin Reserved
    BY MmAssumption DEF Pages, Reserved
  <2>3. QED
    BY <1>2, <2>1, <2>2 DEF FreedByClose
<1>9. page_bitmap' = page_bitmap \ freed
  BY DEF closesocket
<1> HIDE DEF freed
<1>10. UNCHANGED <<next_socket_fd, bind_port, connect_port, accepted, big, misread>>
  BY DEF closesocket, counters
<1>11. SockType'
  BY <1>1, <1>4, <1>7, <1>8, <1>9, <1>10 DEF SockType
<1>12. AcceptInv'
  BY <1>1, <1>4, <1>7, <1>10 DEF AcceptInv
<1>13. RecvInv'
  <2>1. broken' # "ring"
    BY DEF closesocket
  <2>2. \A t \in Open' : Ring(sock'[t])
    BY <1>1, <1>4, <1>7 DEF RecvInv
  <2>3. ~ misread'
    BY <1>1, <1>10 DEF RecvInv
  <2>4. QED
    BY <2>1, <2>2, <2>3 DEF RecvInv
<1>14. ASSUME ~ Shares(s, c.sbuf), ~ Shares(s, c.rbuf), ~ Waits(s)
       PROVE  MemInv' /\ SharedInv' /\ FlagInv' /\ QueueInv'
  <2>1. \A t \in Open' : t \in Open /\ t # s
    BY <1>4
  <2>2. NULL \in Reserved
    BY MmAssumption DEF NULL, Reserved
  <2>3. \A t \in Open' : t \notin freed /\ sock[t].sbuf \notin freed /\ sock[t].rbuf \notin freed
    <3>1. TAKE t \in Open'
    <3>2. t \notin {s, c.sbuf, c.rbuf} /\ sock[t].sbuf # s /\ sock[t].rbuf # s
      BY <1>1, <2>1 DEF SharedInv
    <3>3. \A p \in {sock[t].sbuf, sock[t].rbuf} : p \in {c.sbuf, c.rbuf} => p = NULL
      BY <1>14, <2>1 DEF Shares
    <3>4. QED
      BY <1>8, <2>2, <3>2, <3>3
  <2>4. \A t \in Open' : /\ t \in page_bitmap' \ Reserved
                         /\ sock[t].sbuf = NULL \/ sock[t].sbuf \in page_bitmap' \ Reserved
                         /\ sock[t].rbuf = NULL \/ sock[t].rbuf \in page_bitmap' \ Reserved
    BY <1>1, <1>9, <2>1, <2>3 DEF MemInv, Block
  <2>5. ASSUME ~ big'
        PROVE  \A p \in page_bitmap' \ Reserved : \E t \in Open' : p \in {t, sock[t].sbuf, sock[t].rbuf}
    <3>1. ~ big
      BY <1>10, <2>5
    <3>2. \A p \in page_bitmap \ Reserved : \E t \in Open : p \in {t, sock[t].sbuf, sock[t].rbuf}
      BY <1>1, <3>1, Zenon DEF MemInv
    <3>3. TAKE p \in page_bitmap' \ Reserved
    <3>4. PICK t \in Open : p \in {t, sock[t].sbuf, sock[t].rbuf}
      BY <1>9, <3>2
    <3>5. t # s
      BY <1>8, <1>9, <3>3, <3>4
    <3>6. QED
      BY <1>4, <3>4, <3>5
  <2>6. MemInv'
    <3>1. \A t \in Open' : t \in page_bitmap' \ Reserved /\ Block(sock[t].sbuf)' /\ Block(sock[t].rbuf)'
      BY <1>7, <2>4 DEF Block
    <3>2. big' \/ \A p \in page_bitmap' \ Reserved : \E t \in Open' : p \in {t, sock'[t].sbuf, sock'[t].rbuf}
      BY <1>7, <2>5
    <3>3. QED
      BY <3>1, <3>2, Zenon DEF MemInv
  <2>7. SharedInv'
    BY <1>1, <1>7, <2>1 DEF SharedInv
  <2>8. FlagInv'
    BY <1>1, <1>7, <2>1 DEF FlagInv
  <2>9. QueueInv'
    <3>1. \A t \in Open : sock[t].listening => s \notin InQueue(sock[t])
      BY <1>14 DEF Waits, InQueue
    <3>2. \A a, b \in Open' : WaitsAt(sock[b], sock[a]) => WaitsAt(sock[b], sock[a])'
      BY <1>7, <1>10 DEF WaitsAt
    <3>3. QED
      BY <1>1, <1>4, <1>7, <2>1, <3>1, <3>2 DEF QueueInv
  <2>10. QED
    BY <2>6, <2>7, <2>8, <2>9
<1>15. broken' # "freed" => MemInv' /\ SharedInv' /\ FlagInv' /\ QueueInv'
  BY <1>14 DEF closesocket
<1>16. QED
  BY <1>4, <1>11, <1>12, <1>13, <1>15 DEF SocketInv

-----------------------------------------------------------------------------
(***************************************************************************)
(* setsockopt                                                              *)
(***************************************************************************)

\* The block that takes the place of a buffer: none, or a page that was free
\* once the buffer was freed; of more than one page, others are marked too.
LEMMA ReplaceResult ==
  ASSUME SockType, NEW buf \in Pages, NEW size \in OptSizes
  PROVE  LET r == Replace(buf, size)
             B == page_bitmap \ ({buf} \ Reserved)
         IN
         /\ r.bitmap \subseteq Pages /\ Reserved \subseteq r.bitmap /\ B \subseteq r.bitmap
         /\ r.page \in Pages /\ r.size \in Nat
         /\ r.page # NULL => r.page \in r.bitmap \ B /\ r.page \notin Reserved
         /\ PagesOf(size) > 1 \/ r.bitmap \subseteq B \cup {r.page}
<1> DEFINE B == page_bitmap \ ({buf} \ Reserved)
           n == PagesOf(size)
           k == kmalloc(B, n)
           r == Replace(buf, size)
<1>1. B \subseteq Pages /\ Reserved \subseteq B /\ kfree(page_bitmap, buf) = B
  BY KfreeResult DEF SockType
<1>2. n \in {1, 2} /\ size \in Nat /\ NULL \in Pages /\ (n > 1 <=> n # 1)
  BY SocketAssumption, MmAssumption DEF PagesOf, NULL, Pages
<1> HIDE DEF B, n
<1>3. CASE size = 0
  <2>1. r.page = NULL /\ r.bitmap = B /\ r.size = 0
    BY <1>1, <1>3 DEF Replace
  <2>2. QED
    BY <1>1, <1>2, <2>1 DEF B
<1>4. CASE size # 0
  <2>1. r.page = k.page /\ r.bitmap = k.bitmap /\ r.size = IF k.page = NULL THEN 0 ELSE size
    BY <1>1, <1>4 DEF Replace, n
  <2>2. /\ k.bitmap \subseteq Pages /\ Reserved \subseteq k.bitmap
        /\ k.page = NULL => k.bitmap = B
        /\ k.page # NULL => /\ k.page \in Pages \ B /\ k.page \notin Reserved
                            /\ B \cup {k.page} \subseteq k.bitmap
                            /\ n = 1 => k.bitmap = B \cup {k.page}
    BY <1>1, <1>2, KmallocBlock
  <2> HIDE DEF k, r
  <2>3. r.size \in Nat
    BY <1>2, <2>1
  <2>4. QED
    BY <1>2, <2>1, <2>2, <2>3 DEF B, n, r
<1>5. QED
  BY <1>3, <1>4

\* Of the two buffers of s, which no other socket shares, buf gives way to page
\* and other stays. B is what is used in between.
Replacing(s, buf, other, page, B) ==
  /\ buf # NULL /\ ~ Shares(s, buf)
  /\ {sock[s].sbuf, sock[s].rbuf} = {buf, other}
  /\ {sock'[s].sbuf, sock'[s].rbuf} = {page, other}
  /\ \A t \in Open : t # s => sock'[t].sbuf = sock[t].sbuf /\ sock'[t].rbuf = sock[t].rbuf
  /\ B = page_bitmap \ ({buf} \ Reserved) /\ B \subseteq page_bitmap'
  /\ page # NULL => page \in page_bitmap' \ B /\ page \notin Reserved

LEMMA BufferReplaced ==
  ASSUME Sound, NEW s \in Open, Open' = Open, SameNames, big => big',
         NEW buf, NEW other, NEW page, NEW B, Replacing(s, buf, other, page, B),
         big' \/ page_bitmap' \subseteq B \cup {page}
  PROVE  MemInv' /\ SharedInv'
<1>0. /\ buf # NULL /\ ~ Shares(s, buf)
      /\ {sock[s].sbuf, sock[s].rbuf} = {buf, other}
      /\ {sock'[s].sbuf, sock'[s].rbuf} = {page, other}
      /\ \A t \in Open : t # s => sock'[t].sbuf = sock[t].sbuf /\ sock'[t].rbuf = sock[t].rbuf
      /\ B = page_bitmap \ ({buf} \ Reserved) /\ B \subseteq page_bitmap'
      /\ page # NULL => page \in page_bitmap' \ B /\ page \notin Reserved
  BY DEF Replacing
<1> USE <1>0
<1>1. MemInv /\ SharedInv
  BY SoundParts
<1>2. NULL \in Reserved
  BY MmAssumption DEF NULL, Reserved
<1>3. \A t \in Open : t \in page_bitmap \ Reserved /\ Block(sock[t].sbuf) /\ Block(sock[t].rbuf)
  BY <1>1 DEF MemInv
<1>4. sock[s].sbuf # sock[s].rbuf
  BY <1>1 DEF SharedInv
<1>5. buf # other
  BY <1>4
<1>6. \A t \in Open : t \in B /\ t \notin Reserved /\ t # page
  <2>1. \A t \in Open : t # buf
    BY <1>1 DEF SharedInv
  <2>2. QED
    BY <1>2, <1>3, <2>1
<1>7. other = NULL \/ (other \in B /\ other \notin Reserved /\ other # page)
  BY <1>3, <1>5 DEF Block
<1>8. \A t \in Open : t # s => \A p \in {sock[t].sbuf, sock[t].rbuf} :
        p = NULL \/ (p \in B /\ p \notin Reserved /\ p # page)
  BY <1>3 DEF Block, Shares
<1>9. ASSUME NEW t \in Open, NEW p \in {sock'[t].sbuf, sock'[t].rbuf}
      PROVE  p = NULL \/ p \in page_bitmap' \ Reserved
  <2>1. CASE t = s
    <3>1. p \in {page, other}
      BY <1>9, <2>1
    <3>2. QED
      BY <1>7, <3>1
  <2>2. CASE t # s
    BY <1>8, <1>9, <2>2
  <2>3. QED
    BY <2>1, <2>2
<1>10. ASSUME ~ big'
       PROVE  \A p \in page_bitmap' \ Reserved : \E t \in Open : p \in {t, sock'[t].sbuf, sock'[t].rbuf}
  <2>1. \A p \in page_bitmap \ Reserved : \E t \in Open : p \in {t, sock[t].sbuf, sock[t].rbuf}
    BY <1>1, <1>10, Zenon DEF MemInv
  <2>2. TAKE p \in page_bitmap' \ Reserved
  <2>3. p \in B \/ p = page
    BY <1>10
  <2>4. CASE p = page
    BY <2>4
  <2>5. CASE p \in B
    <3>1. p \in page_bitmap \ Reserved /\ p # buf
      BY <2>2, <2>5
    <3>2. PICK t \in Open : p \in {t, sock[t].sbuf, sock[t].rbuf}
      BY <2>1, <3>1
    <3>3. CASE t = s
      <4>1. p = s \/ p = other
        BY <3>1, <3>2, <3>3
      <4>2. QED
        BY <4>1
    <3>4. CASE t # s
      BY <3>2, <3>4
    <3>5. QED
      BY <3>3, <3>4
  <2>6. QED
    BY <2>3, <2>4, <2>5
<1>11. MemInv'
  <2>1. \A t \in Open : t \in page_bitmap' \ Reserved /\ Block(sock[t].sbuf)' /\ Block(sock[t].rbuf)'
    BY <1>6, <1>9 DEF Block
  <2>2. QED
    BY <1>10, <2>1, Zenon DEF MemInv
<1>12. SharedInv'
  <2>1. \A a, b \in Open : b \notin {sock'[a].sbuf, sock'[a].rbuf}
    <3>1. TAKE a, b \in Open
    <3>2. CASE a = s
      <4>1. b # page /\ b # other
        BY <1>1, <1>6 DEF SharedInv
      <4>2. QED
        BY <3>2, <4>1
    <3>3. CASE a # s
      BY <1>1, <3>3 DEF SharedInv
    <3>4. QED
      BY <3>2, <3>3
  <2>2. \A a \in Open : sock'[a].sbuf = sock'[a].rbuf => sock'[a].sbuf = NULL
    <3>1. sock'[s].sbuf = sock'[s].rbuf => sock'[s].sbuf = NULL
      BY <1>7
    <3>2. QED
      BY <1>1, <3>1 DEF SharedInv
  <2>3. \A a, b \in Open : a # b /\ Sharing(sock'[a], sock'[b]) => Sharing(sock[a], sock[b])
    <3>1. SUFFICES ASSUME NEW a \in Open, NEW b \in Open, a # b, Sharing(sock'[a], sock'[b])
                   PROVE  Sharing(sock[a], sock[b])
      OBVIOUS
    <3>2. PICK p \in {sock'[a].sbuf, sock'[a].rbuf} : p # NULL /\ p \in {sock'[b].sbuf, sock'[b].rbuf}
      BY <3>1, Zenon DEF Sharing
    <3>3. p \in {sock[a].sbuf, sock[a].rbuf} /\ p \in {sock[b].sbuf, sock[b].rbuf}
      <4>1. CASE a = s
        <5>1. p \in {sock[b].sbuf, sock[b].rbuf}
          BY <3>1, <3>2, <4>1
        <5>2. p # page
          BY <1>8, <3>1, <3>2, <4>1, <5>1
        <5>3. p \in {page, other}
          BY <3>1, <3>2, <4>1
        <5>4. QED
          BY <4>1, <5>1, <5>2, <5>3
      <4>2. CASE b = s
        <5>1. p \in {sock[a].sbuf, sock[a].rbuf}
          BY <3>1, <3>2, <4>2
        <5>2. p # page
          BY <1>8, <3>1, <3>2, <4>2, <5>1
        <5>3. p \in {page, other}
          BY <3>1, <3>2, <4>2
        <5>4. QED
          BY <4>2, <5>1, <5>2, <5>3
      <4>3. CASE a # s /\ b # s
        BY <3>1, <3>2, <4>3
      <4>4. QED
        BY <4>1, <4>2, <4>3
    <3>4. QED
      BY <3>2, <3>3, Zenon DEF Sharing
  <2>4. \A a, b \in Open : a # b /\ Sharing(sock'[a], sock'[b]) =>
          sock'[a].port = sock'[b].port /\ sock'[a].bound /\ sock'[b].bound
    BY <1>1, <2>3 DEF SharedInv, SameNames
  <2>5. QED
    BY <2>1, <2>2, <2>4 DEF SharedInv
<1>13. QED
  BY <1>11, <1>12

\* The send buffer is replaced.
LEMMA SndbufStep ==
  ASSUME Sound, NEW s \in Open, NEW size \in OptSizes, setsockopt_SNDBUF(s, size)
  PROVE  SocketInv'
<1> DEFINE c == sock[s]
           r == Replace(c.sbuf, size)
           d == [c EXCEPT !.sbuf = r.page, !.ssize = r.size]
           B == page_bitmap \ ({c.sbuf} \ Reserved)
<1>1. SockType /\ ListInv /\ FlagInv /\ AcceptInv /\ QueueInv /\ RecvInv
  BY SoundParts
<1>2. s \in Pages /\ Open \subseteq Pages
  BY <1>1, SocketsArePages
<1>3. c \in SockRec
  BY <1>1, <1>2 DEF SockType
<1>4. c.sbuf \in Pages
  BY <1>3 DEF SockRec
<1>5. /\ r.bitmap \subseteq Pages /\ Reserved \subseteq r.bitmap /\ B \subseteq r.bitmap
      /\ r.page \in Pages /\ r.size \in Nat
      /\ r.page # NULL => r.page \in r.bitmap \ B /\ r.page \notin Reserved
      /\ PagesOf(size) > 1 \/ r.bitmap \subseteq B \cup {r.page}
  BY <1>1, <1>4, ReplaceResult
<1>6. /\ c.sbuf # NULL /\ page_bitmap' = r.bitmap /\ sock' = [sock EXCEPT ![s] = d]
      /\ big' = (big \/ PagesOf(size) > 1)
      /\ broken' = IF Shares(s, c.sbuf) THEN "freed" ELSE "no"
      /\ UNCHANGED <<socket_list, next_socket_fd, bind_port, connect_port, accepted, misread>>
  BY <1>1, <1>2 DEF setsockopt_SNDBUF, SockType, counters
<1>7. PICK page \in Pages, z \in Nat : page = r.page /\ z = r.size
  BY <1>5
<1> HIDE DEF r
<1>8. d = [c EXCEPT !.sbuf = page, !.ssize = z]
  BY <1>7
<1>9. d \in SockRec
  BY <1>3, <1>8 DEF SockRec
<1>10. /\ d.fd = c.fd /\ d.sbuf = page /\ d.rbuf = c.rbuf /\ d.remote = c.remote
       /\ d.port = c.port /\ (d.bound <=> c.bound) /\ (d.connected <=> c.connected)
       /\ d.queue = c.queue /\ (d.listening <=> c.listening) /\ d.type = c.type
       /\ d.rpos = c.rpos /\ d.rused = c.rused /\ d.rsize = c.rsize /\ (d.replaced <=> c.replaced)
  BY <1>3, <1>8 DEF SockRec
<1> HIDE DEF d
<1>11. /\ sock' \in [Pages -> SockRec] /\ sock'[s] = d
       /\ \A t \in Open : t # s => sock'[t] = sock[t]
  BY <1>1, <1>2, <1>6, <1>9, OneChanged
<1>12. Open' = Open /\ ListInv'
  BY <1>1, <1>6, SameList
<1>13. SameNames /\ SameQueues
  BY <1>6, <1>10, <1>11 DEF SameNames, SameQueues
<1>14. FlagInv'
  BY <1>1, <1>10, <1>11, <1>12 DEF FlagInv
<1>15. SockType'
  BY <1>1, <1>5, <1>6, <1>11 DEF SockType
<1>16. AcceptInv' /\ QueueInv'
  BY <1>1, <1>6, <1>12, <1>13, AcceptKept, QueueKept
<1>17. RecvInv'
  <2>1. \A t \in Open' : Ring(sock'[t])
    BY <1>1, <1>10, <1>11, <1>12 DEF RecvInv, Ring
  <2>2. ~ misread' /\ broken' # "ring"
    BY <1>1, <1>6 DEF RecvInv
  <2>3. QED
    BY <2>1, <2>2 DEF RecvInv
<1>18. ASSUME ~ Shares(s, c.sbuf)
       PROVE  MemInv' /\ SharedInv'
  <2>1. \A t \in Open : t # s => sock'[t].sbuf = sock[t].sbuf /\ sock'[t].rbuf = sock[t].rbuf
    BY <1>11
  <2>2. /\ {sock[s].sbuf, sock[s].rbuf} = {c.sbuf, c.rbuf}
        /\ {sock'[s].sbuf, sock'[s].rbuf} = {page, c.rbuf}
    BY <1>10, <1>11
  <2>3. (big => big') /\ (PagesOf(size) > 1 => big')
    BY <1>6, Zenon
  <2>4. /\ B \subseteq page_bitmap'
        /\ page # NULL => page \in page_bitmap' \ B /\ page \notin Reserved
    BY <1>5, <1>6, <1>7
  <2>5. PagesOf(size) > 1 \/ page_bitmap' \subseteq B \cup {page}
    BY <1>5, <1>6, <1>7
  <2>6. big' \/ page_bitmap' \subseteq B \cup {page}
    BY <2>3, <2>5, Zenon
  <2>7. Replacing(s, c.sbuf, c.rbuf, page, B)
    BY <1>6, <1>18, <2>1, <2>2, <2>4 DEF Replacing
  <2>8. PICK b, o, A : b = c.sbuf /\ o = c.rbuf /\ A = B
    OBVIOUS
  <2>9. Replacing(s, b, o, page, A) /\ (big' \/ page_bitmap' \subseteq A \cup {page})
    BY <2>6, <2>7, <2>8, Zenon
  <2>10. QED
    BY <1>12, <1>13, <2>3, <2>9, BufferReplaced, Zenon
<1>19. QED
  BY <1>6, <1>12, <1>14, <1>15, <1>16, <1>17, <1>18 DEF SocketInv

\* The receive buffer is replaced; unless it was as it was made, the bytes in it
\* are no longer those of the ring.
LEMMA RcvbufStep ==
  ASSUME Sound, NEW s \in Open, NEW size \in OptSizes, setsockopt_RCVBUF(s, size)
  PROVE  SocketInv'
<1> DEFINE c == sock[s]
           r == Replace(c.rbuf, size)
           d == [c EXCEPT !.rbuf = r.page, !.rsize = r.size,
                          !.replaced = c.replaced \/ c.rused > 0 \/ c.rpos > 0]
           B == page_bitmap \ ({c.rbuf} \ Reserved)
<1>1. SockType /\ ListInv /\ FlagInv /\ AcceptInv /\ QueueInv /\ RecvInv
  BY SoundParts
<1>2. s \in Pages /\ Open \subseteq Pages
  BY <1>1, SocketsArePages
<1>3. c \in SockRec
  BY <1>1, <1>2 DEF SockType
<1>4. c.rbuf \in Pages
  BY <1>3 DEF SockRec
<1>5. /\ r.bitmap \subseteq Pages /\ Reserved \subseteq r.bitmap /\ B \subseteq r.bitmap
      /\ r.page \in Pages /\ r.size \in Nat
      /\ r.page # NULL => r.page \in r.bitmap \ B /\ r.page \notin Reserved
      /\ PagesOf(size) > 1 \/ r.bitmap \subseteq B \cup {r.page}
  BY <1>1, <1>4, ReplaceResult
<1>6. /\ c.rbuf # NULL /\ page_bitmap' = r.bitmap /\ sock' = [sock EXCEPT ![s] = d]
      /\ big' = (big \/ PagesOf(size) > 1)
      /\ broken' = IF Shares(s, c.rbuf) THEN "freed" ELSE "no"
      /\ UNCHANGED <<socket_list, next_socket_fd, bind_port, connect_port, accepted, misread>>
  BY <1>1, <1>2 DEF setsockopt_RCVBUF, SockType, counters
<1>7. PICK page \in Pages, z \in Nat : page = r.page /\ z = r.size
  BY <1>5
<1> HIDE DEF r
<1>8. d = [c EXCEPT !.rbuf = page, !.rsize = z, !.replaced = c.replaced \/ c.rused > 0 \/ c.rpos > 0]
  BY <1>7
<1>9. d \in SockRec
  BY <1>3, <1>8 DEF SockRec
<1>10. /\ d.fd = c.fd /\ d.rbuf = page /\ d.sbuf = c.sbuf /\ d.remote = c.remote
       /\ d.port = c.port /\ (d.bound <=> c.bound) /\ (d.connected <=> c.connected)
       /\ d.queue = c.queue /\ (d.listening <=> c.listening) /\ d.type = c.type
       /\ d.rpos = c.rpos /\ d.rused = c.rused /\ d.rsize = z
       /\ (d.replaced <=> (c.replaced \/ c.rused > 0 \/ c.rpos > 0))
  BY <1>3, <1>8 DEF SockRec
<1> HIDE DEF d
<1>11. /\ sock' \in [Pages -> SockRec] /\ sock'[s] = d
       /\ \A t \in Open : t # s => sock'[t] = sock[t]
  BY <1>1, <1>2, <1>6, <1>9, OneChanged
<1>12. Open' = Open /\ ListInv'
  BY <1>1, <1>6, SameList
<1>13. SameNames /\ SameQueues
  BY <1>6, <1>10, <1>11 DEF SameNames, SameQueues
<1>14. FlagInv'
  BY <1>1, <1>10, <1>11, <1>12 DEF FlagInv
<1>15. SockType'
  BY <1>1, <1>5, <1>6, <1>11 DEF SockType
<1>16. AcceptInv' /\ QueueInv'
  BY <1>1, <1>6, <1>12, <1>13, AcceptKept, QueueKept
<1>17. RecvInv'
  <2>1. Ring(d)
    <3>1. c.rused \in Nat /\ c.rpos \in Nat
      BY <1>3 DEF SockRec
    <3>2. QED
      BY <1>10, <3>1 DEF Ring
  <2>2. \A t \in Open' : Ring(sock'[t])
    BY <1>1, <1>11, <1>12, <2>1 DEF RecvInv
  <2>3. ~ misread' /\ broken' # "ring"
    BY <1>1, <1>6 DEF RecvInv
  <2>4. QED
    BY <2>2, <2>3 DEF RecvInv
<1>18. ASSUME ~ Shares(s, c.rbuf)
       PROVE  MemInv' /\ SharedInv'
  <2>1. \A t \in Open : t # s => sock'[t].sbuf = sock[t].sbuf /\ sock'[t].rbuf = sock[t].rbuf
    BY <1>11
  <2>2. /\ {sock[s].sbuf, sock[s].rbuf} = {c.rbuf, c.sbuf}
        /\ {sock'[s].sbuf, sock'[s].rbuf} = {page, c.sbuf}
    BY <1>10, <1>11
  <2>3. (big => big') /\ (PagesOf(size) > 1 => big')
    BY <1>6, Zenon
  <2>4. /\ B \subseteq page_bitmap'
        /\ page # NULL => page \in page_bitmap' \ B /\ page \notin Reserved
    BY <1>5, <1>6, <1>7
  <2>5. PagesOf(size) > 1 \/ page_bitmap' \subseteq B \cup {page}
    BY <1>5, <1>6, <1>7
  <2>6. big' \/ page_bitmap' \subseteq B \cup {page}
    BY <2>3, <2>5, Zenon
  <2>7. Replacing(s, c.rbuf, c.sbuf, page, B)
    BY <1>6, <1>18, <2>1, <2>2, <2>4 DEF Replacing
  <2>8. PICK b, o, A : b = c.rbuf /\ o = c.sbuf /\ A = B
    OBVIOUS
  <2>9. Replacing(s, b, o, page, A) /\ (big' \/ page_bitmap' \subseteq A \cup {page})
    BY <2>6, <2>7, <2>8, Zenon
  <2>10. QED
    BY <1>12, <1>13, <2>3, <2>9, BufferReplaced, Zenon
<1>19. QED
  BY <1>6, <1>12, <1>14, <1>15, <1>16, <1>17, <1>18 DEF SocketInv

-----------------------------------------------------------------------------
(***************************************************************************)
(* A socket more: socket, and a SYN                                        *)
(***************************************************************************)

LEMMA Listed ==
  ASSUME Sound, NEW p \in Pages \ page_bitmap, socket_list' = <<p>> \o socket_list
  PROVE  /\ socket_list' \in Seq(Pages) /\ p \notin Open
         /\ Open' = Open \cup {p} /\ ListInv'
<1>1. SockType /\ ListInv /\ MemInv
  BY SoundParts
<1>2. p \notin Open
  BY <1>1 DEF MemInv
<1>3. PICK r : r = socket_list'
  OBVIOUS
<1>4. socket_list \in Seq(Pages) /\ p \in Pages /\ Distinct(socket_list)
  BY <1>1 DEF SockType, ListInv
<1>a. r = <<p>> \o socket_list
  BY <1>3
<1>5. r \in Seq(Pages)
  BY <1>a, <1>4, PutInFront
<1>6. \A x : x \in Range(r) <=> x \in Range(socket_list) \/ x = p
  BY <1>a, <1>4, FrontElements, Zenon
<1>7. Distinct(r)
  BY <1>2, <1>a, <1>4, FrontDistinct DEF Open
<1>8. Open' = Open \cup {p}
  BY <1>3, <1>6 DEF Open
<1>9. QED
  BY <1>2, <1>3, <1>5, <1>7, <1>8 DEF ListInv

\* The new socket has a descriptor that was never handed out.
LEMMA AcceptAdded ==
  ASSUME Sound, NEW p, p \notin Open, Open' = Open \cup {p}, accepted' = accepted,
         next_socket_fd' = next_socket_fd + 1, sock'[p].fd = next_socket_fd,
         \A t \in Open : sock'[t].fd = sock[t].fd /\ sock'[t].remote = sock[t].remote
  PROVE  AcceptInv'
<1>1. AcceptInv /\ SockType
  BY SoundParts
<1>2. Open \subseteq Pages
  BY <1>1, SocketsArePages
<1>3. \A t \in Open : sock[t].fd \in Nat /\ sock[t].fd < next_socket_fd
  <2>1. TAKE t \in Open
  <2>2. sock[t] \in SockRec
    BY <1>1, <1>2 DEF SockType
  <2>3. QED
    BY <1>1, <2>2 DEF SockRec, AcceptInv
<1>4. next_socket_fd \in Nat /\ \A i \in DOMAIN accepted : accepted[i] \in Nat /\ accepted[i] < next_socket_fd
  <2>1. accepted \in Seq(Nat)
    BY <1>1 DEF SockType
  <2>2. \A i \in DOMAIN accepted : accepted[i] \in Nat
    BY <2>1, ElementOfSeq, LenProperties
  <2>3. QED
    BY <1>1, <2>2 DEF AcceptInv, SockType
<1>5. \A t \in Open' : sock'[t].fd < next_socket_fd + 1
  BY <1>3, <1>4
<1>6. \A a, b \in Open' : sock'[a].fd = sock'[b].fd => a = b
  BY <1>1, <1>3, <1>4 DEF AcceptInv
<1>7. \A i \in DOMAIN accepted : accepted[i] < next_socket_fd + 1 /\ accepted[i] # sock'[p].fd
  BY <1>4
<1>8. \A t \in Open', i \in DOMAIN accepted : accepted[i] = sock'[t].fd => sock'[t].remote # 0
  BY <1>1, <1>7 DEF AcceptInv
<1>9. QED
  BY <1>1, <1>5, <1>6, <1>7, <1>8 DEF AcceptInv

\* The new socket of the call, and the pages that it takes: new ones.
Fresh(p, d) ==
  /\ p \notin page_bitmap /\ p \notin Reserved
  /\ \A b \in {d.sbuf, d.rbuf} : b = NULL \/ (b \notin page_bitmap \cup {p} /\ b \notin Reserved)
  /\ d.sbuf = d.rbuf => d.sbuf = NULL
  /\ \A b \in page_bitmap' : b \in page_bitmap \/ b = p \/ (b # NULL /\ b \in {d.sbuf, d.rbuf})
  /\ page_bitmap \subseteq page_bitmap' /\ p \in page_bitmap'
  /\ \A b \in {d.sbuf, d.rbuf} : b = NULL \/ b \in page_bitmap'

LEMMA AddedStep ==
  ASSUME Sound, NEW p \in Pages, NEW d \in SockRec, Fresh(p, d), page_bitmap' \subseteq Pages,
         sock' = [sock EXCEPT ![p] = d], socket_list' = <<p>> \o socket_list,
         next_socket_fd' = next_socket_fd + 1, UNCHANGED <<bind_port, connect_port, history>>,
         d.fd = next_socket_fd, ~ d.connected, ~ d.listening, Ring(d)
  PROVE  SocketInv'
<1>1. /\ SockType /\ ListInv /\ FlagInv /\ AcceptInv
      /\ MemInv /\ SharedInv /\ QueueInv /\ RecvInv
  BY SoundParts
<1>2. p \in Pages \ page_bitmap
  BY DEF Fresh
<1>3. /\ socket_list' \in Seq(Pages) /\ p \notin Open
      /\ Open' = Open \cup {p} /\ ListInv' /\ Open \subseteq Pages
  BY <1>1, <1>2, Listed, SocketsArePages
<1>4. /\ sock' \in [Pages -> SockRec] /\ sock'[p] = d
      /\ \A t \in Open : t # p /\ sock'[t] = sock[t]
  BY <1>1, <1>3, OneChanged
<1>5. UNCHANGED <<accepted, big, misread, broken>>
  BY DEF history
<1>6. SockType'
  BY <1>1, <1>3, <1>4, <1>5 DEF SockType, Fresh
<1>7. AcceptInv'
  BY <1>3, <1>4, <1>5, AcceptAdded
<1>8. RecvInv'
  <2>1. \A t \in Open' : Ring(sock'[t])
    BY <1>1, <1>3, <1>4 DEF RecvInv
  <2>2. ~ misread' /\ broken' # "ring"
    BY <1>1, <1>5 DEF RecvInv, Sound
  <2>3. QED
    BY <2>1, <2>2 DEF RecvInv
<1>9. NULL \in Reserved
  BY MmAssumption DEF NULL, Reserved
<1>10. \A t \in Open : t \in page_bitmap \ Reserved /\ Block(sock[t].sbuf) /\ Block(sock[t].rbuf)
  BY <1>1 DEF MemInv
<1>11. MemInv'
  <2>1. \A t \in Open' : t \in page_bitmap' \ Reserved
    BY <1>3, <1>10 DEF Fresh
  <2>2. \A t \in Open' : Block(sock[t].sbuf)' /\ Block(sock[t].rbuf)'
    BY <1>3, <1>4, <1>10 DEF Block, Fresh
  <2>3. ASSUME ~ big'
        PROVE  \A b \in page_bitmap' \ Reserved : \E t \in Open' : b \in {t, sock'[t].sbuf, sock'[t].rbuf}
    <3>1. ~ big
      BY <1>5, <2>3
    <3>2. \A b \in page_bitmap \ Reserved : \E t \in Open : b \in {t, sock[t].sbuf, sock[t].rbuf}
      BY <1>1, <3>1, Zenon DEF MemInv
    <3>3. TAKE b \in page_bitmap' \ Reserved
    <3>4. b \in page_bitmap \/ b \in {p, d.sbuf, d.rbuf}
      BY DEF Fresh
    <3>5. QED
      BY <1>3, <1>4, <3>2, <3>4
  <2>4. QED
    BY <2>1, <2>2, <2>3, Zenon DEF MemInv
<1>12. SharedInv'
  <2>1. \A t \in Open : \A b \in {sock[t].sbuf, sock[t].rbuf} :
          b # p /\ (b = NULL \/ b \notin {d.sbuf, d.rbuf})
    BY <1>9, <1>10 DEF Block, Fresh
  <2>2. \A t \in Open : t \notin {d.sbuf, d.rbuf}
    BY <1>9, <1>10 DEF Fresh
  <2>3. p \notin {d.sbuf, d.rbuf}
    BY <1>9 DEF Fresh
  <2>4. \A a, b \in Open' : b \notin {sock'[a].sbuf, sock'[a].rbuf}
    BY <1>1, <1>3, <1>4, <2>1, <2>2, <2>3 DEF SharedInv
  <2>5. \A t \in Open : ~ Sharing(sock[t], d) /\ ~ Sharing(d, sock[t])
    BY <2>1 DEF Sharing
  <2>6. \A a, b \in Open' : a # b /\ Sharing(sock'[a], sock'[b]) =>
          sock'[a].port = sock'[b].port /\ sock'[a].bound /\ sock'[b].bound
    BY <1>1, <1>3, <1>4, <2>5 DEF SharedInv
  <2>7. \A a \in Open' : sock'[a].sbuf = sock'[a].rbuf => sock'[a].sbuf = NULL
    BY <1>1, <1>3, <1>4 DEF SharedInv, Fresh
  <2>8. QED
    BY <2>4, <2>6, <2>7 DEF SharedInv
<1>13. FlagInv'
  BY <1>1, <1>3, <1>4 DEF FlagInv
<1>14. QueueInv'
  <2>1. \A a, b \in Open : WaitsAt(sock[b], sock[a]) => WaitsAt(sock[b], sock[a])'
    BY <1>4, <1>5 DEF WaitsAt
  <2>2. \A a \in Open' : sock'[a].listening => a \in Open /\ sock'[a] = sock[a]
    BY <1>3, <1>4
  <2>3. Open \subseteq Open'
    BY <1>3, <1>4
  <2>4. \A a \in Open : sock[a].listening =>
          /\ \A b \in InQueue(sock[a]) : b \in Open /\ WaitsAt(sock[b], sock[a])
          /\ Distinct(sock[a].queue)
    BY <1>1, Zenon DEF QueueInv
  <2>5. \A a \in Open' : sock'[a].listening =>
          /\ \A b \in InQueue(sock'[a]) : b \in Open' /\ WaitsAt(sock[b], sock[a])'
          /\ Distinct(sock'[a].queue)
    BY <2>1, <2>2, <2>3, <2>4
  <2>6. \A a, b \in Open' : a # b /\ sock'[a].listening /\ sock'[b].listening =>
          InQueue(sock'[a]) \cap InQueue(sock'[b]) = {}
    BY <1>1, <2>2 DEF QueueInv
  <2>7. QED
    BY <2>5, <2>6 DEF QueueInv
<1>15. QED
  BY <1>3, <1>6, <1>7, <1>8, <1>11, <1>12, <1>13, <1>14 DEF SocketInv

\* Nothing but that a descriptor is used up.
LEMMA UsedUpStep ==
  ASSUME Sound, next_socket_fd' = next_socket_fd + 1,
         UNCHANGED <<page_bitmap, sock, socket_list, bind_port, connect_port,
                     accepted, big, misread, broken>>
  PROVE  SocketInv'
<1>1. /\ SockType /\ ListInv /\ FlagInv /\ AcceptInv
      /\ MemInv /\ SharedInv /\ QueueInv /\ RecvInv
  BY SoundParts
<1>2. Open' = Open /\ ListInv'
  BY <1>1, SameList
<1>3. SameBuffers /\ SameNames /\ SameQueues /\ SameRings
  BY DEF SameBuffers, SameNames, SameQueues, SameRings
<1>4. FlagInv'
  BY <1>1, <1>2 DEF FlagInv
<1>5. MemInv' /\ SharedInv' /\ QueueInv' /\ RecvInv'
  BY <1>1, <1>2, <1>3, MemKept, SharedKept, QueueKept, RingsKept
<1>6. SockType'
  BY <1>1 DEF SockType
<1>7. AcceptInv'
  <2>1. \A t \in Open : sock[t].fd \in Nat
    <3>1. \A t \in Open : sock[t] \in SockRec
      BY <1>1, SocketsArePages DEF SockType
    <3>2. QED
      BY <3>1 DEF SockRec
  <2>2. \A i \in DOMAIN accepted : accepted[i] \in Nat
    BY <1>1, ElementOfSeq, LenProperties DEF SockType
  <2>3. \A n \in Nat : n < next_socket_fd => n < next_socket_fd + 1
    BY <1>1 DEF SockType
  <2>4. QED
    BY <1>1, <1>2, <2>1, <2>2, <2>3 DEF AcceptInv
<1>8. QED
  BY <1>2, <1>4, <1>5, <1>6, <1>7 DEF SocketInv

LEMMA NewSocketFields ==
  ASSUME NEW fd \in Nat, NEW type \in Types, NEW b \in Pages, NEW c \in Pages, NEW size \in Nat,
         NEW d, d = NewSocket(fd, type, b, c, size)
  PROVE  /\ d \in SockRec /\ d.fd = fd /\ ~ d.connected /\ ~ d.listening /\ Ring(d)
         /\ d.sbuf = b /\ d.rbuf = c
<1>1. <<>> \in Seq(Pages) /\ 0 \in Ports /\ type \in {"TCP", "UDP", "RAW", "none"} /\ 0 \in Nat
  BY SocketAssumption DEF Ports
<1>2. d \in SockRec
  BY <1>1 DEF NewSocket, SockRec
<1>3. QED
  BY <1>2 DEF NewSocket, Ring

\* Whichever of the three blocks cannot be had, the others are given back.
LEMMA SocketStep ==
  ASSUME Sound, NEW type \in Types, socket(type)
  PROVE  SocketInv'
<1> DEFINE r1 == kmalloc(page_bitmap, 1)
           r2 == kmalloc(r1.bitmap, 1)
           r3 == kmalloc(r2.bitmap, 1)
<1>1. /\ SockType /\ ListInv /\ FlagInv /\ AcceptInv
      /\ MemInv /\ SharedInv /\ QueueInv /\ RecvInv
  BY SoundParts
<1>2. page_bitmap \subseteq Pages /\ Reserved \subseteq page_bitmap /\ next_socket_fd \in Nat
  BY <1>1 DEF SockType
<1>3. NULL \in Pages /\ NULL \in Reserved
  BY MmAssumption DEF NULL, Pages, Reserved
<1>4. r1.page # NULL
  BY DEF socket
<1>5. PICK p \in Pages : /\ p = r1.page /\ p \notin page_bitmap /\ p \notin Reserved
                         /\ r1.bitmap = page_bitmap \cup {p}
  BY <1>2, <1>4, OnePage
<1>6. PICK B2 : B2 = page_bitmap \cup {p} /\ B2 \subseteq Pages /\ Reserved \subseteq B2
  BY <1>2
<1>7. \/ r2.page = NULL /\ r2.bitmap = B2
      \/ /\ r2.page # NULL /\ r2.page \in Pages /\ r2.page \notin B2 /\ r2.page \notin Reserved
         /\ r2.bitmap = B2 \cup {r2.page}
  BY <1>5, <1>6, OnePage
<1>8. PICK x \in Pages : x = r2.page
  BY <1>3, <1>7
<1>9. PICK B3 : B3 = r2.bitmap /\ B3 \subseteq Pages /\ Reserved \subseteq B3
  BY <1>6, <1>7
<1>10. \/ r3.page = NULL /\ r3.bitmap = B3
       \/ /\ r3.page # NULL /\ r3.page \in Pages /\ r3.page \notin B3 /\ r3.page \notin Reserved
          /\ r3.bitmap = B3 \cup {r3.page}
  BY <1>9, OnePage
<1>11. PICK y \in Pages : y = r3.page
  BY <1>3, <1>10
<1>12. next_socket_fd' = next_socket_fd + 1 /\ UNCHANGED <<bind_port, connect_port, history>>
  BY DEF socket
<1>13. CASE type # "TCP"
  <2>1. PICK d : d = NewSocket(next_socket_fd, type, NULL, NULL, 0)
    OBVIOUS
  <2>2. /\ page_bitmap' = r1.bitmap /\ sock' = [sock EXCEPT ![r1.page] = d]
        /\ socket_list' = <<r1.page>> \o socket_list
    BY <1>13, <2>1 DEF socket
  <2>3. /\ page_bitmap' = page_bitmap \cup {p} /\ sock' = [sock EXCEPT ![p] = d]
        /\ socket_list' = <<p>> \o socket_list
    BY <1>5, <2>2
  <2>4. /\ d \in SockRec /\ d.fd = next_socket_fd /\ ~ d.connected /\ ~ d.listening /\ Ring(d)
        /\ d.sbuf = NULL /\ d.rbuf = NULL
    BY <1>2, <1>3, <2>1, NewSocketFields
  <2>5. Fresh(p, d) /\ page_bitmap' \subseteq Pages
    BY <1>2, <1>5, <2>3, <2>4 DEF Fresh
  <2>6. QED
    BY <1>12, <2>3, <2>4, <2>5, AddedStep
<1>14. CASE type = "TCP" /\ r2.page # NULL /\ r3.page # NULL
  <2>1. PICK d : d = NewSocket(next_socket_fd, type, r2.page, r3.page, BufSize)
    OBVIOUS
  <2>2. /\ page_bitmap' = r3.bitmap /\ sock' = [sock EXCEPT ![r1.page] = d]
        /\ socket_list' = <<r1.page>> \o socket_list
    BY <1>14, <2>1 DEF socket
  <2>3. /\ x # NULL /\ x \notin page_bitmap \cup {p} /\ x \notin Reserved
        /\ y # NULL /\ y \notin page_bitmap \cup {p, x} /\ y \notin Reserved
        /\ r3.bitmap = page_bitmap \cup {p, x, y}
    BY <1>6, <1>7, <1>8, <1>9, <1>10, <1>11, <1>14
  <2>4. /\ page_bitmap' = page_bitmap \cup {p, x, y} /\ sock' = [sock EXCEPT ![p] = d]
        /\ socket_list' = <<p>> \o socket_list
    BY <1>5, <2>2, <2>3
  <2>5. /\ d \in SockRec /\ d.fd = next_socket_fd /\ ~ d.connected /\ ~ d.listening /\ Ring(d)
        /\ d.sbuf = x /\ d.rbuf = y
    BY <1>2, <1>8, <1>11, <2>1, SocketAssumption, NewSocketFields
  <2>6. Fresh(p, d) /\ page_bitmap' \subseteq Pages
    BY <1>2, <1>5, <2>3, <2>4, <2>5 DEF Fresh
  <2>7. QED
    BY <1>12, <2>4, <2>5, <2>6, AddedStep
<1>15. CASE type = "TCP" /\ ~ (r2.page # NULL /\ r3.page # NULL)
  <2>1. page_bitmap' = Rollback(r3.bitmap, x, y, p) /\ UNCHANGED <<sock, socket_list>>
    BY <1>5, <1>8, <1>11, <1>15 DEF socket
  <2>2. PICK B4 : B4 = r3.bitmap /\ B4 \subseteq Pages
    BY <1>9, <1>10
  <2>3. /\ B4 \subseteq page_bitmap \cup {p, x, y} /\ page_bitmap \subseteq B4
        /\ x \notin page_bitmap \ Reserved /\ y \notin page_bitmap \ Reserved
        /\ (x \in Reserved => x \in page_bitmap) /\ (y \in Reserved => y \in page_bitmap)
    BY <1>2, <1>3, <1>6, <1>7, <1>8, <1>9, <1>10, <1>11, <2>2
  <2>4. kfree(B4, x) = B4 \ ({x} \ Reserved) /\ kfree(B4, x) \subseteq Pages
    BY <2>2, KfreeResult
  <2>5. PICK B5 : B5 = kfree(B4, x)
    OBVIOUS
  <2>6. kfree(B5, y) = B5 \ ({y} \ Reserved) /\ kfree(B5, y) \subseteq Pages
    BY <2>4, <2>5, KfreeResult
  <2>7. PICK B6 : B6 = kfree(B5, y)
    OBVIOUS
  <2>8. kfree(B6, p) = B6 \ ({p} \ Reserved)
    BY <2>6, <2>7, KfreeResult
  <2>9. Rollback(r3.bitmap, x, y, p) = kfree(B6, p)
    BY <2>2, <2>5, <2>7 DEF Rollback
  <2>10. page_bitmap' = page_bitmap
    BY <1>5, <2>1, <2>3, <2>4, <2>5, <2>6, <2>7, <2>8, <2>9
  <2>11. QED
    BY <1>12, <2>1, <2>10, UsedUpStep DEF history
<1>16. QED
  BY <1>13, <1>14, <1>15

\* A SYN at a listening socket l: the copy of l shares its buffers and waits in
\* its queue.
LEMMA SynStep ==
  ASSUME Sound, NEW port, NEW peer \in Peer, handle_SYN(port, peer)
  PROVE  SocketInv'
<1> DEFINE m == First(Listeners(port))
           r == kmalloc(page_bitmap, 1)
<1>1. /\ SockType /\ ListInv /\ FlagInv /\ AcceptInv
      /\ MemInv /\ SharedInv /\ QueueInv /\ RecvInv
  BY SoundParts
<1>2. m \in Open /\ sock[m].listening
  <2>1. Listeners(port) \in SUBSET DOMAIN socket_list /\ Listeners(port) # {}
    BY DEF handle_SYN, Listeners
  <2>2. PICK i \in Listeners(port) : m = socket_list[i] /\ m \in Open
    BY <1>1, <2>1, FirstIsOpen
  <2>3. QED
    BY <2>2 DEF Listeners
<1>3. PICK l \in Open : l = m
  BY <1>2
<1>4. page_bitmap \subseteq Pages /\ Reserved \subseteq page_bitmap /\ next_socket_fd \in Nat
  BY <1>1 DEF SockType
<1>5. PICK p \in Pages : /\ p = r.page /\ p \notin page_bitmap /\ p \notin Reserved
                         /\ r.bitmap = page_bitmap \cup {p}
  <2>1. r.page # NULL
    BY DEF handle_SYN
  <2>2. QED
    BY <1>4, <2>1, OnePage
<1> DEFINE c == sock[l]
           q == c.queue
           child == [c EXCEPT !.fd = next_socket_fd, !.remote = peer,
                              !.connected = TRUE, !.listening = FALSE]
           d == [c EXCEPT !.queue = Append(q, p)]
<1>6. l \in Pages /\ Open \subseteq Pages /\ c.listening
  BY <1>1, <1>2, <1>3, SocketsArePages
<1>7. c \in SockRec
  BY <1>1, <1>6 DEF SockType
<1>8. next_socket_fd' = next_socket_fd + 1 /\ UNCHANGED <<bind_port, connect_port, accepted, big, misread, broken>>
  BY DEF handle_SYN, history
<1>9. CASE ~ (Len(sock[m].queue) < QueueMax)
  <2>1. UNCHANGED <<page_bitmap, sock, socket_list>>
    BY <1>9 DEF handle_SYN
  <2>2. QED
    BY <1>8, <2>1, UsedUpStep
<1>10. CASE Len(sock[m].queue) < QueueMax
  <2>1. /\ page_bitmap' = page_bitmap \cup {p} /\ socket_list' = <<p>> \o socket_list
        /\ sock' = [sock EXCEPT ![p] = child, ![l].queue = Append(@, p)]
    BY <1>3, <1>5, <1>10 DEF handle_SYN
  <2> HIDE DEF m, r
  <2>2. /\ socket_list' \in Seq(Pages) /\ p \notin Open
        /\ Open' = Open \cup {p} /\ ListInv'
    BY <1>5, <2>1, Listed
  <2>3. child \in SockRec
    BY <1>4, <1>7 DEF SockRec
  <2>4. q \in Seq(Pages) /\ Append(q, p) \in Seq(Pages)
    BY <1>7, AppendProperties DEF SockRec
  <2>5. d \in SockRec
    BY <1>7, <2>4 DEF SockRec
  <2>6. sock' \in [Pages -> SockRec] /\ sock'[p] = child /\ sock'[l] = d
        /\ \A t \in Open : t # l => sock'[t] = sock[t]
    <3>1. l # p /\ sock \in [Pages -> SockRec]
      BY <1>1, <2>2 DEF SockType
    <3> HIDE DEF child
    <3>2. sock' = [[sock EXCEPT ![p] = child] EXCEPT ![l] = d]
      BY <1>6, <2>1, <3>1
    <3> HIDE DEF SockRec, d
    <3>3. QED
      BY <1>6, <2>2, <2>3, <2>5, <3>1, <3>2
  <2>7. /\ d.fd = c.fd /\ d.sbuf = c.sbuf /\ d.rbuf = c.rbuf /\ d.remote = c.remote
        /\ d.port = c.port /\ (d.bound <=> c.bound) /\ (d.connected <=> c.connected)
        /\ d.queue = Append(q, p) /\ (d.listening <=> c.listening) /\ d.type = c.type
        /\ d.rpos = c.rpos /\ d.rused = c.rused /\ d.rsize = c.rsize /\ (d.replaced <=> c.replaced)
    BY <1>7 DEF SockRec
  <2>8. /\ child.fd = next_socket_fd /\ child.sbuf = c.sbuf /\ child.rbuf = c.rbuf /\ child.remote = peer
        /\ child.port = c.port /\ (child.bound <=> c.bound) /\ ~ child.listening
        /\ child.rpos = c.rpos /\ child.rused = c.rused /\ child.rsize = c.rsize
        /\ (child.replaced <=> c.replaced)
    BY <1>7 DEF SockRec
  <2> HIDE DEF child, d
  <2>9. c.bound /\ peer # 0
    BY <1>1, <1>6, SocketAssumption DEF FlagInv
  <2>10. SockType'
    <3>1. page_bitmap' \subseteq Pages /\ Reserved \subseteq page_bitmap'
      BY <1>4, <2>1
    <3>2. next_socket_fd' \in Nat
      BY <1>4, <1>8
    <3>3. QED
      BY <1>1, <1>8, <2>2, <2>6, <3>1, <3>2 DEF SockType
  <2>11. \A t \in Open :
           /\ sock'[t].fd = sock[t].fd /\ sock'[t].remote = sock[t].remote
           /\ sock'[t].sbuf = sock[t].sbuf /\ sock'[t].rbuf = sock[t].rbuf
           /\ sock'[t].port = sock[t].port /\ (sock'[t].bound <=> sock[t].bound)
           /\ (sock'[t].connected <=> sock[t].connected) /\ (sock'[t].listening <=> sock[t].listening)
           /\ sock'[t].type = sock[t].type
    BY <2>6, <2>7
  <2>12. AcceptInv'
    BY <1>8, <2>2, <2>6, <2>8, <2>11, AcceptAdded
  <2>13. RecvInv'
    <3>1. Ring(c)
      BY <1>1 DEF RecvInv
    <3>2. Ring(child) /\ Ring(d)
      BY <2>7, <2>8, <3>1 DEF Ring
    <3>3. \A t \in Open' : Ring(sock'[t])
      BY <1>1, <2>2, <2>6, <3>2 DEF RecvInv
    <3>4. ~ misread' /\ broken' # "ring"
      BY <1>1, <1>8 DEF RecvInv, Sound
    <3>5. QED
      BY <3>3, <3>4 DEF RecvInv
  <2>14. MemInv'
    <3>1. \A t \in Open : t \in page_bitmap \ Reserved /\ Block(sock[t].sbuf) /\ Block(sock[t].rbuf)
      BY <1>1 DEF MemInv
    <3>2. \A t \in Open' : t \in page_bitmap' \ Reserved
      BY <1>5, <2>1, <2>2, <3>1
    <3>3. \A t \in Open' : Block(sock[t].sbuf)' /\ Block(sock[t].rbuf)'
      <4>1. \A t \in Open : \A b \in {sock[t].sbuf, sock[t].rbuf} : b = NULL \/ b \in page_bitmap' \ Reserved
        BY <2>1, <3>1 DEF Block
      <4>2. \A t \in Open' : \E u \in Open : sock'[t].sbuf = sock[u].sbuf /\ sock'[t].rbuf = sock[u].rbuf
        BY <2>2, <2>6, <2>8, <2>11
      <4>3. QED
        BY <4>1, <4>2 DEF Block
    <3>4. ASSUME ~ big'
          PROVE  \A b \in page_bitmap' \ Reserved : \E t \in Open' : b \in {t, sock'[t].sbuf, sock'[t].rbuf}
      <4>1. ~ big
        BY <1>8, <3>4
      <4>2. \A b \in page_bitmap \ Reserved : \E t \in Open : b \in {t, sock[t].sbuf, sock[t].rbuf}
        BY <1>1, <4>1, Zenon DEF MemInv
      <4>3. QED
        BY <2>1, <2>2, <2>11, <4>2
    <3>5. QED
      BY <3>2, <3>3, <3>4, Zenon DEF MemInv
  <2>15. SharedInv'
    <3>1. NULL \in Reserved
      BY MmAssumption DEF NULL, Reserved
    <3>2. \A t \in Open : p # sock[t].sbuf /\ p # sock[t].rbuf
      BY <1>1, <1>5, <3>1 DEF MemInv, Block
    <3>3. \A a, b \in Open : b \notin {sock[a].sbuf, sock[a].rbuf}
      BY <1>1 DEF SharedInv
    <3>4. \A a, b \in Open' : b \notin {sock'[a].sbuf, sock'[a].rbuf}
      BY <2>2, <2>6, <2>8, <2>11, <3>2, <3>3
    <3>5. \A a \in Open' : sock'[a].sbuf = sock'[a].rbuf => sock'[a].sbuf = NULL
      BY <1>1, <2>2, <2>6, <2>8, <2>11 DEF SharedInv
    <3>6. \A a, b \in Open : Sharing(sock'[a], sock'[b]) => Sharing(sock[a], sock[b])
      BY <2>11 DEF Sharing
    <3>7. \A a \in Open : /\ Sharing(sock'[a], child) => Sharing(sock[a], c)
                          /\ Sharing(child, sock'[a]) => Sharing(c, sock[a])
      BY <2>8, <2>11 DEF Sharing
    <3>8. \A a \in Open : Sharing(sock[a], c) \/ Sharing(c, sock[a]) => sock[a].port = c.port /\ sock[a].bound
      BY <1>1, <2>9 DEF SharedInv
    <3>9. \A a, b \in Open : a # b /\ Sharing(sock'[a], sock'[b]) =>
            sock'[a].port = sock'[b].port /\ sock'[a].bound /\ sock'[b].bound
      BY <1>1, <2>11, <3>6 DEF SharedInv
    <3>10. \A a \in Open : Sharing(sock'[a], child) \/ Sharing(child, sock'[a]) =>
             sock'[a].port = child.port /\ sock'[a].bound /\ child.bound
      BY <2>8, <2>9, <2>11, <3>7, <3>8
    <3>11. \A a, b \in Open' : a # b /\ Sharing(sock'[a], sock'[b]) =>
             sock'[a].port = sock'[b].port /\ sock'[a].bound /\ sock'[b].bound
      BY <2>2, <2>6, <3>9, <3>10
    <3>12. QED
      BY <3>4, <3>5, <3>11 DEF SharedInv
  <2>16. FlagInv'
    <3>1. \A t \in Open : /\ sock'[t].connected => sock'[t].bound /\ sock'[t].remote # 0
                          /\ sock'[t].listening => sock'[t].bound /\ sock'[t].type = "TCP"
      BY <1>1, <2>11 DEF FlagInv
    <3>2. QED
      BY <2>2, <2>6, <2>8, <2>9, <3>1 DEF FlagInv
  <2>17. QueueInv'
    <3>1. p \notin InQueue(c) /\ Distinct(q)
      BY <1>1, <1>6, <2>2 DEF QueueInv
    <3>2. PICK g : g = Append(q, p)
      OBVIOUS
    <3>3. (\A x \in Range(g) : x \in Range(q) \/ x = p) /\ Distinct(g)
      <4>1. \A x \in Range(g) : x \in Range(q) \/ x = p
        <5>1. q \in Seq(Pages) /\ p \in Pages
          BY <2>4
        <5> HIDE DEF q
        <5>2. QED
          BY <3>2, <5>1, QueueElements
      <4>2. Distinct(g)
        BY <2>4, <3>1, <3>2, QueueDistinct DEF InQueue
      <4>3. QED
        BY <4>1, <4>2
    <3>4. InQueue(d) \subseteq InQueue(c) \cup {p} /\ Distinct(d.queue)
      BY <2>7, <3>2, <3>3 DEF InQueue
    <3>5. \A a \in Open : sock'[a].listening =>
            /\ sock[a].listening /\ Distinct(sock'[a].queue)
            /\ InQueue(sock'[a]) \subseteq InQueue(sock[a]) \cup {p}
            /\ a # l => p \notin InQueue(sock'[a])
      <4>1. TAKE a \in Open
      <4>2. CASE a = l
        BY <1>6, <2>6, <3>4, <4>2
      <4>3. CASE a # l
        BY <1>1, <2>2, <2>6, <4>3 DEF QueueInv
      <4>4. QED
        BY <4>2, <4>3
    <3>6. \A a, b \in Open : WaitsAt(sock[b], sock[a]) => WaitsAt(sock[b], sock[a])'
      BY <1>8, <2>11 DEF WaitsAt
    <3>7. WaitsAt(sock[p], sock[l])'
      <4>1. \A i \in DOMAIN accepted : accepted[i] # next_socket_fd
        <5>1. accepted \in Seq(Nat)
          BY <1>1 DEF SockType
        <5>2. \A i \in DOMAIN accepted : accepted[i] \in Nat
          BY <5>1, ElementOfSeq, LenProperties
        <5>3. QED
          BY <1>1, <1>4, <5>2 DEF AcceptInv
      <4>2. QED
        BY <1>8, <2>6, <2>7, <2>8, <2>9, <4>1 DEF WaitsAt
    <3>8. \A a \in Open : sock'[a].listening =>
            \A b \in InQueue(sock'[a]) : b \in Open' /\ WaitsAt(sock[b], sock[a])'
      <4>1. SUFFICES ASSUME NEW a \in Open, sock'[a].listening, NEW b \in InQueue(sock'[a])
                     PROVE  b \in Open' /\ WaitsAt(sock[b], sock[a])'
        OBVIOUS
      <4>2. CASE b = p
        BY <2>2, <3>5, <3>7, <4>1, <4>2
      <4>3. CASE b # p
        <5>1. b \in Open /\ WaitsAt(sock[b], sock[a])
          BY <1>1, <3>5, <4>1, <4>3 DEF QueueInv
        <5>2. QED
          BY <2>2, <3>6, <5>1
      <4>4. QED
        BY <4>2, <4>3
    <3>9. \A a, b \in Open : a # b /\ sock'[a].listening /\ sock'[b].listening =>
            InQueue(sock'[a]) \cap InQueue(sock'[b]) = {}
      BY <1>1, <3>5 DEF QueueInv
    <3>10. ~ sock'[p].listening
      BY <2>6, <2>8
    <3>11. QED
      BY <2>2, <3>5, <3>8, <3>9, <3>10 DEF QueueInv
  <2>18. QED
    BY <2>2, <2>10, <2>12, <2>13, <2>14, <2>15, <2>16, <2>17 DEF SocketInv
<1>11. QED
  BY <1>9, <1>10

-----------------------------------------------------------------------------
(***************************************************************************)
(* The theorems                                                            *)
(***************************************************************************)

\* The invariant holds of every number of sockets, calls and segments: the
\* tables and the memory are of their types, every descriptor is new, and up to
\* the first free of something still referred to the memory, the flags and the
\* queues agree.
THEOREM SocketInvTheorem == Spec => []SocketInv
<1>1. Init => SocketInv
  <2>1. SUFFICES ASSUME Init PROVE SocketInv
    OBVIOUS
  <2>2. Open = {} /\ ListInv /\ socket_list \in Seq(Pages)
    BY <2>1 DEF Init, Open, Range, ListInv, Distinct
  <2>3. Nothing \in SockRec
    BY NothingIsSock
  <2>4. SockType
    <3>1. Reserved \subseteq Pages /\ FirstDynamic \in 0 .. PortSpace - 1
      BY MmAssumption, SocketAssumption DEF Reserved, Pages
    <3>2. accepted \in Seq(Nat)
      BY <2>1 DEF Init
    <3>3. QED
      BY <2>1, <2>2, <2>3, <3>1, <3>2 DEF Init, SockType, mm_init
  <2>5. AcceptInv
    BY <2>1, <2>2 DEF Init, AcceptInv
  <2>6. RecvInv
    <3>1. ~ misread /\ broken # "ring"
      BY <2>1 DEF Init
    <3>2. QED
      BY <2>2, <3>1 DEF RecvInv
  <2>7. MemInv
    BY <2>1, <2>2 DEF Init, MemInv, mm_init
  <2>8. SharedInv /\ FlagInv /\ QueueInv
    BY <2>2 DEF SharedInv, FlagInv, QueueInv
  <2>9. QED
    BY <2>2, <2>4, <2>5, <2>6, <2>7, <2>8 DEF SocketInv
<1>2. SocketInv /\ [Next]_vars => SocketInv'
  <2>1. SUFFICES ASSUME SocketInv, [Next]_vars PROVE SocketInv'
    OBVIOUS
  <2>2. CASE UNCHANGED vars
    <3>1. Open' = Open
      BY <2>2 DEF Open, vars
    <3>2. SockType' = SockType /\ ListInv' = ListInv /\ AcceptInv' = AcceptInv /\ RecvInv' = RecvInv
      BY <2>2, <3>1, Zenon DEF vars, SockType, ListInv, AcceptInv, RecvInv
    <3>3. SameBuffers /\ SameNames /\ SameQueues /\ broken' = broken
      BY <2>2 DEF vars, SameBuffers, SameNames, SameQueues
    <3>4. FlagInv => FlagInv'
      BY <2>2, <3>1 DEF vars, FlagInv
    <3>5. MemInv => MemInv'
      BY <3>1, <3>3, MemKept
    <3>6. SharedInv => SharedInv'
      BY <3>1, <3>3, SharedKept
    <3>7. FlagInv /\ QueueInv => QueueInv'
      BY <3>1, <3>3, QueueKept
    <3>8. QED
      BY <2>1, <3>2, <3>3, <3>4, <3>5, <3>6, <3>7, Zenon DEF SocketInv
  <2>3. CASE Next
    <3>1. Sound
      BY <2>1, <2>3 DEF Next, Sound
    <3>2. ASSUME NEW type \in Types, socket(type) PROVE SocketInv'
      BY <3>1, <3>2, SocketStep
    <3>3. ASSUME NEW s \in Open, NEW port \in Port, bind(s, port) PROVE SocketInv'
      BY <3>1, <3>3, BindStep
    <3>4. ASSUME NEW s \in Open, NEW peer \in Peer, connect(s, peer) PROVE SocketInv'
      BY <3>1, <3>4, ConnectStep
    <3>5. ASSUME NEW s \in Open, listen(s) PROVE SocketInv'
      BY <3>1, <3>5, ListenStep
    <3>6. ASSUME NEW s \in Open, accept(s) PROVE SocketInv'
      BY <3>1, <3>6, AcceptStep
    <3>7. ASSUME NEW s \in Open, NEW len \in Lens, send(s, len) \/ sendto(s, len) PROVE SocketInv'
      BY <3>1, <3>7, SendStep DEF sendto
    <3>8. ASSUME NEW s \in Open, NEW len \in Lens, recv(s, len) \/ recvfrom(s, len) PROVE SocketInv'
      BY <3>1, <3>8, RecvStep DEF recvfrom
    <3>9. ASSUME NEW s \in Open, closesocket(s) PROVE SocketInv'
      BY <3>1, <3>9, CloseStep
    <3>10. ASSUME NEW s \in Open, NEW size \in OptSizes, setsockopt_SNDBUF(s, size) PROVE SocketInv'
      BY <3>1, <3>10, SndbufStep
    <3>11. ASSUME NEW s \in Open, NEW size \in OptSizes, setsockopt_RCVBUF(s, size) PROVE SocketInv'
      BY <3>1, <3>11, RcvbufStep
    <3>12. ASSUME NEW port, NEW peer \in Peer, handle_SYN(port, peer) PROVE SocketInv'
      BY <3>1, <3>12, SynStep
    <3>13. ASSUME NEW port, NEW peer \in Peer, handle_FIN(port, peer) PROVE SocketInv'
      BY <3>1, <3>13, FinStep
    <3>14. ASSUME NEW port, NEW peer \in Peer, NEW len \in Lens, handle_data(port, peer, len) PROVE SocketInv'
      BY <3>1, <3>14, DataStep
    <3>15. QED
      BY <2>3, <3>2, <3>3, <3>4, <3>5, <3>6, <3>7, <3>8, <3>9, <3>10, <3>11, <3>12, <3>13, <3>14, Zenon
         DEF Next
  <2>4. QED
    BY <2>1, <2>2, <2>3
<1>3. QED
  BY <1>1, <1>2, PTL DEF Spec

\* Memory is exact for every number of pages and sockets: what a socket refers
\* to is marked used, nothing else is (as long as no block of several pages was
\* asked for), and buffers are shared only by a connection and its listener.
THEOREM MemoryExactTheorem == Spec => []MemoryExact
<1>1. SocketInv => MemoryExact
  <2>1. SUFFICES ASSUME SocketInv PROVE MemoryExact
    OBVIOUS
  <2>2. \A x : x \in InUse <=> \E s \in Open : x = s \/ (x \in {sock[s].sbuf, sock[s].rbuf} /\ x # NULL)
    BY DEF InUse, Buffers
  <2>3. NULL \in Reserved /\ Reserved \subseteq page_bitmap
    BY <2>1, MmAssumption DEF SocketInv, SockType, NULL, Reserved
  <2>4. ASSUME broken # "freed"
        PROVE  InUse \subseteq page_bitmap /\ (~ big => page_bitmap = Reserved \cup InUse)
    <3>1. MemInv
      BY <2>1, <2>4 DEF SocketInv
    <3>2. InUse \subseteq page_bitmap
      BY <2>2, <3>1 DEF MemInv, Block
    <3>3. ASSUME ~ big PROVE page_bitmap = Reserved \cup InUse
      <4>1. \A p \in page_bitmap \ Reserved : \E s \in Open : p \in {s, sock[s].sbuf, sock[s].rbuf}
        BY <3>1, <3>3, Zenon DEF MemInv
      <4>2. \A p \in page_bitmap \ Reserved : p \in InUse
        BY <2>2, <2>3, <4>1
      <4>3. QED
        BY <2>3, <3>2, <4>2
    <3>4. QED
      BY <3>2, <3>3
  <2>5. SharedOnlyByCopies
    <3>1. SUFFICES ASSUME broken = "no"
                   PROVE  /\ Open \cap UNION {Buffers(s) : s \in Open} = {}
                          /\ \A s \in Open : sock[s].sbuf = sock[s].rbuf => sock[s].sbuf = NULL
                          /\ \A s, t \in Open : s # t /\ Buffers(s) \cap Buffers(t) # {} =>
                               sock[s].port = sock[t].port /\ sock[s].bound /\ sock[t].bound
      BY DEF SharedOnlyByCopies
    <3>2. SharedInv
      BY <2>1, <3>1 DEF SocketInv
    <3>3. Open \cap UNION {Buffers(s) : s \in Open} = {}
      BY <3>2 DEF SharedInv, Buffers
    <3>4. \A s, t \in Open : Buffers(s) \cap Buffers(t) # {} => Sharing(sock[s], sock[t])
      BY DEF Buffers, Sharing
    <3>5. QED
      BY <3>2, <3>3, <3>4 DEF SharedInv
  <2>6. QED
    BY <2>4, <2>5 DEF MemoryExact
<1>2. QED
  BY <1>1, SocketInvTheorem, PTL

\* The flags of a socket tell one story and no connection is handed out twice,
\* for every number of sockets, peers and calls.
THEOREM ConnectionsAgreeTheorem == Spec => []ConnectionsAgree
<1>1. SocketInv => ConnectionsAgree
  <2>1. SUFFICES ASSUME SocketInv PROVE FlagsAgree /\ AcceptedOnce
    BY DEF ConnectionsAgree
  <2>2. AcceptedOnce
    BY <2>1 DEF SocketInv, AcceptInv, AcceptedOnce
  <2>3. FlagsAgree
    <3>1. ASSUME broken = "no", NEW s \in Open, sock[s].listening, NEW i \in DOMAIN sock[s].queue
          PROVE  sock[s].queue[i] \in Open /\ sock[sock[s].queue[i]].port = sock[s].port
      <4>1. sock[s].queue[i] \in InQueue(sock[s])
        BY <3>1 DEF InQueue, Range
      <4>2. QED
        BY <2>1, <3>1, <4>1 DEF SocketInv, QueueInv, WaitsAt
    <3>2. broken = "no" => FlagInv
      BY <2>1 DEF SocketInv
    <3>3. QED
      BY <3>1, <3>2 DEF FlagsAgree, FlagInv, TCP
  <2>4. QED
    BY <2>2, <2>3
<1>2. QED
  BY <1>1, SocketInvTheorem, PTL

\* The receive ring gives the bytes in order for every size of the buffer and
\* every length, and its arithmetic fails only after the buffer was replaced.
THEOREM RecvInOrderTheorem == Spec => []RecvInOrder
<1>1. SocketInv => RecvInOrder
  BY DEF SocketInv, RecvInv, Ring, RecvInOrder
<1>2. QED
  BY <1>1, SocketInvTheorem, PTL

=============================================================================
