--------------------------------- MODULE Ip ---------------------------------
(***************************************************************************)
(* IPv4 with what is under it and on it: net/ip.c, arp.c, icmp.c and       *)
(* ethernet.c.                                                             *)
(*                                                                         *)
(* A packet is sent by a process (icmp_send_echo_request) in two steps,    *)
(* because arp_resolve returns a pointer into the ARP table, which the     *)
(* interrupt that brings a frame may change before the address is copied.  *)
(* Frames are handled in the interrupt, their answers included, without    *)
(* interruption. An address is a host; the hardware address learnt with a  *)
(* frame is known by the host it was learnt for.                           *)
(***************************************************************************)
EXTENDS Integers, FiniteSets, FiniteSetsExt

CONSTANTS
  Host,          \* the other machines
  ArpSlots,      \* 32: entries of the ARP table
  HeapPages,     \* pages kmalloc can give
  AllOnes,       \* 2^16 - 1: sums of 16-bit words are in 0 .. AllOnes
  MaxFrames,     \* bound: frames that arrive
  MaxCalls,      \* bound: calls of ip_send_packet
  MaxTicks       \* bound: ticks of the timer

ASSUME IpAssumption ==
  {ArpSlots, HeapPages, AllOnes} \subseteq Nat \ {0} /\ {MaxFrames, MaxCalls, MaxTicks} \subseteq Nat

VARIABLES
  arp_cache,     \* the table
  driver_send,   \* ethernet_init has found a card
  used,          \* pages taken from kmalloc
  others,        \* of these, the pages of the rest of the kernel
  sending,       \* the call of a process, between its two steps
  stats,         \* ip_stats
  frames,        \* history: frames given to ip_input
  calls,         \* history: calls of ip_send_packet that have returned
  evicted,       \* history: a valid entry was overwritten since arp_resolve
  strayed,       \* history: a frame went to another host without that
  ticks

ipVars == <<arp_cache, driver_send, used, others, sending, stats, frames, calls,
            evicted, strayed, ticks>>

Slots == 1 .. ArpSlots
Idle  == [dst |-> "none", slot |-> 0]

IpInit ==
  /\ arp_cache = [i \in Slots |-> [valid |-> FALSE, ip |-> "none", last_used |-> 0]]
  /\ driver_send = FALSE
  /\ used = 0 /\ others = 0
  /\ sending = Idle
  /\ stats = [in_packets |-> 0, in_hdr_errors |-> 0, in_addr_errors |-> 0,
              in_unknown_protos |-> 0, in_discards |-> 0, in_delivers |-> 0,
              out_requests |-> 0, out_discards |-> 0, out_no_routes |-> 0]
  /\ frames = 0 /\ calls = 0 /\ evicted = FALSE /\ strayed = FALSE /\ ticks = 0

Counted(st, which) == [st EXCEPT ![which] = @ + 1]

(***************************************************************************)
(* The ARP table                                                           *)
(***************************************************************************)
ArpHits(cache, ip) == {i \in Slots : cache[i].valid /\ cache[i].ip = ip}

\* arp_resolve: the first entry, marked as used now; 0 after a miss, for which a
\* request is broadcast.
arp_resolve(cache, ip) ==
  IF ArpHits(cache, ip) = {} THEN [slot |-> 0, cache |-> cache]
  ELSE LET i == Min(ArpHits(cache, ip))
       IN  [slot |-> i, cache |-> [cache EXCEPT ![i].last_used = ticks]]

\* arp_cache_add is not in the tree. It keeps one entry for an address; a new
\* one takes a free entry, or one of those not used for the longest time.
Places(cache, ip) ==
  LET same  == {i \in Slots : cache[i].valid /\ cache[i].ip = ip}
      empty == {i \in Slots : ~ cache[i].valid}
  IN  IF same # {} THEN same
      ELSE IF empty # {} THEN {Min(empty)}
      ELSE {i \in Slots : \A j \in Slots : cache[i].last_used <= cache[j].last_used}

Learnt(cache, ip, i) == [cache EXCEPT ![i] = [valid |-> TRUE, ip |-> ip, last_used |-> ticks]]

(***************************************************************************)
(* ip_send_packet up to arp_resolve, and from there. kmalloc fails when no *)
(* page is left. held: the pages the caller has for the packet.            *)
(***************************************************************************)
\* Mutant: a packet that cannot be addressed is not freed.
AfterMiss_kept(n) == n + 1

AfterMiss(n) == n

\* What is left of a call: pages in use, the table, the counters, and the slot
\* when the packet can be sent (0 when it cannot).
SendBegin(n, cache, st, dst) ==
  LET r == arp_resolve(cache, dst) IN
  IF n >= HeapPages THEN [used |-> n, cache |-> cache, stats |-> Counted(st, "out_discards"), slot |-> 0]
  ELSE IF r.slot = 0
    THEN [used |-> AfterMiss(n), cache |-> cache, stats |-> Counted(st, "out_no_routes"), slot |-> 0]
  ELSE [used |-> n + 1, cache |-> r.cache, stats |-> st, slot |-> r.slot]

\* The frame is given to the card, which takes it or not; the packet is freed.
AfterFrame(st, ok) == Counted(st, IF ok THEN "out_requests" ELSE "out_discards")

\* The whole of ip_send_packet where nothing comes between.
ip_send_packet(n, cache, st, dst, ok) ==
  LET b == SendBegin(n, cache, st, dst)
  IN  IF b.slot = 0 THEN b
      ELSE [b EXCEPT !.used = @ - 1, !.stats = AfterFrame(@, ok)]

\* The message is put into memory of its own, which is freed after
\* ip_send_packet. Without memory nothing is sent.
icmp_send_echo_reply(n, cache, st, dst, ok) ==
  IF n >= HeapPages THEN [used |-> n, cache |-> cache, stats |-> st, slot |-> 0]
  ELSE LET r == ip_send_packet(n + 1, cache, st, dst, ok)
       IN  [r EXCEPT !.used = @ - 1]

icmp_send_dest_unreachable(n, cache, st, dst, ok) == icmp_send_echo_reply(n, cache, st, dst, ok)

\* Did such a call get as far as ip_send_packet?
Called(n) == IF n >= HeapPages THEN 0 ELSE 1

-----------------------------------------------------------------------------
ethernet_init ==
  /\ driver_send' = TRUE
  /\ UNCHANGED <<arp_cache, used, others, sending, stats, frames, calls, evicted, strayed, ticks>>

\* The rest of the kernel takes a page, or returns one; the timer ticks.
Elsewhere ==
  /\ \/ /\ used < HeapPages
        /\ used' = used + 1 /\ others' = others + 1 /\ UNCHANGED ticks
     \/ /\ others > 0
        /\ used' = used - 1 /\ others' = others - 1 /\ UNCHANGED ticks
     \/ /\ ticks < MaxTicks
        /\ ticks' = ticks + 1 /\ UNCHANGED <<used, others>>
  /\ UNCHANGED <<arp_cache, driver_send, sending, stats, frames, calls, evicted, strayed>>

\* icmp_send_echo_request of a process, up to the pointer arp_resolve returns.
send_echo_begin(dst) ==
  LET b == SendBegin(used + 1, arp_cache, stats, dst) IN
  /\ sending = Idle /\ calls < MaxCalls /\ used < HeapPages
  /\ arp_cache' = b.cache /\ stats' = b.stats
  /\ evicted' = FALSE
  /\ IF b.slot = 0
       THEN used' = b.used - 1 /\ calls' = calls + 1 /\ UNCHANGED sending
       ELSE used' = b.used /\ sending' = [dst |-> dst, slot |-> b.slot] /\ UNCHANGED calls
  /\ UNCHANGED <<driver_send, others, frames, strayed, ticks>>

\* The address is copied out of the table, the frame is sent, both pages are
\* freed.
send_echo_end(ok) ==
  /\ sending # Idle /\ (ok => driver_send)
  /\ strayed' = (strayed \/ (~ evicted /\ arp_cache[sending.slot].ip # sending.dst))
  /\ stats' = AfterFrame(stats, ok)
  /\ used' = used - 2 /\ calls' = calls + 1
  /\ sending' = Idle
  /\ UNCHANGED <<arp_cache, driver_send, others, frames, evicted, ticks>>

\* arp_handle_packet: a reply to this machine. (A request is answered by
\* arp_reply, which is not in the tree and changes nothing here.)
arp_handle_packet(src) ==
  /\ \E i \in Places(arp_cache, src) :
       /\ arp_cache' = Learnt(arp_cache, src, i)
       /\ evicted' = (evicted \/ (arp_cache[i].valid /\ arp_cache[i].ip # src))
  /\ UNCHANGED <<driver_send, used, others, sending, stats, frames, calls, strayed, ticks>>

(***************************************************************************)
(* ip_input. What is wrong with a frame, if anything: it is short, or one  *)
(* of the tests of ip_validate_header fails.                               *)
(***************************************************************************)
Flaws == {"none", "short", "version", "ihl", "length", "checksum", "ttl", "source"}

ip_validate_header(st, flaw) ==
  CASE flaw = "ttl"    -> Counted(st, "in_discards")
    [] flaw = "source" -> Counted(st, "in_addr_errors")
    [] OTHER           -> Counted(st, "in_hdr_errors")

input_flawed(flaw) ==
  /\ flaw # "none" /\ frames < MaxFrames
  /\ frames' = frames + 1
  /\ stats' = ip_validate_header(stats, flaw)
  /\ UNCHANGED <<arp_cache, driver_send, used, others, sending, calls, evicted, strayed, ticks>>

ForUs(dst) == dst \in {"local", "broadcast", "multicast"}

\* icmp_handle_packet clears the checksum before it adds up the message, and
\* wants the complement of the sum to be 0.
ChecksumAccepted(sum) == AllOnes - sum = 0

InputStats(st, dst, proto) ==
  LET in    == Counted(st, "in_packets")
      known == IF proto = "unknown" THEN Counted(in, "in_unknown_protos") ELSE in
  IN  IF ForUs(dst) THEN Counted(known, "in_delivers") ELSE Counted(in, "in_discards")

\* icmp_handle_packet, with what it leaves: an echo request is answered.
icmp_handle_packet(n, cache, st, src, type, sum, ok) ==
  IF ChecksumAccepted(sum) /\ type = "echo" THEN icmp_send_echo_reply(n, cache, st, src, ok)
  ELSE [used |-> n, cache |-> cache, stats |-> st, slot |-> 0]

Answers(dst, proto, sum) ==
  ForUs(dst) /\ (proto = "unknown" \/ (proto = "echo" /\ ChecksumAccepted(sum)))

\* The sender's address is learnt first. A datagram goes to udp_handle_packet
\* (module Udp), a TCP segment nowhere; a protocol nobody knows is reported.
ip_input(src, dst, proto, sum, ok) ==
  /\ frames < MaxFrames /\ (ok => driver_send /\ Answers(dst, proto, sum))
  /\ frames' = frames + 1
  /\ \E i \in Places(arp_cache, src) :
       LET learnt == Learnt(arp_cache, src, i)
           st     == InputStats(stats, dst, proto)
           quiet  == [used |-> used, cache |-> learnt, stats |-> st, slot |-> 0]
           r      == CASE ForUs(dst) /\ proto \in {"echo", "icmp"} ->
                            icmp_handle_packet(used, learnt, st, src, proto, sum, ok)
                       [] ForUs(dst) /\ proto = "unknown" ->
                            icmp_send_dest_unreachable(used, learnt, st, src, ok)
                       [] OTHER -> quiet
       IN  /\ arp_cache' = r.cache /\ used' = r.used /\ stats' = r.stats
           /\ evicted' = (evicted \/ (arp_cache[i].valid /\ arp_cache[i].ip # src))
           /\ calls' = calls + (IF Answers(dst, proto, sum) THEN Called(used) ELSE 0)
  /\ UNCHANGED <<driver_send, others, sending, strayed, ticks>>

IpNext ==
  \/ ethernet_init
  \/ Elsewhere
  \/ \E dst \in Host : send_echo_begin(dst)
  \/ \E ok \in BOOLEAN : send_echo_end(ok)
  \/ \E src \in Host : arp_handle_packet(src)
  \/ \E flaw \in Flaws : input_flawed(flaw)
  \/ \E src \in Host, dst \in {"local", "broadcast", "other"},
        proto \in {"echo", "icmp", "UDP", "TCP", "unknown"}, sum \in 0 .. AllOnes, ok \in BOOLEAN :
       ip_input(src, dst, proto, sum, ok)

IpSpec == IpInit /\ [][IpNext]_ipVars

-----------------------------------------------------------------------------
(***************************************************************************)
(* Properties                                                              *)
(***************************************************************************)

\* Whatever fails, at whatever moment a frame comes in and whatever it makes the
\* handler send: the pages in use are those of the rest of the kernel and the
\* two of the packet a process is sending. Every frame is counted once: as an
\* error, as discarded or as delivered; and every call of ip_send_packet once:
\* as sent, discarded or without a route. A packet goes to the host it is for,
\* although the ARP table may change between the look-up and the copying of the
\* address, unless the table has meanwhile lost an entry to a new address.
PacketsAccounted ==
  /\ used = others + (IF sending = Idle THEN 0 ELSE 2)
  /\ frames = stats.in_hdr_errors + stats.in_addr_errors + stats.in_discards + stats.in_delivers
  /\ calls = stats.out_requests + stats.out_discards + stats.out_no_routes
  /\ ~ strayed

=============================================================================
