---------------------------- MODULE EthernetCards ---------------------------
(***************************************************************************)
(* The descriptor rings of the four Ethernet drivers (i8254x.c, i219.c,    *)
(* intel_ethernet.c, rtl8168.c) and the cards on the other side of them.   *)
(*                                                                         *)
(* A card and its driver share a ring of N descriptors in each direction.  *)
(* The Intel cards own the descriptors from the head register to the one   *)
(* before the tail register, and none when the two are equal; the Realtek  *)
(* card owns the descriptors whose OWN bit is set and goes back to the     *)
(* first one after a descriptor with the EOR bit. The cards run on their   *)
(* own; a driver's calls and its handler run with interrupts off, so they  *)
(* interleave with the card only. The drivers are initialised once, at     *)
(* boot, while pages are plenty. (The search for a card counts buses in a  *)
(* byte up to 256 and ends when it finds one; that of intel_ethernet_init  *)
(* goes on even then, and the rings of that driver are those after its     *)
(* first round.)                                                           *)
(***************************************************************************)
EXTENDS Integers, Sequences, SequencesExt, FiniteSets, FiniteSetsExt

CONSTANTS
  N,          \* descriptors of a ring (32 in all four drivers)
  MaxFrames   \* bound: frames received, and frames given to net_send

ASSUME EthernetCardsAssumption == N \in Nat /\ N > 1 /\ MaxFrames \in Nat

VARIABLES
  card,            \* the card init_network found first
  rx,              \* receive descriptors: done (DD set, OWN clear), frame, good
  rdh, rdt,        \* RDH and RDT; for the Realtek card rdh is its own position
  rx_index,        \* rx_index, rx_cur
  tx,              \* transmit descriptors: busy (DD clear, OWN set), frame
  tdh, tdt,
  tx_index,        \* tx_index, tx_cur
  eor,             \* the rings whose last descriptor has its EOR bit
  enabled,         \* receiver and transmitter are on
  arrived,         \* history: frames the card has put into the ring
  taken,           \* history: frames the driver has taken out, in order
  queued, sent,    \* history: frames given to the card, frames on the wire
  ret,             \* what the last net_send said
  astray           \* the rings beyond whose end the card has gone

rxVars == <<rx, rdh, rdt, rx_index, arrived, taken>>
txVars == <<tx, tdh, tdt, tx_index, queued, sent, ret>>
cardVars   == <<card, rxVars, txVars, eor, enabled, astray>>

Slots   == 0 .. N - 1
EndSlot == N - 1
Succ(i) == (i + 1) % N

Fresh == [done |-> FALSE, frame |-> 0, good |-> TRUE]

\* Mutant: the last descriptors get no EOR bit.
EorAtInit_none == {}

EorAtInit == {"rx", "tx"}

(***************************************************************************)
(* What the init functions leave: every receive descriptor is the card's   *)
(* but, on the Intel cards, the last one; nothing is to be sent. busy: the *)
(* status of the transmit descriptors is 0, which means the same as during *)
(* a transmission.                                                         *)
(***************************************************************************)
EmptyRings(busy) ==
  /\ rx = [i \in Slots |-> Fresh]
  /\ rdh = 0 /\ rdt = EndSlot /\ rx_index = 0
  /\ tx = [i \in Slots |-> [busy |-> busy, frame |-> 0]]
  /\ tdh = 0 /\ tdt = 0 /\ tx_index = 0

i8254x_init == card = "i8254x" /\ EmptyRings(FALSE) /\ eor = {}

i219_init == card = "i219" /\ EmptyRings(FALSE) /\ eor = {}

intel_init_device == card = "intel" /\ EmptyRings(TRUE) /\ eor = {}

rtl8168_init == card = "rtl8168" /\ EmptyRings(FALSE) /\ eor = EorAtInit

\* One of the cards is found.
CardInit ==
  /\ i8254x_init \/ i219_init \/ intel_init_device \/ rtl8168_init
  /\ enabled = TRUE
  /\ arrived = 0 /\ taken = <<>> /\ queued = <<>> /\ sent = <<>>
  /\ ret = "none" /\ astray = {}

-----------------------------------------------------------------------------
(***************************************************************************)
(* The card. good: the frame's length is one the driver accepts (the cards *)
(* are told to store bad and long frames too).                             *)
(***************************************************************************)
CardMayFill ==
  /\ enabled
  /\ IF card = "rtl8168" THEN ~ rx[rdh].done ELSE rdh # rdt

\* After the last descriptor: back to the first, unless EOR has been lost.
Follow(ring, i) ==
  /\ astray' = IF card = "rtl8168" /\ i = EndSlot /\ ring \notin eor
                 THEN astray \cup {ring} ELSE astray

HwReceive(good) ==
  /\ astray = {} /\ arrived < MaxFrames
  /\ CardMayFill
  /\ arrived' = arrived + 1
  /\ rx' = [rx EXCEPT ![rdh] = [done |-> TRUE, frame |-> arrived + 1, good |-> good]]
  /\ rdh' = Succ(rdh)
  /\ Follow("rx", rdh)
  /\ UNCHANGED <<card, rdt, rx_index, taken, txVars, eor, enabled>>

CardMaySend ==
  /\ enabled
  /\ IF card = "rtl8168" THEN tx[tdh].busy ELSE tdh # tdt

HwSend ==
  /\ astray = {}
  /\ CardMaySend
  /\ sent' = Append(sent, tx[tdh].frame)
  /\ tx' = [tx EXCEPT ![tdh].busy = FALSE]
  /\ tdh' = Succ(tdh)
  /\ Follow("tx", tdh)
  /\ UNCHANGED <<card, rxVars, tdt, tx_index, queued, ret, eor, enabled>>

-----------------------------------------------------------------------------
(***************************************************************************)
(* Receiving. Take(start, k) empties k descriptors from start on.          *)
(***************************************************************************)
Covered(start, k) == {(start + j) % N : j \in 0 .. k - 1}

Take(start, k) ==
  /\ rx' = [i \in Slots |-> IF i \in Covered(start, k) THEN Fresh ELSE rx[i]]
  /\ taken' = taken \o [j \in 1 .. k |-> rx[(start + j - 1) % N].frame]

\* Descriptors from start on that the card has finished, one after the other.
Finished(start) == Max({k \in 0 .. N : \A i \in Covered(start, k) : rx[i].done})

\* As many of them as have a good frame.
FinishedGood(start) ==
  Max({k \in 0 .. Finished(start) : \A i \in Covered(start, k) : rx[i].good})

\* The driver writes both registers; the head it writes is not the card's.
i8254x_poll ==
  LET next == Succ(rdt) IN
  /\ card = "i8254x"
  /\ rx[next].done /\ rx[next].good
  /\ Take(next, 1)
  /\ rdh' = rdt /\ rdt' = next
  /\ UNCHANGED <<rx_index, eor>>

\* i219_poll k times. A frame of a length it does not accept stays where it is.
i219_poll(k) ==
  /\ card = "i219"
  /\ k > 0
  /\ Take(rx_index, k)
  /\ rx_index' = (rx_index + k) % N
  /\ rdt' = rx_index'
  /\ UNCHANGED <<rdh, eor>>

\* Mutant: the tail register is set to the descriptor to be read next.
NewTail_next(start, k) == (start + k) % N

NewTail(start, k) == (start + k - 1) % N

\* intel_ethernet_receive k times. Long frames are cut.
intel_ethernet_receive(k) ==
  LET start == Succ(rdt) IN
  /\ card = "intel"
  /\ k > 0
  /\ Take(start, k)
  /\ rdt' = NewTail(start, k)
  /\ UNCHANGED <<rdh, rx_index, eor>>

\* Frames of a length it does not accept are passed over until a good one, or
\* a descriptor the card owns, is met. A descriptor given back has OWN alone.
rtl8168_poll ==
  LET finished == Finished(rx_index)
      bad      == Max({k \in 0 .. finished : \A i \in Covered(rx_index, k) : ~ rx[i].good})
      k        == IF bad < finished THEN bad + 1 ELSE bad
  IN
  /\ card = "rtl8168"
  /\ k > 0
  /\ Take(rx_index, k)
  /\ rx_index' = (rx_index + k) % N
  /\ eor' = IF EndSlot \in Covered(rx_index, k) THEN eor \ {"rx"} ELSE eor
  /\ UNCHANGED <<rdh, rdt>>

\* net_receive of the card that was found.
net_receive ==
  /\ astray = {}
  /\ \/ i8254x_poll
     \/ FinishedGood(rx_index) > 0 /\ i219_poll(1)
     \/ Finished(Succ(rdt)) > 0 /\ intel_ethernet_receive(1)
     \/ rtl8168_poll
  /\ UNCHANGED <<card, txVars, enabled, astray, arrived>>

\* The handlers of two drivers read all frames into a buffer of their own and
\* drop them; those of the other two leave the rings alone.
i219_interrupt_handler == i219_poll(FinishedGood(rx_index))

intel_ethernet_interrupt_handler == intel_ethernet_receive(Finished(Succ(rdt)))

interrupt_handler ==
  /\ astray = {}
  /\ i219_interrupt_handler \/ intel_ethernet_interrupt_handler
  /\ UNCHANGED <<card, txVars, enabled, astray, arrived>>

-----------------------------------------------------------------------------
(***************************************************************************)
(* Sending a packet that is not too long: the descriptor, the tail.        *)
(***************************************************************************)
\* Mutant: the tail register gets the index of the packet's own descriptor.
Tail_own(i) == i

TailAfter(i) == Succ(i)

Enqueue ==
  LET frame == Len(queued) + 1 IN
  /\ tx' = [tx EXCEPT ![tx_index] = [busy |-> TRUE, frame |-> frame]]
  /\ queued' = Append(queued, frame)
  /\ tx_index' = Succ(tx_index)
  /\ tdt' = TailAfter(tx_index)
  /\ ret' = "ok"

Refuse(says) == ret' = says /\ UNCHANGED <<tx, queued, tx_index, tdt>>

\* Mutant: the driver does not wait for the descriptor.
i8254x_transmit_nowait == card = "i8254x" /\ Enqueue /\ UNCHANGED eor

\* The driver spins until the descriptor is done: the call is not possible
\* before.
i8254x_transmit ==
  /\ card = "i8254x"
  /\ ~ tx[tx_index].busy
  /\ Enqueue
  /\ UNCHANGED eor

\* The test of the status byte is the other way round: 0 is a busy descriptor.
i219_transmit ==
  /\ card = "i219"
  /\ IF tx[tx_index].busy THEN Enqueue ELSE Refuse("fail")
  /\ UNCHANGED eor

\* tx_clean_index is set to 0 and never again.
intel_ethernet_transmit ==
  /\ card = "intel"
  /\ IF Succ(tx_index) = 0 THEN Refuse("fail") ELSE Enqueue
  /\ UNCHANGED eor

\* When the wait for the descriptor times out the packet is dropped, and
\* rtl8168_send_packet reports success.
rtl8168_send_packet ==
  /\ card = "rtl8168"
  /\ IF tx[tx_index].busy
       THEN Refuse("ok") /\ UNCHANGED eor
       ELSE /\ Enqueue
            /\ eor' = IF tx_index = EndSlot THEN eor \ {"tx"} ELSE eor

net_send ==
  /\ astray = {} /\ Len(queued) < MaxFrames
  /\ \/ i8254x_transmit
     \/ i219_transmit
     \/ intel_ethernet_transmit
     \/ rtl8168_send_packet
  /\ UNCHANGED <<card, rxVars, tdh, sent, enabled, astray>>

rtl8168_power_down ==
  /\ card = "rtl8168"
  /\ enabled' = FALSE
  /\ UNCHANGED <<card, rxVars, txVars, eor, astray>>

rtl8168_power_up ==
  /\ card = "rtl8168"
  /\ enabled' = TRUE
  /\ UNCHANGED <<card, rxVars, txVars, eor, astray>>

CardNext ==
  \/ \E good \in BOOLEAN : HwReceive(good)
  \/ HwSend
  \/ net_receive
  \/ interrupt_handler
  \/ net_send
  \/ rtl8168_power_down
  \/ rtl8168_power_up

\* The card sends what it is given while it is on, and somebody goes on
\* calling net_receive.
Fairness == WF_cardVars(HwSend) /\ WF_cardVars(net_receive)

CardSpec == CardInit /\ [][CardNext]_cardVars /\ Fairness

-----------------------------------------------------------------------------
(***************************************************************************)
(* Properties                                                              *)
(***************************************************************************)

\* Whatever the card and the driver do between each other's steps, the driver
\* takes out of the ring every frame the card has put there before it takes a
\* later one, and none twice: no descriptor is read before the card has filled
\* it or filled again before it was read.
\* The same for sending: what is on the wire is what was given to the card, in
\* that order, none lost and none overwritten in its buffer.
FramesInOrder ==
  /\ taken = [i \in 1 .. Len(taken) |-> i]
  /\ IsPrefix(sent, queued)

\* The receive rings of intel_ethernet.c and rtl8168.c never come to a stand:
\* the card has a descriptor to fill or the driver one to read. (Those of
\* i219.c and i8254x.c do: the first when the driver has read all there was,
\* because it sets the tail to the card's head; the second because it sets the
\* card's head back.) And the Realtek card leaves a ring only where the driver
\* has used the last descriptor before: giving it back, or to the card, clears
\* its EOR bit.
RingsKeepGoing ==
  /\ (astray = {} /\ enabled) =>
       /\ card = "intel"   => rdh # rdt \/ rx[Succ(rdt)].done
       /\ card = "rtl8168" => ~ rx[rdh].done \/ rx[rx_index].done
  /\ "rx" \in astray => Len(taken) >= N
  /\ "tx" \in astray => Len(queued) >= N

\* Every frame that intel_ethernet.c's or rtl8168.c's card has stored is taken
\* out of the ring some day, as long as the card keeps to its ring.
StoredIsTaken ==
  \A k \in 1 .. MaxFrames :
    (card \in {"intel", "rtl8168"} /\ arrived >= k) ~> (Len(taken) >= k \/ astray # {})

\* i8254x_transmit fills the whole ring: the tail is at the head again, the
\* card sees nothing to do, and the next call waits for ever.
RingOverfilled == card = "i8254x" /\ tdh = tdt /\ \A i \in Slots : tx[i].busy

\* Every frame a driver has queued is sent some day, unless all N descriptors
\* of i8254x.c were queued before the card took the first one, the Realtek card
\* was switched off, or has left its ring.
QueuedIsSent ==
  \A k \in 1 .. MaxFrames :
    (Len(queued) >= k) ~> (Len(sent) >= k \/ RingOverfilled \/ ~ enabled \/ astray # {})

=============================================================================
