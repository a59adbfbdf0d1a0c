----------------------------- MODULE DriverProofs ---------------------------
(***************************************************************************)
(* Theorems about the drivers. First the key ring and the line terminal,   *)
(* for buffers of every size, every set of characters and every point at   *)
(* which the keyboard interrupt may come. Then the rings of the Ethernet   *)
(* drivers, for rings of every size and every interleaving of driver and   *)
(* card.                                                                   *)
(***************************************************************************)
EXTENDS Terminal, EthernetCards, SequenceTheorems, WellFoundedInduction, TLAPS

-----------------------------------------------------------------------------
(***************************************************************************)
(* Going round the ring                                                    *)
(***************************************************************************)
\* The k-th place of the ring from i on.
LEMMA PlaceInRing ==
  \A i \in Index, k \in 1 .. KEYBOARD_BUFFER_SIZE :
    (i + k - 1) % KEYBOARD_BUFFER_SIZE =
      IF i + k - 1 < KEYBOARD_BUFFER_SIZE THEN i + k - 1
      ELSE i + k - 1 - KEYBOARD_BUFFER_SIZE
BY KeyboardAssumption DEF Index

LEMMA AdvanceInRing ==
  \A i \in Index :
    /\ Advance(i) = IF i + 1 = KEYBOARD_BUFFER_SIZE THEN 0 ELSE i + 1
    /\ Advance(i) \in Index
BY KeyboardAssumption DEF Advance, Index

(***************************************************************************)
(* The ring, in either build. With a load and a store the increment of a   *)
(* key that comes between them is lost, so that the count only bounds what *)
(* is stored from below. Until the first time round, the places written    *)
(* are those below head, and the count keeps the reader below head; after  *)
(* it, every place has been written.                                       *)
(***************************************************************************)
RingType ==
  /\ build \in {"one_instruction", "load_and_store"}
  /\ keyboard_buffer \in [Index -> Char \cup {NUL}]
  /\ keyboard_buffer_head \in Index
  /\ keyboard_buffer_tail \in Index
  /\ keyboard_buffer_count \in 0 .. KEYBOARD_BUFFER_SIZE
  /\ rpc \in {"check", "read", "advance", "decrement", "load", "store"}
  /\ c \in Char \cup {NUL}
  /\ loaded \in 0 .. KEYBOARD_BUFFER_SIZE
  /\ returned \in Char \cup {NUL}

\* What the count promises from tail on: the reader that has moved tail has
\* not lowered the count yet.
Ahead ==
  IF rpc = "store" THEN loaded - 1
  ELSE IF rpc \in {"decrement", "load"} THEN keyboard_buffer_count - 1
  ELSE keyboard_buffer_count

AllWritten == \A i \in Index : keyboard_buffer[i] \in Char

FirstRound ==
  /\ \A i \in Index : i < keyboard_buffer_head => keyboard_buffer[i] \in Char
  /\ keyboard_buffer_tail + Ahead <= keyboard_buffer_head

ReaderInv ==
  /\ rpc # "check" => keyboard_buffer_count >= 1
  /\ rpc = "store" => loaded \in 1 .. keyboard_buffer_count
  /\ rpc \notin {"check", "read"} => c \in Char

RingInv == RingType /\ ReaderInv /\ (AllWritten \/ FirstRound)

LEMMA RingInvInit == KeyboardInit => RingInv
BY KeyboardAssumption
   DEF KeyboardInit, RingInv, RingType, ReaderInv, FirstRound, Ahead, Index

LEMMA RingInvHandler ==
  ASSUME RingInv, NEW sc \in ScanCode, keyboard_handler(sc)
  PROVE  RingInv'
<1>0. sc \in Char
  BY DEF keyboard_handler, scancode_to_ascii
<1>1. CASE ~ HasRoom(keyboard_buffer_count)
  BY <1>1 DEF RingInv, RingType, ReaderInv, AllWritten, FirstRound, Ahead,
     keyboard_handler, reader
<1>2. CASE HasRoom(keyboard_buffer_count)
  <2>1. /\ keyboard_buffer' = [keyboard_buffer EXCEPT ![keyboard_buffer_head] = sc]
        /\ keyboard_buffer_head' = Advance(keyboard_buffer_head)
        /\ keyboard_buffer_count' = keyboard_buffer_count + 1
        /\ overrun' = FALSE
        /\ UNCHANGED <<build, keyboard_buffer_tail, rpc, c, loaded, returned>>
    BY <1>0, <1>2 DEF keyboard_handler, scancode_to_ascii, reader
  <2>2. RingType'
    BY <1>0, <1>2, <2>1, AdvanceInRing, KeyboardAssumption DEF RingInv, RingType, HasRoom
  <2>3. ReaderInv'
    BY <2>1 DEF RingInv, RingType, ReaderInv
  <2>4. CASE AllWritten
    BY <1>0, <2>1, <2>4, <2>2, <2>3 DEF RingInv, RingType, AllWritten
  <2>5. CASE FirstRound /\ keyboard_buffer_head = KEYBOARD_BUFFER_SIZE - 1
    <3>1. AllWritten'
      BY <1>0, <2>1, <2>5, KeyboardAssumption DEF RingInv, RingType, AllWritten, FirstRound, Index
    <3>2. QED
      BY <2>2, <2>3, <3>1 DEF RingInv
  <2>6. CASE FirstRound /\ keyboard_buffer_head # KEYBOARD_BUFFER_SIZE - 1
    <3>1. keyboard_buffer_head' = keyboard_buffer_head + 1
      BY <2>1, <2>6, AdvanceInRing, KeyboardAssumption DEF RingInv, RingType, Index
    <3>2. Ahead' = Ahead + 1 \/ Ahead' = Ahead
      BY <2>1 DEF RingInv, RingType, Ahead
    <3>3. Ahead \in Int
      BY DEF RingInv, RingType, Ahead
    <3>4. (keyboard_buffer_tail + Ahead <= keyboard_buffer_head)'
      BY <2>1, <2>6, <3>1, <3>2, <3>3 DEF RingInv, RingType, FirstRound, Index
    <3>5. (\A i \in Index : i < keyboard_buffer_head => keyboard_buffer[i] \in Char)'
      BY <1>0, <2>1, <2>6, <3>1 DEF RingInv, RingType, FirstRound, Index
    <3>6. QED
      BY <2>2, <2>3, <3>4, <3>5 DEF RingInv, FirstRound
  <2>7. QED
    BY <2>4, <2>5, <2>6 DEF RingInv
<1>3. QED
  BY <1>1, <1>2

LEMMA RingInvGet ==
  ASSUME RingInv, keyboard_get_char
  PROVE  RingInv'
<1>0. /\ RingType /\ ReaderInv /\ (AllWritten \/ FirstRound)
      /\ keyboard_buffer_head \in 0 .. KEYBOARD_BUFFER_SIZE - 1
      /\ keyboard_buffer_tail \in 0 .. KEYBOARD_BUFFER_SIZE - 1
      /\ KEYBOARD_BUFFER_SIZE \in Nat \ {0}
  BY KeyboardAssumption DEF RingInv, RingType, Index
<1>1. CASE GetCheck
  BY <1>0, <1>1 DEF RingInv, RingType, ReaderInv, AllWritten, FirstRound, Ahead, GetCheck, ring
<1>2. CASE GetRead
  <2>1. keyboard_buffer[keyboard_buffer_tail] \in Char
    BY <1>0, <1>2 DEF RingType, ReaderInv, AllWritten, FirstRound, Ahead, GetRead
  <2>2. QED
    BY <1>0, <1>2, <2>1
       DEF RingInv, RingType, ReaderInv, AllWritten, FirstRound, Ahead, GetRead, ring
<1>3. CASE GetAdvance
  <2>1. /\ RingType' /\ ReaderInv'
    BY <1>0, <1>3, AdvanceInRing DEF RingType, ReaderInv, GetAdvance
  <2>2. CASE AllWritten
    BY <1>3, <2>1, <2>2 DEF RingInv, AllWritten, GetAdvance
  <2>3. CASE FirstRound
    <3>1. keyboard_buffer_tail < keyboard_buffer_head
      BY <1>0, <1>3, <2>3 DEF RingType, ReaderInv, FirstRound, Ahead, GetAdvance
    <3>2. keyboard_buffer_tail' = keyboard_buffer_tail + 1
      BY <1>0, <1>3, <3>1, AdvanceInRing DEF GetAdvance, Index
    <3>3. FirstRound'
      BY <1>0, <1>3, <2>3, <3>2 DEF RingType, FirstRound, Ahead, GetAdvance
    <3>4. QED
      BY <2>1, <3>3 DEF RingInv
  <2>4. QED
    BY <1>0, <2>2, <2>3
<1>4. CASE GetDecrement
  BY <1>0, <1>4 DEF RingInv, RingType, ReaderInv, AllWritten, FirstRound, Ahead, GetDecrement
<1>5. CASE GetLoad
  BY <1>0, <1>5 DEF RingInv, RingType, ReaderInv, AllWritten, FirstRound, Ahead, GetLoad, ring
<1>6. CASE GetStore
  BY <1>0, <1>6 DEF RingInv, RingType, ReaderInv, AllWritten, FirstRound, Ahead, GetStore
<1>7. QED
  BY <1>1, <1>2, <1>3, <1>4, <1>5, <1>6 DEF keyboard_get_char

(***************************************************************************)
(* The ring as a queue, where the decrement is one instruction: head is    *)
(* where tail and the count say, and the character in c still has the      *)
(* place that the queue begins with.                                       *)
(***************************************************************************)
QueueInv ==
  OneInstruction =>
    /\ rpc \notin {"load", "store"}
    /\ rpc # "decrement" =>
         keyboard_buffer_head =
           IF keyboard_buffer_tail + keyboard_buffer_count < KEYBOARD_BUFFER_SIZE
             THEN keyboard_buffer_tail + keyboard_buffer_count
             ELSE keyboard_buffer_tail + keyboard_buffer_count - KEYBOARD_BUFFER_SIZE
    /\ rpc = "decrement" =>
         keyboard_buffer_head =
           IF keyboard_buffer_tail + keyboard_buffer_count - 1 < KEYBOARD_BUFFER_SIZE
             THEN keyboard_buffer_tail + keyboard_buffer_count - 1
             ELSE keyboard_buffer_tail + keyboard_buffer_count - 1 - KEYBOARD_BUFFER_SIZE
    /\ rpc = "advance" => c = keyboard_buffer[keyboard_buffer_tail]

LEMMA QueueInvInit == KeyboardInit => QueueInv
BY KeyboardAssumption DEF KeyboardInit, QueueInv

LEMMA QueueInvHandler ==
  ASSUME RingInv, QueueInv, NEW sc \in ScanCode, keyboard_handler(sc)
  PROVE  QueueInv'
<1>0. /\ keyboard_buffer_head \in 0 .. KEYBOARD_BUFFER_SIZE - 1
      /\ keyboard_buffer_tail \in 0 .. KEYBOARD_BUFFER_SIZE - 1
      /\ keyboard_buffer_count \in 0 .. KEYBOARD_BUFFER_SIZE
      /\ KEYBOARD_BUFFER_SIZE \in Nat \ {0}
      /\ keyboard_buffer \in [Index -> Char \cup {NUL}]
      /\ rpc # "check" => keyboard_buffer_count >= 1
  BY KeyboardAssumption DEF RingInv, RingType, ReaderInv, Index
<1>1. CASE ~ HasRoom(keyboard_buffer_count)
  BY <1>1 DEF QueueInv, OneInstruction, keyboard_handler, reader
<1>2. CASE HasRoom(keyboard_buffer_count)
  <2>1. /\ keyboard_buffer_count < KEYBOARD_BUFFER_SIZE
        /\ keyboard_buffer' = [keyboard_buffer EXCEPT ![keyboard_buffer_head] = scancode_to_ascii(sc)]
        /\ keyboard_buffer_head' = Advance(keyboard_buffer_head)
        /\ keyboard_buffer_count' = keyboard_buffer_count + 1
        /\ UNCHANGED <<build, keyboard_buffer_tail, rpc, c>>
    BY <1>2 DEF keyboard_handler, HasRoom, reader
  <2>2. keyboard_buffer_head' = IF keyboard_buffer_head + 1 = KEYBOARD_BUFFER_SIZE
                                  THEN 0 ELSE keyboard_buffer_head + 1
    BY <1>0, <2>1, AdvanceInRing DEF Index
  <2>3. OneInstruction /\ rpc = "advance" =>
          /\ keyboard_buffer_head # keyboard_buffer_tail
          /\ keyboard_buffer'[keyboard_buffer_tail] = keyboard_buffer[keyboard_buffer_tail]
    BY <1>0, <2>1 DEF QueueInv, Index
  <2>4. QED
    BY <1>0, <2>1, <2>2, <2>3 DEF QueueInv, OneInstruction
<1>3. QED
  BY <1>1, <1>2

LEMMA QueueInvGet ==
  ASSUME RingInv, QueueInv, keyboard_get_char
  PROVE  QueueInv'
<1>0. /\ keyboard_buffer_head \in 0 .. KEYBOARD_BUFFER_SIZE - 1
      /\ keyboard_buffer_tail \in 0 .. KEYBOARD_BUFFER_SIZE - 1
      /\ keyboard_buffer_count \in 0 .. KEYBOARD_BUFFER_SIZE
      /\ KEYBOARD_BUFFER_SIZE \in Nat \ {0}
      /\ rpc # "check" => keyboard_buffer_count >= 1
  BY KeyboardAssumption DEF RingInv, RingType, ReaderInv, Index
<1>1. CASE GetCheck
  BY <1>1 DEF QueueInv, OneInstruction, GetCheck, ring
<1>2. CASE GetRead
  BY <1>2 DEF QueueInv, OneInstruction, GetRead, ring
<1>3. CASE GetAdvance
  <2>1. keyboard_buffer_tail' = IF keyboard_buffer_tail + 1 = KEYBOARD_BUFFER_SIZE
                                  THEN 0 ELSE keyboard_buffer_tail + 1
    BY <1>0, <1>3, AdvanceInRing DEF GetAdvance, Index
  <2>2. QED
    BY <1>0, <1>3, <2>1 DEF QueueInv, OneInstruction, GetAdvance
<1>4. CASE GetDecrement
  BY <1>0, <1>4 DEF QueueInv, OneInstruction, GetDecrement
<1>5. CASE GetLoad
  BY <1>5 DEF QueueInv, OneInstruction, GetLoad, ring
<1>6. CASE GetStore
  BY <1>6 DEF QueueInv, OneInstruction, GetStore
<1>7. QED
  BY <1>1, <1>2, <1>3, <1>4, <1>5, <1>6 DEF keyboard_get_char

(***************************************************************************)
(* Every access of the handler and the reader is a step of the bounded     *)
(* FIFO, or changes nothing of it.                                         *)
(***************************************************************************)
LEMMA FrontKey ==
  ASSUME NEW n \in Nat, NEW e, NEW s, s = [k \in 1 .. n |-> s[k]]
  PROVE  /\ Len(s) = n
         /\ <<e>> \o s = [k \in 1 .. n + 1 |-> IF k = 1 THEN e ELSE s[k - 1]]
         /\ Head(<<e>> \o s) = e
         /\ Tail(<<e>> \o s) = s
         /\ Len(<<e>> \o s) = n + 1
         /\ <<e>> \o s # <<>>
         /\ s = <<>> <=> n = 0
         /\ Append(s, e) = [k \in 1 .. n + 1 |-> IF k = n + 1 THEN e ELSE s[k]]
<1>1. Len(s) = n
  OBVIOUS
<1>2. <<e>> \o s = [k \in 1 .. n + 1 |-> IF k = 1 THEN e ELSE s[k - 1]]
  BY <1>1
<1>3. Append(s, e) = [k \in 1 .. n + 1 |-> IF k = n + 1 THEN e ELSE s[k]]
  BY <1>1
<1>4. s = <<>> <=> n = 0
  BY <1>1
<1>5. Len(<<e>> \o s) = n + 1 /\ <<e>> \o s # <<>>
  BY <1>2
<1>6. Head(<<e>> \o s) = e
  BY <1>2, <1>5
<1>7. Tail(<<e>> \o s) = s
  BY <1>2, <1>5
<1>8. QED
  BY <1>1, <1>2, <1>3, <1>4, <1>5, <1>6, <1>7

\* What a key with room for it does to the places that are taken.
LEMMA StoredPut ==
  ASSUME RingInv, NEW n \in 0 .. KEYBOARD_BUFFER_SIZE - 1, NEW e,
         keyboard_buffer_head =
           IF keyboard_buffer_tail + n < KEYBOARD_BUFFER_SIZE
             THEN keyboard_buffer_tail + n
             ELSE keyboard_buffer_tail + n - KEYBOARD_BUFFER_SIZE,
         keyboard_buffer' = [keyboard_buffer EXCEPT ![keyboard_buffer_head] = e],
         keyboard_buffer_tail' = keyboard_buffer_tail
  PROVE  Stored(keyboard_buffer_tail, n + 1)' = Append(Stored(keyboard_buffer_tail, n), e)
<1> DEFINE Place(k) == (keyboard_buffer_tail + k - 1) % KEYBOARD_BUFFER_SIZE
           s == [k \in 1 .. n |-> keyboard_buffer[Place(k)]]
           t == [k \in 1 .. n + 1 |-> keyboard_buffer'[Place(k)]]
<1>0. /\ keyboard_buffer_tail \in Index /\ keyboard_buffer_head \in Index
      /\ keyboard_buffer \in [Index -> Char \cup {NUL}]
      /\ KEYBOARD_BUFFER_SIZE \in Nat \ {0} /\ n \in Nat
  BY KeyboardAssumption DEF RingInv, RingType
<1>1. \A k \in 1 .. n + 1 :
        Place(k) = IF keyboard_buffer_tail + k - 1 < KEYBOARD_BUFFER_SIZE
                     THEN keyboard_buffer_tail + k - 1
                     ELSE keyboard_buffer_tail + k - 1 - KEYBOARD_BUFFER_SIZE
  <2>1. \A k \in 1 .. n + 1 : k \in 1 .. KEYBOARD_BUFFER_SIZE
    BY <1>0
  <2>2. QED
    BY <1>0, <2>1, PlaceInRing, Zenon
<1> HIDE DEF Place
<1>2. /\ \A k \in 1 .. n : Place(k) \in Index /\ Place(k) # keyboard_buffer_head
      /\ Place(n + 1) = keyboard_buffer_head
  BY <1>0, <1>1 DEF Index
<1>3. /\ \A k \in 1 .. n : keyboard_buffer'[Place(k)] = keyboard_buffer[Place(k)]
      /\ keyboard_buffer'[Place(n + 1)] = e
  BY <1>0, <1>2
<1>4. t = [k \in 1 .. n + 1 |-> IF k = n + 1 THEN e ELSE s[k]]
  BY <1>0, <1>3
<1>5. t = Append(s, e)
  <2>1. s = [k \in 1 .. n |-> s[k]]
    OBVIOUS
  <2> HIDE DEF s
  <2>2. Append(s, e) = [k \in 1 .. n + 1 |-> IF k = n + 1 THEN e ELSE s[k]]
    BY <1>0, <2>1, FrontKey
  <2>3. QED
    BY <1>4, <2>2
<1>6. QED
  BY <1>5 DEF Stored, Place

\* The place that tail leaves is the first of the queue.
LEMMA StoredTake ==
  ASSUME RingInv, keyboard_buffer_count >= 1,
         keyboard_buffer_tail' = Advance(keyboard_buffer_tail),
         UNCHANGED <<keyboard_buffer, keyboard_buffer_count>>
  PROVE  Stored(keyboard_buffer_tail, keyboard_buffer_count) =
           <<keyboard_buffer[keyboard_buffer_tail]>>
             \o Stored(keyboard_buffer_tail, keyboard_buffer_count - 1)'
<1> DEFINE n == keyboard_buffer_count - 1
           i == keyboard_buffer_tail
           j == Advance(i)
           e == keyboard_buffer[i]
           s == [k \in 1 .. n |-> keyboard_buffer[(j + k - 1) % KEYBOARD_BUFFER_SIZE]]
<1>0. /\ i \in Index /\ n \in Nat /\ n + 1 = keyboard_buffer_count
      /\ n + 1 \in 1 .. KEYBOARD_BUFFER_SIZE /\ KEYBOARD_BUFFER_SIZE \in Nat \ {0}
  BY KeyboardAssumption DEF RingInv, RingType
<1>1. j \in Index /\ j = IF i + 1 = KEYBOARD_BUFFER_SIZE THEN 0 ELSE i + 1
  BY <1>0, AdvanceInRing
<1> HIDE DEF j
<1>2. (i + 1 - 1) % KEYBOARD_BUFFER_SIZE = i
  BY <1>0, PlaceInRing DEF Index
<1>3. \A k \in 2 .. n + 1 : (i + k - 1) % KEYBOARD_BUFFER_SIZE
                             = (j + (k - 1) - 1) % KEYBOARD_BUFFER_SIZE
  <2> SUFFICES ASSUME NEW k \in 2 .. n + 1
               PROVE  (i + k - 1) % KEYBOARD_BUFFER_SIZE
                      = (j + (k - 1) - 1) % KEYBOARD_BUFFER_SIZE
    OBVIOUS
  <2> DEFINE h == k - 1
  <2>1. k \in 1 .. KEYBOARD_BUFFER_SIZE /\ h \in 1 .. KEYBOARD_BUFFER_SIZE /\ h = k - 1
    BY <1>0
  <2> HIDE DEF h
  <2>2. (i + k - 1) % KEYBOARD_BUFFER_SIZE =
          IF i + k - 1 < KEYBOARD_BUFFER_SIZE THEN i + k - 1 ELSE i + k - 1 - KEYBOARD_BUFFER_SIZE
    BY <1>0, <2>1, PlaceInRing
  <2>3. (j + h - 1) % KEYBOARD_BUFFER_SIZE =
          IF j + h - 1 < KEYBOARD_BUFFER_SIZE THEN j + h - 1 ELSE j + h - 1 - KEYBOARD_BUFFER_SIZE
    BY <1>1, <2>1, PlaceInRing
  <2>4. (i + k - 1) % KEYBOARD_BUFFER_SIZE = (j + h - 1) % KEYBOARD_BUFFER_SIZE
    BY <1>0, <1>1, <2>1, <2>2, <2>3 DEF Index
  <2>5. QED
    BY <2>4 DEF h
<1>4. Stored(i, n + 1) = [k \in 1 .. n + 1 |-> IF k = 1 THEN e ELSE s[k - 1]]
  BY <1>0, <1>2, <1>3 DEF Stored
<1>5. <<e>> \o s = [k \in 1 .. n + 1 |-> IF k = 1 THEN e ELSE s[k - 1]]
  <2>1. s = [k \in 1 .. n |-> s[k]]
    OBVIOUS
  <2> HIDE DEF s, e, n
  <2>2. QED
    BY <1>0, <2>1, FrontKey
<1>6. Stored(keyboard_buffer_tail, keyboard_buffer_count - 1)' = s
  BY DEF Stored, j
<1>7. QED
  BY <1>0, <1>4, <1>5, <1>6

LEMMA AppendBehind ==
  ASSUME NEW n \in Nat, NEW e, NEW x, NEW s, s = [k \in 1 .. n |-> s[k]]
  PROVE  <<e>> \o Append(s, x) = Append(<<e>> \o s, x)
<1> DEFINE t == [k \in 1 .. n + 1 |-> IF k = n + 1 THEN x ELSE s[k]]
           u == [k \in 1 .. n + 1 |-> IF k = 1 THEN e ELSE s[k - 1]]
<1>1. Append(s, x) = t /\ <<e>> \o s = u
  BY FrontKey
<1>2. t = [k \in 1 .. n + 1 |-> t[k]] /\ u = [k \in 1 .. n + 1 |-> u[k]] /\ n + 1 \in Nat
  OBVIOUS
<1>3. <<e>> \o t = [k \in 1 .. (n + 1) + 1 |-> IF k = 1 THEN e ELSE t[k - 1]]
  <2> HIDE DEF t
  <2>1. QED
    BY <1>2, FrontKey
<1>4. Append(u, x) = [k \in 1 .. (n + 1) + 1 |-> IF k = (n + 1) + 1 THEN x ELSE u[k]]
  <2> HIDE DEF u
  <2>1. QED
    BY <1>2, FrontKey
<1>5. <<e>> \o t = Append(u, x)
  <2>1. \A k \in 1 .. (n + 1) + 1 : (IF k = 1 THEN e ELSE t[k - 1]) =
                                   (IF k = (n + 1) + 1 THEN x ELSE u[k])
    OBVIOUS
  <2> HIDE DEF t, u
  <2>2. QED
    BY <1>3, <1>4, <2>1
<1>6. QED
  BY <1>1, <1>5

LEMMA QueueLength ==
  ASSUME RingInv
  PROVE  Len(Queue) = keyboard_buffer_count
<1>0. keyboard_buffer_count \in Nat /\ (rpc # "check" => keyboard_buffer_count >= 1)
  BY KeyboardAssumption DEF RingInv, RingType, ReaderInv
<1>1. \A n \in Nat : LET s == Stored(keyboard_buffer_tail, n)
                     IN  s = [k \in 1 .. n |-> s[k]]
  BY DEF Stored
<1>2. CASE rpc # "decrement"
  BY <1>0, <1>1, <1>2, FrontKey DEF Queue
<1>3. CASE rpc = "decrement"
  <2>1. PICK n \in Nat : n = keyboard_buffer_count - 1
    BY <1>0, <1>3
  <2>2. Len(<<c>> \o Stored(keyboard_buffer_tail, n)) = n + 1
    BY <1>1, FrontKey
  <2>3. QED
    BY <1>0, <1>3, <2>1, <2>2 DEF Queue
<1>4. QED
  BY <1>2, <1>3

LEMMA FifoHandler ==
  ASSUME RingInv, QueueInv, NEW sc \in ScanCode, keyboard_handler(sc), OneInstruction
  PROVE  \/ /\ Len(Queue) < KEYBOARD_BUFFER_SIZE /\ Queue' = Append(Queue, sc)
            /\ overrun' = FALSE
         \/ Len(Queue) = KEYBOARD_BUFFER_SIZE /\ Queue' = Queue /\ overrun' = TRUE
<1>0. /\ keyboard_buffer_count \in 0 .. KEYBOARD_BUFFER_SIZE
      /\ KEYBOARD_BUFFER_SIZE \in Nat \ {0}
      /\ rpc # "check" => keyboard_buffer_count >= 1
      /\ UNCHANGED <<rpc, c, keyboard_buffer_tail>>
      /\ scancode_to_ascii(sc) = sc
  BY KeyboardAssumption
     DEF RingInv, RingType, ReaderInv, keyboard_handler, reader, scancode_to_ascii
<1> DEFINE i == keyboard_buffer_tail
<1>1. PICK m \in Nat : m = keyboard_buffer_count
  BY <1>0
<1>2. CASE ~ HasRoom(m)
  <2>1. m = KEYBOARD_BUFFER_SIZE
    BY <1>0, <1>1, <1>2 DEF HasRoom
  <2>2. /\ UNCHANGED <<keyboard_buffer, keyboard_buffer_tail, keyboard_buffer_count, rpc, c>>
        /\ overrun' = TRUE
    BY <1>0, <1>1, <1>2 DEF keyboard_handler
  <2>3. Queue' = Queue
    BY <2>2 DEF Queue, Stored
  <2>4. QED
    BY <1>0, <1>1, <2>1, <2>2, <2>3, QueueLength
<1>3. CASE HasRoom(m)
  <2>1. /\ m < KEYBOARD_BUFFER_SIZE
        /\ keyboard_buffer' = [keyboard_buffer EXCEPT ![keyboard_buffer_head] = sc]
        /\ keyboard_buffer_count' = m + 1 /\ overrun' = FALSE
    BY <1>0, <1>1, <1>3 DEF HasRoom, keyboard_handler
  <2>2. CASE rpc # "decrement"
    <3>1. Stored(i, m + 1)' = Append(Stored(i, m), sc)
      <4>1. keyboard_buffer_head = IF i + m < KEYBOARD_BUFFER_SIZE THEN i + m
                                   ELSE i + m - KEYBOARD_BUFFER_SIZE
        BY <1>1, <2>2 DEF QueueInv
      <4>2. m \in 0 .. KEYBOARD_BUFFER_SIZE - 1
        BY <1>0, <2>1
      <4>3. QED
        BY <1>0, <2>1, <4>1, <4>2, StoredPut
    <3>2. Queue = Stored(i, m) /\ Queue' = Stored(i, m + 1)'
      BY <1>0, <1>1, <2>1, <2>2 DEF Queue
    <3>3. QED
      BY <1>1, <2>1, <3>1, <3>2, QueueLength
  <2>3. CASE rpc = "decrement"
    <3>1. PICK n \in Nat : n = m - 1
      BY <1>0, <1>1, <2>3
    <3>2. Stored(i, n + 1)' = Append(Stored(i, n), sc)
      <4>1. keyboard_buffer_head = IF i + n < KEYBOARD_BUFFER_SIZE THEN i + n
                                   ELSE i + n - KEYBOARD_BUFFER_SIZE
        <5>1. keyboard_buffer_head =
                IF i + keyboard_buffer_count - 1 < KEYBOARD_BUFFER_SIZE
                  THEN i + keyboard_buffer_count - 1
                  ELSE i + keyboard_buffer_count - 1 - KEYBOARD_BUFFER_SIZE
          BY <2>3 DEF QueueInv
        <5>2. i \in Int /\ keyboard_buffer_head \in Int
          BY KeyboardAssumption DEF RingInv, RingType, Index
        <5>3. QED
          BY <1>0, <1>1, <3>1, <5>1, <5>2
      <4>2. n \in 0 .. KEYBOARD_BUFFER_SIZE - 1
        BY <1>0, <2>1, <3>1
      <4>3. QED
        BY <1>0, <2>1, <4>1, <4>2, StoredPut
    <3>3. Queue = <<c>> \o Stored(i, n)
      BY <1>1, <2>3, <3>1 DEF Queue
    <3>4. Queue' = <<c>> \o Stored(i, n + 1)'
      <4>1. keyboard_buffer_count' - 1 = n + 1
        BY <2>1, <3>1
      <4>2. QED
        BY <1>0, <2>3, <4>1 DEF Queue
    <3>5. <<c>> \o Append(Stored(i, n), sc) = Append(<<c>> \o Stored(i, n), sc)
      <4> DEFINE s == Stored(i, n)
      <4>1. s = [k \in 1 .. n |-> s[k]]
        BY DEF Stored
      <4> HIDE DEF s
      <4>2. QED
        BY <4>1, AppendBehind
    <3>6. QED
      BY <1>1, <2>1, <3>2, <3>3, <3>4, <3>5, QueueLength
  <2>4. QED
    BY <2>2, <2>3
<1>4. QED
  BY <1>2, <1>3

LEMMA FifoGet ==
  ASSUME RingInv, QueueInv, keyboard_get_char, OneInstruction
  PROVE  /\ overrun' = overrun
         /\ \/ Queue' = Queue /\ returned' = returned
            \/ Queue = <<>> /\ Queue' = Queue /\ returned' = NUL
            \/ Queue # <<>> /\ returned' = Head(Queue) /\ Queue' = Tail(Queue)
<1> DEFINE i == keyboard_buffer_tail
<1>0. keyboard_buffer_count \in Nat /\ (rpc # "check" => keyboard_buffer_count >= 1)
  BY KeyboardAssumption DEF RingInv, RingType, ReaderInv
<1>1. CASE GetCheck
  <2>1. Queue' = Queue /\ overrun' = overrun
    BY <1>1 DEF GetCheck, ring, Queue, Stored
  <2>2. CASE keyboard_buffer_count > 0
    BY <1>1, <2>1, <2>2 DEF GetCheck
  <2>3. CASE keyboard_buffer_count = 0
    <3>1. Queue = <<>>
      BY <1>1, <2>3 DEF GetCheck, Queue, Stored
    <3>2. QED
      BY <1>1, <2>1, <2>3, <3>1 DEF GetCheck
  <2>4. QED
    BY <1>0, <2>2, <2>3
<1>2. CASE GetRead
  BY <1>2 DEF GetRead, ring, Queue, Stored
<1>3. CASE GetAdvance
  <2>1. /\ rpc = "advance" /\ rpc' = "decrement" /\ c' = c
        /\ keyboard_buffer_tail' = Advance(keyboard_buffer_tail)
        /\ UNCHANGED <<keyboard_buffer, keyboard_buffer_count, returned, overrun>>
        /\ c = keyboard_buffer[keyboard_buffer_tail]
    BY <1>3 DEF GetAdvance, OneInstruction, QueueInv
  <2>2. /\ Queue = Stored(i, keyboard_buffer_count)
        /\ Queue' = <<c>> \o Stored(i, keyboard_buffer_count - 1)'
    BY <2>1 DEF Queue
  <2>3. Queue' = Queue
    BY <1>0, <2>1, <2>2, StoredTake
  <2>4. QED
    BY <2>1, <2>3
<1>4. CASE GetDecrement
  <2>1. /\ rpc = "decrement" /\ rpc' = "check" /\ returned' = c
        /\ keyboard_buffer_count' = keyboard_buffer_count - 1
        /\ UNCHANGED <<keyboard_buffer, keyboard_buffer_tail, overrun>>
    BY <1>4 DEF GetDecrement
  <2>2. PICK n \in Nat : n = keyboard_buffer_count - 1
    BY <1>0, <2>1
  <2> DEFINE s == Stored(i, n)
  <2>3. Queue = <<c>> \o s
    BY <2>1, <2>2 DEF Queue
  <2>4. Queue' = s
    BY <2>1, <2>2 DEF Queue, Stored
  <2>5. s = [k \in 1 .. n |-> s[k]]
    BY DEF Stored
  <2> HIDE DEF s
  <2>6. Head(<<c>> \o s) = c /\ Tail(<<c>> \o s) = s /\ <<c>> \o s # <<>>
    BY <2>5, FrontKey
  <2>7. QED
    BY <2>1, <2>3, <2>4, <2>6
<1>5. CASE GetLoad \/ GetStore
  BY <1>5 DEF GetLoad, GetStore, QueueInv
<1>6. QED
  BY <1>1, <1>2, <1>3, <1>4, <1>5 DEF keyboard_get_char

(***************************************************************************)
(* The mailbox of the terminal and its line.                               *)
(***************************************************************************)
LineChar == Char \cup {NUL}

MailInv ==
  /\ pressed \in Nat /\ seen \in Nat
  /\ last_scancode \in [char : LineChar, id : Nat]
  /\ got \in [char : LineChar, id : Nat]
  /\ tpc \in {"test", "clear", "take", "work", "reset", "halted"}
  /\ last_scancode.id = pressed
  /\ seen <= pressed /\ got.id <= pressed
  /\ new_char_ready /\ tpc = "test" => pressed > seen
  /\ tpc \in {"clear", "take"} => pressed > seen
  /\ tpc = "work" => got.id > seen

LineInv ==
  /\ input_pos \in Cell
  /\ input_buffer \in [Cell -> LineChar]
  /\ input_buffer[INPUT_BUFFER_SIZE - 1] = NUL
  /\ \A j \in Cell : j < input_pos => input_buffer[j] # NUL

Inv == RingInv /\ QueueInv /\ MailInv /\ LineInv

LEMMA MailInit == Init => MailInv
BY DEF Init, MailInv, NoKey, LineChar

LEMMA LineInit == Init => LineInv
BY TerminalAssumption DEF Init, LineInv, Cell, LineChar

LEMMA MailInterrupt ==
  ASSUME MailInv, NEW sc \in ScanCode, KeyboardInterrupt(sc)
  PROVE  MailInv'
<1>1. CASE keyboard_handler(sc) /\ UNCHANGED <<pressed, tvars>>
  BY <1>1 DEF MailInv, tvars
<1>2. CASE simple_kb_handler(sc)
  <2>1. /\ pressed' = pressed + 1 /\ UNCHANGED <<tpc, got, seen>>
        /\ last_scancode' = [char |-> scancode_to_ascii(sc), id |-> pressed + 1]
        /\ scancode_to_ascii(sc) \in LineChar
    BY <1>2 DEF simple_kb_handler, scancode_to_ascii, LineChar
  <2>2. QED
    BY <2>1 DEF MailInv
<1>3. QED
  BY <1>1, <1>2 DEF KeyboardInterrupt

LEMMA WorkMoves ==
  ASSUME Work
  PROVE  /\ tpc = "work" /\ tpc' \in {"reset", "halted"} /\ seen' = got.id
         /\ UNCHANGED <<kvars, attached, pressed, last_scancode, new_char_ready, got>>
<1>1. tpc' \in {"reset", "halted"}
  <2>1. CASE EndLine
    <3>1. ASSUME NEW buf, simple_execute_command(buf)
          PROVE  tpc' \in {"reset", "halted"}
      BY <3>1 DEF simple_execute_command
    <3>2. QED
      BY <2>1, <3>1 DEF EndLine
  <2>2. CASE Erase \/ Store
    BY <2>2 DEF Erase, Store
  <2>3. QED
    BY <2>1, <2>2 DEF Work
<1>2. QED
  BY <1>1 DEF Work

LEMMA MailTerminal ==
  ASSUME MailInv, simple_terminal_run
  PROVE  MailInv'
<1>1. CASE GetTest
  BY <1>1 DEF MailInv, GetTest
<1>2. CASE GetClear
  BY <1>2 DEF MailInv, GetClear
<1>3. CASE GetTake
  BY <1>3 DEF MailInv, GetTake
<1>4. CASE Work
  BY <1>4, WorkMoves DEF MailInv
<1>5. CASE ResetFlag
  BY <1>5 DEF MailInv, ResetFlag
<1>6. QED
  BY <1>1, <1>2, <1>3, <1>4, <1>5 DEF simple_terminal_run

LEMMA LineWork ==
  ASSUME MailInv, LineInv, Work
  PROVE  LineInv'
<1>0. /\ got.char \in LineChar /\ INPUT_BUFFER_SIZE \in Nat \ {0}
      /\ input_pos \in 0 .. INPUT_BUFFER_SIZE - 1
      /\ input_buffer \in [Cell -> LineChar]
      /\ NUL \in LineChar /\ NUL \notin Char
  BY TerminalAssumption, NulAssumption DEF MailInv, LineInv, Cell, LineChar
<1>1. CASE EndLine
  <2>1. /\ input_buffer' = [input_buffer EXCEPT ![input_pos] = NUL]
        /\ input_pos' = input_pos \/ input_pos' = 0
        /\ input_pos' = input_pos => tpc' = "halted" \/ input_pos = 0
    BY <1>1 DEF EndLine
  <2>2. QED
    BY <1>0, <2>1 DEF LineInv, Cell
<1>2. CASE Erase
  BY <1>0, <1>2 DEF LineInv, Erase, Cell
<1>3. CASE Store
  <2>1. CASE got.char \in Printable /\ LineHasRoom
    <3>1. /\ input_buffer' = [input_buffer EXCEPT ![input_pos] = got.char]
          /\ input_pos' = input_pos + 1 /\ got.char # NUL
          /\ input_pos < INPUT_BUFFER_SIZE - 1
      BY <1>0, <1>3, <2>1 DEF Store, Printable, LineHasRoom
    <3>2. QED
      BY <1>0, <3>1 DEF LineInv, Cell
  <2>2. CASE ~ (got.char \in Printable /\ LineHasRoom)
    BY <1>3, <2>2 DEF LineInv, Store
  <2>3. QED
    BY <2>1, <2>2
<1>4. QED
  BY <1>1, <1>2, <1>3 DEF Work

LEMMA InvInit == Init => Inv
BY RingInvInit, QueueInvInit, MailInit, LineInit DEF Init, Inv

\* The steps of the terminal leave the ring alone, and the other steps leave
\* the line alone.
LEMMA RingKept ==
  ASSUME UNCHANGED kvars
  PROVE  RingInv /\ QueueInv => RingInv' /\ QueueInv'
BY DEF kvars, ring, reader, RingInv, RingType, ReaderInv, AllWritten, FirstRound,
   Ahead, QueueInv, OneInstruction

LEMMA InvStep == Inv /\ [Next]_vars => Inv'
<1> SUFFICES ASSUME RingInv, QueueInv, MailInv, LineInv, [Next]_vars PROVE Inv'
  BY DEF Inv
<1>1. ASSUME NEW sc \in ScanCode, KeyboardInterrupt(sc)
      PROVE  Inv'
  <2>1. MailInv'
    BY <1>1, MailInterrupt
  <2>2. LineInv'
    BY <1>1 DEF KeyboardInterrupt, simple_kb_handler, tvars, LineInv
  <2>3. CASE keyboard_handler(sc)
    BY <2>1, <2>2, <2>3, RingInvHandler, QueueInvHandler DEF Inv
  <2>4. CASE simple_kb_handler(sc)
    BY <2>1, <2>2, <2>4, RingKept DEF Inv, simple_kb_handler
  <2>5. QED
    BY <1>1, <2>3, <2>4 DEF KeyboardInterrupt
<1>2. CASE simple_terminal_run
  <2>1. MailInv'
    BY <1>2, MailTerminal
  <2>2. LineInv'
    <3>1. CASE Work
      BY <3>1, LineWork
    <3>2. CASE GetTest \/ GetClear \/ GetTake \/ ResetFlag
      BY <3>2 DEF GetTest, GetClear, GetTake, ResetFlag, LineInv
    <3>3. QED
      BY <1>2, <3>1, <3>2 DEF simple_terminal_run
  <2>3. UNCHANGED kvars
    BY <1>2 DEF simple_terminal_run, GetTest, GetClear, GetTake, Work, ResetFlag
  <2>4. QED
    BY <2>1, <2>2, <2>3, RingKept DEF Inv
<1>3. CASE keyboard_get_char /\ UNCHANGED <<attached, pressed, tvars>>
  <2>1. MailInv' /\ LineInv'
    BY <1>3 DEF tvars, MailInv, LineInv
  <2>2. QED
    BY <1>3, <2>1, RingInvGet, QueueInvGet DEF Inv
<1>4. CASE UNCHANGED vars
  <2>1. MailInv' /\ LineInv' /\ UNCHANGED kvars
    BY <1>4 DEF vars, tvars, MailInv, LineInv
  <2>2. QED
    BY <2>1, RingKept DEF Inv
<1>5. QED
  BY <1>1, <1>2, <1>3, <1>4 DEF Next

-----------------------------------------------------------------------------
(***************************************************************************)
(* The theorems                                                            *)
(***************************************************************************)

\* The inductive invariant holds however the interrupt falls among the
\* accesses of keyboard_get_char and simple_terminal_run.
THEOREM TerminalInvTheorem == Spec => []Inv
<1>1. Init => Inv
  BY InvInit
<1>2. Inv /\ [Next]_vars => Inv'
  BY InvStep
<1>3. QED
  BY <1>1, <1>2, PTL DEF Spec

\* keyboard_get_char never answers a place of the ring that no key was written
\* to, and the count stays in range, even in the build where increments of the
\* count are lost between the reader's load and store.
THEOREM NoPhantomKeyTheorem == Spec => []NoPhantomKey
<1>1. Inv => NoPhantomKey
  BY DEF Inv, RingInv, RingType, ReaderInv, NoPhantomKey
<1>2. QED
  BY <1>1, TerminalInvTheorem, PTL

\* simple_terminal_run never works on a key of the mailbox twice, nor on an
\* older key after a newer one, however many keys arrive between its accesses.
THEOREM NoKeyTwiceTheorem == Spec => []NoKeyTwice
<1>1. Inv => NoKeyTwice
  BY DEF Inv, MailInv, NoKeyTwice
<1>2. QED
  BY <1>1, TerminalInvTheorem, PTL

\* The line always has room for its terminator and the last place of
\* input_buffer always holds one, for every size of the buffer.
THEOREM LineTerminatedTheorem == Spec => []LineTerminated
<1>1. Inv => LineTerminated
  BY DEF Inv, LineInv, LineTerminated
<1>2. QED
  BY <1>1, TerminalInvTheorem, PTL

\* If the decrement of the count is one instruction, keyboard_handler and
\* keyboard_get_char are a bounded FIFO: keys come out once and in order, are
\* lost only when the ring is full, and "no key" means that it is empty.
THEOREM FifoTheorem == Spec => ImplementsFifo
<1>1. Init => Fifo!Init
  <2> SUFFICES ASSUME Init PROVE Fifo!Init
    OBVIOUS
  <2>1. rpc = "check" /\ keyboard_buffer_count = 0 /\ returned = NUL /\ overrun = FALSE
    BY DEF Init, KeyboardInit
  <2>2. Queue = <<>>
    BY <2>1 DEF Queue, Stored
  <2>3. QED
    BY <2>1, <2>2 DEF Fifo!Init
<1>2. Inv /\ [Next]_vars => [Fifo!Next]_(Fifo!vars)
  <2> SUFFICES ASSUME RingInv, QueueInv, [Next]_vars
               PROVE  [Fifo!Next]_(Fifo!vars)
    BY DEF Inv
  <2>1. OneInstruction' = OneInstruction
    BY DEF OneInstruction, Next, KeyboardInterrupt, keyboard_handler, simple_kb_handler,
       simple_terminal_run, GetTest, GetClear, GetTake, Work, ResetFlag, keyboard_get_char,
       GetCheck, GetRead, GetAdvance, GetDecrement, GetLoad, GetStore, vars, kvars, ring
  <2>2. CASE ~ OneInstruction
    BY <2>1, <2>2 DEF Fifo!vars
  <2>3. ASSUME OneInstruction, NEW sc \in ScanCode, keyboard_handler(sc)
        PROVE  Fifo!Next
    <3>1. sc \in Char /\ returned' = returned
      BY <2>3 DEF keyboard_handler, scancode_to_ascii, reader
    <3>2. \/ /\ Len(Queue) < KEYBOARD_BUFFER_SIZE /\ Queue' = Append(Queue, sc)
             /\ overrun' = FALSE
          \/ Len(Queue) = KEYBOARD_BUFFER_SIZE /\ Queue' = Queue /\ overrun' = TRUE
      BY <2>3, FifoHandler
    <3>3. QED
      BY <2>1, <2>3, <3>1, <3>2 DEF Fifo!Next, Fifo!Put, Fifo!Drop
  <2>4. ASSUME OneInstruction, keyboard_get_char
        PROVE  [Fifo!Next]_(Fifo!vars)
    <3>1. /\ overrun' = overrun
          /\ \/ Queue' = Queue /\ returned' = returned
             \/ Queue = <<>> /\ Queue' = Queue /\ returned' = NUL
             \/ Queue # <<>> /\ returned' = Head(Queue) /\ Queue' = Tail(Queue)
      BY <2>4, FifoGet
    <3>2. QED
      BY <2>1, <2>4, <3>1 DEF Fifo!Next, Fifo!Get, Fifo!GetNothing, Fifo!vars
  <2>5. ASSUME UNCHANGED kvars
        PROVE  UNCHANGED Fifo!vars
    BY <2>1, <2>5 DEF Fifo!vars, kvars, ring, reader, Queue, Stored
  <2>6. CASE \E sc \in ScanCode : keyboard_handler(sc)
    BY <2>2, <2>3, <2>6
  <2>7. CASE keyboard_get_char
    BY <2>2, <2>4, <2>7
  <2>8. CASE UNCHANGED kvars
    BY <2>5, <2>8
  <2>9. QED
    BY <2>6, <2>7, <2>8 DEF Next, KeyboardInterrupt, simple_kb_handler,
       simple_terminal_run, GetTest, GetClear, GetTake, Work, ResetFlag, vars
<1>3. QED
  BY <1>1, <1>2, TerminalInvTheorem, PTL DEF Spec, ImplementsFifo, Fifo!Spec

-----------------------------------------------------------------------------
(***************************************************************************)
(* The command of a line that was ended at p.                              *)
(***************************************************************************)
LEMMA StringAtResult ==
  ASSUME NEW buf, NEW i \in Nat, NEW p \in Cell, i <= p, buf[p] = NUL,
         \A j \in i .. p - 1 : buf[j] # NUL
  PROVE  StringAt(buf, i) = [k \in 1 .. p - i |-> buf[i + k - 1]]
<1> DEFINE P(e) == /\ e = INPUT_BUFFER_SIZE \/ buf[e] = NUL
                   /\ \A j \in i .. e - 1 : buf[j] # NUL
           end  == CHOOSE e \in i .. INPUT_BUFFER_SIZE : P(e)
<1>1. p \in i .. INPUT_BUFFER_SIZE /\ P(p)
  BY TerminalAssumption DEF Cell
<1>2. \A e \in i .. INPUT_BUFFER_SIZE : P(e) => e = p
  BY TerminalAssumption DEF Cell
<1>3. StringAt(buf, i) = [k \in 1 .. end - i |-> buf[i + k - 1]]
  BY DEF StringAt
<1> HIDE DEF P
<1>4. end = p
  BY <1>1, <1>2
<1>5. QED
  BY <1>3, <1>4

LEMMA CommandResult ==
  ASSUME NEW buf, NEW p \in Nat, p > 1,
         StringAt(buf, 0) = [k \in 1 .. p |-> buf[k - 1]],
         buf[0] = Echo, buf[1] = Space
  PROVE  Command(buf) = <<Echo>>
<1> DEFINE line == StringAt(buf, 0)
           P(n) == /\ n = Len(line) \/ line[n + 1] = Space
                   /\ \A j \in 1 .. n : line[j] # Space
           len  == CHOOSE n \in 0 .. Len(line) : P(n)
<1>1. Command(buf) = SubSeq(line, 1, len)
  BY DEF Command
<1>2. /\ line = [k \in 1 .. p |-> line[k]]
      /\ Len(line) = p /\ line[1] = Echo /\ line[2] = Space /\ Echo # Space
  BY DEF Echo, Space
<1> HIDE DEF line
<1>3. 1 \in 0 .. Len(line) /\ P(1)
  BY <1>2
<1>4. \A n \in 0 .. Len(line) : P(n) => n = 1
  <2> SUFFICES ASSUME NEW n \in 0 .. Len(line), P(n) PROVE n = 1
    OBVIOUS
  <2>1. n # 0
    BY <1>2
  <2>2. ~ (2 \in 1 .. n)
    BY <1>2
  <2>3. QED
    BY <1>2, <2>1, <2>2
<1>5. len = 1
  <2> HIDE DEF P
  <2>1. QED
    BY <1>3, <1>4
<1>6. SubSeq(line, 1, 1) = <<Echo>>
  <2>1. SubSeq(line, 1, 1) = [k \in 1 .. 1 |-> line[k]]
    BY <1>2
  <2>2. \A k \in 1 .. 1 : line[k] = Echo
    BY <1>2
  <2>3. <<Echo>> = [k \in 1 .. 1 |-> Echo]
    OBVIOUS
  <2>4. QED
    BY <2>1, <2>2, <2>3
<1>7. QED
  BY <1>1, <1>5, <1>6

\* In every step that ends a line "echo ..." with an argument, what
\* simple_execute_command prints is what was entered behind the word, whatever
\* the buffer still held from earlier lines.
THEOREM EchoTheorem == Spec => EchoPrintsItsArgument
<1> DEFINE line == SubSeq([k \in 1 .. INPUT_BUFFER_SIZE |-> input_buffer[k - 1]], 1, input_pos)
           EchoEntered == /\ tpc = "work" /\ tpc' = "reset" /\ got.char = Enter
                          /\ input_pos > 1 /\ line[1] = Echo /\ line[2] = Space
<1>1. ASSUME Inv, Next, EchoEntered
      PROVE  printed' = SubSeq(line, 3, Len(line))
  <2>1. EndLine
    <3>1. Work
      BY <1>1 DEF Next, KeyboardInterrupt, simple_kb_handler, simple_terminal_run, GetTest,
         GetClear, GetTake, ResetFlag, tvars
    <3>2. QED
      BY <1>1, <3>1 DEF Work, Erase, Store, Enter, Backspace
  <2>2. /\ INPUT_BUFFER_SIZE \in Nat /\ input_pos \in 0 .. INPUT_BUFFER_SIZE - 1
        /\ input_buffer \in [Cell -> LineChar] /\ input_pos \in Cell
        /\ \A j \in Cell : j < input_pos => input_buffer[j] # NUL
    BY <1>1, TerminalAssumption DEF Inv, LineInv, Cell
  <2>3. PICK p \in Nat : p = input_pos
    BY <2>2
  <2>4. line = [k \in 1 .. p |-> input_buffer[k - 1]]
    BY <2>2, <2>3
  <2> DEFINE buf == [input_buffer EXCEPT ![p] = NUL]
  <2>5. /\ p \in Cell /\ p > 1 /\ buf[p] = NUL
        /\ \A j \in 0 .. p - 1 : buf[j] = input_buffer[j] /\ buf[j] # NUL
    BY <1>1, <2>2, <2>3 DEF Cell
  <2>6. simple_execute_command(buf)
    BY <1>1, <2>1, <2>3 DEF EndLine
  <2> HIDE DEF buf
  <2>7. /\ StringAt(buf, 0) = [k \in 1 .. p - 0 |-> buf[0 + k - 1]]
        /\ StringAt(buf, 2) = [k \in 1 .. p - 2 |-> buf[2 + k - 1]]
    BY <2>5, StringAtResult
  <2>8. StringAt(buf, 0) = [k \in 1 .. p |-> buf[k - 1]]
    BY <2>7
  <2>9. buf[0] = Echo /\ buf[1] = Space
    <3>1. line[1] = input_buffer[0] /\ line[2] = input_buffer[1]
      <4> HIDE DEF line
      <4>1. QED
        BY <2>4, <2>5
    <3>2. 0 \in 0 .. p - 1 /\ 1 \in 0 .. p - 1
      BY <2>5
    <3>3. QED
      BY <1>1, <2>5, <3>1, <3>2
  <2>10. Command(buf) = <<Echo>>
    BY <2>5, <2>8, <2>9, CommandResult
  <2>11. printed' = StringAt(buf, 2)
    <3>1. <<Echo>> # <<Exit>>
      BY DEF Echo, Exit
    <3>2. QED
      BY <2>6, <2>10, <3>1 DEF simple_execute_command
  <2>12. SubSeq(line, 3, Len(line)) = [k \in 1 .. p - 2 |-> input_buffer[k + 1]]
    <3> HIDE DEF line
    <3>1. Len(line) = p
      BY <2>4
    <3>2. QED
      BY <2>4, <2>5, <3>1
  <2>13. StringAt(buf, 2) = [k \in 1 .. p - 2 |-> input_buffer[k + 1]]
    <3>1. \A k \in 1 .. p - 2 : 2 + k - 1 = k + 1 /\ k + 1 \in 0 .. p - 1
      OBVIOUS
    <3>2. \A k \in 1 .. p - 2 : buf[2 + k - 1] = input_buffer[k + 1]
      BY <2>5, <3>1
    <3>3. QED
      BY <2>7, <3>2
  <2>14. QED
    BY <2>11, <2>12, <2>13
<1>2. Inv /\ [Next]_vars => [EchoEntered => printed' = SubSeq(line, 3, Len(line))]_vars
  BY <1>1
<1>3. QED
  BY <1>2, TerminalInvTheorem, PTL DEF Spec, EchoPrintsItsArgument

-----------------------------------------------------------------------------
(***************************************************************************)
(* The Ethernet cards                                                      *)
(***************************************************************************)

(***************************************************************************)
(* The inductive invariant. Dist(s, i) is the place of descriptor i when   *)
(* the ring is read from descriptor s on, At(s, m) the descriptor of place *)
(* m. The operators take what they are about as parameters, so that they   *)
(* say the same of the state before and after a step.                      *)
(***************************************************************************)
Dist(s, i) == IF i >= s THEN i - s ELSE i - s + N
At(s, m)   == IF s + m < N THEN s + m ELSE s + m - N

RxDesc == [done : BOOLEAN, frame : Nat, good : BOOLEAN]
TxDesc == [busy : BOOLEAN, frame : Nat]

\* A sequence of frames none of which is missing, doubled or out of place.
Consecutive(s) == s \in Seq(Nat) /\ \A i \in 1 .. Len(s) : s[i] = i

Cards == {"i8254x", "i219", "intel", "rtl8168"}

RxType ==
  /\ rx \in [Slots -> RxDesc] /\ rdh \in Slots /\ rdt \in Slots /\ rx_index \in Slots
  /\ arrived \in Nat /\ Consecutive(taken)

TxType ==
  /\ tx \in [Slots -> TxDesc] /\ tdh \in Slots /\ tdt \in Slots /\ tx_index \in Slots
  /\ Consecutive(queued) /\ Consecutive(sent)

\* The descriptor the driver reads next.
Start == IF card \in {"i8254x", "intel"} THEN Succ(rdt) ELSE rx_index

\* The first m descriptors hold the frames after the n-th.
Holds(descs, s, m, n) ==
  \A i \in Slots : Dist(s, i) < m => descs[i].done /\ descs[i].frame = n + Dist(s, i) + 1

\* The others hold none; or at least the next one does not.
NoneFrom(descs, s, m) == \A i \in Slots : Dist(s, i) >= m => ~ descs[i].done
NoneAt(descs, s, m)   == \A i \in Slots : Dist(s, i) = m => ~ descs[i].done

\* The card fills the descriptor after those the driver has yet to read.
InStep(m) ==
  /\ NoneFrom(rx, Start, m)
  /\ arrived = Len(taken) + m
  /\ rdh = At(Start, m)
  /\ card \in {"i8254x", "intel"} => m < N
  /\ card = "i219" => rdt = rx_index \/ (Succ(rdt) = rx_index /\ m < N)

\* i8254x_poll has set the card back behind a descriptor it has not filled: the
\* driver will read no further than that one.
SetBack(m) ==
  /\ card = "i8254x"
  /\ m < Dist(Start, rdh) /\ Dist(Start, rdh) >= N - 2
  /\ NoneAt(rx, Start, m)

RxInv == \E m \in 0 .. N : Holds(rx, Start, m, Len(taken)) /\ (InStep(m) \/ SetBack(m))

\* The card sends from tdh on; the first m descriptors hold what is queued.
TxInv ==
  LET m == Len(queued) - Len(sent) IN
  /\ m \in 0 .. N
  /\ tdt = tx_index /\ tx_index = At(tdh, m)
  /\ \A i \in Slots : Dist(tdh, i) < m => tx[i].frame = Len(sent) + Dist(tdh, i) + 1
  /\ card # "intel" => \A i \in Slots : tx[i].busy <=> Dist(tdh, i) < m
  /\ card = "intel" => Len(queued) < N /\ tx_index = Len(queued)
  /\ card = "i219" => Len(queued) = 0

\* The last descriptors lose their EOR bit when they are used, at the end of the
\* first round.
RxEor ==
  /\ card = "rtl8168" => /\ "rx" \in eor \/ Len(taken) >= N
                         /\ Len(taken) < N => rx_index = Len(taken)
  /\ "rx" \in astray => Len(taken) >= N

TxEor ==
  /\ card = "rtl8168" => /\ "tx" \in eor \/ Len(queued) >= N
                         /\ Len(queued) < N => tx_index = Len(queued)
  /\ "tx" \in astray => Len(queued) >= N

RxOK == RxType /\ RxInv /\ RxEor
TxOK == TxType /\ TxInv /\ TxEor

CardRingInv == card \in Cards /\ RxOK /\ TxOK

-----------------------------------------------------------------------------
(***************************************************************************)
(* Places of a ring                                                        *)
(***************************************************************************)
LEMMA Modulo ==
  \A s \in Slots, k \in 0 .. N : (s + k) % N = At(s, k)
BY EthernetCardsAssumption DEF Slots, At

LEMMA SuccIs ==
  \A s \in Slots : Succ(s) = At(s, 1) /\ Succ(s) \in Slots
BY EthernetCardsAssumption DEF Slots, Succ, At

LEMMA Places ==
  \A s \in Slots, m \in 0 .. N :
    /\ At(s, m) \in Slots
    /\ m < N => Dist(s, At(s, m)) = m
    /\ m \in {0, N} <=> At(s, m) = s
BY EthernetCardsAssumption DEF Slots, At, Dist

LEMMA DistIs ==
  \A s, i \in Slots : Dist(s, i) \in 0 .. N - 1 /\ At(s, Dist(s, i)) = i
BY EthernetCardsAssumption DEF Slots, At, Dist

\* Reading from k descriptors further on.
LEMMA Further ==
  \A s, i \in Slots, k \in 0 .. N :
    Dist(At(s, k), i) = IF Dist(s, i) >= k THEN Dist(s, i) - k ELSE Dist(s, i) - k + N
BY EthernetCardsAssumption DEF Slots, At, Dist

LEMMA FurtherAt ==
  \A s \in Slots, k \in 0 .. N, j \in 0 .. N :
    k + j <= N => At(At(s, k), j) = At(s, k + j)
BY EthernetCardsAssumption DEF Slots, At

LEMMA CoveredIs ==
  \A s \in Slots, k \in 0 .. N : Covered(s, k) = {i \in Slots : Dist(s, i) < k}
<1> SUFFICES ASSUME NEW s \in Slots, NEW k \in 0 .. N
             PROVE  Covered(s, k) = {i \in Slots : Dist(s, i) < k}
  OBVIOUS
<1>1. Covered(s, k) = {At(s, j) : j \in 0 .. k - 1}
  BY Modulo, EthernetCardsAssumption DEF Covered
<1>2. ASSUME NEW j \in 0 .. k - 1
      PROVE  At(s, j) \in Slots /\ Dist(s, At(s, j)) < k
  BY Places, EthernetCardsAssumption
<1>3. ASSUME NEW i \in Slots, Dist(s, i) < k
      PROVE  \E j \in 0 .. k - 1 : i = At(s, j)
  BY <1>3, DistIs, EthernetCardsAssumption
<1>4. QED
  BY <1>1, <1>2, <1>3

\* The largest of some numbers up to a bound is one of them.
LEMMA LargestIsMember ==
  ASSUME NEW n \in Nat, NEW S, S \subseteq 0 .. n, S # {}
  PROVE  Max(S) \in S
<1> DEFINE T == {n - x : x \in S}
<1>0. \A x \in S : x \in Nat /\ n - x \in Nat
  OBVIOUS
<1>1. T \subseteq Nat /\ T # {}
  BY <1>0, Zenon
<1>2. \E x \in T : \A y \in T : ~ (<<y, x>> \in OpToRel(<, Nat))
  <2> HIDE DEF T
  <2>1. QED
    BY <1>1, NatLessThanWellFounded, WFMin, Zenon
<1>3. PICK x \in T : \A y \in T : ~ (<<y, x>> \in OpToRel(<, Nat))
  BY <1>2
<1>4. \A y \in T : y < x => <<y, x>> \in OpToRel(<, Nat)
  BY <1>1, <1>3, Zenon DEF OpToRel
<1>5. \A y \in T : ~ (y < x)
  BY <1>3, <1>4, Zenon
<1>6. PICK z \in S : x = n - z
  BY <1>3
<1>7. ASSUME NEW y \in S
      PROVE  z >= y
  <2>1. n - y \in T
    OBVIOUS
  <2>2. ~ (n - y < n - z)
    BY <1>5, <1>6, <2>1
  <2>3. QED
    BY <1>0, <1>6, <2>2
<1>8. QED
  BY <1>6, <1>7 DEF Max

-----------------------------------------------------------------------------
(***************************************************************************)
(* Receiving                                                               *)
(***************************************************************************)

\* A run of k descriptors from s on, which the card has finished.
Done(s, k) == \A i \in Slots : Dist(s, i) < k => rx[i].done

LEMMA FinishedIs ==
  ASSUME NEW s \in Slots
  PROVE  Finished(s) \in 0 .. N /\ Done(s, Finished(s))
<1> DEFINE S == {k \in 0 .. N : \A i \in Covered(s, k) : rx[i].done}
<1>1. S \subseteq 0 .. N
  OBVIOUS
<1>2. 0 \in S
  <2>1. 0 \in 0 .. N
    BY EthernetCardsAssumption
  <2>2. Covered(s, 0) = {}
    BY <2>1, CoveredIs, DistIs, EthernetCardsAssumption
  <2>3. QED
    BY <2>1, <2>2
<1>3. Max(S) \in S
  <2> HIDE DEF S
  <2>1. QED
    BY <1>1, <1>2, LargestIsMember, EthernetCardsAssumption
<1>4. Finished(s) \in 0 .. N /\ \A i \in Covered(s, Finished(s)) : rx[i].done
  BY <1>3 DEF Finished
<1>5. QED
  BY <1>4, CoveredIs DEF Done

\* Of these the driver takes k: as many as have a good frame, or the bad ones
\* and the good one after them.
LEMMA FinishedGoodIs ==
  ASSUME NEW s \in Slots
  PROVE  FinishedGood(s) \in 0 .. Finished(s)
<1>1. Finished(s) \in Nat
  BY FinishedIs, EthernetCardsAssumption
<1> DEFINE S == {k \in 0 .. Finished(s) : \A i \in Covered(s, k) : rx[i].good}
<1>2. S \subseteq 0 .. Finished(s)
  OBVIOUS
<1>3. 0 \in S
  <2>1. 0 \in 0 .. N
    BY EthernetCardsAssumption
  <2>2. Covered(s, 0) = {}
    BY <2>1, CoveredIs, DistIs, EthernetCardsAssumption
  <2>3. QED
    BY <1>1, <2>2
<1>4. Max(S) \in S
  <2> HIDE DEF S
  <2>1. QED
    BY <1>1, <1>2, <1>3, LargestIsMember
<1>5. QED
  BY <1>2, <1>4 DEF FinishedGood

LEMMA FinishedBadIs ==
  ASSUME NEW s \in Slots
  PROVE  Max({k \in 0 .. Finished(s) : \A i \in Covered(s, k) : ~ rx[i].good}) \in 0 .. Finished(s)
<1>1. Finished(s) \in Nat
  BY FinishedIs, EthernetCardsAssumption
<1> DEFINE S == {k \in 0 .. Finished(s) : \A i \in Covered(s, k) : ~ rx[i].good}
<1>2. S \subseteq 0 .. Finished(s)
  OBVIOUS
<1>3. 0 \in S
  <2>1. 0 \in 0 .. N
    BY EthernetCardsAssumption
  <2>2. Covered(s, 0) = {}
    BY <2>1, CoveredIs, DistIs, EthernetCardsAssumption
  <2>3. QED
    BY <1>1, <2>2
<1>4. Max(S) \in S
  <2> HIDE DEF S
  <2>1. QED
    BY <1>1, <1>2, <1>3, LargestIsMember
<1>5. QED
  BY <1>2, <1>4

\* Nobody reads past the first descriptor that is not done.
LEMMA DoneUpTo ==
  ASSUME NEW s \in Slots, NEW m \in 0 .. N, NEW k \in 0 .. N, NoneAt(rx, s, m), Done(s, k)
  PROVE  k <= m
<1>1. SUFFICES ASSUME m < k PROVE FALSE
  BY EthernetCardsAssumption
<1>2. m < N
  BY <1>1, EthernetCardsAssumption
<1>3. At(s, m) \in Slots /\ Dist(s, At(s, m)) = m
  BY <1>2, Places
<1>4. QED
  BY <1>1, <1>3 DEF NoneAt, Done

\* What the driver's taking of k descriptors leaves.
Left(s, m, k) ==
  /\ rx' \in [Slots -> RxDesc] /\ Consecutive(taken') /\ Len(taken') = Len(taken) + k
  /\ Holds(rx', At(s, k), m - k, Len(taken'))
  /\ NoneAt(rx, s, m) => NoneAt(rx', At(s, k), m - k)
  /\ NoneFrom(rx, s, m) => NoneFrom(rx', At(s, k), m - k)
  /\ k > 0 => \A i \in Slots : Dist(s, i) = 0 => ~ rx'[i].done

LEMMA TakeLeaves ==
  ASSUME RxType, NEW s \in Slots, NEW m \in 0 .. N, NEW k \in 0 .. m,
         Holds(rx, s, m, Len(taken)), Take(s, k)
  PROVE  Left(s, m, k)
<1>0. k \in 0 .. N /\ N \in Nat /\ N > 1 /\ m \in Nat /\ m <= N /\ k \in Nat /\ k <= m
  BY EthernetCardsAssumption
<1>1. rx \in [Slots -> RxDesc] /\ Consecutive(taken)
  BY DEF RxType
<1>2. rx' = [i \in Slots |-> IF Dist(s, i) < k THEN Fresh ELSE rx[i]]
  BY <1>0, CoveredIs DEF Take
<1>3. Fresh \in RxDesc /\ ~ Fresh.done
  BY DEF Fresh, RxDesc
<1>4. rx' \in [Slots -> RxDesc]
  BY <1>1, <1>2, <1>3
<1> DEFINE new == [j \in 1 .. k |-> rx[(s + j - 1) % N].frame]
<1>5. ASSUME NEW j \in 1 .. k
      PROVE  rx[(s + j - 1) % N].frame = Len(taken) + j
  <2>1. j - 1 \in 0 .. N /\ j - 1 < N /\ s + j - 1 = s + (j - 1)
    BY <1>0 DEF Slots
  <2>2. (s + j - 1) % N = At(s, j - 1)
    BY <2>1, Modulo
  <2>3. At(s, j - 1) \in Slots /\ Dist(s, At(s, j - 1)) = j - 1
    BY <2>1, Places
  <2>4. rx[At(s, j - 1)].frame = Len(taken) + (j - 1) + 1
    BY <1>0, <2>1, <2>3 DEF Holds
  <2>5. QED
    BY <1>1, <2>2, <2>4 DEF Consecutive
<1>6. /\ new \in Seq(Nat) /\ Len(new) = k /\ \A j \in 1 .. k : new[j] = Len(taken) + j
  BY <1>0, <1>1, <1>5 DEF Consecutive
<1>7. taken' = taken \o new
  BY DEF Take
<1> HIDE DEF new
<1>8. Consecutive(taken') /\ Len(taken') = Len(taken) + k
  <2>1. /\ taken \in Seq(Nat) /\ \A i \in 1 .. Len(taken) : taken[i] = i
    BY <1>1 DEF Consecutive
  <2>2. taken' \in Seq(Nat) /\ Len(taken') = Len(taken) + k
    <3>1. taken \in Seq(Nat)
      BY <2>1
    <3>2. new \in Seq(Nat) /\ Len(new) = k
      BY <1>6
    <3>3. taken \o new \in Seq(Nat) /\ Len(taken \o new) = Len(taken) + Len(new)
      BY <3>1, <3>2, ConcatProperties
    <3>4. QED
      BY <1>7, <3>2, <3>3
  <2>3. ASSUME NEW i \in 1 .. Len(taken')
        PROVE  taken'[i] = i
    <3>1. CASE i <= Len(taken)
      BY <1>6, <1>7, <2>1, <2>2, <3>1
    <3>2. CASE i > Len(taken)
      <4>1. i - Len(taken) \in 1 .. k
        BY <1>0, <2>1, <2>2, <3>2
      <4>2. taken'[i] = new[i - Len(taken)]
        BY <1>6, <1>7, <2>1, <2>2, <3>2
      <4>3. QED
        BY <1>6, <2>1, <4>1, <4>2
    <3>3. QED
      BY <2>1, <3>1, <3>2
  <2>4. QED
    BY <2>2, <2>3 DEF Consecutive
<1>9. ASSUME NEW i \in Slots
      PROVE  /\ Dist(s, i) \in 0 .. N - 1
             /\ Dist(At(s, k), i) = IF Dist(s, i) >= k THEN Dist(s, i) - k ELSE Dist(s, i) - k + N
             /\ rx'[i] = IF Dist(s, i) < k THEN Fresh ELSE rx[i]
  BY <1>0, <1>2, DistIs, Further
<1>10. Holds(rx', At(s, k), m - k, Len(taken'))
  <2> SUFFICES ASSUME NEW i \in Slots, Dist(At(s, k), i) < m - k
               PROVE  rx'[i].done /\ rx'[i].frame = Len(taken') + Dist(At(s, k), i) + 1
    BY DEF Holds
  <2>1. Dist(s, i) >= k /\ Dist(s, i) < m /\ Dist(At(s, k), i) = Dist(s, i) - k
    BY <1>0, <1>9
  <2>2. rx'[i] = rx[i]
    BY <1>0, <1>9, <2>1
  <2>3. rx[i].done /\ rx[i].frame = Len(taken) + Dist(s, i) + 1
    BY <2>1 DEF Holds
  <2>4. QED
    BY <1>0, <1>1, <1>8, <1>9, <2>1, <2>2, <2>3 DEF Consecutive
<1>11. NoneAt(rx, s, m) => NoneAt(rx', At(s, k), m - k)
  BY <1>0, <1>3, <1>9 DEF NoneAt
<1>12. NoneFrom(rx, s, m) => NoneFrom(rx', At(s, k), m - k)
  BY <1>0, <1>3, <1>9 DEF NoneFrom
<1>13. k > 0 => \A i \in Slots : Dist(s, i) = 0 => ~ rx'[i].done
  BY <1>0, <1>3, <1>9
<1>14. QED
  BY <1>4, <1>8, <1>10, <1>11, <1>12, <1>13 DEF Left

\* The card stores a frame.
LEMMA HwReceiveRx ==
  ASSUME card \in Cards, RxOK, NEW good \in BOOLEAN, HwReceive(good)
  PROVE  RxOK'
<1>0. N \in Nat /\ N > 1
  BY EthernetCardsAssumption
<1>1. RxType /\ RxInv /\ RxEor
  BY DEF RxOK
<1> DEFINE desc == [done |-> TRUE, frame |-> arrived + 1, good |-> good]
<1>2. /\ arrived' = arrived + 1 /\ rx' = [rx EXCEPT ![rdh] = desc] /\ rdh' = Succ(rdh)
      /\ UNCHANGED <<card, rdt, rx_index, taken, eor>>
      /\ IF card = "rtl8168" THEN ~ rx[rdh].done ELSE rdh # rdt
  BY DEF HwReceive, CardMayFill
<1>3. desc \in RxDesc /\ desc.done /\ desc.frame = arrived + 1
  BY <1>1 DEF RxType, RxDesc
<1> HIDE DEF desc
<1>4. RxType'
  BY <1>1, <1>2, <1>3, SuccIs DEF RxType
<1>5. \A i \in Slots : rx'[i] = IF i = rdh THEN desc ELSE rx[i]
  BY <1>1, <1>2 DEF RxType
<1>6. PICK s \in Slots : s = Start
  BY <1>1, SuccIs DEF RxType, Start
<1>7. s = Start'
  BY <1>2, <1>6 DEF Start
<1>8. PICK m \in 0 .. N : Holds(rx, s, m, Len(taken)) /\ (InStep(m) \/ SetBack(m))
  BY <1>1, <1>6 DEF RxInv
<1>9. m \in Nat /\ m <= N /\ Len(taken) \in Nat /\ arrived \in Nat
  BY <1>0, <1>1 DEF RxType, Consecutive
<1>10. rdh \in Slots /\ rdt \in Slots
  BY <1>1 DEF RxType
<1>11. rdt = At(Succ(rdt), N - 1)
  BY <1>0, <1>10, SuccIs, FurtherAt, Places
<1>12. ASSUME InStep(m) PROVE RxInv'
  <2>1. /\ NoneFrom(rx, s, m) /\ arrived = Len(taken) + m /\ rdh = At(s, m)
        /\ card \in {"i8254x", "intel"} => m < N
        /\ card = "i219" => rdt = rx_index \/ (Succ(rdt) = rx_index /\ m < N)
    BY <1>6, <1>12 DEF InStep
  <2>2. m < N
    <3>1. SUFFICES ASSUME m = N PROVE FALSE
      BY <1>0, <1>9
    <3>2. rdh = s /\ Dist(s, s) = 0
      BY <1>0, <2>1, <3>1, Places DEF Dist, Slots
    <3>3. rx[rdh].done
      BY <1>0, <1>8, <3>1, <3>2 DEF Holds
    <3>4. QED
      BY <1>2, <1>6, <2>1, <3>1, <3>2, <3>3 DEF Cards, Start
  <2>3. /\ card \in {"i8254x", "intel"} => m + 1 < N
        /\ card = "i219" => rdt = rx_index \/ (Succ(rdt) = rx_index /\ m + 1 < N)
    <3>1. m + 1 < N \/ m = N - 1
      BY <1>0, <1>9, <2>2
    <3>2. card \in {"i8254x", "intel"} => m # N - 1
      BY <1>2, <1>6, <1>11, <2>1 DEF Start
    <3>3. card = "i219" /\ Succ(rdt) = rx_index => m # N - 1
      BY <1>2, <1>6, <1>11, <2>1 DEF Start
    <3>4. QED
      BY <2>1, <3>1, <3>2, <3>3
  <2>4. m + 1 \in 0 .. N /\ m \in 0 .. N
    BY <1>0, <1>9, <2>2
  <2>5. rdh' = At(s, m + 1)
    BY <1>0, <1>2, <1>9, <1>10, <2>1, <2>2, SuccIs, FurtherAt
  <2>6. \A i \in Slots : i # rdh => Dist(s, i) # m
    BY <2>1, DistIs
  <2>7. Dist(s, rdh) = m
    BY <2>1, <2>2, Places
  <2>8. Holds(rx', s, m + 1, Len(taken'))
    <3> SUFFICES ASSUME NEW i \in Slots, Dist(s, i) < m + 1
                 PROVE  rx'[i].done /\ rx'[i].frame = Len(taken) + Dist(s, i) + 1
      BY <1>2 DEF Holds
    <3>1. CASE i = rdh
      BY <1>3, <1>5, <1>9, <2>1, <2>7, <3>1
    <3>2. CASE i # rdh
      <4>1. Dist(s, i) < m
        BY <1>0, <1>9, <2>6, <3>2, DistIs
      <4>2. QED
        BY <1>5, <1>8, <3>2, <4>1 DEF Holds
    <3>3. QED
      BY <3>1, <3>2
  <2>9. NoneFrom(rx', s, m + 1)
    <3> SUFFICES ASSUME NEW i \in Slots, Dist(s, i) >= m + 1
                 PROVE  ~ rx'[i].done
      BY DEF NoneFrom
    <3>1. i # rdh /\ Dist(s, i) >= m
      BY <1>0, <1>9, <2>7, DistIs
    <3>2. QED
      BY <1>5, <2>1, <3>1 DEF NoneFrom
  <2>10. InStep(m + 1)'
    BY <1>2, <1>7, <1>9, <2>1, <2>3, <2>5, <2>9 DEF InStep
  <2>11. QED
    BY <1>7, <2>4, <2>8, <2>10 DEF RxInv
<1>13. ASSUME SetBack(m) PROVE RxInv'
  <2>1. /\ card = "i8254x" /\ s = Succ(rdt) /\ rdh # rdt
        /\ m < Dist(s, rdh) /\ Dist(s, rdh) >= N - 2 /\ NoneAt(rx, s, m)
    BY <1>2, <1>6, <1>13 DEF SetBack, Start
  <2>2. Dist(s, rdh) = N - 2
    BY <1>0, <1>10, <1>11, <2>1, DistIs
  <2>3. rdh' = At(s, N - 1)
    BY <1>0, <1>2, <1>10, <2>2, SuccIs, FurtherAt, DistIs
  <2>4. Dist(s, rdh') = N - 1
    BY <1>0, <2>3, Places
  <2>5. Holds(rx', s, m, Len(taken'))
    BY <1>0, <1>2, <1>5, <1>8, <1>9, <2>1, DistIs DEF Holds
  <2>6. NoneAt(rx', s, m)
    BY <1>0, <1>5, <1>9, <2>1, DistIs DEF NoneAt
  <2>7. SetBack(m)'
    BY <1>0, <1>2, <1>7, <1>9, <2>1, <2>2, <2>4, <2>6 DEF SetBack
  <2>8. QED
    BY <1>7, <2>5, <2>7 DEF RxInv
<1>14. RxEor'
  BY <1>1, <1>2 DEF RxEor, HwReceive, Follow
<1>15. QED
  BY <1>4, <1>8, <1>12, <1>13, <1>14 DEF RxOK

\* What RxInv says, for a constant place and number.
LEMMA RxPlace ==
  ASSUME RxOK
  PROVE  /\ Start \in Slots
         /\ \E m \in 0 .. N :
              /\ Holds(rx, Start, m, Len(taken))
              /\ InStep(m) \/ SetBack(m)
              /\ NoneAt(rx, Start, m)
<1>1. RxType
  BY DEF RxOK
<1>2. Start \in Slots
  BY <1>1, SuccIs DEF RxType, Start
<1>3. PICK m \in 0 .. N : Holds(rx, Start, m, Len(taken)) /\ (InStep(m) \/ SetBack(m))
  BY DEF RxOK, RxInv
<1>4. NoneAt(rx, Start, m)
  BY <1>2, <1>3, DistIs, EthernetCardsAssumption DEF InStep, SetBack, NoneFrom, NoneAt
<1>5. QED
  BY <1>2, <1>3, <1>4

\* The driver takes k frames that are there, and goes on k places further. What
\* the four drivers do to the registers is in the last hypothesis.
LEMMA TakeRx ==
  ASSUME card \in Cards, RxOK, UNCHANGED <<card, arrived>>,
         NEW k \in 0 .. N, k > 0, Done(Start, k), Take(Start, k),
         rdh' \in Slots, rdt' \in Slots, rx_index' \in Slots,
         Start' = At(Start, k),
         \/ /\ card = "i8254x" /\ k = 1 /\ rdh' = rdt
         \/ /\ card # "i8254x" /\ rdh' = rdh
            /\ card = "i219" => rdt' = rx_index'
  PROVE  /\ RxType' /\ RxInv' /\ Len(taken') = Len(taken) + k
         /\ Len(taken) \in Nat
<1>0. N \in Nat /\ N > 1 /\ k \in Nat /\ k <= N
  BY EthernetCardsAssumption
<1>1. RxType /\ Len(taken) \in Nat /\ arrived \in Nat
  BY DEF RxOK, RxType, Consecutive
<1>2. PICK s \in Slots : s = Start
  BY RxPlace
<1>3. PICK m \in 0 .. N : /\ Holds(rx, s, m, Len(taken)) /\ NoneAt(rx, s, m)
                          /\ InStep(m) \/ SetBack(m)
  BY <1>2, RxPlace
<1>4. k <= m /\ m \in Nat /\ m <= N /\ k \in 0 .. m /\ m - k \in 0 .. N
  BY <1>0, <1>2, <1>3, DoneUpTo
<1>5. Left(s, m, k)
  BY <1>1, <1>2, <1>3, <1>4, TakeLeaves
<1>6. /\ rx' \in [Slots -> RxDesc] /\ Consecutive(taken') /\ Len(taken') = Len(taken) + k
      /\ Holds(rx', At(s, k), m - k, Len(taken')) /\ NoneAt(rx', At(s, k), m - k)
      /\ NoneFrom(rx, s, m) => NoneFrom(rx', At(s, k), m - k)
  BY <1>3, <1>5 DEF Left
<1>7. RxType'
  BY <1>1, <1>6 DEF RxType
<1>8. RxInv'
  <2>1. CASE card = "i8254x"
    <3>1. k = 1 /\ rdh' = rdt /\ s = Succ(rdt) /\ rdt \in Slots
      BY <1>1, <1>2, <2>1 DEF Start, RxType
    <3>2. rdt = At(s, N - 1) /\ Dist(s, rdt) = N - 1
      BY <1>0, <3>1, SuccIs, FurtherAt, Places
    <3>3. rdt = At(At(s, 1), N - 2) /\ Dist(At(s, 1), rdt) = N - 2
      BY <1>0, <3>1, <3>2, FurtherAt, Further
    <3>0. m < N /\ (SetBack(m) => m < N - 1)
      <4>1. rdh \in Slots
        BY <1>1 DEF RxType
      <4>2. Dist(Start, rdh) \in Int /\ Dist(Start, rdh) <= N - 1
        BY <1>0, <1>2, <4>1, DistIs
      <4>3. SetBack(m) => m < N - 1
        BY <1>0, <1>4, <4>2 DEF SetBack
      <4>4. InStep(m) => m < N
        BY <2>1 DEF InStep
      <4>5. QED
        BY <1>0, <1>3, <1>4, <4>3, <4>4
    <3>4. CASE m = N - 1
      <4>1. ~ SetBack(m)
        BY <1>0, <3>0, <3>4
      <4>2. NoneFrom(rx, s, m) /\ arrived = Len(taken) + m
        BY <1>2, <1>3, <4>1 DEF InStep
      <4>3. InStep(m - 1)'
        BY <1>0, <1>1, <1>2, <1>4, <1>6, <2>1, <3>1, <3>3, <3>4, <4>2 DEF InStep
      <4>4. QED
        BY <1>2, <1>4, <1>6, <3>1, <4>3 DEF RxInv
    <3>5. CASE m # N - 1
      <4>1. m - 1 < N - 2
        BY <1>0, <1>4, <3>0, <3>5
      <4>2. SetBack(m - 1)'
        BY <1>0, <1>2, <1>6, <2>1, <3>1, <3>3, <4>1 DEF SetBack
      <4>3. QED
        BY <1>2, <1>4, <1>6, <3>1, <4>2 DEF RxInv
    <3>6. QED
      BY <3>4, <3>5
  <2>2. CASE card # "i8254x"
    <3>1. /\ NoneFrom(rx, s, m) /\ arrived = Len(taken) + m /\ rdh = At(s, m)
          /\ rdh' = rdh /\ (card = "i219" => rdt' = rx_index')
      BY <1>2, <1>3, <2>2 DEF InStep, SetBack
    <3>2. rdh' = At(At(s, k), m - k)
      BY <1>0, <1>4, <3>1, FurtherAt
    <3>3. InStep(m - k)'
      BY <1>0, <1>1, <1>2, <1>4, <1>6, <2>2, <3>1, <3>2 DEF InStep
    <3>4. QED
      BY <1>2, <1>4, <1>6, <3>3 DEF RxInv
  <2>3. QED
    BY <2>1, <2>2
<1>9. QED
  BY <1>1, <1>6, <1>7, <1>8

\* The four drivers' ways of taking frames.
LEMMA PollRx ==
  ASSUME card \in Cards, RxOK, UNCHANGED <<card, arrived, astray>>,
         \/ i8254x_poll
         \/ \E k \in {1, FinishedGood(rx_index)} : FinishedGood(rx_index) > 0 /\ i219_poll(k)
         \/ \E k \in {1, Finished(Succ(rdt))} : Finished(Succ(rdt)) > 0 /\ intel_ethernet_receive(k)
         \/ rtl8168_poll
  PROVE  RxOK' /\ eor \ {"rx"} \subseteq eor'
<1>0. N \in Nat /\ N > 1
  BY EthernetCardsAssumption
<1>1. RxType /\ RxInv /\ RxEor
  BY DEF RxOK
<1>2. rdh \in Slots /\ rdt \in Slots /\ rx_index \in Slots /\ Len(taken) \in Nat
  BY <1>1 DEF RxType, Consecutive
<1>3. /\ Finished(rx_index) \in 0 .. N /\ Done(rx_index, Finished(rx_index))
      /\ FinishedGood(rx_index) \in 0 .. Finished(rx_index)
  BY <1>2, FinishedIs, FinishedGoodIs
<1>4. Succ(rdt) \in Slots
  BY <1>2, SuccIs
<1>5. Finished(Succ(rdt)) \in 0 .. N /\ Done(Succ(rdt), Finished(Succ(rdt)))
  BY <1>4, FinishedIs
<1>6. \A s \in Slots, n \in 0 .. N : Done(s, n) => \A k \in 0 .. n : Done(s, k)
  BY <1>0, DistIs DEF Done
<1>7. CASE i8254x_poll
  <2>1. /\ card = "i8254x" /\ Start = Succ(rdt) /\ rx[Succ(rdt)].done
        /\ Take(Succ(rdt), 1) /\ rdh' = rdt /\ rdt' = Succ(rdt)
        /\ UNCHANGED <<rx_index, eor>>
    BY <1>7 DEF i8254x_poll, Start
  <2>2. Done(Succ(rdt), 1)
    <3> SUFFICES ASSUME NEW i \in Slots, Dist(Succ(rdt), i) < 1
                 PROVE  rx[i].done
      BY DEF Done
    <3>1. Dist(Succ(rdt), i) = 0
      BY <1>0, <1>4, DistIs
    <3>2. i = Succ(rdt)
      BY <1>0, <1>4, <3>1, DistIs, Places
    <3>3. QED
      BY <2>1, <3>2
  <2>3. Start' = At(Start, 1)
    BY <1>4, <2>1, SuccIs DEF Start
  <2>4. RxType' /\ RxInv' /\ Len(taken') = Len(taken) + 1
    BY <1>0, <1>2, <1>4, <2>1, <2>2, <2>3, TakeRx
  <2>5. RxEor'
    BY <1>0, <1>1, <1>2, <2>1, <2>4 DEF RxEor
  <2>6. QED
    BY <2>1, <2>4, <2>5 DEF RxOK
<1>8. CASE \E k \in {1, FinishedGood(rx_index)} : FinishedGood(rx_index) > 0 /\ i219_poll(k)
  <2>1. PICK k \in {1, FinishedGood(rx_index)} : FinishedGood(rx_index) > 0 /\ i219_poll(k)
    BY <1>8
  <2>2. /\ card = "i219" /\ Start = rx_index /\ k > 0 /\ Take(rx_index, k)
        /\ rx_index' = (rx_index + k) % N /\ rdt' = rx_index' /\ UNCHANGED <<rdh, eor>>
    BY <2>1 DEF i219_poll, Start
  <2>3. k \in 0 .. N /\ k \in 0 .. Finished(rx_index)
    BY <1>0, <1>3, <2>1
  <2>4. Done(rx_index, k)
    BY <1>2, <1>3, <1>6, <2>3
  <2>5. rx_index' = At(rx_index, k) /\ rx_index' \in Slots
    BY <1>2, <2>2, <2>3, Modulo, Places
  <2>6. Start' = At(Start, k)
    BY <2>2, <2>5 DEF Start
  <2>7. RxType' /\ RxInv' /\ Len(taken') = Len(taken) + k
    BY <1>2, <2>2, <2>3, <2>4, <2>5, <2>6, TakeRx
  <2>8. RxEor'
    BY <1>0, <1>1, <1>2, <2>2, <2>3, <2>7 DEF RxEor
  <2>9. QED
    BY <2>2, <2>7, <2>8 DEF RxOK
<1>9. CASE \E k \in {1, Finished(Succ(rdt))} : Finished(Succ(rdt)) > 0 /\ intel_ethernet_receive(k)
  <2>1. PICK k \in {1, Finished(Succ(rdt))} : Finished(Succ(rdt)) > 0 /\ intel_ethernet_receive(k)
    BY <1>9
  <2>2. /\ card = "intel" /\ Start = Succ(rdt) /\ k > 0 /\ Take(Succ(rdt), k)
        /\ rdt' = (Succ(rdt) + k - 1) % N /\ UNCHANGED <<rdh, rx_index, eor>>
    BY <2>1 DEF intel_ethernet_receive, NewTail, Start
  <2>3. k \in 0 .. N /\ k \in 0 .. Finished(Succ(rdt))
    BY <1>0, <1>5, <2>1
  <2>4. Done(Succ(rdt), k)
    BY <1>4, <1>5, <1>6, <2>3
  <2>5. rdt' = At(Succ(rdt), k - 1) /\ rdt' \in Slots
    <3>1. k - 1 \in 0 .. N /\ Succ(rdt) + k - 1 = Succ(rdt) + (k - 1)
      BY <1>0, <1>4, <2>2, <2>3 DEF Slots
    <3>2. QED
      BY <1>4, <2>2, <3>1, Modulo, Places
  <2>6. Start' = At(Start, k)
    <3>1. Start' = At(At(Succ(rdt), k - 1), 1)
      BY <2>2, <2>5, SuccIs DEF Start
    <3>2. k - 1 \in 0 .. N /\ k - 1 + 1 = k /\ 1 \in 0 .. N /\ k - 1 + 1 <= N
      BY <1>0, <2>2, <2>3
    <3>3. QED
      BY <1>4, <2>2, <3>1, <3>2, FurtherAt
  <2>7. RxType' /\ RxInv' /\ Len(taken') = Len(taken) + k
    BY <1>2, <2>2, <2>3, <2>4, <2>5, <2>6, TakeRx
  <2>8. RxEor'
    BY <1>0, <1>1, <1>2, <2>2, <2>3, <2>7 DEF RxEor
  <2>9. QED
    BY <2>2, <2>7, <2>8 DEF RxOK
<1>10. CASE rtl8168_poll
  <2> DEFINE finished == Finished(rx_index)
             bad == Max({j \in 0 .. finished : \A i \in Covered(rx_index, j) : ~ rx[i].good})
             k   == IF bad < finished THEN bad + 1 ELSE bad
  <2>1. bad \in 0 .. finished
    BY <1>2, FinishedBadIs
  <2>2. /\ card = "rtl8168" /\ Start = rx_index /\ k > 0 /\ Take(rx_index, k)
        /\ rx_index' = (rx_index + k) % N /\ UNCHANGED <<rdh, rdt>>
        /\ eor' = IF EndSlot \in Covered(rx_index, k) THEN eor \ {"rx"} ELSE eor
    BY <1>10 DEF rtl8168_poll, Start
  <2> HIDE DEF bad
  <2>3. k \in 0 .. N /\ k \in 0 .. Finished(rx_index)
    BY <1>0, <1>3, <2>1
  <2> HIDE DEF k
  <2>4. Done(rx_index, k)
    BY <1>2, <1>3, <1>6, <2>3
  <2>5. rx_index' = At(rx_index, k) /\ rx_index' \in Slots
    BY <1>2, <2>2, <2>3, Modulo, Places
  <2>6. Start' = At(Start, k)
    BY <2>2, <2>5 DEF Start
  <2>7. RxType' /\ RxInv' /\ Len(taken') = Len(taken) + k
    BY <1>2, <2>2, <2>3, <2>4, <2>5, <2>6, TakeRx
  <2>8. Len(taken') < N => rx_index = Len(taken) /\ rx_index' = Len(taken')
    BY <1>0, <1>1, <1>2, <2>2, <2>3, <2>5, <2>7 DEF RxEor, At
  <2>9. Len(taken') < N => EndSlot \notin Covered(rx_index, k)
    <3> SUFFICES ASSUME Len(taken) + k < N, rx_index = Len(taken)
                 PROVE  ~ (Dist(rx_index, N - 1) < k)
      BY <1>2, <2>3, <2>7, <2>8, CoveredIs DEF EndSlot
    <3>1. QED
      BY <1>0, <1>2, <2>3 DEF Dist
  <2>10. RxEor'
    <3>1. Len(taken') >= Len(taken) /\ Len(taken') \in Nat
      BY <1>0, <1>2, <2>3, <2>7
    <3>2. "rx" \in eor' \/ Len(taken') >= N
      BY <1>0, <1>1, <1>2, <2>2, <2>9, <3>1 DEF RxEor
    <3>3. QED
      BY <1>0, <1>1, <1>2, <2>2, <2>8, <3>1, <3>2 DEF RxEor
  <2>11. QED
    BY <2>2, <2>7, <2>10 DEF RxOK
<1>11. QED
  BY <1>7, <1>8, <1>9, <1>10

-----------------------------------------------------------------------------
(***************************************************************************)
(* Sending                                                                 *)
(***************************************************************************)
LEMMA AppendNext ==
  ASSUME NEW s, Consecutive(s), NEW x, x = Len(s) + 1
  PROVE  /\ Consecutive(Append(s, x)) /\ Len(Append(s, x)) = Len(s) + 1
         /\ Len(s) \in Nat
BY DEF Consecutive

\* The card sends the first frame that is queued.
LEMMA HwSendTx ==
  ASSUME card \in Cards, TxOK, HwSend
  PROVE  TxOK'
<1>0. N \in Nat /\ N > 1
  BY EthernetCardsAssumption
<1>1. TxType /\ TxInv /\ TxEor
  BY DEF TxOK
<1>2. /\ sent' = Append(sent, tx[tdh].frame) /\ tx' = [tx EXCEPT ![tdh].busy = FALSE]
      /\ tdh' = Succ(tdh) /\ UNCHANGED <<card, tdt, tx_index, queued, eor>>
      /\ IF card = "rtl8168" THEN tx[tdh].busy ELSE tdh # tdt
  BY DEF HwSend, CardMaySend
<1>3. Len(queued) \in Nat /\ Len(sent) \in Nat /\ tdh \in Slots /\ tdt \in Slots /\ tx_index \in Slots
  BY <1>1 DEF TxType, Consecutive
<1>4. PICK m \in 0 .. N : m = Len(queued) - Len(sent)
  BY <1>1 DEF TxInv
<1>5. /\ tdt = tx_index /\ tx_index = At(tdh, m)
      /\ \A i \in Slots : Dist(tdh, i) < m => tx[i].frame = Len(sent) + Dist(tdh, i) + 1
      /\ card # "intel" => \A i \in Slots : tx[i].busy <=> Dist(tdh, i) < m
      /\ card = "intel" => Len(queued) < N /\ tx_index = Len(queued)
      /\ card = "i219" => Len(queued) = 0
  BY <1>1, <1>4 DEF TxInv
<1>6. m \in Nat /\ m <= N /\ Dist(tdh, tdh) = 0
  BY <1>0, <1>3 DEF Dist, Slots
<1>7. m > 0
  <2>1. m # 0
    BY <1>0, <1>2, <1>3, <1>5, <1>6, Places
  <2>2. QED
    BY <1>6, <2>1
<1>8. tx[tdh].frame = Len(sent) + 1
  BY <1>3, <1>5, <1>6, <1>7
<1>9. Consecutive(sent') /\ Len(sent') = Len(sent) + 1
  BY <1>1, <1>2, <1>8, AppendNext DEF TxType
<1>10. /\ tx' \in [Slots -> TxDesc] /\ ~ tx'[tdh].busy
       /\ \A i \in Slots : i # tdh => tx'[i] = tx[i]
  <2>1. [tx[tdh] EXCEPT !.busy = FALSE] \in TxDesc /\ ~ [tx[tdh] EXCEPT !.busy = FALSE].busy
    BY <1>1, <1>3 DEF TxType, TxDesc
  <2>2. QED
    BY <1>1, <1>2, <1>3, <2>1 DEF TxType
<1>11. TxType'
  BY <1>1, <1>2, <1>3, <1>9, <1>10, SuccIs DEF TxType
<1>12. tdh' = At(tdh, 1) /\ 1 \in 0 .. N /\ m - 1 \in 0 .. N
  BY <1>0, <1>2, <1>3, <1>6, <1>7, SuccIs
<1>13. m - 1 = Len(queued') - Len(sent')
  BY <1>2, <1>3, <1>4, <1>9
<1>14. At(tdh', m - 1) = At(tdh, m)
  <2>1. At(At(tdh, 1), m - 1) = At(tdh, 1 + (m - 1))
    BY <1>0, <1>3, <1>6, <1>12, FurtherAt
  <2>2. 1 + (m - 1) = m
    BY <1>6
  <2>3. QED
    BY <1>12, <2>1, <2>2
<1>15. ASSUME NEW i \in Slots
       PROVE  /\ Dist(tdh, i) \in 0 .. N - 1 /\ (Dist(tdh, i) = 0 <=> i = tdh)
              /\ Dist(tdh', i) = IF i = tdh THEN N - 1 ELSE Dist(tdh, i) - 1
  <2>1. Dist(tdh, i) \in 0 .. N - 1 /\ At(tdh, Dist(tdh, i)) = i
    BY <1>3, DistIs
  <2>2. Dist(tdh, i) = 0 <=> i = tdh
    BY <1>0, <1>3, <1>6, <2>1, Places
  <2>3. Dist(At(tdh, 1), i) = IF Dist(tdh, i) >= 1 THEN Dist(tdh, i) - 1 ELSE Dist(tdh, i) - 1 + N
    BY <1>3, <1>12, Further
  <2>4. QED
    BY <1>0, <1>12, <2>1, <2>2, <2>3
<1>16. ASSUME NEW i \in Slots, Dist(tdh', i) < m - 1
       PROVE  tx'[i].frame = Len(sent') + Dist(tdh', i) + 1
  <2>1. i # tdh /\ Dist(tdh', i) = Dist(tdh, i) - 1 /\ Dist(tdh, i) < m
    BY <1>0, <1>6, <1>15, <1>16
  <2>2. tx'[i].frame = Len(sent) + Dist(tdh, i) + 1
    BY <1>5, <1>10, <2>1
  <2>3. QED
    BY <1>0, <1>3, <1>9, <1>15, <2>1, <2>2
<1>17. ASSUME NEW i \in Slots, card # "intel"
       PROVE  tx'[i].busy <=> Dist(tdh', i) < m - 1
  <2>1. CASE i = tdh
    BY <1>0, <1>6, <1>10, <1>15, <2>1
  <2>2. CASE i # tdh
    BY <1>0, <1>5, <1>6, <1>10, <1>15, <1>17, <2>2
  <2>3. QED
    BY <2>1, <2>2
<1>18. TxInv'
  BY <1>2, <1>5, <1>12, <1>13, <1>14, <1>16, <1>17 DEF TxInv
<1>19. TxEor'
  BY <1>1, <1>2 DEF TxEor, HwSend, Follow
<1>20. QED
  BY <1>11, <1>18, <1>19 DEF TxOK

\* A frame is put into a descriptor that is not in use.
LEMMA EnqueueTx ==
  ASSUME card \in Cards, TxOK, UNCHANGED <<card, tdh, sent, astray>>, Enqueue,
         Len(queued) - Len(sent) < N,
         card # "i219", card = "intel" => tx_index # N - 1,
         card = "rtl8168" => eor' = IF tx_index = EndSlot THEN eor \ {"tx"} ELSE eor
  PROVE  TxOK'
<1>0. N \in Nat /\ N > 1
  BY EthernetCardsAssumption
<1>1. TxType /\ TxInv /\ TxEor
  BY DEF TxOK
<1> DEFINE desc == [busy |-> TRUE, frame |-> Len(queued) + 1]
<1>2. /\ tx' = [tx EXCEPT ![tx_index] = desc] /\ queued' = Append(queued, Len(queued) + 1)
      /\ tx_index' = Succ(tx_index) /\ tdt' = Succ(tx_index)
  BY DEF Enqueue, TailAfter
<1>3. Len(queued) \in Nat /\ Len(sent) \in Nat /\ tdh \in Slots /\ tdt \in Slots /\ tx_index \in Slots
  BY <1>1 DEF TxType, Consecutive
<1>4. PICK m \in 0 .. N : m = Len(queued) - Len(sent)
  BY <1>1 DEF TxInv
<1>5. /\ tdt = tx_index /\ tx_index = At(tdh, m)
      /\ \A i \in Slots : Dist(tdh, i) < m => tx[i].frame = Len(sent) + Dist(tdh, i) + 1
      /\ card # "intel" => \A i \in Slots : tx[i].busy <=> Dist(tdh, i) < m
      /\ card = "intel" => Len(queued) < N /\ tx_index = Len(queued)
  BY <1>1, <1>4 DEF TxInv
<1>6. m \in Nat /\ m < N /\ m + 1 \in 0 .. N
  BY <1>0, <1>4
<1>7. Consecutive(queued') /\ Len(queued') = Len(queued) + 1
  BY <1>1, <1>2, AppendNext DEF TxType
<1>8. desc \in TxDesc /\ desc.busy /\ desc.frame = Len(queued) + 1
  BY <1>3 DEF TxDesc
<1> HIDE DEF desc
<1>9. tx' \in [Slots -> TxDesc] /\ \A i \in Slots : tx'[i] = IF i = tx_index THEN desc ELSE tx[i]
  BY <1>1, <1>2, <1>3, <1>8 DEF TxType
<1>10. TxType'
  BY <1>1, <1>2, <1>3, <1>7, <1>9, SuccIs DEF TxType
<1>11. m + 1 = Len(queued') - Len(sent')
  BY <1>3, <1>4, <1>7
<1>12. tx_index' = At(tdh', m + 1) /\ tdt' = tx_index'
  BY <1>0, <1>2, <1>3, <1>5, <1>6, SuccIs, FurtherAt
<1>13. ASSUME NEW i \in Slots
       PROVE  Dist(tdh, i) \in 0 .. N - 1 /\ (Dist(tdh, i) = m <=> i = tx_index)
  <2>1. Dist(tdh, i) \in 0 .. N - 1 /\ At(tdh, Dist(tdh, i)) = i
    BY <1>3, DistIs
  <2>2. Dist(tdh, At(tdh, m)) = m
    BY <1>3, <1>6, Places
  <2>3. QED
    BY <1>5, <2>1, <2>2
<1>14. ASSUME NEW i \in Slots, Dist(tdh, i) < m + 1
       PROVE  tx'[i].frame = Len(sent') + Dist(tdh, i) + 1
  <2>1. CASE i = tx_index
    <3>1. Dist(tdh, i) = m /\ tx'[i].frame = Len(queued) + 1
      BY <1>8, <1>9, <1>13, <2>1
    <3>2. QED
      BY <1>3, <1>4, <3>1
  <2>2. CASE i # tx_index
    BY <1>0, <1>5, <1>6, <1>9, <1>13, <1>14, <2>2
  <2>3. QED
    BY <2>1, <2>2
<1>15. ASSUME NEW i \in Slots, card # "intel"
       PROVE  tx'[i].busy <=> Dist(tdh, i) < m + 1
  <2>1. CASE i = tx_index
    BY <1>0, <1>6, <1>8, <1>9, <1>13, <2>1
  <2>2. CASE i # tx_index
    BY <1>0, <1>5, <1>6, <1>9, <1>13, <1>15, <2>2
  <2>3. QED
    BY <2>1, <2>2
<1>16. card = "intel" => Len(queued') < N /\ tx_index' = Len(queued')
  <2>1. SUFFICES ASSUME card = "intel"
                 PROVE  Len(queued') < N /\ tx_index' = Len(queued')
    OBVIOUS
  <2>2. tx_index = Len(queued) /\ tx_index \in 0 .. N - 1 /\ tx_index # N - 1
    BY <1>3, <1>5, <2>1 DEF Slots
  <2>3. tx_index' = At(tx_index, 1)
    BY <1>2, <1>3, SuccIs
  <2>4. At(tx_index, 1) = tx_index + 1
    BY <1>0, <2>2 DEF At
  <2>5. QED
    BY <1>0, <1>7, <2>2, <2>3, <2>4
<1>17. TxInv'
  BY <1>6, <1>11, <1>12, <1>14, <1>15, <1>16 DEF TxInv
<1>18. TxEor'
  <2>1. card = "rtl8168" /\ Len(queued') < N =>
          tx_index = Len(queued) /\ tx_index # EndSlot /\ tx_index' = Len(queued')
    BY <1>0, <1>1, <1>2, <1>3, <1>7, SuccIs DEF TxEor, At, EndSlot, Slots
  <2>2. Len(queued') \in Nat /\ Len(queued') >= Len(queued)
    BY <1>3, <1>7
  <2>3. card = "rtl8168" => "tx" \in eor' \/ Len(queued') >= N
    BY <1>0, <1>1, <1>3, <2>1, <2>2 DEF TxEor
  <2>4. QED
    BY <1>0, <1>1, <1>3, <2>1, <2>2, <2>3 DEF TxEor
<1>19. QED
  BY <1>10, <1>17, <1>18 DEF TxOK

LEMMA NetSendTx ==
  ASSUME card \in Cards, TxOK, net_send
  PROVE  TxOK' /\ eor \ {"tx"} \subseteq eor'
<1>0. N \in Nat /\ N > 1
  BY EthernetCardsAssumption
<1>1. TxType /\ TxInv /\ TxEor /\ UNCHANGED <<card, tdh, sent, astray>>
  BY DEF TxOK, net_send
<1>2. tdh \in Slots /\ tx_index \in Slots /\ Len(queued) \in Nat /\ Len(sent) \in Nat
  BY <1>1 DEF TxType, Consecutive
<1>3. Dist(tdh, tx_index) \in 0 .. N - 1
  BY <1>2, DistIs
<1>4. /\ Len(queued) - Len(sent) \in 0 .. N
      /\ card # "intel" => (tx[tx_index].busy <=> Dist(tdh, tx_index) < Len(queued) - Len(sent))
      /\ card = "intel" => Len(queued) < N
      /\ card = "i219" => Len(queued) = 0
  BY <1>1, <1>2 DEF TxInv
<1>5. card # "intel" /\ ~ tx[tx_index].busy => Len(queued) - Len(sent) < N
  BY <1>0, <1>2, <1>3, <1>4
<1>6. ASSUME NEW says, Refuse(says), UNCHANGED eor
      PROVE  TxOK' /\ eor \ {"tx"} \subseteq eor'
  BY <1>1, <1>6 DEF Refuse, TxOK, TxType, TxInv, TxEor
<1>7. CASE i8254x_transmit
  <2>1. card = "i8254x" /\ ~ tx[tx_index].busy /\ Enqueue /\ eor' = eor
    BY <1>7 DEF i8254x_transmit
  <2>2. QED
    BY <1>1, <1>5, <2>1, EnqueueTx
<1>8. CASE i219_transmit
  <2>1. card = "i219" /\ (IF tx[tx_index].busy THEN Enqueue ELSE Refuse("fail")) /\ eor' = eor
    BY <1>8 DEF i219_transmit
  <2>2. ~ tx[tx_index].busy
    BY <1>0, <1>2, <1>3, <1>4, <2>1
  <2>3. QED
    BY <1>6, <2>1, <2>2
<1>9. CASE intel_ethernet_transmit
  <2>1. /\ card = "intel" /\ eor' = eor
        /\ IF Succ(tx_index) = 0 THEN Refuse("fail") ELSE Enqueue
    BY <1>9 DEF intel_ethernet_transmit
  <2>2. CASE Succ(tx_index) = 0
    BY <1>6, <2>1, <2>2
  <2>3. CASE Succ(tx_index) # 0
    <3>1. tx_index # N - 1
      BY <1>0, <1>2, <2>3, SuccIs DEF At
    <3>2. Len(queued) - Len(sent) < N
      BY <1>0, <1>2, <1>4, <2>1
    <3>3. QED
      BY <1>1, <2>1, <2>3, <3>1, <3>2, EnqueueTx
  <2>4. QED
    BY <2>2, <2>3
<1>10. CASE rtl8168_send_packet
  <2>1. card = "rtl8168"
    BY <1>10 DEF rtl8168_send_packet
  <2>2. CASE tx[tx_index].busy
    BY <1>6, <1>10, <2>2 DEF rtl8168_send_packet
  <2>3. CASE ~ tx[tx_index].busy
    <3>1. Enqueue /\ eor' = IF tx_index = EndSlot THEN eor \ {"tx"} ELSE eor
      BY <1>10, <2>3 DEF rtl8168_send_packet
    <3>2. QED
      BY <1>1, <1>5, <2>1, <2>3, <3>1, EnqueueTx
  <2>4. QED
    BY <2>2, <2>3
<1>11. QED
  BY <1>7, <1>8, <1>9, <1>10 DEF net_send

-----------------------------------------------------------------------------
(***************************************************************************)
(* The invariant, and what follows                                         *)
(***************************************************************************)
LEMMA CardRingInvInit == CardInit => CardRingInv
<1> SUFFICES ASSUME CardInit PROVE CardRingInv
  OBVIOUS
<1>0. N \in Nat /\ N > 1 /\ 0 \in Slots /\ EndSlot \in Slots /\ Succ(EndSlot) = 0 /\ 0 \in 0 .. N
  BY EthernetCardsAssumption DEF Slots, EndSlot, Succ
<1>1. PICK b \in BOOLEAN : EmptyRings(b) /\ (b => card = "intel") /\ (~ b => card # "intel")
  BY DEF CardInit, i8254x_init, i219_init, intel_init_device, rtl8168_init
<1>2. card \in Cards /\ (card = "rtl8168" => eor = {"rx", "tx"})
  BY DEF CardInit, i8254x_init, i219_init, intel_init_device, rtl8168_init, Cards, EorAtInit
<1>3. arrived = 0 /\ taken = <<>> /\ queued = <<>> /\ sent = <<>> /\ astray = {}
  BY DEF CardInit
<1>4. Consecutive(<<>>) /\ Len(<<>>) = 0
  BY DEF Consecutive
<1>5. /\ rx = [i \in Slots |-> Fresh] /\ rdh = 0 /\ rdt = EndSlot /\ rx_index = 0
      /\ tx = [i \in Slots |-> [busy |-> b, frame |-> 0]] /\ tdh = 0 /\ tdt = 0 /\ tx_index = 0
  BY <1>1 DEF EmptyRings
<1>6. RxType
  BY <1>0, <1>3, <1>4, <1>5 DEF RxType, RxDesc, Fresh
<1>7. TxType
  BY <1>0, <1>3, <1>4, <1>5 DEF TxType, TxDesc
<1>8. Start = 0
  BY <1>0, <1>5 DEF Start
<1>9. \A i \in Slots : Dist(0, i) \in 0 .. N - 1
  BY <1>0, DistIs
<1>10. At(0, 0) = 0
  BY <1>0 DEF At
<1>11. RxInv
  <2>1. Holds(rx, 0, 0, 0)
    BY <1>0, <1>9 DEF Holds
  <2>2. NoneFrom(rx, 0, 0)
    BY <1>5 DEF NoneFrom, Fresh
  <2>3. InStep(0)
    BY <1>0, <1>3, <1>4, <1>5, <1>8, <1>10, <2>2 DEF InStep
  <2>4. QED
    BY <1>0, <1>3, <1>4, <1>8, <2>1, <2>3 DEF RxInv
<1>12. TxInv
  <2>1. \A i \in Slots : ~ (Dist(0, i) < 0)
    BY <1>0, <1>9
  <2>2. card # "intel" => \A i \in Slots : ~ tx[i].busy
    BY <1>1, <1>5
  <2>3. Len(queued) - Len(sent) = 0
    BY <1>3, <1>4
  <2>4. QED
    BY <1>0, <1>3, <1>4, <1>5, <1>10, <2>1, <2>2, <2>3 DEF TxInv
<1>13. RxEor /\ TxEor
  BY <1>2, <1>3, <1>4, <1>5 DEF RxEor, TxEor
<1>14. QED
  BY <1>2, <1>6, <1>7, <1>11, <1>12, <1>13 DEF CardRingInv, RxOK, TxOK

\* One side of the card leaves the other alone.
LEMMA RxSame ==
  ASSUME RxOK, UNCHANGED <<card, rxVars>>, eor \ {"tx"} \subseteq eor', "rx" \in astray' => "rx" \in astray
  PROVE  RxOK'
BY DEF rxVars, RxOK, RxType, RxInv, RxEor, Start, InStep, SetBack

LEMMA TxSame ==
  ASSUME TxOK, UNCHANGED <<card, txVars>>, eor \ {"rx"} \subseteq eor', "tx" \in astray' => "tx" \in astray
  PROVE  TxOK'
BY DEF txVars, TxOK, TxType, TxInv, TxEor

LEMMA CardRingInvStep == CardRingInv /\ [CardNext]_cardVars => CardRingInv'
<1> SUFFICES ASSUME CardRingInv, [CardNext]_cardVars PROVE CardRingInv'
  OBVIOUS
<1>0. card \in Cards /\ RxOK /\ TxOK
  BY DEF CardRingInv
<1>1. ASSUME NEW good \in BOOLEAN, HwReceive(good)
      PROVE  CardRingInv'
  <2>1. RxOK'
    BY <1>0, <1>1, HwReceiveRx
  <2>2. UNCHANGED <<card, txVars>> /\ eor' = eor /\ ("tx" \in astray' => "tx" \in astray)
    BY <1>1 DEF HwReceive, Follow
  <2>3. TxOK'
    BY <1>0, <2>2, TxSame
  <2>4. QED
    BY <1>0, <2>1, <2>2, <2>3 DEF CardRingInv
<1>2. CASE HwSend
  <2>1. TxOK'
    BY <1>0, <1>2, HwSendTx
  <2>2. UNCHANGED <<card, rxVars>> /\ eor' = eor /\ ("rx" \in astray' => "rx" \in astray)
    BY <1>2 DEF HwSend, Follow
  <2>3. RxOK'
    BY <1>0, <2>2, RxSame
  <2>4. QED
    BY <1>0, <2>1, <2>2, <2>3 DEF CardRingInv
<1>3. CASE net_receive \/ interrupt_handler
  <2>1. UNCHANGED <<card, txVars, astray, arrived>>
    BY <1>3 DEF net_receive, interrupt_handler
  <2>2. \/ i8254x_poll
        \/ \E k \in {1, FinishedGood(rx_index)} : FinishedGood(rx_index) > 0 /\ i219_poll(k)
        \/ \E k \in {1, Finished(Succ(rdt))} : Finished(Succ(rdt)) > 0 /\ intel_ethernet_receive(k)
        \/ rtl8168_poll
    BY <1>3 DEF net_receive, interrupt_handler, i219_interrupt_handler,
                intel_ethernet_interrupt_handler, i219_poll, intel_ethernet_receive
  <2>3. RxOK' /\ eor \ {"rx"} \subseteq eor'
    BY <1>0, <2>1, <2>2, PollRx
  <2>4. TxOK'
    BY <1>0, <2>1, <2>3, TxSame
  <2>5. QED
    BY <1>0, <2>1, <2>3, <2>4 DEF CardRingInv
<1>4. CASE net_send
  <2>1. TxOK' /\ eor \ {"tx"} \subseteq eor'
    BY <1>0, <1>4, NetSendTx
  <2>2. UNCHANGED <<card, rxVars, astray>>
    BY <1>4 DEF net_send
  <2>3. RxOK'
    BY <1>0, <2>1, <2>2, RxSame
  <2>4. QED
    BY <1>0, <2>1, <2>2, <2>3 DEF CardRingInv
<1>5. CASE rtl8168_power_down \/ rtl8168_power_up \/ UNCHANGED cardVars
  <2>1. UNCHANGED <<card, rxVars, txVars, eor, astray>>
    BY <1>5 DEF rtl8168_power_down, rtl8168_power_up, cardVars
  <2>2. QED
    BY <1>0, <2>1, RxSame, TxSame DEF CardRingInv
<1>6. QED
  BY <1>1, <1>2, <1>3, <1>4, <1>5 DEF CardNext

\* The inductive invariant of the rings of all four drivers: what the descriptors
\* between the driver's and the card's position hold, for both directions.
THEOREM CardRingInvTheorem == CardSpec => []CardRingInv
<1>1. QED
  BY CardRingInvInit, CardRingInvStep, PTL DEF CardSpec

\* Whatever the card and the driver do between each other's steps, in each of the
\* four drivers: frames are read out of the receive ring in the order they were
\* stored in, none left out and none twice, and frames go onto the wire in the
\* order of net_send, none overwritten.
THEOREM FramesInOrderTheorem == CardSpec => []FramesInOrder
<1>1. CardRingInv => FramesInOrder
  <2> SUFFICES ASSUME CardRingInv PROVE FramesInOrder
    OBVIOUS
  <2>1. /\ Consecutive(taken) /\ Consecutive(queued) /\ Consecutive(sent)
        /\ Len(queued) - Len(sent) \in 0 .. N
    BY DEF CardRingInv, RxOK, TxOK, RxType, TxType, TxInv
  <2>2. taken = [i \in 1 .. Len(taken) |-> i]
    BY <2>1 DEF Consecutive
  <2>3. Len(sent) \in Nat /\ Len(queued) \in Nat /\ Len(sent) <= Len(queued)
    BY <2>1, EthernetCardsAssumption DEF Consecutive
  <2>4. SubSeq(sent, 1, Len(sent)) = SubSeq(queued, 1, Len(sent))
    BY <2>1, <2>3 DEF Consecutive
  <2>5. QED
    BY <2>2, <2>3, <2>4 DEF FramesInOrder, IsPrefix
<1>2. QED
  BY <1>1, CardRingInvTheorem, PTL

\* The receive rings of intel_ethernet.c and rtl8168.c never come to a stand,
\* and the Realtek card leaves a ring only after the driver has used all of it.
THEOREM RingsKeepGoingTheorem == CardSpec => []RingsKeepGoing
<1>1. CardRingInv => RingsKeepGoing
  <2> SUFFICES ASSUME CardRingInv PROVE RingsKeepGoing
    OBVIOUS
  <2>0. N \in Nat /\ N > 1
    BY EthernetCardsAssumption
  <2>1. RxOK /\ RxType /\ RxEor /\ TxEor
    BY DEF CardRingInv, RxOK, TxOK
  <2>2. PICK m \in 0 .. N : Holds(rx, Start, m, Len(taken)) /\ (InStep(m) \/ SetBack(m))
    BY <2>1, RxPlace
  <2>3. Start \in Slots /\ Dist(Start, Start) = 0
    BY <2>0, <2>1, RxPlace DEF Dist, Slots
  <2>4. m # 0 => rx[Start].done
    BY <2>0, <2>2, <2>3 DEF Holds
  <2>5. card = "intel" => rdh # rdt \/ rx[Succ(rdt)].done
    <3> SUFFICES ASSUME card = "intel", m = 0
                 PROVE  rdh # rdt
      BY <2>4 DEF Start
    <3>1. rdh = At(Succ(rdt), 0) /\ rdt \in Slots
      BY <2>1, <2>2 DEF InStep, SetBack, Start, RxType
    <3>2. QED
      BY <2>0, <3>1, SuccIs DEF At, Slots
  <2>6. card = "rtl8168" => ~ rx[rdh].done \/ rx[rx_index].done
    <3> SUFFICES ASSUME card = "rtl8168", m = 0
                 PROVE  ~ rx[rdh].done
      BY <2>4 DEF Start
    <3>1. NoneFrom(rx, Start, 0) /\ rdh \in Slots
      BY <2>1, <2>2 DEF InStep, SetBack, RxType
    <3>2. QED
      BY <2>0, <2>3, <3>1, DistIs DEF NoneFrom
  <2>7. QED
    BY <2>1, <2>5, <2>6 DEF RingsKeepGoing, RxEor, TxEor
<1>2. QED
  BY <1>1, CardRingInvTheorem, PTL

=============================================================================
