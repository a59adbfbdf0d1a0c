------------------------------ MODULE Keyboard ------------------------------
(***************************************************************************)
(* The key ring of drivers/keyboard.c: keyboard_handler fills it from the  *)
(* keyboard interrupt, keyboard_get_char empties it with interrupts on, so *)
(* the interrupt may come between any two accesses of the reader to the    *)
(* volatile variables. The handler itself is not interrupted.              *)
(***************************************************************************)
EXTENDS Integers, Sequences

CONSTANTS
  Char,                  \* the characters of scancode_to_ascii, 0 left out
  KEYBOARD_BUFFER_SIZE

ASSUME KeyboardAssumption == KEYBOARD_BUFFER_SIZE \in Nat \ {0}

NUL == "NUL"             \* the character 0
ASSUME NulAssumption == NUL \notin Char

Index == 0 .. KEYBOARD_BUFFER_SIZE - 1

VARIABLES
  build,                 \* how "keyboard_buffer_count--" is compiled: to one
                         \* instruction, or to a load and a store
  keyboard_buffer,
  keyboard_buffer_head,
  keyboard_buffer_tail,
  keyboard_buffer_count,
  rpc,                   \* the next access of keyboard_get_char
  c,                     \* its local c
  loaded,                \* the count it has in a register
  returned,              \* its last return value
  overrun                \* whether the last key found the buffer full

ring   == <<build, keyboard_buffer, keyboard_buffer_head, keyboard_buffer_tail,
            keyboard_buffer_count>>
reader == <<rpc, c, loaded, returned>>
kvars  == <<ring, reader, overrun>>

KeyboardInit ==
  /\ build \in {"one_instruction", "load_and_store"}
  /\ keyboard_buffer = [i \in Index |-> NUL]
  /\ keyboard_buffer_head = 0
  /\ keyboard_buffer_tail = 0
  /\ keyboard_buffer_count = 0
  /\ rpc = "check" /\ c = NUL /\ loaded = 0 /\ returned = NUL
  /\ overrun = FALSE

Advance(i) == (i + 1) % KEYBOARD_BUFFER_SIZE

(***************************************************************************)
(* What a scan code stands for: a key release has bit 7 set, some codes    *)
(* are beyond the table or have the entry 0; these do nothing.             *)
(***************************************************************************)
ScanCode == Char \cup {"release", "unmapped"}

scancode_to_ascii(sc) == IF sc \in Char THEN sc ELSE NUL

HasRoom(count) == count < KEYBOARD_BUFFER_SIZE

keyboard_handler(sc) ==
  /\ scancode_to_ascii(sc) # NUL
  /\ IF HasRoom(keyboard_buffer_count)
       THEN /\ keyboard_buffer' =
                 [keyboard_buffer EXCEPT ![keyboard_buffer_head] = scancode_to_ascii(sc)]
            /\ keyboard_buffer_head' = Advance(keyboard_buffer_head)
            /\ keyboard_buffer_count' = keyboard_buffer_count + 1
            /\ overrun' = FALSE
       ELSE /\ overrun' = TRUE
            /\ UNCHANGED <<keyboard_buffer, keyboard_buffer_head, keyboard_buffer_count>>
  /\ UNCHANGED <<build, keyboard_buffer_tail, reader>>

(***************************************************************************)
(* keyboard_get_char, one access to a shared variable at a time.           *)
(***************************************************************************)
\* Mutant: the count is tested with >= instead of >.
GetCheck_zero ==
  /\ rpc = "check"
  /\ IF keyboard_buffer_count >= 0
       THEN rpc' = "read" /\ UNCHANGED returned
       ELSE rpc' = "check" /\ returned' = NUL
  /\ UNCHANGED <<ring, c, loaded, overrun>>

GetCheck ==
  /\ rpc = "check"
  /\ IF keyboard_buffer_count > 0
       THEN rpc' = "read" /\ UNCHANGED returned
       ELSE rpc' = "check" /\ returned' = NUL
  /\ UNCHANGED <<ring, c, loaded, overrun>>

\* Mutant: tail moves on before the character is read.
GetRead_after_advance ==
  /\ rpc = "read"
  /\ c' = keyboard_buffer[Advance(keyboard_buffer_tail)]
  /\ rpc' = "advance"
  /\ UNCHANGED <<ring, loaded, returned, overrun>>

GetRead ==
  /\ rpc = "read"
  /\ c' = keyboard_buffer[keyboard_buffer_tail]
  /\ rpc' = "advance"
  /\ UNCHANGED <<ring, loaded, returned, overrun>>

GetAdvance ==
  /\ rpc = "advance"
  /\ keyboard_buffer_tail' = Advance(keyboard_buffer_tail)
  /\ rpc' = IF build = "one_instruction" THEN "decrement" ELSE "load"
  /\ UNCHANGED <<build, keyboard_buffer, keyboard_buffer_head, keyboard_buffer_count,
                 c, loaded, returned, overrun>>

GetDecrement ==
  /\ rpc = "decrement"
  /\ keyboard_buffer_count' = keyboard_buffer_count - 1
  /\ returned' = c
  /\ rpc' = "check"
  /\ UNCHANGED <<build, keyboard_buffer, keyboard_buffer_head, keyboard_buffer_tail,
                 c, loaded, overrun>>

GetLoad ==
  /\ rpc = "load"
  /\ loaded' = keyboard_buffer_count
  /\ rpc' = "store"
  /\ UNCHANGED <<ring, c, returned, overrun>>

GetStore ==
  /\ rpc = "store"
  /\ keyboard_buffer_count' = loaded - 1
  /\ returned' = c
  /\ rpc' = "check"
  /\ UNCHANGED <<build, keyboard_buffer, keyboard_buffer_head, keyboard_buffer_tail,
                 c, loaded, overrun>>

keyboard_get_char ==
  GetCheck \/ GetRead \/ GetAdvance \/ GetDecrement \/ GetLoad \/ GetStore

-----------------------------------------------------------------------------
(***************************************************************************)
(* Properties                                                              *)
(***************************************************************************)

\* The n characters from index i on.
Stored(i, n) ==
  [k \in 1 .. n |-> keyboard_buffer[(i + k - 1) % KEYBOARD_BUFFER_SIZE]]

OneInstruction == build = "one_instruction"

\* The queue the ring stands for. A read takes effect with the decrement:
\* until then the character in c still occupies its place.
Queue ==
  IF rpc = "decrement"
    THEN <<c>> \o Stored(keyboard_buffer_tail, keyboard_buffer_count - 1)
    ELSE Stored(keyboard_buffer_tail, keyboard_buffer_count)

Fifo == INSTANCE BoundedFifo
  WITH Item     <- Char,
       Capacity <- KEYBOARD_BUFFER_SIZE,
       Nothing  <- NUL,
       queue    <- IF OneInstruction THEN Queue ELSE <<>>,
       answer   <- IF OneInstruction THEN returned ELSE NUL,
       lost     <- OneInstruction /\ overrun

\* keyboard_handler and keyboard_get_char implement a bounded FIFO however
\* the interrupt falls among the reader's accesses, if the decrement of the
\* count is one instruction.
ImplementsFifo == Fifo!Spec

\* Whatever the build and however often a key's increment of the count is
\* lost, a read that does not answer 0 answers a key that was pressed, never
\* a place of the ring that was not written, and the count stays in range.
NoPhantomKey ==
  /\ rpc \notin {"check", "read"} => c \in Char
  /\ keyboard_buffer_count \in 0 .. KEYBOARD_BUFFER_SIZE

=============================================================================
