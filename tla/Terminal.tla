------------------------------ MODULE Terminal ------------------------------
(***************************************************************************)
(* The line terminal of drivers/simple_terminal.c, which kernel_main runs  *)
(* for ever with interrupts on, and the keyboard interrupt that feeds it.  *)
(*                                                                         *)
(* The terminal takes its characters from a one-place mailbox that only    *)
(* simple_kb_handler fills. attached is the handler the keyboard vector    *)
(* calls: keyboard_handler in kernel.c as it stands; simple_kb_handler is  *)
(* the other wiring, which the comment above it speaks of. The ring that   *)
(* keyboard_handler fills is emptied by keyboard_get_char, whose caller is *)
(* not in the tree.                                                        *)
(*                                                                         *)
(* The commands are words of one character here, so that "echo " is two    *)
(* characters long where it is five in the code.                           *)
(***************************************************************************)
EXTENDS Keyboard

CONSTANTS
  INPUT_BUFFER_SIZE,
  MaxKeys                \* bound: how many keys simple_kb_handler is called for

ASSUME TerminalAssumption ==
  /\ INPUT_BUFFER_SIZE \in Nat \ {0}
  /\ MaxKeys \in Nat

Enter     == "enter"
Backspace == "backspace"
Space     == "space"
Tab       == "tab"       \* the only other character of the map below ' '
Echo      == "e"         \* the word echo
Exit      == "x"         \* the word exit

Printable == Char \ {Enter, Backspace, Tab}
Cell      == 0 .. INPUT_BUFFER_SIZE - 1

NoKey == [char |-> NUL, id |-> 0]

VARIABLES
  attached,              \* the handler of the keyboard vector
  pressed,               \* the number of the last key put into the mailbox
  last_scancode,         \* its character, with the number of the key
  new_char_ready,
  input_buffer,
  input_pos,
  tpc,                   \* the next access of simple_terminal_run
  got,                   \* its local c
  seen,                  \* the number of the last key it worked on
  printed                \* what the last echo printed

tvars == <<last_scancode, new_char_ready, input_buffer, input_pos, tpc, got,
           seen, printed>>
vars  == <<kvars, attached, pressed, tvars>>

Init ==
  /\ KeyboardInit
  /\ attached \in {"keyboard_handler", "simple_kb_handler"}
  /\ pressed = 0
  /\ last_scancode = NoKey /\ new_char_ready = FALSE
  /\ input_buffer = [i \in Cell |-> NUL] /\ input_pos = 0
  /\ tpc = "test" /\ got = NoKey /\ seen = 0 /\ printed = <<>>

-----------------------------------------------------------------------------
\* The interrupt, with simple_kb_handler attached.
simple_kb_handler(sc) ==
  /\ pressed < MaxKeys
  /\ pressed' = pressed + 1
  /\ scancode_to_ascii(sc) # NUL
  /\ last_scancode' = [char |-> scancode_to_ascii(sc), id |-> pressed + 1]
  /\ new_char_ready' = TRUE
  /\ UNCHANGED <<kvars, input_buffer, input_pos, tpc, got, seen, printed>>

KeyboardInterrupt(sc) ==
  /\ UNCHANGED attached
  /\ \/ attached = "keyboard_handler" /\ keyboard_handler(sc) /\ UNCHANGED <<pressed, tvars>>
     \/ attached = "simple_kb_handler" /\ simple_kb_handler(sc)

(***************************************************************************)
(* simple_get_char: test the flag, clear it, read the character.           *)
(***************************************************************************)
\* Mutant: the flag is cleared before it is tested.
GetTest_clears_first ==
  /\ tpc = "test"
  /\ new_char_ready' = FALSE
  /\ UNCHANGED <<kvars, attached, pressed, last_scancode, input_buffer,
                 input_pos, tpc, got, seen, printed>>

GetTest ==
  /\ tpc = "test"
  /\ tpc' = IF new_char_ready THEN "clear" ELSE "test"
  /\ UNCHANGED <<kvars, attached, pressed, last_scancode, new_char_ready,
                 input_buffer, input_pos, got, seen, printed>>

GetClear ==
  /\ tpc = "clear"
  /\ new_char_ready' = FALSE
  /\ tpc' = "take"
  /\ UNCHANGED <<kvars, attached, pressed, last_scancode, input_buffer, input_pos, got,
                 seen, printed>>

GetTake ==
  /\ tpc = "take"
  /\ got' = last_scancode
  /\ tpc' = "work"
  /\ UNCHANGED <<kvars, attached, pressed, last_scancode, new_char_ready, input_buffer,
                 input_pos, seen, printed>>

(***************************************************************************)
(* The body of the loop: a line is ended and executed, a character erased, *)
(* or a printable one stored.                                              *)
(***************************************************************************)
\* The string in buf from index i up to the terminator.
StringAt(buf, i) ==
  LET end == CHOOSE e \in i .. INPUT_BUFFER_SIZE :
               /\ e = INPUT_BUFFER_SIZE \/ buf[e] = NUL
               /\ \A j \in i .. e - 1 : buf[j] # NUL
  IN  [k \in 1 .. end - i |-> buf[i + k - 1]]

\* simple_execute_command's first word, which ends at a space or the end.
Command(buf) ==
  LET line == StringAt(buf, 0)
      len  == CHOOSE n \in 0 .. Len(line) :
                /\ n = Len(line) \/ line[n + 1] = Space
                /\ \A j \in 1 .. n : line[j] # Space
  IN  SubSeq(line, 1, len)

\* echo prints cmd + strlen("echo "), whatever stands before it; exit never
\* returns; the other commands print.
simple_execute_command(buf) ==
  CASE Command(buf) = <<Echo>> -> /\ printed' = StringAt(buf, 2)
                                  /\ tpc' = "reset"
    [] Command(buf) = <<Exit>> -> tpc' = "halted" /\ UNCHANGED printed
    [] OTHER                   -> tpc' = "reset" /\ UNCHANGED printed

\* Mutant: the line is executed without being terminated.
EndLine_unterminated ==
  /\ got.char = Enter
  /\ IF input_pos > 0
       THEN simple_execute_command(input_buffer)
       ELSE tpc' = "reset" /\ UNCHANGED printed
  /\ input_pos' = IF tpc' = "halted" THEN input_pos ELSE 0
  /\ UNCHANGED input_buffer

EndLine ==
  /\ got.char = Enter
  /\ LET buf == [input_buffer EXCEPT ![input_pos] = NUL] IN
     /\ input_buffer' = buf
     /\ IF input_pos > 0
          THEN simple_execute_command(buf)
          ELSE tpc' = "reset" /\ UNCHANGED printed
  /\ input_pos' = IF tpc' = "halted" THEN input_pos ELSE 0

Erase ==
  /\ got.char = Backspace
  /\ input_pos' = IF input_pos > 0 THEN input_pos - 1 ELSE input_pos
  /\ tpc' = "reset"
  /\ UNCHANGED <<input_buffer, printed>>

\* Mutant: the place of the terminator is given to a character.
LineHasRoom_whole == input_pos < INPUT_BUFFER_SIZE

LineHasRoom == input_pos < INPUT_BUFFER_SIZE - 1

Store ==
  /\ got.char \notin {Enter, Backspace}
  /\ IF got.char \in Printable /\ LineHasRoom
       THEN /\ input_buffer' = [input_buffer EXCEPT ![input_pos] = got.char]
            /\ input_pos' = input_pos + 1
       ELSE UNCHANGED <<input_buffer, input_pos>>
  /\ tpc' = "reset"
  /\ UNCHANGED printed

Work ==
  /\ tpc = "work"
  /\ EndLine \/ Erase \/ Store
  /\ seen' = got.id
  /\ UNCHANGED <<kvars, attached, pressed, last_scancode, new_char_ready, got>>

\* Mutant: the flag is left alone after the character was handled.
ResetFlag_dropped ==
  /\ tpc = "reset"
  /\ tpc' = "test"
  /\ UNCHANGED <<kvars, attached, pressed, last_scancode, new_char_ready, input_buffer,
                 input_pos, got, seen, printed>>

ResetFlag ==
  /\ tpc = "reset"
  /\ new_char_ready' = FALSE
  /\ tpc' = "test"
  /\ UNCHANGED <<kvars, attached, pressed, last_scancode, input_buffer, input_pos, got,
                 seen, printed>>

simple_terminal_run == GetTest \/ GetClear \/ GetTake \/ Work \/ ResetFlag

Next ==
  \/ \E sc \in ScanCode : KeyboardInterrupt(sc)
  \/ simple_terminal_run
  \/ keyboard_get_char /\ UNCHANGED <<attached, pressed, tvars>>

Spec == Init /\ [][Next]_vars

\* The terminal is the thread that kernel_main ends in; interrupts return to
\* it, so it goes on whenever it can.
FairSpec == Spec /\ WF_vars(simple_terminal_run)

-----------------------------------------------------------------------------
(***************************************************************************)
(* Properties                                                              *)
(***************************************************************************)

\* The mailbox is written in two steps and emptied in three, with interrupts
\* between, and yet no key is worked on twice or after a later one: this is
\* what the second reset of new_char_ready, after the work, is for.
NoKeyTwice == tpc = "work" => got.id > seen

\* A command is a string inside its buffer: there is a terminator in
\* the last place, at whatever length the line was entered or erased, so that
\* simple_execute_command never reads beyond input_buffer.
LineTerminated ==
  /\ input_pos \in Cell
  /\ input_buffer[INPUT_BUFFER_SIZE - 1] = NUL

\* Once a key is in the mailbox the terminal works on that key or a later
\* one, or has been ended by exit.
MailboxServed ==
  \A n \in 1 .. MaxKeys :
    (new_char_ready /\ tpc = "test" /\ last_scancode.id = n)
      ~> (seen >= n \/ tpc = "halted")

\* The command echo with an argument prints exactly the characters that were
\* entered behind the word and its space, whatever longer line the buffer held
\* before and whatever was erased. (The bare word prints from behind its own
\* terminator, which is what an earlier line left there.)
EchoPrintsItsArgument ==
  [][LET line == SubSeq([k \in 1 .. INPUT_BUFFER_SIZE |-> input_buffer[k - 1]],
                        1, input_pos)
     IN  /\ tpc = "work" /\ tpc' = "reset" /\ got.char = Enter
         /\ input_pos > 1 /\ line[1] = Echo /\ line[2] = Space
         => printed' = SubSeq(line, 3, Len(line))]_vars

=============================================================================
