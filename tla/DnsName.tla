------------------------------ MODULE DnsName -------------------------------
(***************************************************************************)
(* Names in DNS messages: dns_encode_name and dns_parse_name of net/dns.c, *)
(* and dns_is_valid_hostname of net/dns_utils.c. Strings and messages are  *)
(* sequences of bytes; positions in a message count from 0, as in C.       *)
(***************************************************************************)
EXTENDS Integers, Sequences, SequencesExt

CONSTANTS
  NameLen,    \* DNS_MAX_NAME_SIZE: bytes of the caller's buffer for a name
  MaxLabel,   \* 63: bytes of a label
  MaxHost,    \* 253: bytes of a host name
  Char,       \* bound: bytes of host names, besides the dot
  Byte,       \* bound: bytes of messages
  MaxChars,   \* bound: bytes of a host name tried
  MaxPacket   \* bound: bytes of a message tried

Dot     == 46
Pointer == 192    \* 0xC0: the byte, of two, that begins a pointer

ASSUME DnsNameAssumption ==
  /\ {NameLen, MaxLabel, MaxHost} \subseteq Nat \ {0} /\ MaxLabel < Pointer
  /\ Char \subseteq 1 .. 191 /\ Byte \subseteq 0 .. 255

VARIABLES
  input,    \* what was parsed last: a message, and the host name it encodes
  output    \* what dns_parse_name made of it; highest: history, the end of
            \* the last byte copied

nameVars == <<input, output>>

Nothing == [ok |-> TRUE, name |-> <<>>, pos |-> 0, jumped |-> FALSE, loops |-> FALSE, highest |-> 0]

NoInput == [packet |-> <<>>, host |-> <<>>]

NameInit == input = NoInput /\ output = Nothing

\* The labels of a host name; "a." has one label, ".a" has an empty one.
Labels(host) ==
  LET step(acc, c) == IF c = Dot THEN Append(acc, <<>>)
                      ELSE [acc EXCEPT ![Len(acc)] = Append(@, c)]
      all == FoldLeft(step, <<<<>>>>, host)
  IN  IF all[Len(all)] = <<>> THEN Front(all) ELSE all

LengthByte(label) == Len(label)

dns_encode_name(host) ==
  FlattenSeq([i \in DOMAIN Labels(host) |-> <<LengthByte(Labels(host)[i])>> \o Labels(host)[i]])
  \o <<0>>

\* a-z, A-Z, 0-9 and the hyphen
Letter == (97 .. 122) \cup (65 .. 90) \cup (48 .. 57) \cup {45}

dns_is_valid_hostname(host) ==
  LET step(acc, c) == CASE c = Dot -> [ok |-> acc.ok /\ acc.n \in 1 .. MaxLabel, n |-> 0]
                        [] OTHER   -> [ok |-> acc.ok /\ c \in Letter /\ acc.n < MaxLabel, n |-> acc.n + 1]
      r == FoldLeft(step, [ok |-> TRUE, n |-> 0], host)
  IN  /\ Len(host) \in 1 .. MaxHost /\ Dot \notin {host[1], host[Len(host)]}
      /\ r.ok /\ r.n \in 1 .. MaxLabel

(***************************************************************************)
(* dns_parse_name, one round of the loop a step. Every label makes the     *)
(* name longer, and between two labels no position is met twice: after     *)
(* more rounds than that allows the loop never ends.                       *)
(***************************************************************************)
\* Mutant: the byte after the name is not counted.
NameFits_late(n, len) == n + len + 1 <= NameLen

NameFits(n, len) == n + len + 1 < NameLen

LabelInside(pos, len, size) == pos + 1 + len <= size

dns_parse_name(packet, start) ==
  LET size == Len(packet)
      byte(i) == packet[i + 1]
      stop(a, result) == [a EXCEPT !.done = TRUE, !.ok = result]
      round(a, i) ==
        LET len == IF a.at < size THEN byte(a.at) ELSE 0 IN
        CASE a.done -> a
          [] ~ a.done /\ a.at >= size ->
               [stop(a, TRUE) EXCEPT !.pos = IF a.jumped THEN a.after ELSE @]
          [] ~ a.done /\ a.at < size /\ len = 0 ->
               [stop(a, TRUE) EXCEPT !.pos = IF a.jumped THEN @ ELSE a.at + 1]
          [] ~ a.done /\ a.at < size /\ len >= Pointer ->
               IF a.at + 1 >= size THEN stop(a, FALSE)
               ELSE LET target == (len - Pointer) * 256 + byte(a.at + 1)
                        b == IF a.jumped THEN a ELSE [a EXCEPT !.after = a.at + 2, !.jumped = TRUE]
                    IN  IF target >= size THEN stop(b, FALSE) ELSE [b EXCEPT !.at = target]
          [] OTHER ->
               IF ~ NameFits(Len(a.name), len) \/ ~ LabelInside(a.at, len, size)
                 THEN stop(a, FALSE)
               ELSE [a EXCEPT !.name = @ \o (IF @ = <<>> THEN <<>> ELSE <<Dot>>)
                                         \o [j \in 1 .. len |-> IF a.at + j < size THEN byte(a.at + j) ELSE 0],
                              !.at = @ + 1 + len,
                              !.highest = IF a.at + 1 + len > @ THEN a.at + 1 + len ELSE @]
      r == FoldLeft(round, [Nothing EXCEPT !.pos = start] @@ [at |-> start, after |-> 0, done |-> FALSE],
                    [i \in 1 .. (size + 1) * NameLen |-> i])
  IN  [ok |-> r.ok, name |-> r.name, pos |-> r.pos, jumped |-> r.jumped, loops |-> ~ r.done,
       highest |-> r.highest]

\* build_dns_query encodes the name if its labels are short enough, and the
\* answer has it again.
encode_and_parse(host) ==
  LET packet == dns_encode_name(host) IN
  /\ input = NoInput
  /\ \A i \in DOMAIN Labels(host) : Len(Labels(host)[i]) <= MaxLabel
  /\ input' = [packet |-> packet, host |-> host]
  /\ output' = dns_parse_name(packet, 0)

\* Any message at all.
parse(packet) ==
  /\ input = NoInput
  /\ input' = [packet |-> packet, host |-> <<>>]
  /\ output' = dns_parse_name(packet, 0)

NameNext ==
  \/ \E n \in 0 .. MaxChars : \E host \in [1 .. n -> Char \cup {Dot}] : encode_and_parse(host)
  \/ \E n \in 1 .. MaxPacket : \E packet \in [1 .. n -> Byte] : parse(packet)

-----------------------------------------------------------------------------
(***************************************************************************)
(* Properties                                                              *)
(***************************************************************************)

\* What dns_parse_name reads from a name that dns_encode_name wrote is that name
\* again, and the position after it, if the name is a valid one with room to
\* spare. (".a" and "a..a" come back cut off at the empty label.) And whatever
\* a message says, no byte is read beyond its end, the name and the byte that
\* ends it fit into the caller's buffer, and the loop can only go on for ever
\* once it has followed a pointer.
NamesParsed ==
  /\ dns_is_valid_hostname(input.host) /\ Len(input.host) + 1 < NameLen =>
       output.ok /\ output.name = input.host /\ output.pos = Len(input.packet)
  /\ output.highest <= Len(input.packet) /\ Len(output.name) + 1 <= NameLen
  /\ output.loops => output.jumped

=============================================================================
