---------------------------- MODULE BoundedFifo -----------------------------
(***************************************************************************)
(* What a keyboard buffer promises: keys come out in the order they were   *)
(* pressed, each once; a key is lost only when the buffer is full; "no     *)
(* key" is answered only when the buffer is empty.                         *)
(***************************************************************************)
EXTENDS Sequences, Integers

CONSTANTS Item, Capacity, Nothing

VARIABLES
  queue,    \* the keys not taken yet
  answer,   \* what the last read returned
  lost      \* whether the last key pressed was thrown away

vars == <<queue, answer, lost>>

Init == queue = <<>> /\ answer = Nothing /\ lost = FALSE

Put(c) ==
  /\ Len(queue) < Capacity
  /\ queue' = Append(queue, c)
  /\ lost' = FALSE
  /\ UNCHANGED answer

Drop ==
  /\ Len(queue) = Capacity
  /\ lost' = TRUE
  /\ UNCHANGED <<queue, answer>>

Get ==
  /\ queue # <<>>
  /\ answer' = Head(queue)
  /\ queue' = Tail(queue)
  /\ UNCHANGED lost

GetNothing ==
  /\ queue = <<>>
  /\ answer' = Nothing
  /\ UNCHANGED <<queue, lost>>

Next == (\E c \in Item : Put(c)) \/ Drop \/ Get \/ GetNothing

Spec == Init /\ [][Next]_vars

=============================================================================
