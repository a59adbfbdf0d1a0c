--------------------------- MODULE PageOwnership ----------------------------
(***************************************************************************)
(* What a physical page allocator promises its clients, with no bitmap and *)
(* no search order: a page has at most one owner, a free page may be given *)
(* to anybody who asks, and only its owner gives it back.                  *)
(***************************************************************************)
CONSTANTS Client, Frame, Nobody

VARIABLE owner

Init == owner = [p \in Frame |-> Nobody]

Acquire(c, p) ==
  /\ owner[p] = Nobody
  /\ owner' = [owner EXCEPT ![p] = c]

Release(c, p) ==
  /\ owner[p] = c
  /\ owner' = [owner EXCEPT ![p] = Nobody]

Next == \E c \in Client, p \in Frame : Acquire(c, p) \/ Release(c, p)

Spec == Init /\ [][Next]_owner

=============================================================================
