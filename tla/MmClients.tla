----------------------------- MODULE MmClients ------------------------------
(***************************************************************************)
(* The allocator of mm.c under the calls its clients make: system calls,   *)
(* the network stack and the drivers. All of them run with interrupts off  *)
(* or before sti, so a call is one step.                                   *)
(*                                                                         *)
(* blocks is what the callers go by: one record per pointer that was       *)
(* returned to a client and not given back, with the run of pages the      *)
(* client takes the pointer to stand for. largest, chosen once, tells the  *)
(* clients that take memory a page at a time (system calls, page tables)   *)
(* from those that also ask for buffers of several pages (network,         *)
(* drivers).                                                               *)
(***************************************************************************)
EXTENDS Mm

CONSTANTS
  Client,      \* the callers
  MaxPages     \* bound: the largest block a client asks kmalloc for

ASSUME ClientAssumption ==
  /\ MaxPages \in Nat \ {0}
  /\ NULL \notin Client

VARIABLES
  page_bitmap,
  blocks,
  largest      \* the largest block the clients of this behaviour ask for

vars == <<page_bitmap, blocks, largest>>

Block == [owner : Client, start : Pages \ {NULL}, len : 1 .. MaxPages]

PagesOf(b) == b.start .. b.start + b.len - 1

Init ==
  /\ page_bitmap = mm_init
  /\ blocks = {}
  /\ largest \in {1, MaxPages}

\* The caller of r keeps the pointer unless it is null.
Returned(c, n, r) ==
  blocks' = IF r.page = NULL
              THEN blocks
              ELSE blocks \cup {[owner |-> c, start |-> r.page, len |-> n]}

GetFreePage(c) ==
  LET r == get_free_page(page_bitmap) IN
  /\ page_bitmap' = r.bitmap
  /\ Returned(c, 1, r)
  /\ UNCHANGED largest

FreePage(b) ==
  /\ b.len = 1
  /\ page_bitmap' = free_page(page_bitmap, b.start, 0)
  /\ blocks' = blocks \ {b}
  /\ UNCHANGED largest

Kmalloc(c, n) ==
  LET r == kmalloc(page_bitmap, n) IN
  /\ page_bitmap' = r.bitmap
  /\ Returned(c, n, r)
  /\ UNCHANGED largest

Kfree(b) ==
  /\ page_bitmap' = kfree(page_bitmap, b.start)
  /\ blocks' = blocks \ {b}
  /\ UNCHANGED largest

Next ==
  \/ \E c \in Client : GetFreePage(c)
  \/ \E c \in Client, n \in 1 .. largest : Kmalloc(c, n)
  \/ \E b \in blocks : FreePage(b) \/ Kfree(b)

Spec == Init /\ [][Next]_vars

-----------------------------------------------------------------------------
(***************************************************************************)
(* Properties                                                              *)
(***************************************************************************)

\* The bitmap holds page indices, the blocks are well formed (mm.c bitmap).
TypeOK ==
  /\ page_bitmap \subseteq Pages
  /\ blocks \subseteq Block
  /\ largest \in {1, MaxPages}

\* The first 16 MB, which hold the kernel, stay marked used for ever and are
\* never part of a block handed to a client, whatever sizes clients ask for
\* and however kmalloc's rollback goes (mm_init and the guard of free_page).
KernelMemorySafe ==
  /\ Reserved \subseteq page_bitmap
  /\ \A b \in blocks : b.start \notin Reserved

\* While nobody asks for more than a page, no two pointers name the same page
\* and the bitmap is exact: a page is marked used just when it is reserved or
\* some client still holds it, so nothing leaks and nothing in use is free.
BitmapExact ==
  largest = 1 =>
    /\ \A b1, b2 \in blocks : b1 # b2 => b1.start # b2.start
    /\ page_bitmap = Reserved \cup {b.start : b \in blocks}

\* The owner of a page, as the blocks say; clients of large blocks are outside
\* the abstraction, which then sees nothing happen.
OwnerOf(p) ==
  IF largest = 1 /\ \E b \in blocks : b.start = p
    THEN (CHOOSE b \in blocks : b.start = p).owner
    ELSE NULL

Ownership == INSTANCE PageOwnership
  WITH Frame  <- Pages \ Reserved,
       Nobody <- NULL,
       owner  <- [p \in Pages \ Reserved |-> OwnerOf(p)]

\* Single-page clients get the abstract promise: every call that changes
\* something is one page acquired by a client or released by its owner.
ImplementsOwnership == Ownership!Spec

=============================================================================
