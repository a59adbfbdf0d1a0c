--------------------------------- MODULE Mm ---------------------------------
(***************************************************************************)
(* The physical page allocator of mm.c.                                    *)
(*                                                                         *)
(* page_bitmap is a bit per 4 KB page; here it is the set of the indices   *)
(* whose bit is 1. An aligned physical address stands for its page index,  *)
(* so the null pointer is page 0, which mm_init marks used and which the   *)
(* allocator therefore never hands out. Every operation is a function from *)
(* the bitmap before a call to the result and the bitmap after it, so that *)
(* a system call that allocates several pages is one action of its own     *)
(* module.                                                                 *)
(***************************************************************************)
EXTENDS Integers, FiniteSets, FiniteSetsExt

CONSTANTS
  PhysPages,     \* PHYS_MEM_LIMIT / PAGE_SIZE (32768 in the code)
  ReservedPages  \* 0x1000000 / PAGE_SIZE, the pages mm_init marks used (4096)

ASSUME MmAssumption ==
  /\ ReservedPages \in Nat \ {0}
  /\ PhysPages \in Nat
  /\ ReservedPages < PhysPages

Pages    == 0 .. PhysPages - 1
Reserved == 0 .. ReservedPages - 1
NULL     == 0

(***************************************************************************)
(* mm_init: the first 16 MB belong to the kernel.                          *)
(***************************************************************************)
\* Mutant: the loop stops one page early.
mm_init_short == 0 .. ReservedPages - 2

mm_init == Reserved

is_page_used(bitmap, i) == i \in bitmap

FreePages(bitmap) == {i \in Pages : ~ is_page_used(bitmap, i)}

(***************************************************************************)
(* find_first_free_page_index followed by set_page_used. The scan goes     *)
(* upwards from index 0; "no free page" is the null address.               *)
(***************************************************************************)
\* Mutant: the page is returned but its bit is not set.
get_free_page_unmarked(bitmap) ==
  [page   |-> IF FreePages(bitmap) = {} THEN NULL ELSE Min(FreePages(bitmap)),
   bitmap |-> bitmap]

get_free_page(bitmap) ==
  IF FreePages(bitmap) = {}
    THEN [page |-> NULL, bitmap |-> bitmap]
    ELSE LET i == Min(FreePages(bitmap))
         IN  [page |-> i, bitmap |-> bitmap \cup {i}]

(***************************************************************************)
(* free_page ignores an address below 16 MB, at or above the limit, or not *)
(* page-aligned (offset is the address modulo PAGE_SIZE). It does not look *)
(* at the bit it clears: a page freed twice is freed silently.             *)
(***************************************************************************)
\* Mutant: the lower limit is tested with <= instead of <.
free_page_strict(bitmap, page, offset) ==
  IF page <= ReservedPages \/ page >= PhysPages \/ offset # 0
    THEN bitmap
    ELSE bitmap \ {page}

\* Mutant: the lower limit is not tested.
free_page_unguarded(bitmap, page, offset) ==
  IF page >= PhysPages \/ offset # 0
    THEN bitmap
    ELSE bitmap \ {page}

free_page(bitmap, page, offset) ==
  IF page < ReservedPages \/ page >= PhysPages \/ offset # 0
    THEN bitmap
    ELSE bitmap \ {page}

(***************************************************************************)
(* kmalloc of a block of n pages. One page is get_free_page; a larger      *)
(* block takes the first page found, then n - 1 times the next one found,  *)
(* and returns the first address. When page i of the block cannot be had   *)
(* the code frees i pages counted from the first address, whether or not   *)
(* these are the pages it took.                                            *)
(***************************************************************************)
LowestFree(bitmap, n) ==
  {i \in FreePages(bitmap) : Cardinality({j \in FreePages(bitmap) : j < i}) < n}

\* n calls of free_page on consecutive addresses, as in the rollback loop.
FreeRun(bitmap, first, n) ==
  {p \in bitmap : p < ReservedPages \/ p \notin first .. first + n - 1}

kmalloc(bitmap, n) ==
  LET free  == FreePages(bitmap)
      start == Min(free)
      got   == Cardinality(free)
      taken == bitmap \cup LowestFree(bitmap, n)
  IN  IF free = {}      THEN [page |-> NULL, bitmap |-> bitmap]
      ELSE IF got >= n  THEN [page |-> start, bitmap |-> taken]
      ELSE [page |-> NULL, bitmap |-> FreeRun(taken, start, got)]

(***************************************************************************)
(* kfree returns the one page the pointer names, whatever the block's      *)
(* size.                                                                   *)
(***************************************************************************)
kfree(bitmap, page) ==
  IF page = NULL THEN bitmap ELSE free_page(bitmap, page, 0)

=============================================================================
