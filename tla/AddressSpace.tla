---------------------------- MODULE AddressSpace ----------------------------
(***************************************************************************)
(* The address space of a process: the page tables of mm.c and the system  *)
(* calls of kernel.c that change them (mmap, munmap, mprotect, brk, mremap,*)
(* shmat) and the page fault handler.                                      *)
(*                                                                         *)
(* A virtual address is a number of bytes; a page has PageBytes of them.   *)
(* All the addresses of an instance share one page table, so that below    *)
(* the page directory there are three table pages, made when first needed. *)
(* Of an entry the frame counts, and the address bit that mprotect         *)
(* overwrites; the attribute bits decide nothing in the code.              *)
(***************************************************************************)
EXTENDS Mm

CONSTANTS
  PageBytes,      \* PAGE_SIZE (4096)
  VPages,         \* bound: the number of virtual pages
  HeapStart,      \* heap_start, heap_brk of a new process (0x200000)
  HeapLimit,      \* heap_end + 0x1000000
  Addresses,      \* bound: addresses given to mmap, munmap, mprotect, mremap
  MmapLengths,    \* bound: lengths given to mmap and mremap, in bytes
  Lengths         \* bound: lengths given to munmap and mprotect

ASSUME SpaceAssumption ==
  /\ PageBytes \in Nat \ {0} /\ VPages \in Nat
  /\ {HeapStart, HeapLimit} \subseteq Nat \ {0} /\ HeapStart <= HeapLimit
  /\ HeapLimit < VPages * PageBytes
  /\ Addresses \subseteq 1 .. VPages * PageBytes - 1
  /\ MmapLengths \cup Lengths \subseteq Nat
  /\ ReservedPages + 1 < PhysPages           \* create_process succeeded

VPage == 0 .. VPages - 1

\* A page table entry: a frame (NULL when not present) and the address bit 44.
Entry == [frame : Pages, high : BOOLEAN]
Empty == [frame |-> NULL, high |-> FALSE]

VARIABLES
  page_bitmap,
  tables,       \* the table pages below the page directory
  pte,          \* the entries of the page table
  heap_brk,
  halted,       \* the page fault handler is in its endless loop
  torn          \* history: mapping several pages once failed half way

vars == <<page_bitmap, tables, pte, heap_brk, halted, torn>>

\* create_process took the first free page for the page directory and the
\* second for the registers.
PageDir   == ReservedPages
Registers == ReservedPages + 1

Init ==
  /\ page_bitmap = mm_init \cup {PageDir, Registers}
  /\ tables = {}
  /\ pte = [v \in VPage |-> Empty]
  /\ heap_brk = HeapStart
  /\ halted = FALSE
  /\ torn = FALSE

\* What a call works on.
Space == [bitmap |-> page_bitmap, tables |-> tables, pte |-> pte, brk |-> heap_brk]

VPageOf(a)  == a \div PageBytes
PagesIn(n)  == (n + PageBytes - 1) \div PageBytes
\* The pages a loop over n bytes from address a visits.
Touched(a, n) == {VPageOf(a + i * PageBytes) : i \in 0 .. PagesIn(n) - 1}

-----------------------------------------------------------------------------
(***************************************************************************)
(* mm.c                                                                    *)
(***************************************************************************)

\* get_or_create_table at level k: a refused page leaves the tables made so far,
\* and the levels below are not reached.
get_or_create_table(m, k) ==
  LET r == get_free_page(m.bitmap)
  IN  IF Cardinality(m.tables) >= k \/ r.page = NULL THEN m
      ELSE [m EXCEPT !.bitmap = r.bitmap, !.tables = @ \cup {r.page}]

get_or_create_tables(m) ==
  get_or_create_table(get_or_create_table(get_or_create_table(m, 1), 2), 3)

\* map_page returns nothing: without its tables it does nothing, and the
\* caller goes on.
map_page(m, a, frame) ==
  LET n == get_or_create_tables(m)
  IN  IF Cardinality(n.tables) < 3 THEN n
      ELSE [n EXCEPT !.pte[VPageOf(a)] = [frame |-> frame, high |-> FALSE]]

\* Mutant: the frame is released but the entry stays.
unmap_pages_keeps(m, vs) == m

unmap_pages(m, vs) == [m EXCEPT !.pte = [v \in VPage |-> IF v \in vs THEN Empty ELSE @[v]]]

\* get_physical_address, as a page and an offset in it. Bit 44 of an entry
\* counts as part of the address, far beyond physical memory.
get_physical_address(m, a) ==
  LET e == m.pte[VPageOf(a)]
  IN  [page |-> IF e.high THEN e.frame + PhysPages ELSE e.frame, offset |-> a % PageBytes]

\* free_page(get_physical_address(...)) for the pages vs, at offset o in each:
\* frames that are not mapped, or that free_page refuses, are left out.
free_mapped(m, vs, o) ==
  [m EXCEPT !.bitmap =
     {p \in @ : \A v \in vs : LET pa == get_physical_address(m, v * PageBytes + o)
                              IN  pa.page = NULL
                                  \/ p \in free_page({p}, pa.page, pa.offset)}]

-----------------------------------------------------------------------------
(***************************************************************************)
(* The system calls                                                        *)
(***************************************************************************)
\* What mmap does when there is no frame for page i: it frees the frames it has
\* mapped and leaves their entries.
MmapRollback(s, a, i) == free_mapped(s, Touched(a, i * PageBytes), a % PageBytes)

\* What brk does then: it removes the entries too.
BrkRollback(s, a, i) == unmap_pages(MmapRollback(s, a, i), Touched(a, i * PageBytes))

\* Round i of the loop: a frame for the page at a + (i - 1) * PageBytes; call says
\* what is done when there is none.
PopulateOne(s, a, i, call) ==
  LET r == get_free_page(s.m.bitmap)
  IN  IF ~ s.ok THEN s
      ELSE IF r.page = NULL
        THEN [m |-> IF call = "mmap" THEN MmapRollback(s.m, a, i - 1)
                                     ELSE BrkRollback(s.m, a, i - 1),
              ok |-> FALSE]
      ELSE [m |-> map_page([s.m EXCEPT !.bitmap = r.bitmap], a + (i - 1) * PageBytes, r.page),
            ok |-> TRUE]

\* A frame for each of n pages from address a on.
Populate(m, a, n, call) ==
  LET loop[i \in 0 .. n] ==
        IF i = 0 THEN [m |-> m, ok |-> TRUE] ELSE PopulateOne(loop[i - 1], a, i, call)
  IN  loop[n]

\* mmap at address 0 takes the region from the heap's end, and moves that end
\* before anything can fail. A failure frees the frames and leaves the entries.
Mmap(m, addr, len) ==
  LET a == IF addr = 0 THEN m.brk ELSE addr
      n == PagesIn(len)
      moved == IF addr = 0 THEN [m EXCEPT !.brk = @ + n * PageBytes] ELSE m
  IN  Populate(moved, a, n, "mmap")

Munmap(m, a, len) ==
  unmap_pages(free_mapped(m, Touched(a, len), a % PageBytes), Touched(a, len))

Brk(m, new) ==
  LET grown == Populate(m, m.brk, PagesIn(new - m.brk), "brk")
  IN  IF new < HeapStart \/ new > HeapLimit THEN [m |-> m, ok |-> FALSE]
      ELSE IF new <= m.brk THEN [m |-> [m EXCEPT !.brk = new], ok |-> TRUE]
      ELSE IF grown.ok     THEN [m |-> [grown.m EXCEPT !.brk = new], ok |-> TRUE]
      ELSE grown

\* The bit field that mprotect writes as nx is bit 44 of the entry.
Mprotect(m, a, len, exec) ==
  [m EXCEPT !.pte = [v \in VPage |->
     IF v \in Touched(a, len) /\ @[v].frame # NULL
       THEN [@[v] EXCEPT !.high = ~ exec]
       ELSE @[v]]]

\* mremap: MREMAP_FIXED unmaps and maps anew; otherwise a region that shrinks
\* loses its end and one that grows moves to the end of the heap.
Mremap(m, old, oldlen, newlen, fixed, new) ==
  LET moved == Mmap(m, 0, newlen)
  IN  IF fixed THEN Mmap(Munmap(m, old, oldlen), new, newlen)
      ELSE IF newlen <= oldlen
        THEN [m |-> Munmap(m, old + newlen, oldlen - newlen), ok |-> TRUE]
      ELSE IF moved.ok
        THEN [m |-> Munmap(moved.m, old, oldlen), ok |-> TRUE]
      ELSE moved

-----------------------------------------------------------------------------
Return(m) ==
  /\ page_bitmap' = m.bitmap
  /\ tables' = m.tables
  /\ pte' = m.pte
  /\ heap_brk' = m.brk
  /\ UNCHANGED halted

\* The same for a call that mapped a region of len bytes with outcome r.
ReturnMapped(r, len) ==
  /\ Return(r.m)
  /\ torn' = (torn \/ (~ r.ok /\ PagesIn(len) > 1))

\* Bound: a region lies inside the virtual pages.
Fits(a, n) == VPageOf(a) + PagesIn(n) <= VPages

sys_mmap(addr, len) ==
  /\ Fits(IF addr = 0 THEN heap_brk ELSE addr, len)
  /\ ReturnMapped(Mmap(Space, addr, len), len)

sys_shmat(addr) ==
  /\ Fits(IF addr = 0 THEN heap_brk ELSE addr, PageBytes)
  /\ ReturnMapped(Mmap(Space, addr, PageBytes), PageBytes)

sys_munmap(a, len) ==
  /\ Fits(a, len)
  /\ Return(Munmap(Space, a, len)) /\ UNCHANGED torn

sys_mprotect(a, len, exec) ==
  /\ Fits(a, len)
  /\ Return(Mprotect(Space, a, len, exec)) /\ UNCHANGED torn

sys_brk(new) == Return(Brk(Space, new).m) /\ UNCHANGED torn

sys_mremap(old, oldlen, newlen, fixed, new) ==
  /\ Fits(old, oldlen) /\ Fits(new, newlen)
  /\ ~ fixed => IF newlen > oldlen THEN Fits(heap_brk, newlen)
                                  ELSE Fits(old + newlen, oldlen - newlen)
  /\ ReturnMapped(Mremap(Space, old, oldlen, newlen, fixed, new), newlen)

(***************************************************************************)
(* page_fault_handler. The error code comes from the tables the processor  *)
(* has loaded, which need not be the process's. A fault that is not served *)
(* ends in an endless loop.                                                *)
(***************************************************************************)
page_fault_handler(a, present, write) ==
  LET mapped == get_physical_address(Space, a - (a % PageBytes)).page # NULL
      r      == get_free_page(page_bitmap)
      serves == IF present THEN ~ mapped ELSE write /\ mapped
      n      == map_page([Space EXCEPT !.bitmap = r.bitmap], a, r.page)
  IN  /\ UNCHANGED torn
      /\ IF serves /\ r.page # NULL
           THEN Return(n)
           ELSE /\ halted' = TRUE
                /\ UNCHANGED <<page_bitmap, tables, pte, heap_brk>>

Next ==
  /\ ~ halted
  /\ \/ \E a \in Addresses \cup {0}, len \in MmapLengths : sys_mmap(a, len)
     \/ \E a \in Addresses \cup {0} : sys_shmat(a)
     \/ \E a \in Addresses, len \in Lengths : sys_munmap(a, len)
     \/ \E a \in Addresses, len \in Lengths, exec \in BOOLEAN : sys_mprotect(a, len, exec)
     \/ \E new \in 1 .. HeapLimit + 1 : sys_brk(new)
     \/ \E old, new \in Addresses, oldlen, newlen \in MmapLengths, fixed \in BOOLEAN :
          sys_mremap(old, oldlen, newlen, fixed, new)
     \/ \E a \in Addresses, present, write \in BOOLEAN : page_fault_handler(a, present, write)

Spec == Init /\ [][Next]_vars

-----------------------------------------------------------------------------
(***************************************************************************)
(* Properties                                                              *)
(***************************************************************************)

Mapped == {v \in VPage : pte[v].frame # NULL}

\* Until mapping a region of several pages has failed half way (which leaves
\* freed frames mapped), what a process can reach is its own: every mapped frame
\* is marked used, lies outside the kernel, is none of the page tables and is
\* mapped once - through failed calls, remapping over what is mapped, unaligned
\* addresses and lost protections.
FramesExclusive ==
  ~ torn =>
    /\ tables \cup {PageDir, Registers} \subseteq page_bitmap
    /\ \A v \in Mapped :
         /\ pte[v].frame \in page_bitmap \ (Reserved \cup tables \cup {PageDir, Registers})
         /\ \A u \in Mapped \ {v} : pte[u].frame # pte[v].frame

\* munmap undoes mmap: a region that was not mapped, is mapped page by page
\* and unmapped again costs no memory but the page tables.
MunmapUndoesMmap ==
  \A v \in VPage \ {0}, n \in 1 .. VPages :
    LET a == v * PageBytes
        r == Mmap(Space, a, n * PageBytes)
        u == Munmap(r.m, a, n * PageBytes)
    IN  /\ v + n <= VPages /\ Touched(a, n * PageBytes) \cap Mapped = {}
        /\ r.ok /\ Cardinality(tables) = 3
        => u.bitmap = page_bitmap /\ u.pte = pte

=============================================================================
