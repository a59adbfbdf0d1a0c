------------------------------ MODULE MmProofs ------------------------------
(***************************************************************************)
(* Theorems about the allocator of mm.c, for every number of pages, every  *)
(* reserved area and every set of clients.                                 *)
(***************************************************************************)
EXTENDS MmClients, MmLemmas

-----------------------------------------------------------------------------
(***************************************************************************)
(* Inductive invariant for all clients.                                    *)
(***************************************************************************)
KernelInv == TypeOK /\ KernelMemorySafe

LEMMA InitKernelInv == Init => KernelInv
  BY MmAssumption DEF Init, KernelInv, TypeOK, KernelMemorySafe, mm_init, Reserved, Pages

LEMMA KernelStep == KernelInv /\ [Next]_vars => KernelInv'
<1> SUFFICES ASSUME KernelInv, [Next]_vars PROVE KernelInv'
  OBVIOUS
<1> USE DEF KernelInv
<1>0. Reserved \subseteq page_bitmap /\ page_bitmap \subseteq Pages /\ NULL \in Reserved
  BY MmAssumption DEF TypeOK, KernelMemorySafe, NULL, Reserved
<1>a. ASSUME NEW c \in Client, NEW n \in 1 .. MaxPages, NEW r,
             r.bitmap \subseteq Pages, Reserved \subseteq r.bitmap,
             r.page # NULL => r.page \in Pages \ page_bitmap,
             page_bitmap' = r.bitmap, Returned(c, n, r), UNCHANGED largest
      PROVE  KernelInv'
  <2>1. CASE r.page = NULL
    BY <1>a, <2>1 DEF Returned, TypeOK, KernelMemorySafe
  <2>2. CASE r.page # NULL
    <3>1. [owner |-> c, start |-> r.page, len |-> n] \in Block
      BY <1>a, <2>2 DEF Block
    <3>2. r.page \notin Reserved
      BY <1>0, <1>a, <2>2
    <3>3. QED
      BY <1>a, <2>2, <3>1, <3>2 DEF Returned, TypeOK, KernelMemorySafe
  <2>3. QED
    BY <2>1, <2>2
<1>b. ASSUME NEW b \in blocks, page_bitmap' = free_page(page_bitmap, b.start, 0),
             blocks' = blocks \ {b}, UNCHANGED largest
      PROVE  KernelInv'
  <2>1. \A p \in Reserved : p < ReservedPages /\ p \in Nat
    BY MmAssumption DEF Reserved
  <2>2. b.start \in Nat
    BY MmAssumption DEF TypeOK, Block, Pages
  <2>3. Reserved \subseteq page_bitmap' /\ page_bitmap' \subseteq page_bitmap
    BY <1>0, <1>b, <2>1, <2>2, MmAssumption DEF free_page
  <2>4. QED
    BY <1>0, <1>b, <2>3 DEF TypeOK, KernelMemorySafe
<1>1. ASSUME NEW c \in Client, GetFreePage(c)
      PROVE  KernelInv'
  <2> DEFINE r == get_free_page(page_bitmap)
  <2>1. /\ r.bitmap \subseteq Pages
        /\ Reserved \subseteq r.bitmap
        /\ r.page # NULL => r.page \in Pages \ page_bitmap
    BY <1>0, GetFreePageResult
  <2>2. 1 \in 1 .. MaxPages
    BY ClientAssumption
  <2>3. page_bitmap' = r.bitmap /\ Returned(c, 1, r) /\ UNCHANGED largest
    BY <1>1 DEF GetFreePage
  <2> HIDE DEF r
  <2>4. QED
    BY <1>a, <2>1, <2>2, <2>3
<1>2. ASSUME NEW c \in Client, NEW n \in 1 .. MaxPages, Kmalloc(c, n)
      PROVE  KernelInv'
  <2> DEFINE r == kmalloc(page_bitmap, n)
  <2>0. n \in Nat
    BY ClientAssumption
  <2>1. /\ r.bitmap \subseteq Pages
        /\ Reserved \subseteq r.bitmap
        /\ r.page # NULL => r.page \in Pages \ page_bitmap
    BY <1>0, <2>0, KmallocResult
  <2>3. page_bitmap' = r.bitmap /\ Returned(c, n, r) /\ UNCHANGED largest
    BY <1>2 DEF Kmalloc
  <2> HIDE DEF r
  <2>4. QED
    BY <1>a, <2>1, <2>3
<1>3. ASSUME NEW b \in blocks, FreePage(b)
      PROVE  KernelInv'
  BY <1>b, <1>3 DEF FreePage
<1>4. ASSUME NEW b \in blocks, Kfree(b)
      PROVE  KernelInv'
  <2>1. b.start # NULL
    BY DEF TypeOK, Block
  <2>2. QED
    BY <1>b, <1>4, <2>1 DEF Kfree, kfree
<1>5. CASE UNCHANGED vars
  BY <1>5 DEF vars, TypeOK, KernelMemorySafe
<1>6. QED
  <2>1. 1 .. largest \subseteq 1 .. MaxPages
    BY ClientAssumption DEF TypeOK
  <2>2. QED
    BY <1>1, <1>2, <1>3, <1>4, <1>5, <2>1 DEF Next

(***************************************************************************)
(* Whatever blocks clients ask for and however allocation fails, the first *)
(* 16 MB stay marked used and are never handed out (mm_init, free_page).   *)
(***************************************************************************)
THEOREM KernelMemoryTheorem == Spec => [](TypeOK /\ KernelMemorySafe)
<1>1. Init => KernelInv
  BY InitKernelInv
<1>2. KernelInv /\ [Next]_vars => KernelInv'
  BY KernelStep
<1>3. QED
  BY <1>1, <1>2, PTL DEF Spec, KernelInv

-----------------------------------------------------------------------------
(***************************************************************************)
(* Clients that never ask for more than a page. Their invariant is about   *)
(* the behaviours with largest = 1; of the others it says nothing more     *)
(* than KernelInv.                                                         *)
(***************************************************************************)
PageInv ==
  /\ KernelInv
  /\ BitmapExact
  /\ largest = 1 => \A b \in blocks : b.len = 1

(***************************************************************************)
(* One allocation and one release, seen from the state: the two shapes     *)
(* every step with largest = 1 has.                                        *)
(***************************************************************************)
Takes(c, p) ==
  /\ p \in Pages \ page_bitmap
  /\ page_bitmap' = page_bitmap \cup {p}
  /\ blocks' = blocks \cup {[owner |-> c, start |-> p, len |-> 1]}

Gives(b) ==
  /\ b \in blocks
  /\ page_bitmap' = page_bitmap \ {b.start}
  /\ blocks' = blocks \ {b}

LEMMA PageStepShape ==
  ASSUME PageInv, Next, largest = 1
  PROVE  \/ UNCHANGED <<page_bitmap, blocks>>
         \/ \E c \in Client, p \in Pages : Takes(c, p)
         \/ \E b \in blocks : Gives(b)
<1>0. Reserved \subseteq page_bitmap
  BY DEF PageInv, KernelInv, KernelMemorySafe
<1>1. ASSUME NEW c \in Client, GetFreePage(c) \/ Kmalloc(c, 1)
      PROVE  \/ UNCHANGED <<page_bitmap, blocks>>
             \/ \E p \in Pages : Takes(c, p)
  <2> DEFINE r == get_free_page(page_bitmap)
  <2>1. page_bitmap' = r.bitmap /\ Returned(c, 1, r)
    BY <1>1, KmallocOnePage DEF GetFreePage, Kmalloc
  <2>2. \/ r.page = NULL /\ r.bitmap = page_bitmap
        \/ /\ r.page \in Pages \ page_bitmap
           /\ r.page # NULL
           /\ r.bitmap = page_bitmap \cup {r.page}
    BY <1>0, GetFreePageResult
  <2> HIDE DEF r
  <2>3. QED
    BY <2>1, <2>2 DEF Returned, Takes
<1>2. ASSUME NEW b \in blocks, FreePage(b) \/ Kfree(b)
      PROVE  Gives(b)
  <2>1. b.start \in Pages /\ b.start # NULL /\ b.start \notin Reserved
    BY DEF PageInv, KernelInv, TypeOK, Block, KernelMemorySafe
  <2>2. b.start \in Nat /\ ~(b.start < ReservedPages) /\ ~(b.start >= PhysPages)
    BY <2>1, MmAssumption DEF Pages, Reserved
  <2>3. QED
    BY <1>2, <2>1, <2>2 DEF FreePage, Kfree, kfree, free_page, Gives
<1>3. QED
  BY <1>1, <1>2 DEF Next

LEMMA LargestFixed == [Next]_vars => UNCHANGED largest
  BY DEF Next, GetFreePage, Kmalloc, FreePage, Kfree, vars

LEMMA PageInvStep == PageInv /\ [Next]_vars => PageInv'
<1> SUFFICES ASSUME PageInv, [Next]_vars PROVE PageInv'
  OBVIOUS
<1>0. UNCHANGED largest
  BY LargestFixed
<1>1. KernelInv'
  BY KernelStep DEF PageInv
<1>6. CASE largest # 1
  BY <1>0, <1>1, <1>6 DEF PageInv, BitmapExact
<1> SUFFICES ASSUME largest = 1 PROVE PageInv'
  BY <1>6
<1>2. CASE UNCHANGED <<page_bitmap, blocks>>
  BY <1>0, <1>1, <1>2 DEF PageInv, BitmapExact
<1>3. ASSUME NEW c \in Client, NEW p \in Pages, Takes(c, p)
      PROVE  PageInv'
  <2>1. \A b \in blocks : b.start # p
    BY <1>3 DEF PageInv, BitmapExact, Takes
  <2> DEFINE new == [owner |-> c, start |-> p, len |-> 1]
  <2>2. new.start = p /\ new.len = 1
    OBVIOUS
  <2>3. blocks' = blocks \cup {new}
    BY <1>3 DEF Takes
  <2> HIDE DEF new
  <2>4. BitmapExact'
    BY <1>3, <2>1, <2>2, <2>3 DEF PageInv, BitmapExact, Takes
  <2>5. QED
    BY <1>1, <2>2, <2>3, <2>4 DEF PageInv
<1>4. ASSUME NEW b \in blocks, Gives(b)
      PROVE  PageInv'
  <2>1. b.start \notin Reserved
    BY DEF PageInv, KernelInv, KernelMemorySafe
  <2>2. BitmapExact'
    BY <1>4, <2>1 DEF PageInv, BitmapExact, Gives
  <2>3. QED
    BY <1>1, <1>4, <2>2 DEF PageInv, Gives
<1>5. QED
  BY <1>2, <1>3, <1>4, PageStepShape DEF vars

LEMMA InitPageInv == Init => PageInv
  BY InitKernelInv DEF PageInv, Init, BitmapExact, mm_init

(***************************************************************************)
(* With single-page clients no page is named by two pointers and the       *)
(* bitmap is exact: nothing leaks and nothing in use is marked free.       *)
(***************************************************************************)
THEOREM BitmapExactTheorem == Spec => []BitmapExact
<1>1. PageInv => BitmapExact
  BY DEF PageInv
<1>2. QED
  BY <1>1, InitPageInv, PageInvStep, PTL DEF Spec

-----------------------------------------------------------------------------
(***************************************************************************)
(* The refinement mapping: OwnerOf of a page that some block starts at.    *)
(***************************************************************************)
LEMMA OwnerOfBlock ==
  ASSUME BitmapExact, largest = 1, NEW b \in blocks
  PROVE  OwnerOf(b.start) = b.owner
<1>1. (CHOOSE x \in blocks : x.start = b.start) = b
  BY DEF BitmapExact
<1>2. QED
  BY <1>1 DEF OwnerOf

(***************************************************************************)
(* Single-page clients see exactly the abstract promise: mm.c implements   *)
(* PageOwnership.                                                          *)
(***************************************************************************)
THEOREM OwnershipRefinement == Spec => ImplementsOwnership
<1> DEFINE F == Pages \ Reserved
           own == [p \in F |-> OwnerOf(p)]
<1>1. Init => Ownership!Init
  BY DEF Init, Ownership!Init, OwnerOf
<1>2. PageInv /\ PageInv' /\ [Next]_vars => [Ownership!Next]_own
  <2> SUFFICES ASSUME PageInv, PageInv', [Next]_vars
               PROVE  Ownership!Next \/ own' = own
    OBVIOUS
  <2>0. BitmapExact /\ BitmapExact'
    BY DEF PageInv
  <2>a. UNCHANGED largest
    BY LargestFixed
  <2>b. CASE largest # 1
    BY <2>a, <2>b DEF OwnerOf
  <2> SUFFICES ASSUME largest = 1 PROVE Ownership!Next \/ own' = own
    BY <2>b
  <2>1. CASE UNCHANGED <<page_bitmap, blocks>>
    BY <2>a, <2>1 DEF OwnerOf
  <2>2. ASSUME NEW c \in Client, NEW p \in Pages, Takes(c, p)
        PROVE  Ownership!Next
    <3> DEFINE new == [owner |-> c, start |-> p, len |-> 1]
    <3>1. p \in F /\ \A b \in blocks : b.start # p
      BY <2>0, <2>2 DEF BitmapExact, Takes
    <3>2. OwnerOf(p) = NULL
      BY <3>1 DEF OwnerOf
    <3>3. new \in blocks' /\ new.start = p /\ new.owner = c
      BY <2>2 DEF Takes
    <3>4. OwnerOf(p)' = c
      <4>1. (CHOOSE x \in blocks' : x.start = p) = new
        BY <2>0, <2>a, <3>3 DEF BitmapExact
      <4>2. QED
        BY <2>a, <3>3, <4>1 DEF OwnerOf
    <3>5. \A q \in F \ {p} : OwnerOf(q)' = OwnerOf(q)
      <4>1. TAKE q \in F \ {p}
      <4>2. \A x : (x \in blocks' /\ x.start = q) <=> (x \in blocks /\ x.start = q)
        BY <2>2, <3>3 DEF Takes
      <4>3. (CHOOSE x \in blocks' : x.start = q) = (CHOOSE x \in blocks : x.start = q)
        BY <4>2
      <4>4. QED
        BY <2>a, <4>2, <4>3 DEF OwnerOf
    <3>6. own' = [own EXCEPT ![p] = c] /\ own[p] = NULL
      BY <3>1, <3>2, <3>4, <3>5
    <3>7. Ownership!Acquire(c, p)
      BY <3>6 DEF Ownership!Acquire
    <3>8. QED
      BY <3>1, <3>7 DEF Ownership!Next
  <2>3. ASSUME NEW b \in blocks, Gives(b)
        PROVE  Ownership!Next
    <3> DEFINE p == b.start
    <3>1. b \in Block
      BY DEF PageInv, KernelInv, TypeOK
    <3>2. p \in F /\ b.owner \in Client
      BY <3>1 DEF Block, PageInv, KernelInv, KernelMemorySafe
    <3>3. OwnerOf(p) = b.owner
      BY <2>0, OwnerOfBlock
    <3>4. \A x \in blocks' : x.start # p
      BY <2>0, <2>a, <2>3 DEF BitmapExact, Gives
    <3>5. OwnerOf(p)' = NULL
      BY <3>4 DEF OwnerOf
    <3>6. \A q \in F \ {p} : OwnerOf(q)' = OwnerOf(q)
      <4>1. TAKE q \in F \ {p}
      <4>2. \A x : (x \in blocks' /\ x.start = q) <=> (x \in blocks /\ x.start = q)
        BY <2>3 DEF Gives
      <4>3. (CHOOSE x \in blocks' : x.start = q) = (CHOOSE x \in blocks : x.start = q)
        BY <4>2
      <4>4. QED
        BY <2>a, <4>2, <4>3 DEF OwnerOf
    <3>7. own' = [own EXCEPT ![p] = NULL] /\ own[p] = b.owner
      BY <3>2, <3>3, <3>5, <3>6
    <3>8. Ownership!Release(b.owner, p)
      BY <3>7 DEF Ownership!Release
    <3>9. QED
      BY <3>2, <3>8 DEF Ownership!Next
  <2>4. QED
    BY <2>1, <2>2, <2>3, PageStepShape DEF vars
<1>3. QED
  BY <1>1, <1>2, InitPageInv, PageInvStep, PTL
     DEF Spec, ImplementsOwnership, Ownership!Spec

=============================================================================
