------------------------- MODULE AddressSpaceProofs -------------------------
(***************************************************************************)
(* Theorems about AddressSpace, for every size of memory, of a page and of *)
(* the address space.                                                      *)
(***************************************************************************)
EXTENDS AddressSpace, MmLemmas

Spaces == [bitmap : SUBSET Pages, tables : SUBSET Pages, pte : [VPage -> Entry], brk : Nat]

Fixed(m) == m.tables \cup {PageDir, Registers}

\* A page that is marked used and is neither the kernel's nor a table.
Frame(m, p) == p \in m.bitmap /\ p \notin Reserved /\ p \notin Fixed(m)

(***************************************************************************)
(* What FramesExclusive says, of the state a call works on.                *)
(***************************************************************************)
Exclusive(m) ==
  /\ m \in Spaces
  /\ Reserved \subseteq m.bitmap
  /\ Fixed(m) \subseteq m.bitmap
  /\ \A v \in VPage : m.pte[v].frame # NULL => Frame(m, m.pte[v].frame)
  /\ \A u, v \in VPage : u # v /\ m.pte[v].frame # NULL => m.pte[u].frame # m.pte[v].frame

SpaceInv == ~ torn => Exclusive(Space)

-----------------------------------------------------------------------------
(***************************************************************************)
(* Addresses                                                               *)
(***************************************************************************)
LEMMA Monotonic ==
  ASSUME NEW b \in Nat, NEW x \in Nat, NEW y \in Nat, x <= y
  PROVE  b * x <= b * y
<1>1. b * y = b * x + b * (y - x)
  OBVIOUS
<1>2. b * (y - x) >= 0 /\ b * x \in Nat
  OBVIOUS
<1>3. QED
  BY <1>1, <1>2

LEMMA PageOfByte ==
  ASSUME NEW a \in Nat, NEW i \in Nat
  PROVE  VPageOf(a + i * PageBytes) = VPageOf(a) + i
<1> DEFINE q == a \div PageBytes
           o == a % PageBytes
<1>1. q \in Nat /\ o \in 0 .. PageBytes - 1 /\ a = PageBytes * q + o
  BY Division, SpaceAssumption
<1>2. a + i * PageBytes = (q + i) * PageBytes + o
  BY <1>1, SpaceAssumption
<1> HIDE DEF q, o
<1>3. q + i \in Nat /\ PageBytes \in Nat \ {0}
  BY <1>1, SpaceAssumption
<1>a. ((q + i) * PageBytes + o) \div PageBytes = q + i
  BY <1>1, <1>3, Quotient
<1>4. QED
  BY <1>2, <1>a DEF VPageOf, q

LEMMA PagesInWhole ==
  ASSUME NEW i \in Nat
  PROVE  PagesIn(i * PageBytes) = i
<1>1. i * PageBytes + PageBytes - 1 = i * PageBytes + (PageBytes - 1)
  BY SpaceAssumption
<1>2. PageBytes - 1 \in 0 .. PageBytes - 1
  BY SpaceAssumption
<1>3. (i * PageBytes + (PageBytes - 1)) \div PageBytes = i
  BY <1>2, Quotient, SpaceAssumption
<1>4. QED
  BY <1>1, <1>3 DEF PagesIn

LEMMA PagesInNat ==
  ASSUME NEW n \in Nat
  PROVE  PagesIn(n) \in Nat
<1>1. PageBytes \in Nat \ {0}
  BY SpaceAssumption
<1>2. n + PageBytes - 1 \in Nat
  BY <1>1
<1>3. QED
  BY <1>1, <1>2, Division DEF PagesIn

LEMMA TouchedPages ==
  ASSUME NEW a \in Nat, NEW n \in Nat
  PROVE  Touched(a, n) = {VPageOf(a) + i : i \in 0 .. PagesIn(n) - 1}
<1>1. \A i \in 0 .. PagesIn(n) - 1 : VPageOf(a + i * PageBytes) = VPageOf(a) + i
  BY PageOfByte, PagesInNat
<1>2. QED
  BY <1>1 DEF Touched

LEMMA TouchedFits ==
  ASSUME NEW a \in Nat, NEW n \in Nat, Fits(a, n)
  PROVE  Touched(a, n) \subseteq VPage
<1>1. VPageOf(a) \in Nat /\ PagesIn(n) \in Nat
  BY Division, PagesInNat, SpaceAssumption DEF VPageOf
<1>2. QED
  BY <1>1, TouchedPages, SpaceAssumption DEF Fits, VPage

LEMMA TouchedFewer ==
  ASSUME NEW a \in Nat, NEW n \in Nat, NEW i \in Nat, VPageOf(a) + n <= VPages, i <= n
  PROVE  Touched(a, i * PageBytes) \subseteq VPage
<1>0. i * PageBytes \in Nat
  BY SpaceAssumption
<1>1. VPageOf(a) \in Nat /\ i * PageBytes \in Nat
  BY <1>0, Division, SpaceAssumption DEF VPageOf
<1>2. Touched(a, i * PageBytes) = {VPageOf(a) + j : j \in 0 .. i - 1}
  BY <1>1, TouchedPages, PagesInWhole
<1>3. QED
  BY <1>1, <1>2, SpaceAssumption DEF VPage

-----------------------------------------------------------------------------
(***************************************************************************)
(* mm.c                                                                    *)
(***************************************************************************)

\* A page taken for the process and not yet mapped.
Fresh(m, p) == p # NULL /\ Frame(m, p) /\ \A v \in VPage : m.pte[v].frame # p

LEMMA TakePage ==
  ASSUME NEW m, Exclusive(m), get_free_page(m.bitmap).page # NULL
  PROVE  LET r == get_free_page(m.bitmap)
             n == [m EXCEPT !.bitmap = r.bitmap]
         IN  /\ Exclusive(n) /\ Fresh(n, r.page)
             /\ n.tables = m.tables /\ n.pte = m.pte /\ n.brk = m.brk
             /\ n.bitmap = m.bitmap \cup {r.page} /\ r.page \in Pages \ m.bitmap
<1> DEFINE r == get_free_page(m.bitmap)
           n == [m EXCEPT !.bitmap = r.bitmap]
<1>1. m \in Spaces /\ Reserved \subseteq m.bitmap
  BY DEF Exclusive
<1>2. r.page \in Pages \ m.bitmap /\ r.page \notin Reserved /\ r.bitmap = m.bitmap \cup {r.page}
  BY <1>1, GetFreePageResult
<1>3. /\ n.bitmap = m.bitmap \cup {r.page} /\ n.tables = m.tables /\ n.pte = m.pte /\ n.brk = m.brk
      /\ n \in Spaces
  BY <1>1, <1>2 DEF Spaces
<1> HIDE DEF n, r
<1>4. Exclusive(n)
  BY <1>3, <1>1 DEF Exclusive, Frame, Fixed
<1>5. \A v \in VPage : m.pte[v].frame # NULL => m.pte[v].frame \in m.bitmap
  BY DEF Exclusive, Frame
<1>6. r.page # NULL
  BY DEF r
<1>7. Fresh(n, r.page)
  BY <1>2, <1>3, <1>5, <1>6 DEF Fresh, Frame, Fixed, Exclusive
<1>8. QED
  BY <1>2, <1>3, <1>4, <1>7 DEF n, r

LEMMA OneTable ==
  ASSUME NEW m, Exclusive(m), NEW k
  PROVE  /\ Exclusive(get_or_create_table(m, k))
         /\ get_or_create_table(m, k).brk = m.brk
         /\ \A p : Fresh(m, p) => Fresh(get_or_create_table(m, k), p)
<1> DEFINE r == get_free_page(m.bitmap)
           n == [m EXCEPT !.bitmap = r.bitmap]
           t == [m EXCEPT !.bitmap = r.bitmap, !.tables = @ \cup {r.page}]
<1>1. CASE Cardinality(m.tables) >= k \/ r.page = NULL
  BY <1>1 DEF get_or_create_table
<1>2. CASE ~ (Cardinality(m.tables) >= k \/ r.page = NULL)
  <2>1. get_or_create_table(m, k) = t
    BY <1>2 DEF get_or_create_table
  <2>2. /\ Exclusive(n) /\ Fresh(n, r.page)
        /\ n.tables = m.tables /\ n.pte = m.pte /\ n.brk = m.brk
        /\ n.bitmap = m.bitmap \cup {r.page} /\ r.page \in Pages \ m.bitmap
    BY <1>2, TakePage
  <2>3. m \in Spaces
    BY DEF Exclusive
  <2>4. /\ t.bitmap = n.bitmap /\ t.tables = n.tables \cup {r.page} /\ t.pte = n.pte
        /\ t.brk = n.brk
    BY <2>3 DEF Spaces
  <2>5. t \in Spaces
    <3>1. n.bitmap \in SUBSET Pages /\ m.tables \cup {r.page} \in SUBSET Pages
      BY <2>2, <2>3 DEF Exclusive, Spaces
    <3>2. r.bitmap = n.bitmap
      BY <2>3 DEF Spaces
    <3>3. QED
      BY <2>3, <3>1, <3>2 DEF Spaces
  <2> HIDE DEF n, t, r
  <2>6. Exclusive(t)
    <3>1. Fixed(t) = Fixed(n) \cup {r.page}
      BY <2>4 DEF Fixed
    <3>2. r.page \in n.bitmap
      BY <2>2
    <3>3. \A v \in VPage : t.pte[v].frame # NULL => Frame(t, t.pte[v].frame)
      BY <2>2, <2>4, <3>1 DEF Exclusive, Fresh, Frame
    <3>4. QED
      BY <2>2, <2>4, <2>5, <3>1, <3>2, <3>3 DEF Exclusive
  <2>7. ASSUME NEW p, Fresh(m, p) PROVE Fresh(t, p)
    <3>1. p # r.page
      BY <2>2, <2>7 DEF Fresh, Frame
    <3>2. QED
      BY <2>2, <2>4, <2>7, <3>1 DEF Fresh, Frame, Fixed
  <2>8. QED
    BY <2>1, <2>2, <2>4, <2>6, <2>7
<1>3. QED
  BY <1>1, <1>2

LEMMA MapPage ==
  ASSUME NEW m, Exclusive(m), NEW a, NEW p, Fresh(m, p)
  PROVE  Exclusive(map_page(m, a, p)) /\ map_page(m, a, p).brk = m.brk
<1> DEFINE n == get_or_create_tables(m)
           v == VPageOf(a)
           e == [frame |-> p, high |-> FALSE]
           t == [n EXCEPT !.pte[v] = e]
<1>1. Exclusive(n) /\ Fresh(n, p) /\ n.brk = m.brk
  <2> DEFINE m1 == get_or_create_table(m, 1)
             m2 == get_or_create_table(m1, 2)
  <2>1. Exclusive(m1) /\ Fresh(m1, p) /\ m1.brk = m.brk
    BY OneTable
  <2> HIDE DEF m1
  <2>2. Exclusive(m2) /\ Fresh(m2, p) /\ m2.brk = m1.brk
    BY <2>1, OneTable
  <2> HIDE DEF m2
  <2>3. /\ Exclusive(get_or_create_table(m2, 3)) /\ Fresh(get_or_create_table(m2, 3), p)
        /\ get_or_create_table(m2, 3).brk = m2.brk
    BY <2>2, OneTable
  <2>4. QED
    BY <2>1, <2>2, <2>3 DEF m1, m2, get_or_create_tables
<1> HIDE DEF n
<1>2. CASE Cardinality(n.tables) < 3
  BY <1>1, <1>2 DEF map_page, n
<1>3. CASE ~ (Cardinality(n.tables) < 3)
  <2>1. map_page(m, a, p) = t
    BY <1>3 DEF map_page, n
  <2>2. n \in Spaces /\ p \in Pages
    BY <1>1 DEF Exclusive, Fresh, Frame, Spaces
  <2>3. e \in Entry /\ e.frame = p
    BY <2>2 DEF Entry
  <2> HIDE DEF e, v
  <2>4. n.pte \in [VPage -> Entry]
    BY <2>2 DEF Spaces
  <2>5. [n.pte EXCEPT ![v] = e] \in [VPage -> Entry]
    BY <2>3, <2>4
  <2>6. /\ t \in Spaces /\ t.bitmap = n.bitmap /\ t.tables = n.tables /\ t.brk = n.brk
        /\ t.pte = [n.pte EXCEPT ![v] = e]
    BY <2>2, <2>5 DEF Spaces
  <2> HIDE DEF t
  <2>7. \A u \in VPage : t.pte[u] = IF u = v THEN e ELSE n.pte[u]
    BY <2>4, <2>6
  <2>8. Exclusive(t)
    <3>1. \A q : Frame(t, q) <=> Frame(n, q)
      BY <2>6 DEF Frame, Fixed
    <3>2. \A u \in VPage : t.pte[u].frame # NULL => Frame(t, t.pte[u].frame)
      BY <1>1, <2>3, <2>7, <3>1 DEF Exclusive, Fresh
    <3>3. \A u, w \in VPage : u # w /\ t.pte[w].frame # NULL => t.pte[u].frame # t.pte[w].frame
      BY <1>1, <2>3, <2>7 DEF Exclusive, Fresh
    <3>4. QED
      BY <1>1, <2>6, <3>2, <3>3 DEF Exclusive, Fixed
  <2>9. QED
    BY <1>1, <2>1, <2>6, <2>8
<1>4. QED
  BY <1>2, <1>3

\* In n, some of the frames that vs maps are free, and nothing else has changed.
Freed(m, n, vs) ==
  /\ n.bitmap \subseteq m.bitmap
  /\ \A p \in m.bitmap \ n.bitmap : p \notin Reserved /\ \E v \in vs : m.pte[v].frame = p
  /\ n.tables = m.tables /\ n.pte = m.pte /\ n.brk = m.brk

LEMMA FreeMapped ==
  ASSUME NEW m \in Spaces, NEW vs, vs \subseteq VPage, NEW o \in 0 .. PageBytes - 1
  PROVE  Freed(m, free_mapped(m, vs, o), vs)
<1> DEFINE n == free_mapped(m, vs, o)
           kept == {p \in m.bitmap : \A v \in vs :
                      LET pa == get_physical_address(m, v * PageBytes + o)
                      IN  pa.page = NULL \/ p \in free_page({p}, pa.page, pa.offset)}
<1>2. n = [m EXCEPT !.bitmap = kept]
  BY DEF free_mapped
<1>3. n.bitmap = kept /\ n.tables = m.tables /\ n.pte = m.pte /\ n.brk = m.brk
  BY <1>2 DEF Spaces
<1>4. ASSUME NEW p \in m.bitmap, NEW v \in vs,
             LET pa == get_physical_address(m, v * PageBytes + o)
             IN  ~ (pa.page = NULL \/ p \in free_page({p}, pa.page, pa.offset))
      PROVE  p \notin Reserved /\ m.pte[v].frame = p
  <2> DEFINE pa == get_physical_address(m, v * PageBytes + o)
  <2>1. pa.page = IF m.pte[v].high THEN m.pte[v].frame + PhysPages ELSE m.pte[v].frame
    <3>1. v \in Nat /\ PageBytes \in Nat \ {0}
      BY SpaceAssumption DEF VPage
    <3>2. VPageOf(v * PageBytes + o) = v
      BY <3>1, Quotient DEF VPageOf
    <3>3. QED
      BY <3>2 DEF get_physical_address
  <2>2. m.pte[v].frame \in Nat /\ p \in Nat
    BY MmAssumption DEF Spaces, Entry, Pages
  <2> HIDE DEF pa
  <2>3. p \notin free_page({p}, pa.page, pa.offset)
    BY <1>4 DEF pa
  <2>4. pa.page = p /\ ~ (pa.page < ReservedPages) /\ ~ (pa.page >= PhysPages)
    BY <2>3 DEF free_page
  <2>5. ~ m.pte[v].high
    BY <2>1, <2>2, <2>4, MmAssumption
  <2>6. QED
    BY <2>1, <2>2, <2>4, <2>5, MmAssumption DEF Reserved
<1>5. QED
  BY <1>3, <1>4 DEF Freed

LEMMA FreeAndUnmap ==
  ASSUME NEW m, Exclusive(m), NEW vs, vs \subseteq VPage, NEW o \in 0 .. PageBytes - 1
  PROVE  /\ Exclusive(unmap_pages(free_mapped(m, vs, o), vs))
         /\ unmap_pages(free_mapped(m, vs, o), vs).brk = m.brk
<1> DEFINE n == free_mapped(m, vs, o)
           t == unmap_pages(n, vs)
           new == [v \in VPage |-> IF v \in vs THEN Empty ELSE n.pte[v]]
<1>1. m \in Spaces
  BY DEF Exclusive
<1>2. /\ n.bitmap \subseteq m.bitmap
      /\ \A p \in m.bitmap \ n.bitmap : p \notin Reserved /\ \E v \in vs : m.pte[v].frame = p
      /\ n.tables = m.tables /\ n.pte = m.pte /\ n.brk = m.brk
  <2>1. Freed(m, n, vs)
    BY <1>1, FreeMapped
  <2>2. QED
    BY <2>1, Zenon DEF Freed
<1>3. n \in Spaces
  <2>1. n = [m EXCEPT !.bitmap = n.bitmap]
    BY <1>1 DEF free_mapped, Spaces
  <2> HIDE DEF n
  <2>2. QED
    BY <1>1, <1>2, <2>1 DEF Spaces
<1> HIDE DEF n
<1>4. Empty \in Entry /\ Empty.frame = NULL
  BY MmAssumption DEF Empty, Entry, NULL, Pages
<1>5. new \in [VPage -> Entry]
  BY <1>3, <1>4 DEF Spaces
<1>6. t = [n EXCEPT !.pte = new]
  BY DEF unmap_pages
<1> HIDE DEF new
<1>7. t \in Spaces /\ t.bitmap = n.bitmap /\ t.tables = n.tables /\ t.pte = new /\ t.brk = n.brk
  BY <1>3, <1>5, <1>6 DEF Spaces
<1> HIDE DEF t
<1>8. \A v \in VPage : new[v] = IF v \in vs THEN Empty ELSE m.pte[v]
  BY <1>2 DEF new
<1>9. \A v \in VPage : t.pte[v].frame # NULL => v \notin vs /\ t.pte[v] = m.pte[v]
  BY <1>4, <1>7, <1>8
<1>10. \A v \in VPage : t.pte[v].frame # NULL => Frame(t, t.pte[v].frame)
  <2>1. ASSUME NEW v \in VPage, t.pte[v].frame # NULL
        PROVE  Frame(t, t.pte[v].frame)
    <3> DEFINE f == t.pte[v].frame
    <3>1. f = m.pte[v].frame /\ v \notin vs /\ f # NULL
      BY <1>9, <2>1
    <3> HIDE DEF f
    <3>2. Frame(m, f) /\ \A u \in VPage : u # v => m.pte[u].frame # f
      BY <3>1 DEF Exclusive
    <3>3. f \in n.bitmap
      BY <1>2, <3>1, <3>2 DEF Frame
    <3>4. Frame(t, f)
      BY <1>2, <1>7, <3>2, <3>3 DEF Frame, Fixed
    <3>5. QED
      BY <3>4 DEF f
  <2>2. QED
    BY <2>1
<1>11. \A u, v \in VPage : u # v /\ t.pte[v].frame # NULL => t.pte[u].frame # t.pte[v].frame
  BY <1>9 DEF Exclusive
<1>12. Reserved \subseteq t.bitmap
  BY <1>2, <1>7 DEF Exclusive
<1>13. Fixed(t) \subseteq t.bitmap
  <2>1. Fixed(t) = Fixed(m)
    BY <1>2, <1>7 DEF Fixed
  <2>2. \A p \in Fixed(m) : p \in m.bitmap /\ p \notin Reserved => \A v \in VPage : m.pte[v].frame # p
    <3>1. NULL \in Reserved
      BY MmAssumption DEF NULL, Reserved
    <3>2. QED
      BY <3>1 DEF Exclusive, Frame
  <2>3. \A p \in Fixed(m) : p \in n.bitmap
    BY <1>2, <2>2 DEF Exclusive
  <2>4. QED
    BY <1>7, <2>1, <2>3
<1>14. QED
  BY <1>2, <1>7, <1>10, <1>11, <1>12, <1>13 DEF Exclusive, t, n

LEMMA Protect ==
  ASSUME NEW m, Exclusive(m), NEW a, NEW len, NEW exec \in BOOLEAN
  PROVE  Exclusive(Mprotect(m, a, len, exec))
<1> DEFINE new == [v \in VPage |-> IF v \in Touched(a, len) /\ m.pte[v].frame # NULL
                                     THEN [m.pte[v] EXCEPT !.high = ~ exec] ELSE m.pte[v]]
           t == Mprotect(m, a, len, exec)
<1>1. m \in Spaces
  BY DEF Exclusive
<1>2. m.pte \in [VPage -> Entry]
  BY <1>1 DEF Spaces
<1>3. \A v \in VPage : m.pte[v] \in Entry
  BY <1>2
<1>4. \A e \in Entry : [e EXCEPT !.high = ~ exec] \in Entry /\ [e EXCEPT !.high = ~ exec].frame = e.frame
  BY DEF Entry
<1>5. new \in [VPage -> Entry] /\ \A v \in VPage : new[v].frame = m.pte[v].frame
  BY <1>3, <1>4
<1>6. t = [m EXCEPT !.pte = new]
  BY DEF Mprotect
<1> HIDE DEF new
<1>7. t \in Spaces /\ t.bitmap = m.bitmap /\ t.tables = m.tables /\ t.pte = new
  BY <1>1, <1>5, <1>6 DEF Spaces
<1> HIDE DEF t
<1>8. \A v \in VPage : t.pte[v].frame = m.pte[v].frame
  BY <1>5, <1>7
<1>9. Exclusive(t)
  BY <1>7, <1>8 DEF Exclusive, Frame, Fixed
<1>10. QED
  BY <1>9 DEF t

-----------------------------------------------------------------------------
(***************************************************************************)
(* The loop that maps a region                                             *)
(***************************************************************************)

\* Outcomes of the loop over n pages: exclusive unless mmap has failed at a page
\* that is not the first.
Outcomes(n, call) ==
  {s \in [m : Spaces, ok : BOOLEAN] : s.ok \/ call # "mmap" \/ n <= 1 => Exclusive(s.m)}

LEMMA RollbackType ==
  ASSUME NEW m, Exclusive(m), NEW vs, vs \subseteq VPage, NEW o \in 0 .. PageBytes - 1
  PROVE  free_mapped(m, vs, o) \in Spaces /\ (vs = {} => Exclusive(free_mapped(m, vs, o)))
<1> DEFINE n == free_mapped(m, vs, o)
<1>1. m \in Spaces
  BY DEF Exclusive
<1>2. Freed(m, n, vs)
  BY <1>1, FreeMapped
<1>3. n = [m EXCEPT !.bitmap = n.bitmap]
  BY <1>1 DEF free_mapped, Spaces
<1> HIDE DEF n
<1>4. n.bitmap \subseteq m.bitmap
  BY <1>2 DEF Freed
<1>5. n \in Spaces
  BY <1>1, <1>3, <1>4 DEF Spaces
<1>6. ASSUME vs = {} PROVE Exclusive(n)
  <2>1. n.bitmap = m.bitmap /\ n.tables = m.tables /\ n.pte = m.pte
    BY <1>2, <1>6 DEF Freed
  <2>2. QED
    BY <1>5, <2>1 DEF Exclusive, Frame, Fixed
<1>7. QED
  BY <1>5, <1>6 DEF n

LEMMA PopulateRound ==
  ASSUME NEW a \in Nat, NEW n \in Nat, VPageOf(a) + n <= VPages, NEW call,
         NEW s \in Outcomes(n, call), NEW i \in 1 .. n
  PROVE  PopulateOne(s, a, i, call) \in Outcomes(n, call)
<1> DEFINE r == get_free_page(s.m.bitmap)
           vs == Touched(a, (i - 1) * PageBytes)
           o == a % PageBytes
           u == PopulateOne(s, a, i, call)
<1>1. i - 1 \in Nat /\ i - 1 <= n
  OBVIOUS
<1>2. vs \subseteq VPage
  BY <1>1, TouchedFewer
<1>3. o \in 0 .. PageBytes - 1
  BY Division, SpaceAssumption
<1>4. i = 1 => vs = {}
  <2>1. (i - 1) * PageBytes \in Nat
    BY <1>1, SpaceAssumption
  <2>2. vs = {VPageOf(a) + j : j \in 0 .. i - 1 - 1}
    BY <1>1, <2>1, TouchedPages, PagesInWhole
  <2>3. QED
    BY <2>2
<1> HIDE DEF vs, o
<1>5. CASE ~ s.ok
  BY <1>5 DEF PopulateOne
<1>6. CASE s.ok
  <2>0. Exclusive(s.m)
    BY <1>6 DEF Outcomes
  <2>1. CASE r.page = NULL /\ call = "mmap"
    <3>1. u = [m |-> free_mapped(s.m, vs, o), ok |-> FALSE]
      BY <1>6, <2>1 DEF PopulateOne, MmapRollback, vs, o
    <3>2. free_mapped(s.m, vs, o) \in Spaces /\ (vs = {} => Exclusive(free_mapped(s.m, vs, o)))
      BY <1>2, <1>3, <2>0, RollbackType
    <3> DEFINE w == free_mapped(s.m, vs, o)
    <3>3. n <= 1 => Exclusive(w)
      BY <1>4, <3>2
    <3> HIDE DEF w
    <3>4. [m |-> w, ok |-> FALSE] \in Outcomes(n, call)
      BY <2>1, <3>2, <3>3 DEF Outcomes, w
    <3>5. QED
      BY <3>1, <3>4 DEF w
  <2>2. CASE r.page = NULL /\ call # "mmap"
    <3>1. u = [m |-> unmap_pages(free_mapped(s.m, vs, o), vs), ok |-> FALSE]
      BY <1>6, <2>2 DEF PopulateOne, BrkRollback, MmapRollback, vs, o
    <3>2. Exclusive(unmap_pages(free_mapped(s.m, vs, o), vs))
      BY <1>2, <1>3, <2>0, FreeAndUnmap
    <3>3. QED
      BY <3>1, <3>2 DEF Outcomes, Exclusive
  <2>3. CASE r.page # NULL
    <3> DEFINE b == [s.m EXCEPT !.bitmap = r.bitmap]
    <3>1. u = [m |-> map_page(b, a + (i - 1) * PageBytes, r.page), ok |-> TRUE]
      BY <1>6, <2>3 DEF PopulateOne
    <3>2. Exclusive(b) /\ Fresh(b, r.page)
      BY <2>0, <2>3, TakePage
    <3> HIDE DEF b
    <3> DEFINE w == map_page(b, a + (i - 1) * PageBytes, r.page)
    <3>3. Exclusive(w)
      BY <3>2, MapPage
    <3> HIDE DEF w
    <3>4. [m |-> w, ok |-> TRUE] \in Outcomes(n, call)
      BY <3>3 DEF Outcomes, Exclusive
    <3>5. QED
      BY <3>1, <3>4 DEF w
  <2>4. QED
    BY <2>1, <2>2, <2>3
<1>7. QED
  BY <1>5, <1>6

\* The loop of Populate, round by round.
Loop(g, m, a, n, call) ==
  /\ g[0] = [m |-> m, ok |-> TRUE]
  /\ \A i \in 1 .. n : g[i] = PopulateOne(g[i - 1], a, i, call)
  /\ Populate(m, a, n, call) = g[n]

LEMMA PopulateLoop ==
  ASSUME NEW m, NEW a, NEW n \in Nat, NEW call, NEW S, [m |-> m, ok |-> TRUE] \in S,
         \A i \in 1 .. n, s \in S : PopulateOne(s, a, i, call) \in S
  PROVE  \E g : Loop(g, m, a, n, call) /\ g[n] \in S
<1> DEFINE s0 == [m |-> m, ok |-> TRUE]
           F == [i \in 1 .. n |-> [s \in S |-> PopulateOne(s, a, i, call)]]
           P(f) == f = [i \in 0 .. n |-> IF i = 0 THEN s0 ELSE PopulateOne(f[i - 1], a, i, call)]
           loop == CHOOSE f : P(f)
<1>1. s0 \in S
  OBVIOUS
<1> HIDE DEF s0
<1>3. F \in [1 .. n -> [S -> S]]
  OBVIOUS
<1>4. PICK g \in [0 .. n -> S] : Rounds(g, s0, F, n)
  <2> HIDE DEF F
  <2>1. QED
    BY <1>1, <1>3, LoopExists
<1>5. \A i \in 1 .. n : g[i - 1] \in S /\ g[i] = PopulateOne(g[i - 1], a, i, call)
  <2>1. TAKE i \in 1 .. n
  <2>2. i - 1 \in 0 .. n
    OBVIOUS
  <2>3. g[i - 1] \in S /\ g[i] = F[i][g[i - 1]]
    BY <1>4, <2>2 DEF Rounds
  <2>4. QED
    BY <2>3
<1>6. \A i \in 0 .. n : g[i] = IF i = 0 THEN s0 ELSE PopulateOne(g[i - 1], a, i, call)
  <2>1. TAKE i \in 0 .. n
  <2>2. i = 0 \/ i \in 1 .. n
    OBVIOUS
  <2>3. QED
    BY <1>4, <1>5, <2>2 DEF Rounds
<1>7. P(g)
  BY <1>6
<1>8. P(loop)
  BY <1>7
<1> HIDE DEF loop
<1>9. loop[0] = s0 /\ \A i \in 1 .. n : loop[i] = PopulateOne(loop[i - 1], a, i, call)
  <2>1. \A i \in 0 .. n : loop[i] = IF i = 0 THEN s0 ELSE PopulateOne(loop[i - 1], a, i, call)
    BY <1>8
  <2>2. QED
    BY <2>1
<1>10. loop[n] \in S
  <2> DEFINE Q == {i \in 0 .. n : loop[i] \in S}
  <2>1. 0 \in Q /\ \A i \in 1 .. n : i - 1 \in Q => i \in Q
    BY <1>1, <1>9
  <2>2. n \in Q
    <3> HIDE DEF Q
    <3>1. QED
      BY <2>1, RoundInduction
  <2>3. QED
    BY <2>2
<1>11. Populate(m, a, n, call) = loop[n]
  BY DEF Populate, loop, s0
<1>12. QED
  BY <1>9, <1>10, <1>11 DEF Loop, s0

LEMMA PopulateResult ==
  ASSUME NEW m, Exclusive(m), NEW a \in Nat, NEW n \in Nat, VPageOf(a) + n <= VPages, NEW call
  PROVE  Populate(m, a, n, call) \in Outcomes(n, call)
<1> DEFINE S == Outcomes(n, call)
<1>1. [m |-> m, ok |-> TRUE] \in S
  BY DEF Outcomes, Exclusive
<1>2. \A i \in 1 .. n, s \in S : PopulateOne(s, a, i, call) \in S
  BY PopulateRound
<1> HIDE DEF S
<1>3. \E g : Loop(g, m, a, n, call) /\ g[n] \in S
  BY <1>1, <1>2, PopulateLoop
<1>4. QED
  BY <1>3 DEF Loop, S

-----------------------------------------------------------------------------
(***************************************************************************)
(* The calls                                                               *)
(***************************************************************************)

\* What a call that maps n bytes may return.
LEMMA MmapResult ==
  ASSUME NEW m, Exclusive(m), NEW addr \in Nat, NEW len \in Nat,
         Fits(IF addr = 0 THEN m.brk ELSE addr, len)
  PROVE  Mmap(m, addr, len) \in Outcomes(PagesIn(len), "mmap")
<1> DEFINE n == PagesIn(len)
           moved == [m EXCEPT !.brk = @ + n * PageBytes]
<1>1. m \in Spaces /\ m.brk \in Nat
  BY DEF Exclusive, Spaces
<1>2. n \in Nat /\ n * PageBytes \in Nat
  BY PagesInNat, SpaceAssumption
<1> HIDE DEF n
<1>3. m.brk + n * PageBytes \in Nat
  BY <1>1, <1>2
<1>4. /\ moved \in Spaces /\ moved.bitmap = m.bitmap /\ moved.tables = m.tables
      /\ moved.pte = m.pte
  BY <1>1, <1>3 DEF Spaces
<1> HIDE DEF moved
<1>5. Exclusive(moved)
  BY <1>4 DEF Exclusive, Frame, Fixed
<1>6. CASE addr = 0
  <2>1. Mmap(m, addr, len) = Populate(moved, m.brk, n, "mmap")
    BY <1>6 DEF Mmap, moved, n
  <2>2. VPageOf(m.brk) + n <= VPages
    BY <1>6 DEF Fits, n
  <2>3. QED
    BY <1>1, <1>2, <1>5, <2>1, <2>2, PopulateResult DEF n
<1>7. CASE addr # 0
  <2>1. Mmap(m, addr, len) = Populate(m, addr, n, "mmap")
    BY <1>7 DEF Mmap, n
  <2>2. VPageOf(addr) + n <= VPages
    BY <1>7 DEF Fits, n
  <2>3. QED
    BY <1>2, <2>1, <2>2, PopulateResult DEF n
<1>8. QED
  BY <1>6, <1>7

LEMMA MunmapResult ==
  ASSUME NEW m, Exclusive(m), NEW a \in Nat, NEW len \in Nat, Fits(a, len)
  PROVE  Exclusive(Munmap(m, a, len)) /\ Munmap(m, a, len).brk = m.brk
<1>1. Touched(a, len) \subseteq VPage
  BY TouchedFits
<1>2. a % PageBytes \in 0 .. PageBytes - 1
  BY Division, SpaceAssumption
<1>3. QED
  BY <1>1, <1>2, FreeAndUnmap DEF Munmap

\* The heap ends inside the virtual pages, and so does what brk maps.
LEMMA HeapFits ==
  ASSUME NEW b \in Nat, NEW new \in Nat, b < new, new <= HeapLimit
  PROVE  PagesIn(new - b) \in Nat /\ VPageOf(b) + PagesIn(new - b) <= VPages
<1>1. /\ PageBytes \in Nat \ {0} /\ VPages \in Nat /\ HeapLimit \in Nat
      /\ HeapLimit < VPages * PageBytes
  BY SpaceAssumption
<1> DEFINE x == new - b + PageBytes - 1
           q == VPageOf(b)
           k == PagesIn(new - b)
<1>2. new - b \in Nat /\ x \in Nat
  BY <1>1
<1>3. k \in Nat /\ PageBytes * k <= x
  <2>1. x \div PageBytes \in Nat /\ PageBytes * (x \div PageBytes) <= x
    <3> HIDE DEF x
    <3>1. QED
      BY <1>1, <1>2, Division
  <2>2. QED
    BY <2>1 DEF PagesIn
<1>4. q \in Nat /\ PageBytes * q <= b
  BY <1>1, Division DEF VPageOf
<1> HIDE DEF q, k
<1>5. PageBytes * q + PageBytes * k < VPages * PageBytes + PageBytes
  BY <1>1, <1>3, <1>4
<1>6. ASSUME q + k >= VPages + 1 PROVE FALSE
  <2>1. PageBytes * (q + k) >= PageBytes * (VPages + 1)
    BY <1>1, <1>3, <1>4, <1>6, Monotonic
  <2>2. /\ PageBytes * (q + k) = PageBytes * q + PageBytes * k
        /\ PageBytes * (VPages + 1) = VPages * PageBytes + PageBytes
    BY <1>1, <1>3, <1>4
  <2>3. QED
    BY <1>1, <1>3, <1>4, <1>5, <2>1, <2>2
<1>7. QED
  BY <1>1, <1>3, <1>4, <1>6 DEF q, k

LEMMA BrkResult ==
  ASSUME NEW m, Exclusive(m), NEW new \in Nat
  PROVE  Exclusive(Brk(m, new).m)
<1>0. m \in Spaces /\ m.brk \in Nat
  BY DEF Exclusive, Spaces
<1>1. ASSUME NEW x, Exclusive(x)
      PROVE  Exclusive([x EXCEPT !.brk = new])
  <2> DEFINE y == [x EXCEPT !.brk = new]
  <2>1. x \in Spaces
    BY <1>1 DEF Exclusive
  <2>2. y \in Spaces /\ y.bitmap = x.bitmap /\ y.tables = x.tables /\ y.pte = x.pte
    BY <2>1 DEF Spaces
  <2> HIDE DEF y
  <2>3. Exclusive(y)
    BY <1>1, <2>2 DEF Exclusive, Frame, Fixed
  <2>4. QED
    BY <2>3 DEF y
<1> DEFINE n == PagesIn(new - m.brk)
           grown == Populate(m, m.brk, n, "brk")
<1>2. CASE new < HeapStart \/ new > HeapLimit
  BY <1>2 DEF Brk
<1>3. CASE ~ (new < HeapStart \/ new > HeapLimit) /\ new <= m.brk
  BY <1>1, <1>3 DEF Brk
<1>4. CASE ~ (new < HeapStart \/ new > HeapLimit) /\ ~ (new <= m.brk)
  <2>1. n \in Nat /\ VPageOf(m.brk) + n <= VPages
    BY <1>0, <1>4, HeapFits, SpaceAssumption
  <2>2. grown \in Outcomes(n, "brk")
    <3> HIDE DEF n
    <3>1. QED
      BY <1>0, <2>1, PopulateResult
  <2> HIDE DEF grown
  <2>3. Exclusive(grown.m)
    BY <2>2 DEF Outcomes
  <2>4. Brk(m, new) = IF grown.ok THEN [m |-> [grown.m EXCEPT !.brk = new], ok |-> TRUE] ELSE grown
    BY <1>4 DEF Brk, grown
  <2>5. QED
    BY <1>1, <2>3, <2>4
<1>5. QED
  BY <1>2, <1>3, <1>4

LEMMA MremapResult ==
  ASSUME NEW m, Exclusive(m), NEW old \in Nat, NEW oldlen \in Nat, NEW newlen \in Nat,
         NEW fixed \in BOOLEAN, NEW new \in Nat \ {0}, Fits(old, oldlen), Fits(new, newlen),
         ~ fixed => IF newlen > oldlen THEN Fits(m.brk, newlen)
                                      ELSE Fits(old + newlen, oldlen - newlen)
  PROVE  LET r == Mremap(m, old, oldlen, newlen, fixed, new)
         IN  r.ok \/ PagesIn(newlen) <= 1 => Exclusive(r.m)
<1> DEFINE r == Mremap(m, old, oldlen, newlen, fixed, new)
           moved == Mmap(m, 0, newlen)
           gone == Munmap(m, old, oldlen)
<1>1. CASE fixed
  <2>1. Exclusive(gone)
    BY MunmapResult
  <2>2. r = Mmap(gone, new, newlen)
    BY <1>1 DEF Mremap
  <2> HIDE DEF gone, r
  <2>3. r \in Outcomes(PagesIn(newlen), "mmap")
    BY <2>1, <2>2, MmapResult
  <2>4. QED
    BY <2>3 DEF Outcomes, r
<1>2. CASE ~ fixed /\ newlen <= oldlen
  <2>1. r = [m |-> Munmap(m, old + newlen, oldlen - newlen), ok |-> TRUE]
    BY <1>2 DEF Mremap
  <2>2. /\ old + newlen \in Nat /\ oldlen - newlen \in Nat
        /\ Fits(old + newlen, oldlen - newlen)
    BY <1>2
  <2>3. Exclusive(Munmap(m, old + newlen, oldlen - newlen))
    BY <2>2, MunmapResult
  <2>4. QED
    BY <2>1, <2>3
<1>3. CASE ~ fixed /\ ~ (newlen <= oldlen)
  <2>1. moved \in Outcomes(PagesIn(newlen), "mmap")
    <3>1. Fits(m.brk, newlen)
      BY <1>3
    <3>2. QED
      BY <3>1, MmapResult
  <2>2. r = IF moved.ok THEN [m |-> Munmap(moved.m, old, oldlen), ok |-> TRUE] ELSE moved
    BY <1>3 DEF Mremap
  <2> HIDE DEF moved, r
  <2>3. CASE moved.ok
    <3>1. Exclusive(moved.m)
      BY <2>1, <2>3 DEF Outcomes
    <3>2. Exclusive(Munmap(moved.m, old, oldlen))
      BY <3>1, MunmapResult
    <3>3. QED
      BY <2>2, <2>3, <3>2 DEF r
  <2>4. CASE ~ moved.ok
    BY <2>1, <2>2, <2>4 DEF Outcomes, r
  <2>5. QED
    BY <2>3, <2>4
<1>4. QED
  BY <1>1, <1>2, <1>3

-----------------------------------------------------------------------------
(***************************************************************************)
(* The invariant and the theorem                                           *)
(***************************************************************************)
LEMMA Returned ==
  ASSUME NEW m, Exclusive(m), Return(m)
  PROVE  Exclusive(Space)'
<1>1. m \in Spaces
  BY DEF Exclusive
<1>2. page_bitmap' = m.bitmap /\ tables' = m.tables /\ pte' = m.pte /\ heap_brk' = m.brk
  BY DEF Return
<1>3. Space' = m
  BY <1>1, <1>2 DEF Space, Spaces
<1>4. QED
  BY <1>3 DEF Exclusive, Frame, Fixed

LEMMA SpaceInvInit == Init => SpaceInv
<1> SUFFICES ASSUME Init PROVE Exclusive(Space)
  BY DEF SpaceInv
<1>1. /\ page_bitmap = Reserved \cup {PageDir, Registers} /\ tables = {}
      /\ pte = [v \in VPage |-> Empty] /\ heap_brk = HeapStart
  BY DEF Init, mm_init
<1>2. Reserved \subseteq Pages /\ PageDir \in Pages /\ Registers \in Pages
  BY MmAssumption, SpaceAssumption DEF Reserved, Pages, PageDir, Registers
<1>3. Empty \in Entry /\ Empty.frame = NULL
  BY MmAssumption DEF Empty, Entry, NULL, Pages
<1>4. pte \in [VPage -> Entry] /\ heap_brk \in Nat /\ \A v \in VPage : pte[v].frame = NULL
  BY <1>1, <1>3, SpaceAssumption
<1>5. /\ Space.bitmap = page_bitmap /\ Space.tables = {} /\ Space.pte = pte
      /\ Space \in Spaces
  BY <1>1, <1>2, <1>4 DEF Space, Spaces
<1>6. QED
  BY <1>1, <1>4, <1>5 DEF Exclusive, Fixed

LEMMA SpaceInvStep == SpaceInv /\ [Next]_vars => SpaceInv'
<1> SUFFICES ASSUME SpaceInv, [Next]_vars, ~ torn'
             PROVE  Exclusive(Space)'
  BY DEF SpaceInv
<1>0. CASE UNCHANGED vars
  BY <1>0 DEF vars, SpaceInv, Exclusive, Space, Frame, Fixed
<1>a. ~ torn => Exclusive(Space) /\ Space.brk = heap_brk
  BY DEF SpaceInv, Space
<1>b. /\ Addresses \subseteq Nat \ {0} /\ MmapLengths \subseteq Nat /\ Lengths \subseteq Nat
      /\ PageBytes \in Nat /\ 0 \in Nat
  BY SpaceAssumption
\* A call that maps a region of len bytes and returns r.
<1>c. ASSUME NEW r, NEW len, ReturnMapped(r, len),
             ~ torn => (r.ok \/ PagesIn(len) <= 1 => Exclusive(r.m)), PagesIn(len) \in Nat
      PROVE  Exclusive(Space)'
  <2>1. ~ torn /\ (r.ok \/ ~ (PagesIn(len) > 1)) /\ Return(r.m)
    BY <1>c DEF ReturnMapped
  <2>2. Exclusive(r.m)
    BY <1>c, <2>1
  <2>3. QED
    BY <2>1, <2>2, Returned
<1>1. ASSUME NEW addr \in Nat, NEW len \in Nat, Fits(IF addr = 0 THEN heap_brk ELSE addr, len),
             ReturnMapped(Mmap(Space, addr, len), len)
      PROVE  Exclusive(Space)'
  <2> DEFINE r == Mmap(Space, addr, len)
  <2>1. ~ torn => r \in Outcomes(PagesIn(len), "mmap")
    BY <1>1, <1>a, MmapResult
  <2> HIDE DEF r
  <2>2. ~ torn => (r.ok \/ PagesIn(len) <= 1 => Exclusive(r.m))
    BY <2>1 DEF Outcomes
  <2>3. PagesIn(len) \in Nat
    BY PagesInNat
  <2>4. ReturnMapped(r, len)
    BY <1>1 DEF r
  <2>5. QED
    BY <1>c, <2>2, <2>3, <2>4
<1>2. ASSUME NEW a \in Addresses \cup {0}, NEW len \in MmapLengths, sys_mmap(a, len)
      PROVE  Exclusive(Space)'
  BY <1>b, <1>1, <1>2 DEF sys_mmap
<1>3. ASSUME NEW a \in Addresses \cup {0}, sys_shmat(a)
      PROVE  Exclusive(Space)'
  BY <1>b, <1>1, <1>3 DEF sys_shmat
<1>4. ASSUME NEW a \in Addresses, NEW len \in Lengths, sys_munmap(a, len)
      PROVE  Exclusive(Space)'
  <2>1. ~ torn /\ Fits(a, len) /\ Return(Munmap(Space, a, len)) /\ a \in Nat /\ len \in Nat
    BY <1>b, <1>4 DEF sys_munmap
  <2>2. Exclusive(Munmap(Space, a, len))
    BY <1>a, <2>1, MunmapResult
  <2>3. QED
    BY <2>1, <2>2, Returned
<1>5. ASSUME NEW a \in Addresses, NEW len \in Lengths, NEW exec \in BOOLEAN,
             sys_mprotect(a, len, exec)
      PROVE  Exclusive(Space)'
  <2>1. ~ torn /\ Return(Mprotect(Space, a, len, exec))
    BY <1>5 DEF sys_mprotect
  <2>2. Exclusive(Mprotect(Space, a, len, exec))
    BY <1>a, <2>1, Protect
  <2>3. QED
    BY <2>1, <2>2, Returned
<1>6. ASSUME NEW new \in 1 .. HeapLimit + 1, sys_brk(new)
      PROVE  Exclusive(Space)'
  <2>1. ~ torn /\ Return(Brk(Space, new).m) /\ new \in Nat
    BY <1>6, SpaceAssumption DEF sys_brk
  <2>2. Exclusive(Brk(Space, new).m)
    BY <1>a, <2>1, BrkResult
  <2>3. QED
    BY <2>1, <2>2, Returned
<1>7. ASSUME NEW old \in Addresses, NEW new \in Addresses, NEW oldlen \in MmapLengths,
             NEW newlen \in MmapLengths, NEW fixed \in BOOLEAN,
             sys_mremap(old, oldlen, newlen, fixed, new)
      PROVE  Exclusive(Space)'
  <2> DEFINE r == Mremap(Space, old, oldlen, newlen, fixed, new)
  <2>1. /\ old \in Nat /\ new \in Nat \ {0} /\ oldlen \in Nat /\ newlen \in Nat
        /\ Fits(old, oldlen) /\ Fits(new, newlen) /\ ReturnMapped(r, newlen)
        /\ ~ fixed => IF newlen > oldlen THEN Fits(heap_brk, newlen)
                                         ELSE Fits(old + newlen, oldlen - newlen)
    BY <1>b, <1>7 DEF sys_mremap
  <2>2. ~ torn => (r.ok \/ PagesIn(newlen) <= 1 => Exclusive(r.m))
    BY <1>a, <2>1, MremapResult
  <2>3. PagesIn(newlen) \in Nat
    BY <2>1, PagesInNat
  <2> HIDE DEF r
  <2>4. QED
    BY <1>c, <2>1, <2>2, <2>3
<1>8. ASSUME NEW a \in Addresses, NEW present \in BOOLEAN, NEW write \in BOOLEAN,
             page_fault_handler(a, present, write)
      PROVE  Exclusive(Space)'
  <2> DEFINE r == get_free_page(page_bitmap)
             b == [Space EXCEPT !.bitmap = r.bitmap]
  <2>1. ~ torn /\ \/ r.page # NULL /\ Return(map_page(b, a, r.page))
                  \/ UNCHANGED <<page_bitmap, tables, pte, heap_brk>>
    BY <1>8 DEF page_fault_handler
  <2>2. CASE UNCHANGED <<page_bitmap, tables, pte, heap_brk>>
    BY <1>a, <2>1, <2>2 DEF Exclusive, Space, Frame, Fixed
  <2>3. CASE r.page # NULL /\ Return(map_page(b, a, r.page))
    <3>1. Space.bitmap = page_bitmap
      BY DEF Space
    <3>2. Exclusive(b) /\ Fresh(b, r.page)
      BY <1>a, <2>1, <2>3, <3>1, TakePage
    <3> HIDE DEF b, r
    <3>3. Exclusive(map_page(b, a, r.page))
      BY <3>2, MapPage
    <3>4. QED
      BY <2>3, <3>3, Returned
  <2>4. QED
    BY <2>1, <2>2, <2>3
<1>9. QED
  BY <1>0, <1>2, <1>3, <1>4, <1>5, <1>6, <1>7, <1>8 DEF Next

\* Until mapping a region of several pages has failed half way, the state every
\* call works on is exclusive, whatever order mmap, munmap, mprotect, brk,
\* mremap, shmat and page faults come in.
THEOREM SpaceInvTheorem == Spec => []SpaceInv
<1>1. QED
  BY SpaceInvInit, SpaceInvStep, PTL DEF Spec

\* What a process can reach is its own, for every size of memory and every
\* length of a region: a mapped frame is marked used, is neither the kernel's nor
\* a page table, and is mapped once, up to the first mmap or mremap that fails
\* in the middle of a region.
THEOREM FramesExclusiveTheorem == Spec => []FramesExclusive
<1>1. SpaceInv => FramesExclusive
  <2>1. SUFFICES ASSUME Exclusive(Space), ~ torn PROVE FramesExclusive
    BY DEF SpaceInv, FramesExclusive
  <2>2. Space.bitmap = page_bitmap /\ Space.tables = tables /\ Space.pte = pte
    BY DEF Space
  <2>3. QED
    BY <2>1, <2>2 DEF Exclusive, Frame, Fixed, FramesExclusive, Mapped
<1>2. QED
  BY <1>1, SpaceInvTheorem, PTL

-----------------------------------------------------------------------------
(***************************************************************************)
(* What holds after a torn region too: the kernel's pages stay used, and   *)
(* an entry without a frame is empty.                                      *)
(***************************************************************************)
Sound(m) ==
  /\ m \in Spaces
  /\ Reserved \subseteq m.bitmap
  /\ \A v \in VPage : m.pte[v].frame = NULL => m.pte[v] = Empty

LEMMA SoundTake ==
  ASSUME NEW m, Sound(m), get_free_page(m.bitmap).page # NULL
  PROVE  LET r == get_free_page(m.bitmap)
         IN  Sound([m EXCEPT !.bitmap = r.bitmap]) /\ r.page \in Pages
<1> DEFINE r == get_free_page(m.bitmap)
           n == [m EXCEPT !.bitmap = r.bitmap]
<1>1. m \in Spaces /\ Reserved \subseteq m.bitmap
  BY DEF Sound
<1>2. r.page \in Pages /\ r.bitmap = m.bitmap \cup {r.page}
  BY <1>1, GetFreePageResult
<1> HIDE DEF r
<1>3. n \in Spaces /\ n.bitmap = m.bitmap \cup {r.page} /\ n.pte = m.pte
  BY <1>1, <1>2 DEF Spaces
<1> HIDE DEF n
<1>4. Sound(n)
  BY <1>1, <1>3 DEF Sound
<1>5. QED
  BY <1>2, <1>4 DEF n, r

LEMMA SoundTable ==
  ASSUME NEW m, Sound(m), NEW k
  PROVE  Sound(get_or_create_table(m, k))
<1> DEFINE r == get_free_page(m.bitmap)
           t == [m EXCEPT !.bitmap = r.bitmap, !.tables = @ \cup {r.page}]
<1>1. m \in Spaces /\ Reserved \subseteq m.bitmap
  BY DEF Sound
<1>2. CASE r.page # NULL
  <2>1. r.page \in Pages /\ r.bitmap = m.bitmap \cup {r.page}
    BY <1>1, <1>2, GetFreePageResult
  <2> HIDE DEF r
  <2>2. t \in Spaces /\ t.bitmap = m.bitmap \cup {r.page} /\ t.pte = m.pte
    BY <1>1, <2>1 DEF Spaces
  <2> HIDE DEF t
  <2>3. Sound(t)
    BY <1>1, <2>2 DEF Sound
  <2>4. QED
    BY <2>3 DEF get_or_create_table, t, r
<1>3. CASE r.page = NULL
  BY <1>3 DEF get_or_create_table
<1>4. QED
  BY <1>2, <1>3

LEMMA SoundMap ==
  ASSUME NEW m, Sound(m), NEW a, NEW p \in Pages
  PROVE  Sound(map_page(m, a, p))
<1> DEFINE n == get_or_create_tables(m)
           v == VPageOf(a)
           e == [frame |-> p, high |-> FALSE]
           t == [n EXCEPT !.pte[v] = e]
<1>1. Sound(n)
  BY SoundTable DEF get_or_create_tables
<1> HIDE DEF n, v
<1>2. n \in Spaces /\ n.pte \in [VPage -> Entry]
  BY <1>1 DEF Sound, Spaces
<1>3. e \in Entry /\ (e.frame = NULL => e = Empty)
  BY DEF Entry, Empty
<1> HIDE DEF e
<1>4. [n.pte EXCEPT ![v] = e] \in [VPage -> Entry]
  BY <1>2, <1>3
<1>5. t \in Spaces /\ t.bitmap = n.bitmap /\ t.pte = [n.pte EXCEPT ![v] = e]
  BY <1>2, <1>4 DEF Spaces
<1> HIDE DEF t
<1>6. \A u \in VPage : t.pte[u] = IF u = v THEN e ELSE n.pte[u]
  BY <1>2, <1>5
<1>7. Sound(t)
  BY <1>1, <1>3, <1>5, <1>6 DEF Sound
<1>8. QED
  BY <1>1, <1>7 DEF map_page, n, t, v, e

LEMMA SoundFree ==
  ASSUME NEW m, Sound(m), NEW vs, vs \subseteq VPage, NEW o \in 0 .. PageBytes - 1
  PROVE  Sound(free_mapped(m, vs, o))
<1> DEFINE n == free_mapped(m, vs, o)
<1>1. m \in Spaces
  BY DEF Sound
<1>2. Freed(m, n, vs)
  BY <1>1, FreeMapped
<1>3. n = [m EXCEPT !.bitmap = n.bitmap]
  BY <1>1 DEF free_mapped, Spaces
<1> HIDE DEF n
<1>4. n \in Spaces
  BY <1>1, <1>2, <1>3 DEF Spaces, Freed
<1>5. Reserved \subseteq n.bitmap
  BY <1>2 DEF Freed, Sound
<1>6. n.pte = m.pte
  BY <1>2 DEF Freed
<1>7. QED
  BY <1>4, <1>5, <1>6 DEF Sound, n

LEMMA SoundUnmap ==
  ASSUME NEW m, Sound(m), NEW vs
  PROVE  Sound(unmap_pages(m, vs))
<1> DEFINE new == [v \in VPage |-> IF v \in vs THEN Empty ELSE m.pte[v]]
           t == unmap_pages(m, vs)
<1>1. m \in Spaces
  BY DEF Sound
<1>2. Empty \in Entry
  BY MmAssumption DEF Empty, Entry, NULL, Pages
<1>3. new \in [VPage -> Entry]
  BY <1>1, <1>2 DEF Spaces
<1>4. t = [m EXCEPT !.pte = new]
  BY DEF unmap_pages
<1>5. \A v \in VPage : new[v].frame = NULL => new[v] = Empty
  BY DEF Sound
<1> HIDE DEF new
<1>6. t \in Spaces /\ t.bitmap = m.bitmap /\ t.pte = new
  BY <1>1, <1>3, <1>4 DEF Spaces
<1> HIDE DEF t
<1>7. Sound(t)
  BY <1>5, <1>6 DEF Sound
<1>8. QED
  BY <1>7 DEF t

LEMMA SoundProtect ==
  ASSUME NEW m, Sound(m), NEW a, NEW len, NEW exec \in BOOLEAN
  PROVE  Sound(Mprotect(m, a, len, exec))
<1> DEFINE new == [v \in VPage |-> IF v \in Touched(a, len) /\ m.pte[v].frame # NULL
                                     THEN [m.pte[v] EXCEPT !.high = ~ exec] ELSE m.pte[v]]
           t == Mprotect(m, a, len, exec)
<1>1. m \in Spaces /\ m.pte \in [VPage -> Entry]
  BY DEF Sound, Spaces
<1>2. \A e \in Entry : [e EXCEPT !.high = ~ exec] \in Entry /\ [e EXCEPT !.high = ~ exec].frame = e.frame
  BY DEF Entry
<1>3. new \in [VPage -> Entry] /\ \A v \in VPage : new[v].frame = m.pte[v].frame
  BY <1>1, <1>2
<1>4. \A v \in VPage : new[v].frame = NULL => new[v] = m.pte[v]
  BY <1>3
<1>5. t = [m EXCEPT !.pte = new]
  BY DEF Mprotect
<1> HIDE DEF new
<1>6. t \in Spaces /\ t.bitmap = m.bitmap /\ t.pte = new
  BY <1>1, <1>3, <1>5 DEF Spaces
<1> HIDE DEF t
<1>7. Sound(t)
  BY <1>3, <1>4, <1>6 DEF Sound
<1>8. QED
  BY <1>7 DEF t

SoundOutcomes == {s \in [m : Spaces, ok : BOOLEAN] : Sound(s.m)}

LEMMA SoundRound ==
  ASSUME NEW a \in Nat, NEW n \in Nat, VPageOf(a) + n <= VPages, NEW call,
         NEW s \in SoundOutcomes, NEW i \in 1 .. n
  PROVE  PopulateOne(s, a, i, call) \in SoundOutcomes
<1> DEFINE r == get_free_page(s.m.bitmap)
           vs == Touched(a, (i - 1) * PageBytes)
           o == a % PageBytes
           u == PopulateOne(s, a, i, call)
           w == free_mapped(s.m, vs, o)
           b == [s.m EXCEPT !.bitmap = r.bitmap]
<1>0. ASSUME NEW x, Sound(x), NEW ok \in BOOLEAN
      PROVE  [m |-> x, ok |-> ok] \in SoundOutcomes
  BY <1>0 DEF SoundOutcomes, Sound
<1>1. Sound(s.m)
  BY DEF SoundOutcomes
<1>2. i - 1 \in Nat /\ i - 1 <= n
  OBVIOUS
<1>3. vs \subseteq VPage
  BY <1>2, TouchedFewer
<1>4. o \in 0 .. PageBytes - 1
  BY Division, SpaceAssumption
<1>5. u \in {s, [m |-> w, ok |-> FALSE], [m |-> unmap_pages(w, vs), ok |-> FALSE]}
      \/ (r.page # NULL /\ u = [m |-> map_page(b, a + (i - 1) * PageBytes, r.page), ok |-> TRUE])
  BY DEF PopulateOne, MmapRollback, BrkRollback
<1> HIDE DEF vs, o, u
<1>6. Sound(w)
  BY <1>1, <1>3, <1>4, SoundFree
<1> HIDE DEF w
<1>7. Sound(unmap_pages(w, vs))
  BY <1>6, SoundUnmap
<1>8. r.page # NULL => Sound(map_page(b, a + (i - 1) * PageBytes, r.page))
  <2>1. r.page # NULL => Sound(b) /\ r.page \in Pages
    BY <1>1, SoundTake
  <2> HIDE DEF b, r
  <2>2. QED
    BY <2>1, SoundMap
<1> HIDE DEF b, r
<1>9. u \in SoundOutcomes
  BY <1>0, <1>5, <1>6, <1>7, <1>8
<1>10. QED
  BY <1>9 DEF u

LEMMA SoundPopulate ==
  ASSUME NEW m, Sound(m), NEW a \in Nat, NEW n \in Nat, VPageOf(a) + n <= VPages, NEW call
  PROVE  \E g : Loop(g, m, a, n, call) /\ g[n] \in SoundOutcomes
<1>1. [m |-> m, ok |-> TRUE] \in SoundOutcomes
  BY DEF SoundOutcomes, Sound
<1>2. \A i \in 1 .. n, s \in SoundOutcomes : PopulateOne(s, a, i, call) \in SoundOutcomes
  BY SoundRound
<1>3. QED
  BY <1>1, <1>2, PopulateLoop

LEMMA SoundBrkMoved ==
  ASSUME NEW m, Sound(m), NEW b \in Nat
  PROVE  Sound([m EXCEPT !.brk = b])
<1> DEFINE y == [m EXCEPT !.brk = b]
<1>1. m \in Spaces
  BY DEF Sound
<1>2. y \in Spaces /\ y.bitmap = m.bitmap /\ y.pte = m.pte
  BY <1>1 DEF Spaces
<1> HIDE DEF y
<1>3. Sound(y)
  BY <1>2 DEF Sound
<1>4. QED
  BY <1>3 DEF y

LEMMA SoundMmap ==
  ASSUME NEW m, Sound(m), NEW addr \in Nat, NEW len \in Nat,
         Fits(IF addr = 0 THEN m.brk ELSE addr, len)
  PROVE  Sound(Mmap(m, addr, len).m)
<1> DEFINE n == PagesIn(len)
           moved == [m EXCEPT !.brk = @ + n * PageBytes]
           a == IF addr = 0 THEN m.brk ELSE addr
           from == IF addr = 0 THEN moved ELSE m
<1>1. m.brk \in Nat
  BY DEF Sound, Spaces
<1>2. n \in Nat /\ n * PageBytes \in Nat
  BY PagesInNat, SpaceAssumption
<1>3. moved = [m EXCEPT !.brk = m.brk + n * PageBytes] /\ m.brk + n * PageBytes \in Nat
  BY <1>1, <1>2
<1>4. Sound(moved)
  BY <1>3, SoundBrkMoved
<1>5. Mmap(m, addr, len) = Populate(from, a, n, "mmap")
  BY DEF Mmap
<1>6. VPageOf(a) + n <= VPages
  BY DEF Fits
<1>7. a \in Nat /\ Sound(from)
  BY <1>1, <1>4
<1> HIDE DEF a, n, from
<1>8. \E g : Loop(g, from, a, n, "mmap") /\ g[n] \in SoundOutcomes
  BY <1>2, <1>6, <1>7, SoundPopulate
<1>9. Populate(from, a, n, "mmap") \in SoundOutcomes
  BY <1>8 DEF Loop
<1>10. QED
  BY <1>5, <1>9 DEF SoundOutcomes

LEMMA SoundMunmap ==
  ASSUME NEW m, Sound(m), NEW a \in Nat, NEW len \in Nat, Fits(a, len)
  PROVE  Sound(Munmap(m, a, len))
<1>1. Touched(a, len) \subseteq VPage
  BY TouchedFits
<1>2. a % PageBytes \in 0 .. PageBytes - 1
  BY Division, SpaceAssumption
<1>3. QED
  BY <1>1, <1>2, SoundFree, SoundUnmap DEF Munmap

LEMMA SoundBrk ==
  ASSUME NEW m, Sound(m), NEW new \in Nat
  PROVE  Sound(Brk(m, new).m)
<1> DEFINE n == PagesIn(new - m.brk)
           grown == Populate(m, m.brk, n, "brk")
<1>0. m.brk \in Nat
  BY DEF Sound, Spaces
<1>2. CASE new < HeapStart \/ new > HeapLimit
  BY <1>2 DEF Brk
<1>3. CASE ~ (new < HeapStart \/ new > HeapLimit) /\ new <= m.brk
  BY <1>3, SoundBrkMoved DEF Brk
<1>4. CASE ~ (new < HeapStart \/ new > HeapLimit) /\ ~ (new <= m.brk)
  <2>1. n \in Nat /\ VPageOf(m.brk) + n <= VPages
    BY <1>0, <1>4, HeapFits, SpaceAssumption
  <2>2. grown \in SoundOutcomes
    <3> HIDE DEF n
    <3>1. \E g : Loop(g, m, m.brk, n, "brk") /\ g[n] \in SoundOutcomes
      BY <1>0, <2>1, SoundPopulate
    <3>2. QED
      BY <3>1 DEF Loop
  <2> HIDE DEF grown
  <2>3. Sound(grown.m)
    BY <2>2 DEF SoundOutcomes
  <2>4. Sound([grown.m EXCEPT !.brk = new])
    BY <2>3, SoundBrkMoved
  <2>5. Brk(m, new) = IF grown.ok THEN [m |-> [grown.m EXCEPT !.brk = new], ok |-> TRUE] ELSE grown
    BY <1>4 DEF Brk, grown
  <2>6. QED
    BY <2>3, <2>4, <2>5
<1>5. QED
  BY <1>2, <1>3, <1>4

LEMMA SoundMremap ==
  ASSUME NEW m, Sound(m), NEW old \in Nat, NEW oldlen \in Nat, NEW newlen \in Nat,
         NEW fixed \in BOOLEAN, NEW new \in Nat \ {0}, Fits(old, oldlen), Fits(new, newlen),
         ~ fixed => IF newlen > oldlen THEN Fits(m.brk, newlen)
                                      ELSE Fits(old + newlen, oldlen - newlen)
  PROVE  Sound(Mremap(m, old, oldlen, newlen, fixed, new).m)
<1> DEFINE moved == Mmap(m, 0, newlen)
           gone == Munmap(m, old, oldlen)
<1>1. CASE fixed
  <2>1. Sound(gone)
    BY SoundMunmap
  <2> HIDE DEF gone
  <2>2. Sound(Mmap(gone, new, newlen).m)
    BY <2>1, SoundMmap
  <2>3. QED
    BY <1>1, <2>2 DEF Mremap, gone
<1>2. CASE ~ fixed /\ newlen <= oldlen
  <2>1. /\ old + newlen \in Nat /\ oldlen - newlen \in Nat
        /\ Fits(old + newlen, oldlen - newlen)
    BY <1>2
  <2>2. Sound(Munmap(m, old + newlen, oldlen - newlen))
    BY <2>1, SoundMunmap
  <2>3. QED
    BY <1>2, <2>2 DEF Mremap
<1>3. CASE ~ fixed /\ ~ (newlen <= oldlen)
  <2>1. Fits(m.brk, newlen)
    BY <1>3
  <2>2. Sound(moved.m)
    BY <2>1, SoundMmap
  <2> HIDE DEF moved
  <2>3. Sound(Munmap(moved.m, old, oldlen))
    BY <2>2, SoundMunmap
  <2>4. QED
    BY <1>3, <2>2, <2>3 DEF Mremap, moved
<1>4. QED
  BY <1>1, <1>2, <1>3

LEMMA SoundReturned ==
  ASSUME NEW m, Sound(m), Return(m)
  PROVE  Sound(Space)'
<1>1. m \in Spaces
  BY DEF Sound
<1>2. page_bitmap' = m.bitmap /\ tables' = m.tables /\ pte' = m.pte /\ heap_brk' = m.brk
  BY DEF Return
<1>3. Space' = m
  BY <1>1, <1>2 DEF Space, Spaces
<1>4. QED
  BY <1>3 DEF Sound

LEMMA SoundInit == Init => Sound(Space)
<1> SUFFICES ASSUME Init PROVE Sound(Space)
  OBVIOUS
<1>1. Exclusive(Space)
  BY SpaceInvInit DEF SpaceInv, Init
<1>2. Space.pte = [v \in VPage |-> Empty]
  BY DEF Init, Space
<1>3. QED
  BY <1>1, <1>2 DEF Exclusive, Sound

LEMMA SoundStep == Sound(Space) /\ [Next]_vars => Sound(Space)'
<1> SUFFICES ASSUME Sound(Space), [Next]_vars
             PROVE  Sound(Space)'
  OBVIOUS
<1>0. CASE UNCHANGED vars
  BY <1>0 DEF vars, Sound, Space
<1>a. Space.brk = heap_brk /\ Space.bitmap = page_bitmap
  BY DEF Space
<1>b. /\ Addresses \subseteq Nat \ {0} /\ MmapLengths \subseteq Nat /\ Lengths \subseteq Nat
      /\ PageBytes \in Nat /\ 0 \in Nat
  BY SpaceAssumption
<1>1. ASSUME NEW addr \in Nat, NEW len \in Nat, Fits(IF addr = 0 THEN heap_brk ELSE addr, len),
             ReturnMapped(Mmap(Space, addr, len), len)
      PROVE  Sound(Space)'
  <2>1. Sound(Mmap(Space, addr, len).m)
    BY <1>1, <1>a, SoundMmap
  <2>2. Return(Mmap(Space, addr, len).m)
    BY <1>1 DEF ReturnMapped
  <2>3. QED
    BY <2>1, <2>2, SoundReturned
<1>2. ASSUME NEW a \in Addresses \cup {0}, NEW len \in MmapLengths, sys_mmap(a, len)
      PROVE  Sound(Space)'
  BY <1>b, <1>1, <1>2 DEF sys_mmap
<1>3. ASSUME NEW a \in Addresses \cup {0}, sys_shmat(a)
      PROVE  Sound(Space)'
  BY <1>b, <1>1, <1>3 DEF sys_shmat
<1>4. ASSUME NEW a \in Addresses, NEW len \in Lengths, sys_munmap(a, len)
      PROVE  Sound(Space)'
  <2>1. Fits(a, len) /\ Return(Munmap(Space, a, len)) /\ a \in Nat /\ len \in Nat
    BY <1>b, <1>4 DEF sys_munmap
  <2>2. Sound(Munmap(Space, a, len))
    BY <2>1, SoundMunmap
  <2>3. QED
    BY <2>1, <2>2, SoundReturned
<1>5. ASSUME NEW a \in Addresses, NEW len \in Lengths, NEW exec \in BOOLEAN,
             sys_mprotect(a, len, exec)
      PROVE  Sound(Space)'
  <2>1. Return(Mprotect(Space, a, len, exec))
    BY <1>5 DEF sys_mprotect
  <2>2. Sound(Mprotect(Space, a, len, exec))
    BY SoundProtect
  <2>3. QED
    BY <2>1, <2>2, SoundReturned
<1>6. ASSUME NEW new \in 1 .. HeapLimit + 1, sys_brk(new)
      PROVE  Sound(Space)'
  <2>1. Return(Brk(Space, new).m) /\ new \in Nat
    BY <1>6, SpaceAssumption DEF sys_brk
  <2>2. Sound(Brk(Space, new).m)
    BY <2>1, SoundBrk
  <2>3. QED
    BY <2>1, <2>2, SoundReturned
<1>7. ASSUME NEW old \in Addresses, NEW new \in Addresses, NEW oldlen \in MmapLengths,
             NEW newlen \in MmapLengths, NEW fixed \in BOOLEAN,
             sys_mremap(old, oldlen, newlen, fixed, new)
      PROVE  Sound(Space)'
  <2> DEFINE r == Mremap(Space, old, oldlen, newlen, fixed, new)
  <2>1. /\ old \in Nat /\ new \in Nat \ {0} /\ oldlen \in Nat /\ newlen \in Nat
        /\ Fits(old, oldlen) /\ Fits(new, newlen) /\ Return(r.m)
        /\ ~ fixed => IF newlen > oldlen THEN Fits(heap_brk, newlen)
                                         ELSE Fits(old + newlen, oldlen - newlen)
    BY <1>b, <1>7 DEF sys_mremap, ReturnMapped
  <2>2. Sound(r.m)
    BY <1>a, <2>1, SoundMremap
  <2> HIDE DEF r
  <2>3. QED
    BY <2>1, <2>2, SoundReturned
<1>8. ASSUME NEW a \in Addresses, NEW present \in BOOLEAN, NEW write \in BOOLEAN,
             page_fault_handler(a, present, write)
      PROVE  Sound(Space)'
  <2> DEFINE r == get_free_page(page_bitmap)
             b == [Space EXCEPT !.bitmap = r.bitmap]
  <2>1. \/ r.page # NULL /\ Return(map_page(b, a, r.page))
        \/ UNCHANGED <<page_bitmap, tables, pte, heap_brk>>
    BY <1>8 DEF page_fault_handler
  <2>2. CASE UNCHANGED <<page_bitmap, tables, pte, heap_brk>>
    BY <2>2 DEF Sound, Space
  <2>3. CASE r.page # NULL /\ Return(map_page(b, a, r.page))
    <3>1. Sound(b) /\ r.page \in Pages
      BY <1>a, <2>3, SoundTake
    <3> HIDE DEF b, r
    <3>2. Sound(map_page(b, a, r.page))
      BY <3>1, SoundMap
    <3>3. QED
      BY <2>3, <3>2, SoundReturned
  <2>4. QED
    BY <2>1, <2>2, <2>3
<1>9. QED
  BY <1>0, <1>2, <1>3, <1>4, <1>5, <1>6, <1>7, <1>8 DEF Next

-----------------------------------------------------------------------------
(***************************************************************************)
(* munmap undoes mmap                                                      *)
(***************************************************************************)

\* w is m with i pages from v on mapped to frames that were free.
Laid(m, w, v, i) ==
  /\ w \in Spaces /\ w.tables = m.tables /\ m.bitmap \subseteq w.bitmap
  /\ \A u \in VPage : u \in v .. v + i - 1 => ~ w.pte[u].high /\ w.pte[u].frame \notin m.bitmap
  /\ \A u \in VPage : u \notin v .. v + i - 1 => w.pte[u] = m.pte[u]
  /\ \A p \in w.bitmap \ m.bitmap : \E u \in v .. v + i - 1 : w.pte[u].frame = p

\* map_page writes the entry and does nothing else.
WritesEntry(m, a, p) ==
  map_page(m, a, p) = [m EXCEPT !.pte[VPageOf(a)] = [frame |-> p, high |-> FALSE]]

\* So it is once the three tables are there.
LEMMA MapWithTables ==
  ASSUME NEW m, Cardinality(m.tables) = 3
  PROVE  \A a, p : WritesEntry(m, a, p)
<1>0. SUFFICES ASSUME NEW a, NEW p
               PROVE  map_page(m, a, p) = [m EXCEPT !.pte[VPageOf(a)] = [frame |-> p, high |-> FALSE]]
  BY DEF WritesEntry
<1>1. \A k \in 1 .. 3 : get_or_create_table(m, k) = m
  <2>1. SUFFICES ASSUME NEW k \in 1 .. 3 PROVE get_or_create_table(m, k) = m
    OBVIOUS
  <2>2. Cardinality(m.tables) >= k
    OBVIOUS
  <2>3. QED
    BY <2>2, Zenon DEF get_or_create_table
<1>2. /\ get_or_create_table(m, 1) = m /\ get_or_create_table(m, 2) = m
      /\ get_or_create_table(m, 3) = m
  BY <1>1
<1>3. get_or_create_tables(m) = m
  BY <1>2, Zenon DEF get_or_create_tables
<1>4. ~ Cardinality(m.tables) < 3
  OBVIOUS
<1>5. QED
  BY <1>3, <1>4, Zenon DEF map_page

LEMMA LaidNext ==
  ASSUME NEW m, Sound(m), Cardinality(m.tables) = 3, NEW v \in Nat, NEW i \in Nat \ {0},
         v + i <= VPages, NEW w, Laid(m, w, v, i - 1), get_free_page(w.bitmap).page # NULL
  PROVE  LET r == get_free_page(w.bitmap)
         IN  Laid(m, map_page([w EXCEPT !.bitmap = r.bitmap],
                              v * PageBytes + (i - 1) * PageBytes, r.page), v, i)
<1> DEFINE r == get_free_page(w.bitmap)
           b == [w EXCEPT !.bitmap = r.bitmap]
           x == v + (i - 1)
           e == [frame |-> r.page, high |-> FALSE]
           a == v * PageBytes + (i - 1) * PageBytes
           t == [b EXCEPT !.pte[x] = e]
<1>0. /\ w \in Spaces /\ w.tables = m.tables /\ m.bitmap \subseteq w.bitmap
      /\ \A u \in VPage : u \in v .. v + (i - 1) - 1 => ~ w.pte[u].high /\ w.pte[u].frame \notin m.bitmap
      /\ \A u \in VPage : u \notin v .. v + (i - 1) - 1 => w.pte[u] = m.pte[u]
      /\ \A p \in w.bitmap \ m.bitmap : \E u \in v .. v + (i - 1) - 1 : w.pte[u].frame = p
  BY DEF Laid
<1>1. Reserved \subseteq w.bitmap
  BY <1>0 DEF Sound
<1>2. r.page \in Pages \ w.bitmap /\ r.bitmap = w.bitmap \cup {r.page}
  BY <1>1, GetFreePageResult
<1> HIDE DEF r
<1>3. /\ b \in Spaces /\ b.tables = m.tables /\ b.bitmap = w.bitmap \cup {r.page}
      /\ b.pte = w.pte
  BY <1>0, <1>2 DEF Spaces
<1> HIDE DEF b
<1>4. VPageOf(a) = x /\ x \in VPage
  <2>1. v * PageBytes \in Nat /\ i - 1 \in Nat /\ PageBytes \in Nat \ {0} /\ 0 \in 0 .. PageBytes - 1
    BY SpaceAssumption
  <2>2. VPageOf(v * PageBytes) = v
    <3>1. (v * PageBytes + 0) \div PageBytes = v
      BY <2>1, Quotient
    <3>2. v * PageBytes + 0 = v * PageBytes
      BY <2>1
    <3>3. QED
      BY <3>1, <3>2 DEF VPageOf
  <2>3. VPageOf(a) = VPageOf(v * PageBytes) + (i - 1)
    BY <2>1, PageOfByte
  <2>4. QED
    BY <2>1, <2>2, <2>3, SpaceAssumption DEF VPage
<1>5. map_page(b, a, r.page) = t
  <2>1. Cardinality(b.tables) = 3
    BY <1>3
  <2> HIDE DEF a
  <2>2. WritesEntry(b, a, r.page)
    BY <2>1, MapWithTables
  <2>3. QED
    BY <1>4, <2>2, Zenon DEF WritesEntry
<1> HIDE DEF a
<1>6. e \in Entry /\ e.frame = r.page /\ ~ e.high
  BY <1>2 DEF Entry
<1> HIDE DEF e, x
<1>7. b.pte \in [VPage -> Entry] /\ [b.pte EXCEPT ![x] = e] \in [VPage -> Entry]
  BY <1>3, <1>6 DEF Spaces
<1>8. /\ t \in Spaces /\ t.bitmap = w.bitmap \cup {r.page} /\ t.tables = m.tables
      /\ t.pte = [b.pte EXCEPT ![x] = e]
  BY <1>3, <1>7 DEF Spaces
<1> HIDE DEF t
<1>9. t.pte[x] = e /\ \A u \in VPage : u # x => t.pte[u] = w.pte[u]
  BY <1>3, <1>4, <1>7, <1>8
<1>10. \A u \in VPage : u \in v .. v + i - 1 <=> u = x \/ u \in v .. v + (i - 1) - 1
  BY SpaceAssumption DEF VPage, x
<1>11. x \notin v .. v + (i - 1) - 1 /\ x \in v .. v + i - 1
       /\ v .. v + (i - 1) - 1 \subseteq v .. v + i - 1
       /\ v .. v + (i - 1) - 1 \subseteq VPage
  BY SpaceAssumption DEF x, VPage
<1>12. \A u \in VPage : u \in v .. v + i - 1 => ~ t.pte[u].high /\ t.pte[u].frame \notin m.bitmap
  BY <1>0, <1>2, <1>6, <1>9, <1>10
<1>13. \A u \in VPage : u \notin v .. v + i - 1 => t.pte[u] = m.pte[u]
  BY <1>0, <1>9, <1>10
<1>14. \A p \in t.bitmap \ m.bitmap : \E u \in v .. v + i - 1 : t.pte[u].frame = p
  <2>1. TAKE p \in t.bitmap \ m.bitmap
  <2>2. CASE p = r.page
    BY <1>6, <1>9, <1>11, <2>2
  <2>3. CASE p # r.page
    <3>1. PICK u \in v .. v + (i - 1) - 1 : w.pte[u].frame = p
      BY <1>0, <1>8, <2>3
    <3>2. u \in VPage /\ u # x /\ u \in v .. v + i - 1
      BY <1>11
    <3>3. QED
      BY <1>9, <3>1, <3>2
  <2>4. QED
    BY <2>2, <2>3
<1>15. Laid(m, t, v, i)
  BY <1>0, <1>8, <1>12, <1>13, <1>14 DEF Laid
<1>16. QED
  BY <1>5, <1>15 DEF b, r, a

\* The pages from address v * PageBytes on are v, v + 1, ...
LEMMA TouchedFrom ==
  ASSUME NEW v \in Nat, NEW n \in Nat
  PROVE  /\ Touched(v * PageBytes, n * PageBytes) = v .. v + n - 1
         /\ VPageOf(v * PageBytes) = v /\ (v * PageBytes) % PageBytes = 0
<1>1. PageBytes \in Nat \ {0} /\ v * PageBytes \in Nat /\ n * PageBytes \in Nat
      /\ 0 \in 0 .. PageBytes - 1
  BY SpaceAssumption
<1>2. v * PageBytes + 0 = v * PageBytes
  BY <1>1
<1>3. (v * PageBytes + 0) \div PageBytes = v
  BY <1>1, Quotient
<1>4. VPageOf(v * PageBytes) = v
  BY <1>2, <1>3 DEF VPageOf
<1>5. PagesIn(n * PageBytes) = n
  BY PagesInWhole
<1>6. Touched(v * PageBytes, n * PageBytes) = {v + i : i \in 0 .. n - 1}
  <2> DEFINE a == v * PageBytes
             len == n * PageBytes
  <2>1. a \in Nat /\ len \in Nat /\ VPageOf(a) = v /\ PagesIn(len) = n
    BY <1>1, <1>4, <1>5
  <2> HIDE DEF a, len
  <2>a. Touched(a, len) = {VPageOf(a) + i : i \in 0 .. PagesIn(len) - 1}
    BY <2>1, TouchedPages
  <2>2. Touched(a, len) = {v + i : i \in 0 .. n - 1}
    BY <2>1, <2>a, Zenon
  <2>3. QED
    BY <2>2 DEF a, len
<1>7. {v + i : i \in 0 .. n - 1} = v .. v + n - 1
  <2>1. \A u \in v .. v + n - 1 : u - v \in 0 .. n - 1 /\ u = v + (u - v)
    OBVIOUS
  <2>2. v .. v + n - 1 \subseteq {v + i : i \in 0 .. n - 1}
    BY <2>1
  <2>3. {v + i : i \in 0 .. n - 1} \subseteq v .. v + n - 1
    OBVIOUS
  <2>4. QED
    BY <2>2, <2>3
<1>8. (v * PageBytes) % PageBytes = 0
  <2> DEFINE x == v * PageBytes
  <2>1. x \in Nat /\ x \div PageBytes = v
    BY <1>1, <1>4 DEF VPageOf
  <2>2. x = PageBytes * (x \div PageBytes) + (x % PageBytes) /\ x % PageBytes \in 0 .. PageBytes - 1
    <3> HIDE DEF x
    <3>1. QED
      BY <1>1, <2>1, Division
  <2>3. x = PageBytes * v + (x % PageBytes)
    <3> HIDE DEF x
    <3>1. QED
      BY <2>1, <2>2
  <2>4. PageBytes * v = x
    BY <1>1
  <2> HIDE DEF x
  <2>5. x % PageBytes = 0
    BY <2>1, <2>2, <2>3, <2>4
  <2>6. QED
    BY <2>5 DEF x
<1>9. QED
  BY <1>4, <1>6, <1>7, <1>8

\* A region mapped as a whole is laid.
LEMMA MmapLays ==
  ASSUME NEW m, Sound(m), Cardinality(m.tables) = 3, NEW v \in Nat \ {0}, NEW n \in Nat,
         v + n <= VPages, Mmap(m, v * PageBytes, n * PageBytes).ok
  PROVE  Laid(m, Mmap(m, v * PageBytes, n * PageBytes).m, v, n)
<1> DEFINE a == v * PageBytes
<1>1. a \in Nat \ {0} /\ VPageOf(a) = v
  BY TouchedFrom, SpaceAssumption
<1>2. Mmap(m, a, n * PageBytes) = Populate(m, a, n, "mmap")
  <2>1. PagesIn(n * PageBytes) = n
    BY PagesInWhole
  <2>2. QED
    BY <1>1, <2>1 DEF Mmap
<1>3. PICK g : Loop(g, m, a, n, "mmap")
  <2>1. VPageOf(a) + n <= VPages /\ a \in Nat
    BY <1>1
  <2> HIDE DEF a
  <2>2. QED
    BY <2>1, SoundPopulate
<1> DEFINE Q == {i \in 0 .. n : g[i].ok => Laid(m, g[i].m, v, i)}
<1>4. 0 \in Q
  <2>1. g[0].m = m
    BY <1>3 DEF Loop
  <2>2. m \in Spaces /\ v .. v + 0 - 1 = {}
    BY DEF Sound
  <2>3. Laid(m, m, v, 0)
    BY <2>2 DEF Laid
  <2>4. QED
    BY <2>1, <2>3
<1>5. ASSUME NEW i \in 1 .. n, i - 1 \in Q
      PROVE  i \in Q
  <2>1. SUFFICES ASSUME g[i].ok PROVE Laid(m, g[i].m, v, i)
    OBVIOUS
  <2> DEFINE s == g[i - 1]
             r == get_free_page(s.m.bitmap)
             t == map_page([s.m EXCEPT !.bitmap = r.bitmap], a + (i - 1) * PageBytes, r.page)
  <2>2. g[i] = PopulateOne(s, a, i, "mmap")
    BY <1>3 DEF Loop
  <2>3. s.ok /\ r.page # NULL /\ g[i].m = t
    BY <2>1, <2>2 DEF PopulateOne
  <2>4. Laid(m, s.m, v, i - 1)
    BY <1>5, <2>3
  <2>5. i \in Nat \ {0} /\ v + i <= VPages
    BY SpaceAssumption
  <2> HIDE DEF s
  <2>6. Laid(m, t, v, i)
    BY <2>3, <2>4, <2>5, LaidNext
  <2>7. QED
    BY <2>3, <2>6
<1>6. n \in Q
  <2> HIDE DEF Q
  <2>1. QED
    BY <1>4, <1>5, RoundInduction
<1>7. g[n].ok => Laid(m, g[n].m, v, n)
  BY <1>6
<1>8. Mmap(m, a, n * PageBytes) = g[n]
  BY <1>2, <1>3 DEF Loop
<1>9. QED
  BY <1>7, <1>8

\* Unmapping a laid region whose pages were not mapped before gives back the
\* bitmap and the entries.
LEMMA MunmapLaid ==
  ASSUME NEW m, Sound(m), NEW v \in Nat, NEW n \in Nat, v + n <= VPages,
         \A u \in v .. v + n - 1 : m.pte[u].frame = NULL, NEW w, Laid(m, w, v, n)
  PROVE  LET u == Munmap(w, v * PageBytes, n * PageBytes)
         IN  u.bitmap = m.bitmap /\ u.pte = m.pte
<1> DEFINE vs == v .. v + n - 1
           kept == {p \in w.bitmap : \A u \in vs :
                      LET pa == get_physical_address(w, u * PageBytes + 0)
                      IN  pa.page = NULL \/ p \in free_page({p}, pa.page, pa.offset)}
           f == free_mapped(w, vs, 0)
           entries == [u \in VPage |-> IF u \in vs THEN Empty ELSE w.pte[u]]
<1>1. Munmap(w, v * PageBytes, n * PageBytes) = unmap_pages(f, vs)
  BY TouchedFrom DEF Munmap
<1>2. w \in Spaces /\ f = [w EXCEPT !.bitmap = kept]
  BY DEF free_mapped, Laid
<1> HIDE DEF kept
<1>3. f.bitmap = kept /\ f.pte = w.pte
  BY <1>2 DEF Spaces
<1>4. unmap_pages(f, vs) = [f EXCEPT !.pte = entries]
  BY <1>3 DEF unmap_pages
<1> HIDE DEF entries
<1>5. unmap_pages(f, vs).bitmap = kept /\ unmap_pages(f, vs).pte = entries
  BY <1>2, <1>3, <1>4 DEF Spaces
<1>6. m \in Spaces /\ Reserved \subseteq m.bitmap /\ m.bitmap \subseteq w.bitmap
      /\ vs \subseteq VPage
  BY SpaceAssumption DEF Sound, Laid, VPage
<1>7. ASSUME NEW u \in vs, NEW p \in w.bitmap
      PROVE  LET pa == get_physical_address(w, u * PageBytes + 0)
             IN  pa.page = NULL \/ p \in free_page({p}, pa.page, pa.offset)
                 <=> p # w.pte[u].frame
  <2> DEFINE pa == get_physical_address(w, u * PageBytes + 0)
  <2>1. ~ w.pte[u].high /\ w.pte[u].frame \notin m.bitmap /\ w.pte[u].frame \in Pages
    BY <1>2, <1>6 DEF Laid, Spaces, Entry
  <2>2. u \in Nat /\ PageBytes \in Nat \ {0} /\ 0 \in 0 .. PageBytes - 1
        /\ u * PageBytes \in Nat /\ u * PageBytes + 0 = u * PageBytes
    BY SpaceAssumption
  <2>3. VPageOf(u * PageBytes + 0) = u
    BY <2>2, Quotient DEF VPageOf
  <2>4. pa.page = w.pte[u].frame /\ pa.offset = (u * PageBytes) % PageBytes
    BY <2>1, <2>2, <2>3 DEF get_physical_address
  <2>5. pa.offset = 0
    BY <2>2, <2>4, TouchedFrom
  <2>6. pa.page # NULL /\ pa.page \in Pages \ Reserved
    BY <1>6, <2>1, <2>4, MmAssumption DEF Reserved, NULL
  <2> HIDE DEF pa
  <2>7. p \in free_page({p}, pa.page, pa.offset) <=> p # pa.page
    BY <2>5, <2>6, MmAssumption DEF free_page, Reserved, Pages
  <2>8. QED
    BY <2>4, <2>6, <2>7 DEF pa
<1>8. kept = m.bitmap
  <2>1. ASSUME NEW p \in m.bitmap PROVE p \in kept
    <3>1. \A u \in vs : p # w.pte[u].frame
      BY <1>6 DEF Laid
    <3>2. QED
      BY <1>6, <1>7, <3>1 DEF kept
  <2>2. ASSUME NEW p \in kept, p \notin m.bitmap PROVE FALSE
    <3>1. p \in w.bitmap
      BY DEF kept
    <3>2. PICK u \in vs : w.pte[u].frame = p
      BY <2>2, <3>1 DEF Laid
    <3>3. QED
      BY <1>7, <3>1, <3>2 DEF kept
  <2>3. QED
    BY <2>1, <2>2
<1>9. entries = m.pte
  <2>1. \A u \in VPage : entries[u] = m.pte[u]
    <3>1. TAKE u \in VPage
    <3>2. CASE u \in vs
      BY <3>2 DEF entries, Sound
    <3>3. CASE u \notin vs
      BY <3>3 DEF entries, Laid
    <3>4. QED
      BY <3>2, <3>3
  <2>2. DOMAIN entries = VPage /\ DOMAIN m.pte = VPage
    BY <1>6 DEF entries, Spaces
  <2>3. entries = [u \in VPage |-> entries[u]] /\ m.pte = [u \in VPage |-> m.pte[u]]
    BY <1>6 DEF entries, Spaces
  <2>4. QED
    BY <2>1, <2>3
<1>10. QED
  BY <1>1, <1>5, <1>8, <1>9

\* MunmapUndoesMmap, in every reachable state: also after a region was left
\* half mapped, with frames that are free or mapped twice.
THEOREM MunmapUndoesMmapTheorem == Spec => []MunmapUndoesMmap
<1>1. Sound(Space) => MunmapUndoesMmap
  <2>1. SUFFICES ASSUME Sound(Space), NEW v \in VPage \ {0}, NEW n \in 1 .. VPages,
                        v + n <= VPages,
                        Touched(v * PageBytes, n * PageBytes) \cap Mapped = {},
                        Mmap(Space, v * PageBytes, n * PageBytes).ok, Cardinality(tables) = 3
                 PROVE  LET r == Mmap(Space, v * PageBytes, n * PageBytes)
                            u == Munmap(r.m, v * PageBytes, n * PageBytes)
                        IN  u.bitmap = page_bitmap /\ u.pte = pte
    BY DEF MunmapUndoesMmap
  <2>2. v \in Nat \ {0} /\ n \in Nat
    BY SpaceAssumption DEF VPage
  <2>3. Space.bitmap = page_bitmap /\ Space.tables = tables /\ Space.pte = pte
    BY DEF Space
  <2>4. Cardinality(Space.tables) = 3
    BY <2>1, <2>3
  <2>5. \A u \in v .. v + n - 1 : u \in VPage /\ Space.pte[u].frame = NULL
    <3>1. v .. v + n - 1 \subseteq VPage
      BY <2>1, <2>2, SpaceAssumption DEF VPage
    <3>2. Touched(v * PageBytes, n * PageBytes) = v .. v + n - 1
      BY <2>2, TouchedFrom
    <3>3. QED
      BY <2>1, <2>3, <3>1, <3>2 DEF Mapped
  <2> DEFINE w == Mmap(Space, v * PageBytes, n * PageBytes).m
  <2>6. Laid(Space, w, v, n)
    BY <2>1, <2>2, <2>4, MmapLays
  <2> HIDE DEF w
  <2>7. /\ Munmap(w, v * PageBytes, n * PageBytes).bitmap = Space.bitmap
        /\ Munmap(w, v * PageBytes, n * PageBytes).pte = Space.pte
    BY <2>1, <2>2, <2>5, <2>6, MunmapLaid
  <2>8. QED
    BY <2>3, <2>7 DEF w
<1>2. QED
  BY <1>1, SoundInit, SoundStep, PTL DEF Spec

=============================================================================
