------------------------------ MODULE MmLemmas ------------------------------
(***************************************************************************)
(* What the operations of mm.c return and do to the bitmap, for every      *)
(* number of pages and every reserved area, and what the proofs that rest  *)
(* on these facts have in common: division, loops over a range, and lists. *)
(***************************************************************************)
EXTENDS Mm, Sequences, SequencesExt, FiniteSetTheorems, SequenceTheorems,
        WellFoundedInduction, TLAPS

(***************************************************************************)
(* A non-empty set of natural numbers has a least element, and Min is it.  *)
(***************************************************************************)
LEMMA MinOfNats ==
  ASSUME NEW S, S \subseteq Nat, S # {}
  PROVE  Min(S) \in S /\ \A y \in S : Min(S) <= y
<1>2. \E x \in S : \A y \in S : ~ (<<y, x>> \in OpToRel(<, Nat))
  BY NatLessThanWellFounded, WFMin, Zenon
<1>3. PICK x \in S : \A y \in S : ~ (<<y, x>> \in OpToRel(<, Nat))
  BY <1>2
<1>4. \A y \in S : y < x => <<y, x>> \in OpToRel(<, Nat)
  BY Zenon DEF OpToRel
<1>5. \A y \in S : ~ (y < x)
  BY <1>3, <1>4, Zenon
<1>6. \A y \in S : x <= y
  BY <1>5
<1>7. QED
  BY <1>6 DEF Min

(***************************************************************************)
(* The scan of find_first_free_page_index finds the least page of a set.   *)
(***************************************************************************)
LEMMA MinOfPages ==
  ASSUME NEW S, S \subseteq Pages, S # {}
  PROVE  Min(S) \in S /\ \A y \in S : Min(S) <= y
<1>1. S \subseteq Nat
  BY MmAssumption DEF Pages
<1>2. QED
  BY <1>1, MinOfNats

(***************************************************************************)
(* get_free_page hands out a page that was free and marks exactly that one *)
(* page, or changes nothing and returns the null pointer.                  *)
(***************************************************************************)
LEMMA GetFreePageResult ==
  ASSUME NEW B, Reserved \subseteq B
  PROVE  LET r == get_free_page(B) IN
         \/ r.page = NULL /\ r.bitmap = B
         \/ /\ r.page \in Pages \ B
            /\ r.page # NULL
            /\ r.page \notin Reserved
            /\ r.bitmap = B \cup {r.page}
<1>1. CASE FreePages(B) = {}
  BY <1>1 DEF get_free_page
<1>2. CASE FreePages(B) # {}
  <2>1. Min(FreePages(B)) \in FreePages(B)
    BY <1>2, MinOfPages DEF FreePages
  <2>2. NULL \in Reserved
    BY MmAssumption DEF NULL, Reserved
  <2>3. QED
    BY <1>2, <2>1, <2>2 DEF get_free_page, FreePages, is_page_used
<1>3. QED
  BY <1>1, <1>2

(***************************************************************************)
(* kmalloc of one page is get_free_page.                                   *)
(***************************************************************************)
LEMMA KmallocOnePage ==
  ASSUME NEW B
  PROVE  kmalloc(B, 1) = get_free_page(B)
<1> DEFINE F == FreePages(B)
<1>1. F \subseteq Pages
  BY DEF FreePages
<1>2. IsFiniteSet(Pages)
  BY FS_Interval, MmAssumption DEF Pages
<1>3. IsFiniteSet(F)
  BY <1>1, <1>2, FS_Subset
<1>4. CASE F = {}
  BY <1>4 DEF kmalloc, get_free_page
<1>5. CASE F # {}
  <2>1. Cardinality(F) \in Nat /\ Cardinality(F) # 0
    BY <1>3, <1>5, FS_CardinalityType, FS_EmptySet
  <2>2. Min(F) \in F /\ \A y \in F : Min(F) <= y
    BY <1>1, <1>5, MinOfPages
  <2>3. \A i \in F : Cardinality({j \in F : j < i}) < 1 <=> i = Min(F)
    <3>1. TAKE i \in F
    <3>2. IsFiniteSet({j \in F : j < i})
      BY <1>3, FS_Subset
    <3>3. Cardinality({j \in F : j < i}) < 1 <=> {j \in F : j < i} = {}
      BY <3>2, FS_CardinalityType, FS_EmptySet
    <3>4. {j \in F : j < i} = {} <=> i = Min(F)
      BY <1>1, <2>2 DEF Pages
    <3>5. QED
      BY <3>3, <3>4
  <2>4. LowestFree(B, 1) = {Min(F)}
    BY <2>2, <2>3 DEF LowestFree
  <2>5. QED
    BY <1>5, <2>1, <2>4 DEF kmalloc, get_free_page
<1>6. QED
  BY <1>4, <1>5

(***************************************************************************)
(* What kmalloc does to the bitmap for a block of any size: it never       *)
(* clears a reserved bit, and a pointer it returns was a free page.        *)
(***************************************************************************)
LEMMA KmallocResult ==
  ASSUME NEW B, B \subseteq Pages, Reserved \subseteq B, NEW n \in Nat
  PROVE  LET r == kmalloc(B, n) IN
         /\ r.bitmap \subseteq Pages
         /\ Reserved \subseteq r.bitmap
         /\ r.page # NULL => r.page \in Pages \ B
<1>1. LowestFree(B, n) \subseteq Pages
  BY DEF LowestFree, FreePages
<1>2. Reserved \subseteq Nat /\ \A p \in Reserved : p < ReservedPages
  BY MmAssumption DEF Reserved
<1>3. FreePages(B) # {} => Min(FreePages(B)) \in FreePages(B)
  BY MinOfPages DEF FreePages
<1>4. FreePages(B) \subseteq Pages \ B
  BY DEF FreePages, is_page_used
<1>5. \A T, f, m : T \subseteq Pages /\ Reserved \subseteq T
        => FreeRun(T, f, m) \subseteq Pages /\ Reserved \subseteq FreeRun(T, f, m)
  BY <1>2 DEF FreeRun
<1>6. QED
  BY <1>1, <1>3, <1>4, <1>5 DEF kmalloc

(***************************************************************************)
(* free_page clears the bit of a page above the reserved area, whether it  *)
(* is set or not, and nothing else for any other address.                  *)
(***************************************************************************)
LEMMA FreePageResult ==
  ASSUME NEW B, B \subseteq Pages, NEW p \in Nat
  PROVE  /\ free_page(B, p, 0) = B \ ({p} \ Reserved)
         /\ free_page(B, p, 0) \subseteq Pages
         /\ Reserved \subseteq B => Reserved \subseteq free_page(B, p, 0)
<1>1. p < ReservedPages <=> p \in Reserved
  BY MmAssumption DEF Reserved
<1>2. p >= PhysPages => p \notin B
  BY MmAssumption DEF Pages
<1>3. QED
  BY <1>1, <1>2 DEF free_page

\* A block of one page is a free page that is marked; a larger one, of which
\* only the first page is known, marks others too; without memory nothing
\* changes.
LEMMA KmallocBlock ==
  ASSUME NEW B, B \subseteq Pages, Reserved \subseteq B, NEW n \in {1, 2}
  PROVE  LET r == kmalloc(B, n) IN
         /\ r.bitmap \subseteq Pages /\ Reserved \subseteq r.bitmap
         /\ r.page = NULL => r.bitmap = B
         /\ r.page # NULL => /\ r.page \in Pages \ B /\ r.page \notin Reserved
                             /\ B \cup {r.page} \subseteq r.bitmap
                             /\ n = 1 => r.bitmap = B \cup {r.page}
<1>1. CASE n = 1
  BY <1>1, KmallocOnePage, GetFreePageResult, KmallocResult
<1>2. CASE n = 2
  <2> DEFINE F == FreePages(B)
             r == kmalloc(B, 2)
  <2>1. F \subseteq Pages \ B
    BY DEF FreePages, is_page_used
  <2>2. IsFiniteSet(Pages)
    BY FS_Interval, MmAssumption DEF Pages
  <2>3. IsFiniteSet(F)
    BY <2>1, <2>2, FS_Subset
  <2>4. r.bitmap \subseteq Pages /\ Reserved \subseteq r.bitmap
    BY KmallocResult
  <2>5. CASE F = {}
    BY <1>2, <2>4, <2>5 DEF kmalloc
  <2>6. CASE F # {}
    <3>1. Cardinality(F) \in Nat /\ Cardinality(F) # 0
      BY <2>3, <2>6, FS_CardinalityType, FS_EmptySet
    <3>2. Min(F) \in F /\ \A y \in F : Min(F) <= y
      BY <2>1, <2>6, MinOfPages
    <3>3. Min(F) \notin Reserved /\ Min(F) # NULL /\ Min(F) \in Nat /\ ~ (Min(F) < ReservedPages)
      BY <2>1, <3>2, MmAssumption DEF NULL, Reserved, Pages
    <3>4. {j \in F : j < Min(F)} = {}
      BY <2>1, <3>2, MmAssumption DEF Pages
    <3>5. Min(F) \in LowestFree(B, 2)
      BY <3>2, <3>4, FS_EmptySet DEF LowestFree
    <3>6. CASE Cardinality(F) >= 2
      <4>1. r.page = Min(F) /\ r.bitmap = B \cup LowestFree(B, 2)
        BY <2>6, <3>6 DEF kmalloc
      <4>2. QED
        BY <1>2, <2>1, <2>4, <3>2, <3>3, <3>5, <4>1
    <3>7. CASE ~ (Cardinality(F) >= 2)
      <4>1. Cardinality(F) = 1
        BY <3>1, <3>7
      <4>2. r.page = NULL /\ r.bitmap = FreeRun(B \cup LowestFree(B, 2), Min(F), 1)
        BY <2>6, <4>1 DEF kmalloc
      <4>3. PICK x : F = {x}
        BY <2>3, <4>1, FS_Singleton
      <4>4. LowestFree(B, 2) = {Min(F)}
        BY <3>2, <3>5, <4>3 DEF LowestFree
      <4>5. Min(F) .. Min(F) + 1 - 1 = {Min(F)}
        BY <3>3
      <4>6. r.bitmap = B
        BY <2>1, <3>2, <3>3, <4>2, <4>4, <4>5 DEF FreeRun
      <4>7. QED
        BY <1>2, <2>4, <4>2, <4>6
    <3>8. QED
      BY <3>6, <3>7
  <2>7. QED
    BY <2>5, <2>6
<1>3. QED
  BY <1>1, <1>2

\* One page, or none and nothing has changed.
LEMMA OnePage ==
  ASSUME NEW B, B \subseteq Pages, Reserved \subseteq B
  PROVE  LET r == kmalloc(B, 1) IN
         \/ r.page = NULL /\ r.bitmap = B
         \/ /\ r.page # NULL /\ r.page \in Pages /\ r.page \notin B /\ r.page \notin Reserved
            /\ r.bitmap = B \cup {r.page}
<1>1. 1 \in {1, 2}
  OBVIOUS
<1>2. QED
  BY <1>1, KmallocBlock

LEMMA KfreeResult ==
  ASSUME NEW B, B \subseteq Pages, NEW p \in Pages
  PROVE  kfree(B, p) = B \ ({p} \ Reserved)
<1>1. p \in Nat /\ NULL \in Reserved
  BY MmAssumption DEF Pages, NULL, Reserved
<1>2. QED
  BY <1>1, FreePageResult DEF kfree, free_page

-----------------------------------------------------------------------------
(***************************************************************************)
(* Division                                                                *)
(***************************************************************************)
LEMMA Division ==
  ASSUME NEW x \in Nat, NEW b \in Nat \ {0}
  PROVE  x \div b \in Nat /\ x % b \in 0 .. b - 1 /\ x = b * (x \div b) + (x % b)
OBVIOUS

LEMMA Quotient ==
  ASSUME NEW b \in Nat \ {0}, NEW q \in Nat, NEW o \in 0 .. b - 1
  PROVE  (q * b + o) \div b = q
OBVIOUS

LEMMA Remainder ==
  ASSUME NEW b \in Nat \ {0}, NEW q \in Nat, NEW x \in Nat
  PROVE  (q * b + x) % b = x % b
<1> DEFINE p == x \div b
           o == x % b
           y == q * b + x
<1>1. p \in Nat /\ o \in 0 .. b - 1 /\ x = b * p + o
  BY Division
<1> HIDE DEF p, o
<1>2. y = (q + p) * b + o /\ y \in Nat
  BY <1>1
<1>3. q + p \in Nat
  BY <1>1
<1>4. y \div b = q + p
  BY <1>1, <1>2, <1>3, Quotient
<1> HIDE DEF y
<1>5. y = b * (y \div b) + (y % b) /\ y % b \in 0 .. b - 1
  BY <1>2, Division
<1>6. y = b * (q + p) + (y % b)
  BY <1>4, <1>5
<1>7. (q + p) * b = b * (q + p) /\ b * (q + p) \in Nat
  BY <1>3
<1>8. y % b = o
  BY <1>1, <1>2, <1>5, <1>6, <1>7
<1>9. QED
  BY <1>8 DEF y, o

\* A sum whose first part was already reduced.
LEMMA RemainderOfSum ==
  ASSUME NEW b \in Nat \ {0}, NEW x \in Nat, NEW y \in Nat
  PROVE  ((x % b) + y) % b = (x + y) % b
<1> DEFINE p == x \div b
           o == x % b
<1>1. p \in Nat /\ o \in 0 .. b - 1 /\ x = b * p + o
  BY Division
<1> HIDE DEF p, o
<1>2. x + y = p * b + (o + y) /\ o + y \in Nat
  BY <1>1
<1>3. (p * b + (o + y)) % b = (o + y) % b
  BY <1>1, <1>2, Remainder
<1>4. (x + y) % b = (o + y) % b
  BY <1>2, <1>3
<1>5. QED
  BY <1>4 DEF o

-----------------------------------------------------------------------------
(***************************************************************************)
(* Loops. A function defined by recursion on 0 .. n exists if every round  *)
(* leads from S to S, and all its values are then in S. (The library's     *)
(* theorem takes an operator for the rounds; here they are a function.)    *)
(***************************************************************************)
Rounds(g, s0, F, n) ==
  /\ g[0] = s0
  /\ \A i \in 1 .. n : g[i] = F[i][g[i - 1]]

LEMMA LoopExists ==
  ASSUME NEW S, NEW s0 \in S, NEW n \in Nat, NEW F \in [1 .. n -> [S -> S]]
  PROVE  \E g \in [0 .. n -> S] : Rounds(g, s0, F, n)
<1> DEFINE Bad == {k \in 0 .. n : ~ \E g \in [0 .. k -> S] : Rounds(g, s0, F, k)}
<1>1. ASSUME Bad # {} PROVE FALSE
  <2>0. Bad \subseteq Nat
    OBVIOUS
  <2>1. Min(Bad) \in Bad /\ \A y \in Bad : Min(Bad) <= y
    <3> HIDE DEF Bad
    <3>1. QED
      BY <1>1, <2>0, MinOfNats
  <2>2. PICK k \in Bad : \A y \in Bad : k <= y
    BY <2>1
  <2>3. k \in 0 .. n /\ ~ \E g \in [0 .. k -> S] : Rounds(g, s0, F, k)
    OBVIOUS
  <2>4. k # 0
    <3>1. SUFFICES ASSUME k = 0 PROVE FALSE
      OBVIOUS
    <3>2. [i \in 0 .. k |-> s0] \in [0 .. k -> S] /\ Rounds([i \in 0 .. k |-> s0], s0, F, k)
      BY <3>1 DEF Rounds
    <3>3. QED
      BY <2>3, <3>2
  <2>5. k - 1 \in 0 .. n /\ k - 1 \notin Bad /\ k \in 1 .. n
    BY <2>2, <2>3, <2>4
  <2>6. PICK g \in [0 .. k - 1 -> S] : Rounds(g, s0, F, k - 1)
    BY <2>5
  <2> DEFINE h == [i \in 0 .. k |-> IF i = k THEN F[k][g[k - 1]] ELSE g[i]]
  <2>7. F[k][g[k - 1]] \in S
    BY <2>5, <2>6
  <2>8. h \in [0 .. k -> S]
    BY <2>5, <2>6, <2>7
  <2>9. Rounds(h, s0, F, k)
    <3>1. h[0] = g[0] /\ h[k] = F[k][g[k - 1]] /\ h[k - 1] = g[k - 1]
      BY <2>5
    <3>2. \A i \in 1 .. k - 1 : h[i] = g[i] /\ h[i - 1] = g[i - 1] /\ g[i] = F[i][g[i - 1]]
      BY <2>5, <2>6 DEF Rounds
    <3>3. \A i \in 1 .. k : i = k \/ i \in 1 .. k - 1
      BY <2>5
    <3> HIDE DEF h
    <3>4. QED
      BY <2>6, <3>1, <3>2, <3>3 DEF Rounds
  <2>10. QED
    BY <2>3, <2>8, <2>9
<1>2. n \notin Bad
  BY <1>1
<1>3. QED
  BY <1>2

\* Induction along the rounds of a loop, for the set of rounds with a property.
LEMMA RoundInduction ==
  ASSUME NEW n \in Nat, NEW Q, 0 \in Q, \A i \in 1 .. n : i - 1 \in Q => i \in Q
  PROVE  n \in Q
<1> DEFINE Bad == {k \in 0 .. n : k \notin Q}
<1>1. ASSUME Bad # {} PROVE FALSE
  <2>0. Bad \subseteq Nat
    OBVIOUS
  <2>1. Min(Bad) \in Bad /\ \A y \in Bad : Min(Bad) <= y
    <3> HIDE DEF Bad
    <3>1. QED
      BY <1>1, <2>0, MinOfNats
  <2>2. PICK k \in Bad : \A y \in Bad : k <= y
    BY <2>1
  <2>3. k # 0 /\ k \in 0 .. n
    OBVIOUS
  <2>4. k \in 1 .. n /\ k - 1 \in 0 .. n /\ k - 1 \notin Bad
    BY <2>2, <2>3
  <2>5. QED
    BY <2>4
<1>2. QED
  BY <1>1

-----------------------------------------------------------------------------
(***************************************************************************)
(* Lists                                                                   *)
(***************************************************************************)
\* No element of a sequence is at two places.
Distinct(q) == \A i, j \in DOMAIN q : q[i] = q[j] => i = j

\* A sequence with one more element put in front.
LEMMA PutInFront ==
  ASSUME NEW S, NEW q \in Seq(S), NEW p \in S, NEW r, r = <<p>> \o q
  PROVE  /\ r \in Seq(S) /\ DOMAIN r = 1 .. 1 + Len(q) /\ r[1] = p
         /\ \A i \in 1 .. Len(q) : i + 1 \in 1 .. 1 + Len(q) /\ r[i + 1] = q[i]
         /\ \A i \in 1 .. 1 + Len(q) : i = 1 \/ (i - 1 \in 1 .. Len(q) /\ r[i] = q[i - 1])
<1> DEFINE n == Len(q)
<1>1. <<p>> \in Seq(S) /\ Len(<<p>>) = 1 /\ <<p>>[1] = p
  OBVIOUS
<1>2. /\ r \in Seq(S) /\ Len(r) = 1 + n
      /\ \A i \in 1 .. 1 + n : r[i] = IF i <= 1 THEN <<p>>[i] ELSE q[i - 1]
  BY <1>1, ConcatProperties
<1>3. n \in Nat /\ DOMAIN q = 1 .. n /\ DOMAIN r = 1 .. 1 + n
  BY <1>2, LenProperties
<1> HIDE DEF n
<1>4. r[1] = p /\ \A i \in 1 .. n : i + 1 \in 1 .. 1 + n /\ r[i + 1] = q[i]
  BY <1>1, <1>2, <1>3
<1>5. \A i \in 1 .. 1 + n : i = 1 \/ (i - 1 \in 1 .. n /\ r[i] = q[i - 1])
  BY <1>2, <1>3
<1>6. QED
  BY <1>2, <1>3, <1>4, <1>5 DEF n

\* Its elements.
LEMMA FrontElements ==
  ASSUME NEW S, NEW q \in Seq(S), NEW p \in S, NEW r, r = <<p>> \o q
  PROVE  \A x : x \in Range(r) <=> x \in Range(q) \/ x = p
<1> DEFINE n == Len(q)
<1>1. /\ DOMAIN r = 1 .. 1 + n /\ r[1] = p
      /\ \A i \in 1 .. n : i + 1 \in 1 .. 1 + n /\ r[i + 1] = q[i]
      /\ \A i \in 1 .. 1 + n : i = 1 \/ (i - 1 \in 1 .. n /\ r[i] = q[i - 1])
  BY PutInFront
<1>2. n \in Nat /\ DOMAIN q = 1 .. n
  BY LenProperties
<1>3. 1 \in 1 .. 1 + n
  BY <1>2
<1> HIDE DEF n
<1>4. \A x : x \in Range(r) <=> \E i \in 1 .. 1 + n : r[i] = x
  BY <1>1, Zenon DEF Range
<1>5. \A x : x \in Range(q) <=> \E i \in 1 .. n : q[i] = x
  BY <1>2, Zenon DEF Range
<1>6. ASSUME NEW x, x \in Range(r) PROVE x \in Range(q) \/ x = p
  BY <1>1, <1>4, <1>5, <1>6, Zenon
<1>7. ASSUME NEW x, x \in Range(q) \/ x = p PROVE x \in Range(r)
  BY <1>1, <1>3, <1>4, <1>5, <1>7, Zenon
<1>8. QED
  BY <1>6, <1>7

LEMMA FrontDistinct ==
  ASSUME NEW S, NEW q \in Seq(S), NEW p \in S, NEW r, r = <<p>> \o q,
         p \notin Range(q), Distinct(q)
  PROVE  Distinct(r)
<1> DEFINE n == Len(q)
<1>1. /\ DOMAIN r = 1 .. 1 + n /\ r[1] = p
      /\ \A i \in 1 .. 1 + n : i = 1 \/ (i - 1 \in 1 .. n /\ r[i] = q[i - 1])
  BY PutInFront
<1>2. n \in Nat /\ DOMAIN q = 1 .. n
  BY LenProperties
<1> HIDE DEF n
<1>3. \A k \in 1 .. n : q[k] # p
  BY <1>2 DEF Range
<1>4. SUFFICES ASSUME NEW i \in 1 .. 1 + n, NEW j \in 1 .. 1 + n, r[i] = r[j]
               PROVE  i = j
  BY <1>1 DEF Distinct
<1>5. i = 1 => j = 1
  BY <1>1, <1>3, <1>4
<1>6. j = 1 => i = 1
  BY <1>1, <1>3, <1>4
<1>7. ASSUME i # 1, j # 1 PROVE i - 1 = j - 1
  BY <1>1, <1>2, <1>4, <1>7 DEF Distinct
<1>8. QED
  BY <1>2, <1>5, <1>6, <1>7

\* The elements of a sequence without the one at place k.
LEMMA TakenOut ==
  ASSUME NEW S, NEW q \in Seq(S), NEW k \in DOMAIN q, NEW r, r = RemoveAt(q, k)
  PROVE  /\ r \in Seq(S) /\ Range(r) \subseteq Range(q)
         /\ Distinct(q) => Range(r) = Range(q) \ {q[k]} /\ Distinct(r)
<1> DEFINE n == Len(q)
           a == SubSeq(q, 1, k - 1)
           b == SubSeq(q, k + 1, n)
<1>1. n \in Nat /\ DOMAIN q = 1 .. n /\ k \in 1 .. n /\ \A i \in 1 .. n : q[i] \in S
  BY LenProperties, ElementOfSeq
<1>2. /\ a \in Seq(S) /\ Len(a) = k - 1 /\ \A i \in 1 .. k - 1 : a[i] = q[i]
  <2>1. 1 \in Int /\ k - 1 \in Int /\ \A i \in 1 .. k - 1 : q[i] \in S
    BY <1>1
  <2>2. QED
    BY <1>1, <2>1, SubSeqProperties
<1>3. /\ b \in Seq(S) /\ Len(b) = n - k /\ \A i \in 1 .. n - k : b[i] = q[k + i]
  <2>1. k + 1 \in Int /\ n \in Int /\ \A i \in k + 1 .. n : q[i] \in S
    BY <1>1
  <2>2. QED
    BY <1>1, <2>1, SubSeqProperties
<1>4. r = a \o b
  BY DEF RemoveAt
<1> HIDE DEF a, b, n
<1>5. /\ r \in Seq(S) /\ Len(r) = Len(a) + Len(b)
      /\ \A i \in 1 .. Len(a) + Len(b) : r[i] = IF i <= Len(a) THEN a[i] ELSE b[i - Len(a)]
  <2>1. a \in Seq(S) /\ b \in Seq(S)
    BY <1>2, <1>3
  <2>2. QED
    BY <1>4, <2>1, ConcatProperties
<1>6. DOMAIN r = 1 .. n - 1
  BY <1>1, <1>2, <1>3, <1>5, LenProperties
<1>7. \A i \in 1 .. n - 1 : r[i] = IF i < k THEN q[i] ELSE q[i + 1]
  <2>1. TAKE i \in 1 .. n - 1
  <2>2. CASE i < k
    BY <1>1, <1>2, <1>3, <1>5, <2>2
  <2>3. CASE ~ (i < k)
    <3>1. i - (k - 1) \in 1 .. n - k /\ k + (i - (k - 1)) = i + 1 /\ ~ (i <= k - 1)
      BY <1>1, <2>3
    <3>2. i \in 1 .. Len(a) + Len(b) /\ Len(a) = k - 1
      BY <1>1, <1>2, <1>3
    <3>3. r[i] = b[i - (k - 1)]
      BY <1>5, <3>1, <3>2
    <3>4. QED
      BY <1>3, <2>3, <3>1, <3>3
  <2>4. QED
    BY <2>2, <2>3
<1>8. Distinct(q) => \A i, j \in 1 .. n : q[i] = q[j] => i = j
  BY <1>1 DEF Distinct
<1>9. \A i \in 1 .. n : i # k => \E j \in 1 .. n - 1 : r[j] = q[i]
  <2>1. TAKE i \in 1 .. n
  <2>2. CASE i < k
    <3>1. i \in 1 .. n - 1
      BY <1>1, <2>2
    <3>2. QED
      BY <1>7, <2>2, <3>1
  <2>3. CASE i > k
    <3>1. i - 1 \in 1 .. n - 1 /\ ~ (i - 1 < k) /\ (i - 1) + 1 = i
      BY <1>1, <2>3
    <3>2. QED
      BY <1>7, <3>1
  <2>4. QED
    BY <1>1, <2>2, <2>3
<1>10. \A i \in 1 .. n - 1 : \E j \in 1 .. n : j # k /\ r[i] = q[j]
  <2>1. TAKE i \in 1 .. n - 1
  <2>2. i \in 1 .. n /\ i + 1 \in 1 .. n /\ (i < k => i # k) /\ (~ (i < k) => i + 1 # k)
    BY <1>1
  <2>3. QED
    BY <1>7, <2>2
<1>11. \A x : x \in Range(r) <=> \E i \in 1 .. n - 1 : r[i] = x
  BY <1>6, Zenon DEF Range
<1>12. \A x : x \in Range(q) <=> \E i \in 1 .. n : q[i] = x
  BY <1>1, Zenon DEF Range
<1>13. Range(r) \subseteq Range(q)
  BY <1>10, <1>11, <1>12
<1>14. ASSUME Distinct(q) PROVE Range(r) = Range(q) \ {q[k]}
  <2>1. ASSUME NEW x, x \in Range(r) PROVE x # q[k]
    <3>1. PICK i \in 1 .. n - 1 : r[i] = x
      BY <1>11, <2>1
    <3>2. PICK j \in 1 .. n : j # k /\ r[i] = q[j]
      BY <1>10
    <3>3. QED
      BY <1>1, <1>8, <1>14, <3>1, <3>2, Zenon
  <2>2. ASSUME NEW x, x \in Range(q), x # q[k] PROVE x \in Range(r)
    <3>1. PICK i \in 1 .. n : q[i] = x
      BY <1>12, <2>2
    <3>2. QED
      BY <1>9, <1>11, <2>2, <3>1, Zenon
  <2>3. QED
    BY <1>13, <2>1, <2>2
<1>15. ASSUME Distinct(q) PROVE Distinct(r)
  <2>1. SUFFICES ASSUME NEW i \in 1 .. n - 1, NEW j \in 1 .. n - 1, r[i] = r[j]
                 PROVE  i = j
    BY <1>6 DEF Distinct
  <2>2. QED
    BY <1>1, <1>7, <1>8, <1>15, <2>1
<1>16. QED
  BY <1>5, <1>13, <1>14, <1>15
\* A queue with one more at its end.
LEMMA QueueGrown ==
  ASSUME NEW S, NEW q \in Seq(S), NEW p \in S, NEW r, r = Append(q, p)
  PROVE  /\ r \in Seq(S) /\ Len(r) = Len(q) + 1 /\ DOMAIN r = 1 .. Len(q) + 1
         /\ DOMAIN q = 1 .. Len(q) /\ Len(q) \in Nat
         /\ \A i \in 1 .. Len(q) : r[i] = q[i]
         /\ r[Len(q) + 1] = p
BY AppendProperties, LenProperties

LEMMA QueueElements ==
  ASSUME NEW S, NEW q \in Seq(S), NEW p \in S, NEW r, r = Append(q, p)
  PROVE  \A x : x \in Range(r) <=> x \in Range(q) \/ x = p
<1>1. PICK n \in Nat : n = Len(q)
  BY LenProperties
<1>2. DOMAIN r = 1 .. n + 1 /\ DOMAIN q = 1 .. n /\ (\A i \in 1 .. n : r[i] = q[i]) /\ r[n + 1] = p
  BY <1>1, QueueGrown
<1>3. /\ \A i \in 1 .. n + 1 : i \in 1 .. n \/ i = n + 1
      /\ \A i \in 1 .. n : i \in 1 .. n + 1
      /\ n + 1 \in 1 .. n + 1
  OBVIOUS
<1>4. \A x : x \in Range(r) <=> \E i \in 1 .. n + 1 : r[i] = x
  BY <1>2, Zenon DEF Range
<1>5. \A x : x \in Range(q) <=> \E i \in 1 .. n : q[i] = x
  BY <1>2, Zenon DEF Range
<1>6. ASSUME NEW x, x \in Range(r) PROVE x \in Range(q) \/ x = p
  BY <1>2, <1>3, <1>4, <1>5, <1>6, Zenon
<1>7. ASSUME NEW x, x \in Range(q) \/ x = p PROVE x \in Range(r)
  BY <1>2, <1>3, <1>4, <1>5, <1>7, Zenon
<1>8. QED
  BY <1>6, <1>7

LEMMA QueueDistinct ==
  ASSUME NEW S, NEW q \in Seq(S), NEW p \in S, NEW r, r = Append(q, p),
         Distinct(q), p \notin Range(q)
  PROVE  Distinct(r)
<1>1. PICK n \in Nat : n = Len(q)
  BY LenProperties
<1>2. DOMAIN r = 1 .. n + 1 /\ DOMAIN q = 1 .. n /\ (\A i \in 1 .. n : r[i] = q[i]) /\ r[n + 1] = p
  BY <1>1, QueueGrown
<1>3. \A i \in 1 .. n + 1 : i \in 1 .. n \/ i = n + 1
  OBVIOUS
<1>4. \A i \in 1 .. n : q[i] # p
  BY <1>2 DEF Range
<1>5. SUFFICES ASSUME NEW i \in 1 .. n + 1, NEW j \in 1 .. n + 1, r[i] = r[j]
               PROVE  i = j
  BY <1>2 DEF Distinct
<1>6. QED
  BY <1>2, <1>3, <1>4, <1>5 DEF Distinct

=============================================================================
