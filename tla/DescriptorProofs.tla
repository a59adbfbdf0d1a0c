-------------------------- MODULE DescriptorProofs --------------------------
(***************************************************************************)
(* Theorems about the descriptor table of kernel.c, for every number of    *)
(* pages and descriptors and whatever the other users of the allocator do, *)
(* and about the files behind the descriptors, for every size of a page    *)
(* and of size_t.                                                          *)
(***************************************************************************)
EXTENDS FdTable, FileIO, MmLemmas

-----------------------------------------------------------------------------
(***************************************************************************)
(* The system calls as functions on tables                                 *)
(***************************************************************************)

Address == Pages \cup {Unaligned}

\* The tables a call is made with: the kernel's pages are marked used.
Tables ==
  {t \in [files : [Fd -> Pages], data : [Pages -> Address], bitmap : SUBSET Pages] :
     Reserved \subseteq t.bitmap}

LEMMA PageFacts ==
  /\ NULL \in Reserved /\ Reserved \subseteq Pages /\ Pages \subseteq Nat
  /\ Address \subseteq Nat /\ Unaligned \notin Pages
BY MmAssumption DEF NULL, Reserved, Pages, Address, Unaligned

LEMMA FirstUnused ==
  ASSUME NEW t, Unused(t) # {}
  PROVE  Min(Unused(t)) \in Fd /\ t.files[Min(Unused(t))] = NULL
<1>1. Unused(t) \subseteq Nat
  BY FdAssumption DEF Unused, Fd
<1>2. Min(Unused(t)) \in Unused(t)
  BY <1>1, MinOfNats
<1>3. QED
  BY <1>2 DEF Unused

\* What open does when it succeeds: two free pages become a descriptor and
\* its data, in an entry that was empty.
OpenedAs(t, u, fd, d, x) ==
  /\ fd \in Fd /\ t.files[fd] = NULL
  /\ d \in Pages \ t.bitmap /\ x \in Pages \ t.bitmap /\ d # x
  /\ u = [t EXCEPT !.files[fd] = d, !.data[d] = x, !.bitmap = @ \cup {d, x}]

\* What a failed call leaves: the table, the bitmap, and the data of the pages
\* that are in use.
Undone(t, u) ==
  /\ u \in Tables
  /\ u.files = t.files /\ u.bitmap = t.bitmap
  /\ \A p \in t.bitmap : u.data[p] = t.data[p]

LEMMA NewDescriptorResult ==
  ASSUME NEW t \in Tables, NEW fd \in Fd, t.files[fd] = NULL
  PROVE  LET r == NewDescriptor(t, fd) IN
         /\ r.fd = fd
         /\ \/ r.ok = FALSE /\ Undone(t, r.t)
            \/ r.ok = TRUE /\ \E d, x \in Pages : OpenedAs(t, r.t, fd, d, x)
<1> DEFINE B  == t.bitmap
           r1 == get_free_page(B)
           r2 == get_free_page(r1.bitmap)
<1>0. /\ t.files \in [Fd -> Pages] /\ t.data \in [Pages -> Address]
      /\ B \subseteq Pages /\ Reserved \subseteq B
      /\ t = [files |-> t.files, data |-> t.data, bitmap |-> t.bitmap]
  BY DEF Tables
<1>1. \/ r1.page = NULL /\ r1.bitmap = B
      \/ r1.page \in Pages \ B /\ r1.page # NULL /\ r1.page \notin Reserved /\ r1.bitmap = B \cup {r1.page}
  BY <1>0, GetFreePageResult
<1>2. Reserved \subseteq r1.bitmap /\ r1.bitmap \subseteq Pages
  BY <1>0, <1>1
<1>3. \/ r2.page = NULL /\ r2.bitmap = r1.bitmap
      \/ r2.page \in Pages \ r1.bitmap /\ r2.page # NULL /\ r2.bitmap = r1.bitmap \cup {r2.page}
  BY <1>2, GetFreePageResult
<1>4. NewDescriptor(t, fd) =
        IF r1.page = NULL THEN [ok |-> FALSE, fd |-> fd, t |-> t]
        ELSE IF r2.page = NULL
          THEN [ok |-> FALSE, fd |-> fd,
                t |-> [t EXCEPT !.bitmap = free_page(r1.bitmap, r1.page, 0),
                                !.data[r1.page] = NULL]]
        ELSE [ok |-> TRUE, fd |-> fd,
              t |-> [t EXCEPT !.files[fd] = r1.page, !.data[r1.page] = r2.page,
                              !.bitmap = r2.bitmap]]
  BY DEF NewDescriptor
<1> HIDE DEF r1, r2
<1>5. CASE r1.page = NULL
  BY <1>4, <1>5 DEF Undone
<1>6. CASE r1.page # NULL /\ r2.page = NULL
  <2>1. free_page(r1.bitmap, r1.page, 0) = B
    <3>1. r1.page \in Nat
      BY <1>1, <1>6, PageFacts
    <3>2. free_page(r1.bitmap, r1.page, 0) = r1.bitmap \ ({r1.page} \ Reserved)
      BY <1>2, <3>1, FreePageResult
    <3>3. QED
      BY <1>1, <1>6, <3>2
  <2> DEFINE u == [t EXCEPT !.data[r1.page] = NULL]
  <2>2. NewDescriptor(t, fd) = [ok |-> FALSE, fd |-> fd, t |-> u]
    <3>1. [t EXCEPT !.bitmap = B] = t
      BY <1>0
    <3>2. QED
      BY <1>4, <1>6, <2>1, <3>1
  <2>3. u.data \in [Pages -> Address] /\ \A p \in B : u.data[p] = t.data[p]
    BY <1>0, <1>1, <1>6, PageFacts DEF Address
  <2>4. Undone(t, u)
    <3>1. u \in [files : [Fd -> Pages], data : [Pages -> Address], bitmap : SUBSET Pages]
      BY <1>0, <2>3
    <3>2. u.files = t.files /\ u.bitmap = t.bitmap
      BY <1>0
    <3>3. QED
      BY <1>0, <2>3, <3>1, <3>2 DEF Undone, Tables
  <2>5. QED
    BY <2>2, <2>4
<1>7. CASE r1.page # NULL /\ r2.page # NULL
  <2> DEFINE d == r1.page
             x == r2.page
             u == [t EXCEPT !.files[fd] = d, !.data[d] = x, !.bitmap = @ \cup {d, x}]
  <2>1. r2.bitmap = B \cup {d, x}
    BY <1>1, <1>3, <1>7
  <2>2. NewDescriptor(t, fd) = [ok |-> TRUE, fd |-> fd, t |-> u]
    BY <1>0, <1>4, <1>7, <2>1
  <2>3. d \in Pages /\ x \in Pages /\ OpenedAs(t, u, fd, d, x)
    BY <1>1, <1>3, <1>7 DEF OpenedAs
  <2>4. QED
    BY <2>2, <2>3
<1>8. QED
  BY <1>5, <1>6, <1>7

LEMMA OpenFileResult ==
  ASSUME NEW t \in Tables
  PROVE  LET r == OpenFile(t) IN
         \/ r.ok = FALSE /\ Undone(t, r.t)
         \/ r.ok = TRUE /\ \E d, x \in Pages : OpenedAs(t, r.t, r.fd, d, x)
<1>1. CASE Unused(t) = {}
  BY <1>1 DEF OpenFile, Undone
<1>2. CASE Unused(t) # {}
  <2> DEFINE fd == Min(Unused(t))
             r == NewDescriptor(t, fd)
  <2>1. OpenFile(t) = r
    BY <1>2 DEF OpenFile
  <2>2. fd \in Fd /\ t.files[fd] = NULL
    BY <1>2, FirstUnused
  <2> HIDE DEF fd
  <2>3. /\ r.fd = fd
        /\ \/ r.ok = FALSE /\ Undone(t, r.t)
           \/ r.ok = TRUE /\ \E d, x \in Pages : OpenedAs(t, r.t, fd, d, x)
    BY <2>2, NewDescriptorResult
  <2> HIDE DEF r
  <2>4. QED
    BY <2>1, <2>3
<1>3. QED
  BY <1>1, <1>2

\* The same, field by field.
OpenedFields(t, u, fd, d, x) ==
  /\ u.files = [t.files EXCEPT ![fd] = d]
  /\ u.data = [t.data EXCEPT ![d] = x]
  /\ u.bitmap = t.bitmap \cup {d, x}
  /\ d \notin Reserved /\ x \notin Reserved

LEMMA OpenedType ==
  ASSUME NEW t \in Tables, NEW u, NEW fd, NEW d, NEW x, OpenedAs(t, u, fd, d, x)
  PROVE  u \in Tables /\ OpenedFields(t, u, fd, d, x)
<1>0. /\ t.files \in [Fd -> Pages] /\ t.data \in [Pages -> Address]
      /\ t.bitmap \subseteq Pages /\ Reserved \subseteq t.bitmap
      /\ t = [files |-> t.files, data |-> t.data, bitmap |-> t.bitmap]
  BY DEF Tables
<1>1. /\ fd \in Fd /\ d \in Pages \ t.bitmap /\ x \in Pages \ t.bitmap
      /\ u = [t EXCEPT !.files[fd] = d, !.data[d] = x, !.bitmap = @ \cup {d, x}]
  BY DEF OpenedAs
<1>2. /\ u.files = [t.files EXCEPT ![fd] = d]
      /\ u.data = [t.data EXCEPT ![d] = x]
      /\ u.bitmap = t.bitmap \cup {d, x}
  BY <1>0, <1>1
<1>3. u.files \in [Fd -> Pages] /\ u.data \in [Pages -> Address] /\ u.bitmap \subseteq Pages
  BY <1>0, <1>1, <1>2 DEF Address
<1>4. u \in [files : [Fd -> Pages], data : [Pages -> Address], bitmap : SUBSET Pages]
  BY <1>0, <1>1, <1>3
<1>5. QED
  BY <1>0, <1>1, <1>2, <1>4 DEF Tables, OpenedFields

(***************************************************************************)
(* close empties the entry and frees whatever pages the pointers name.     *)
(***************************************************************************)
LEMMA CloseFileResult ==
  ASSUME NEW t \in Tables, NEW fd \in Fd
  PROVE  LET u == CloseFile(t, fd)
             p == t.files[fd]
         IN  /\ u \in Tables
             /\ u.files = [t.files EXCEPT ![fd] = NULL]
             /\ u.data = t.data
             /\ u.bitmap = IF p = NULL THEN t.bitmap ELSE t.bitmap \ ({p, t.data[p]} \ Reserved)
<1> DEFINE p == t.files[fd]
           freed == IF t.data[p] = NULL THEN t.bitmap ELSE free_page(t.bitmap, t.data[p], 0)
           u == CloseFile(t, fd)
<1>0. /\ t.files \in [Fd -> Pages] /\ t.data \in [Pages -> Address]
      /\ t.bitmap \subseteq Pages /\ Reserved \subseteq t.bitmap
      /\ t = [files |-> t.files, data |-> t.data, bitmap |-> t.bitmap]
  BY DEF Tables
<1>1. CASE p = NULL
  BY <1>0, <1>1 DEF CloseFile
<1>2. CASE p # NULL
  <2>1. u = [t EXCEPT !.files[fd] = NULL, !.bitmap = free_page(freed, p, 0)]
    BY <1>2 DEF CloseFile
  <2>2. p \in Pages /\ p \in Nat /\ t.data[p] \in Nat
    BY <1>0, PageFacts
  <2>3. freed = t.bitmap \ ({t.data[p]} \ Reserved) /\ freed \subseteq Pages /\ Reserved \subseteq freed
    <3>1. CASE t.data[p] = NULL
      BY <1>0, <3>1, PageFacts
    <3>2. CASE t.data[p] # NULL
      BY <1>0, <2>2, <3>2, FreePageResult
    <3>3. QED
      BY <3>1, <3>2
  <2> HIDE DEF freed
  <2>4. /\ free_page(freed, p, 0) = freed \ ({p} \ Reserved)
        /\ free_page(freed, p, 0) \subseteq Pages
        /\ Reserved \subseteq free_page(freed, p, 0)
    BY <2>2, <2>3, FreePageResult
  <2>5. /\ u.files = [t.files EXCEPT ![fd] = NULL]
        /\ u.data = t.data
        /\ u.bitmap = free_page(freed, p, 0)
    BY <1>0, <2>1
  <2>6. u.files \in [Fd -> Pages]
    BY <1>0, <2>5, PageFacts
  <2>7. u \in [files : [Fd -> Pages], data : [Pages -> Address], bitmap : SUBSET Pages]
    BY <1>0, <2>1, <2>4, <2>5, <2>6
  <2>8. u.bitmap = t.bitmap \ ({p, t.data[p]} \ Reserved)
    BY <2>3, <2>4, <2>5
  <2>9. QED
    BY <1>2, <2>4, <2>5, <2>7, <2>8 DEF Tables
<1>3. QED
  BY <1>1, <1>2

\* Closing a descriptor that the same call opened undoes the opening, also
\* when a further open in between has failed.
LEMMA CloseUndoesOpen ==
  ASSUME NEW t \in Tables, NEW one, NEW fd, NEW d, NEW x, OpenedAs(t, one, fd, d, x),
         NEW two, Undone(one, two)
  PROVE  Undone(t, CloseFile(two, fd))
<1> DEFINE u == CloseFile(two, fd)
<1>0. /\ t.files \in [Fd -> Pages] /\ t.data \in [Pages -> Address] /\ t.bitmap \subseteq Pages
      /\ fd \in Fd /\ t.files[fd] = NULL
      /\ d \in Pages \ t.bitmap /\ x \in Pages \ t.bitmap /\ d # x
  BY DEF Tables, OpenedAs
<1>a. OpenedFields(t, one, fd, d, x)
  BY OpenedType
<1>1. /\ one.files = [t.files EXCEPT ![fd] = d]
      /\ one.data = [t.data EXCEPT ![d] = x]
      /\ one.bitmap = t.bitmap \cup {d, x}
      /\ d \notin Reserved /\ x \notin Reserved
  BY <1>a DEF OpenedFields
<1>2. /\ two \in Tables /\ two.files = one.files /\ two.bitmap = one.bitmap
      /\ \A p \in one.bitmap : two.data[p] = one.data[p]
  BY DEF Undone
<1>3. two.files[fd] = d /\ two.data[d] = x /\ d # NULL
  BY <1>0, <1>1, <1>2, PageFacts
<1>4. /\ u \in Tables
      /\ u.files = [two.files EXCEPT ![fd] = NULL]
      /\ u.data = two.data
      /\ u.bitmap = two.bitmap \ ({d, x} \ Reserved)
  <2>0. two \in Tables /\ fd \in Fd
    BY <1>0, <1>2
  <2>1. /\ u \in Tables
        /\ u.files = [two.files EXCEPT ![fd] = NULL]
        /\ u.data = two.data
        /\ u.bitmap = IF two.files[fd] = NULL THEN two.bitmap
                      ELSE two.bitmap \ ({two.files[fd], two.data[two.files[fd]]} \ Reserved)
    BY <2>0, CloseFileResult
  <2> HIDE DEF u
  <2>2. QED
    BY <1>3, <2>1
<1>5. u.files = t.files
  BY <1>0, <1>1, <1>2, <1>4
<1>6. u.bitmap = t.bitmap
  BY <1>0, <1>1, <1>2, <1>4
<1>7. \A p \in t.bitmap : u.data[p] = t.data[p]
  BY <1>0, <1>1, <1>2, <1>4
<1>8. QED
  BY <1>4, <1>5, <1>6, <1>7 DEF Undone

LEMMA OpenPipeResult ==
  ASSUME NEW t \in Tables
  PROVE  LET r == OpenPipe(t) IN
         \/ r.ok = FALSE /\ Undone(t, r.t)
         \/ r.ok = TRUE /\ \E one, fd1, d1, x1, fd2, d2, x2 :
              OpenedAs(t, one, fd1, d1, x1) /\ OpenedAs(one, r.t, fd2, d2, x2)
<1> DEFINE one == OpenFile(t)
           two == OpenFile(one.t)
<1>1. CASE one.ok = FALSE /\ Undone(t, one.t)
  BY <1>1 DEF OpenPipe
<1>2. ASSUME one.ok = TRUE, NEW d, NEW x, OpenedAs(t, one.t, one.fd, d, x)
      PROVE  LET r == OpenPipe(t) IN
             \/ r.ok = FALSE /\ Undone(t, r.t)
             \/ r.ok = TRUE /\ \E u, fd1, d1, x1, fd2, d2, x2 :
                  OpenedAs(t, u, fd1, d1, x1) /\ OpenedAs(u, r.t, fd2, d2, x2)
  <2>1. one.t \in Tables
    BY <1>2, OpenedType
  <2>2. CASE two.ok = FALSE /\ Undone(one.t, two.t)
    <3>1. OpenPipe(t) = [two EXCEPT !.t = CloseFile(two.t, one.fd)]
      BY <1>2, <2>2 DEF OpenPipe
    <3>2. Undone(t, CloseFile(two.t, one.fd))
      BY <1>2, <2>2, CloseUndoesOpen
    <3>3. two = [ok |-> two.ok, fd |-> two.fd, t |-> two.t]
      BY DEF OpenFile, NewDescriptor
    <3>4. OpenPipe(t).ok = FALSE /\ OpenPipe(t).t = CloseFile(two.t, one.fd)
      BY <2>2, <3>1, <3>3
    <3>5. QED
      BY <3>2, <3>4
  <2>3. ASSUME two.ok = TRUE, NEW d2, NEW x2, OpenedAs(one.t, two.t, two.fd, d2, x2)
        PROVE  OpenPipe(t).ok = TRUE /\ OpenedAs(one.t, OpenPipe(t).t, two.fd, d2, x2)
    BY <1>2, <2>3 DEF OpenPipe
  <2>4. QED
    BY <1>2, <2>1, <2>2, <2>3, OpenFileResult
<1>3. QED
  BY <1>1, <1>2, OpenFileResult

\* execve never succeeds (the file it has opened is empty), and undoes what it
\* did at each of the points where it fails.
LEMMA ExecveResult ==
  ASSUME NEW t \in Tables
  PROVE  Execve(t).ok = FALSE /\ Undone(t, Execve(t).t)
<1> DEFINE program == get_free_page(t.bitmap)
           s       == [t EXCEPT !.bitmap = program.bitmap]
           opened  == OpenFile(s)
           closed  == CloseFile(opened.t, opened.fd)
           Release(u) == [u EXCEPT !.bitmap = free_page(u.bitmap, program.page, 0)]
<1>0. /\ t.files \in [Fd -> Pages] /\ t.data \in [Pages -> Address]
      /\ t.bitmap \subseteq Pages /\ Reserved \subseteq t.bitmap
      /\ t = [files |-> t.files, data |-> t.data, bitmap |-> t.bitmap]
  BY DEF Tables
<1>1. \/ program.page = NULL
      \/ /\ program.page \in Pages \ t.bitmap /\ program.page \notin Reserved
         /\ program.bitmap = t.bitmap \cup {program.page}
  BY <1>0, GetFreePageResult
<1>2. CASE program.page = NULL
  BY <1>2 DEF Execve, Undone
<1>3. CASE program.page # NULL
  <2>1. s \in Tables /\ s.files = t.files /\ s.data = t.data /\ s.bitmap = t.bitmap \cup {program.page}
    <3>1. s.files = t.files /\ s.data = t.data /\ s.bitmap = t.bitmap \cup {program.page}
      BY <1>0, <1>1, <1>3
    <3>2. s \in [files : [Fd -> Pages], data : [Pages -> Address], bitmap : SUBSET Pages]
      BY <1>0, <1>1, <1>3
    <3>3. QED
      BY <1>0, <3>1, <3>2 DEF Tables
  <2>2. ASSUME NEW u, Undone(s, u)
        PROVE  Undone(t, Release(u))
    <3>1. u \in Tables /\ u.files = t.files /\ u.bitmap = t.bitmap \cup {program.page}
          /\ \A p \in t.bitmap : u.data[p] = t.data[p]
      BY <2>1, <2>2 DEF Undone
    <3>2. free_page(u.bitmap, program.page, 0) = u.bitmap \ ({program.page} \ Reserved)
      BY <1>0, <1>1, <1>3, <3>1, FreePageResult, PageFacts
    <3>3. free_page(u.bitmap, program.page, 0) = t.bitmap
      BY <1>1, <1>3, <3>1, <3>2
    <3>4. Release(u) = [u EXCEPT !.bitmap = t.bitmap]
      BY <3>3
    <3>5. Release(u) \in Tables /\ Release(u).files = u.files /\ Release(u).data = u.data
          /\ Release(u).bitmap = t.bitmap
      BY <1>0, <3>1, <3>4 DEF Tables
    <3>6. QED
      BY <3>1, <3>5 DEF Undone
  <2>3. Execve(t) = IF ~ opened.ok THEN [ok |-> FALSE, fd |-> 0, t |-> Release(opened.t)]
                    ELSE [ok |-> BytesRead > 0, fd |-> 0, t |-> Release(closed)]
    BY <1>3 DEF Execve
  <2>4. CASE opened.ok = FALSE /\ Undone(s, opened.t)
    BY <2>2, <2>3, <2>4
  <2>5. ASSUME opened.ok = TRUE, NEW d, NEW x, OpenedAs(s, opened.t, opened.fd, d, x)
        PROVE  Execve(t).ok = FALSE /\ Undone(t, Execve(t).t)
    <3>1. Undone(opened.t, opened.t)
      BY <2>1, <2>5, OpenedType DEF Undone
    <3>2. Undone(s, closed)
      BY <2>1, <2>5, <3>1, CloseUndoesOpen
    <3>3. Undone(t, Release(closed))
      BY <2>2, <3>2
    <3>4. (BytesRead > 0) = FALSE
      BY DEF BytesRead
    <3>5. Execve(t) = [ok |-> BytesRead > 0, fd |-> 0, t |-> Release(closed)]
      BY <2>3, <2>5
    <3> HIDE DEF Release, closed
    <3>6. Execve(t).ok = (BytesRead > 0) /\ Execve(t).t = Release(closed)
      BY <3>5
    <3>7. QED
      BY <3>3, <3>4, <3>6, Zenon
  <2>6. QED
    BY <2>1, <2>4, <2>5, OpenFileResult
<1>4. QED
  BY <1>2, <1>3

-----------------------------------------------------------------------------
(***************************************************************************)
(* The inductive invariant. While no descriptor was duplicated, the table  *)
(* and the other users account for every page that is marked used.         *)
(***************************************************************************)
Holds(t) == {fd \in Fd : t.files[fd] # NULL}

Exact(t, o) ==
  /\ \A f \in Holds(t) :
       /\ t.files[f] \in Pages \ (Reserved \cup o)
       /\ t.data[t.files[f]] \in Pages \ (Reserved \cup o)
  /\ \A f, g \in Holds(t) : t.files[f] # t.data[t.files[g]]
  /\ \A f, g \in Holds(t) :
       f # g => t.files[f] # t.files[g] /\ t.data[t.files[f]] # t.data[t.files[g]]
  /\ \A p : p \in t.bitmap <=>
       \/ p \in Reserved \cup o
       \/ \E f \in Holds(t) : p = t.files[f] \/ p = t.data[t.files[f]]

FdInv ==
  /\ Table \in Tables
  /\ other \subseteq Pages \ Reserved
  /\ duplicated \in BOOLEAN
  /\ ~ duplicated => Exact(Table, other)

LEMMA ExactUndone ==
  ASSUME NEW t \in Tables, NEW u, NEW o, Exact(t, o), Undone(t, u)
  PROVE  Exact(u, o)
<1>1. Holds(u) = Holds(t) /\ u.files = t.files /\ u.bitmap = t.bitmap
  BY DEF Holds, Undone
<1>2. \A f \in Holds(t) : u.data[t.files[f]] = t.data[t.files[f]]
  BY DEF Exact, Undone
<1>3. QED
  BY <1>1, <1>2 DEF Exact

LEMMA ExactOpened ==
  ASSUME NEW t \in Tables, NEW u, NEW fd, NEW d, NEW x, NEW o,
         Exact(t, o), OpenedAs(t, u, fd, d, x)
  PROVE  Exact(u, o)
<1>0. /\ t.files \in [Fd -> Pages] /\ t.data \in [Pages -> Address]
      /\ fd \in Fd /\ t.files[fd] = NULL
      /\ d \in Pages \ t.bitmap /\ x \in Pages \ t.bitmap /\ d # x
  BY DEF Tables, OpenedAs
<1>1. OpenedFields(t, u, fd, d, x)
  BY OpenedType
<1>2. d # NULL /\ d \notin Reserved \cup o /\ x \notin Reserved \cup o
  BY <1>0, <1>1, PageFacts DEF OpenedFields, Exact
<1>3. u.files[fd] = d /\ u.data[d] = x /\ u.bitmap = t.bitmap \cup {d, x}
  BY <1>0, <1>1 DEF OpenedFields
<1>4. Holds(u) = Holds(t) \cup {fd} /\ fd \notin Holds(t)
  BY <1>0, <1>1, <1>2 DEF OpenedFields, Holds
<1>5. \A f \in Holds(t) : /\ u.files[f] = t.files[f]
                          /\ t.files[f] \in t.bitmap
                          /\ t.data[t.files[f]] \in t.bitmap
                          /\ u.data[t.files[f]] = t.data[t.files[f]]
  BY <1>0, <1>1, <1>4 DEF OpenedFields, Holds, Exact
<1>6. QED
  BY <1>0, <1>2, <1>3, <1>4, <1>5 DEF Exact

LEMMA ExactClosed ==
  ASSUME NEW t \in Tables, NEW fd \in Fd, NEW o, Exact(t, o)
  PROVE  Exact(CloseFile(t, fd), o)
<1> DEFINE u == CloseFile(t, fd)
           p == t.files[fd]
<1>0. t.files \in [Fd -> Pages]
  BY DEF Tables
<1>1. /\ u.files = [t.files EXCEPT ![fd] = NULL]
      /\ u.data = t.data
      /\ u.bitmap = IF p = NULL THEN t.bitmap ELSE t.bitmap \ ({p, t.data[p]} \ Reserved)
  BY CloseFileResult
<1> SUFFICES Exact(u, o)
  OBVIOUS
<1> HIDE DEF u
<1>2. Holds(u) = Holds(t) \ {fd} /\ \A f \in Holds(u) : u.files[f] = t.files[f]
  BY <1>0, <1>1 DEF Holds
<1>3. CASE p = NULL
  BY <1>1, <1>2, <1>3 DEF Exact, Holds
<1>4. CASE p # NULL
  <2>1. fd \in Holds(t)
    BY <1>4 DEF Holds
  <2>2. p \notin Reserved \cup o /\ t.data[p] \notin Reserved \cup o
    BY <2>1 DEF Exact
  <2>3. u.bitmap = t.bitmap \ {p, t.data[p]}
    BY <1>1, <1>4, <2>2
  <2>4. \A f \in Holds(u) : /\ t.files[f] \notin {p, t.data[p]}
                            /\ t.data[t.files[f]] \notin {p, t.data[p]}
    BY <1>2, <2>1 DEF Exact
  <2>5. QED
    BY <1>1, <1>2, <2>1, <2>2, <2>3, <2>4 DEF Exact
<1>5. QED
  BY <1>3, <1>4

(***************************************************************************)
(* A system call that ends with a table u.                                 *)
(***************************************************************************)
LEMMA ReturnTable ==
  ASSUME NEW u \in Tables, Return(u)
  PROVE  Table' = u
BY DEF Return, Table, Tables

LEMMA UndoneStep ==
  ASSUME FdInv, NEW u, Undone(Table, u), Return(u), UNCHANGED duplicated
  PROVE  FdInv'
<1>1. u \in Tables
  BY DEF Undone
<1>2. Table' = u
  BY <1>1, ReturnTable
<1>3. ~ duplicated => Exact(u, other)
  BY ExactUndone DEF FdInv
<1>4. QED
  BY <1>1, <1>2, <1>3 DEF FdInv, Return

LEMMA FdInvInit == Init => FdInv
<1> SUFFICES ASSUME Init PROVE FdInv
  OBVIOUS
<1>1. Table \in Tables
  BY PageFacts DEF Init, Table, Tables, mm_init, Address
<1>2. Table.files = [fd \in Fd |-> NULL] /\ Table.bitmap = Reserved
  BY DEF Init, Table, mm_init
<1>3. Holds(Table) = {}
  BY <1>2 DEF Holds
<1>4. QED
  BY <1>1, <1>2, <1>3 DEF FdInv, Exact, Init

LEMMA FdInvStep == FdInv /\ [Next]_vars => FdInv'
<1> SUFFICES ASSUME FdInv, [Next]_vars PROVE FdInv'
  OBVIOUS
<1>0. /\ Table \in Tables
      /\ Table.files = open_files /\ Table.data = data /\ Table.bitmap = page_bitmap
      /\ open_files \in [Fd -> Pages] /\ data \in [Pages -> Address]
      /\ page_bitmap \subseteq Pages /\ Reserved \subseteq page_bitmap
  BY DEF FdInv, Table, Tables
<1>1. CASE sys_open
  <2>1. CASE Undone(Table, OpenFile(Table).t)
    BY <1>1, <2>1, UndoneStep DEF sys_open
  <2>2. ASSUME NEW d, NEW x, OpenedAs(Table, OpenFile(Table).t, OpenFile(Table).fd, d, x)
        PROVE  FdInv'
    <3>1. OpenFile(Table).t \in Tables
      BY <1>0, <2>2, OpenedType
    <3>2. Table' = OpenFile(Table).t
      BY <1>1, <3>1, ReturnTable DEF sys_open
    <3>3. ~ duplicated => Exact(OpenFile(Table).t, other)
      BY <1>0, <2>2, ExactOpened DEF FdInv
    <3>4. QED
      BY <1>1, <3>1, <3>2, <3>3 DEF FdInv, sys_open, Return
  <2>3. QED
    BY <1>0, <2>1, <2>2, OpenFileResult
<1>2. CASE sys_pipe
  <2>1. CASE Undone(Table, OpenPipe(Table).t)
    BY <1>2, <2>1, UndoneStep DEF sys_pipe
  <2>2. ASSUME NEW one, NEW fd1, NEW d1, NEW x1, NEW fd2, NEW d2, NEW x2,
               OpenedAs(Table, one, fd1, d1, x1), OpenedAs(one, OpenPipe(Table).t, fd2, d2, x2)
        PROVE  FdInv'
    <3>0. one \in Tables
      BY <1>0, <2>2, OpenedType
    <3>1. OpenPipe(Table).t \in Tables
      BY <2>2, <3>0, OpenedType
    <3>2. Table' = OpenPipe(Table).t
      BY <1>2, <3>1, ReturnTable DEF sys_pipe
    <3>3. ASSUME ~ duplicated
          PROVE  Exact(OpenPipe(Table).t, other)
      <4>1. Exact(one, other)
        BY <1>0, <2>2, <3>3, ExactOpened DEF FdInv
      <4>2. QED
        BY <2>2, <3>0, <4>1, ExactOpened
    <3>4. QED
      BY <1>2, <3>1, <3>2, <3>3 DEF FdInv, sys_pipe, Return
  <2>3. QED
    BY <1>0, <2>1, <2>2, OpenPipeResult
<1>3. CASE sys_execve
  BY <1>0, <1>3, ExecveResult, UndoneStep DEF sys_execve
<1>4. ASSUME NEW fd \in Fd, sys_close(fd)
      PROVE  FdInv'
  <2>1. CloseFile(Table, fd) \in Tables
    BY <1>0, CloseFileResult
  <2>2. Table' = CloseFile(Table, fd)
    BY <1>4, <2>1, ReturnTable DEF sys_close
  <2>3. ~ duplicated => Exact(CloseFile(Table, fd), other)
    BY <1>0, ExactClosed DEF FdInv
  <2>4. QED
    BY <1>4, <2>1, <2>2, <2>3 DEF FdInv, sys_close, Return
<1>5. ASSUME NEW old \in Fd, sys_dup(old)
      PROVE  FdInv'
  <2> DEFINE new == Min(Unused(Table))
             u   == [Table EXCEPT !.files[new] = open_files[old]]
  <2>1. new \in Fd
    BY <1>5, FirstUnused DEF sys_dup
  <2>2. u \in Tables
    BY <1>0, <2>1 DEF Tables
  <2>3. Table' = u
    BY <1>5, <2>2, ReturnTable DEF sys_dup
  <2>4. QED
    BY <1>5, <2>2, <2>3 DEF FdInv, sys_dup, Return
<1>6. ASSUME NEW old \in Fd, NEW new \in Fd, sys_dup2(old, new)
      PROVE  FdInv'
  <2> DEFINE v == CloseFile(Table, new)
             u == [v EXCEPT !.files[new] = open_files[old]]
  <2>1. v \in Tables
    BY <1>0, CloseFileResult
  <2>2. Return(u) /\ duplicated' = TRUE
    BY <1>6 DEF sys_dup2
  <2> HIDE DEF v
  <2>3. u \in Tables
    BY <1>0, <2>1 DEF Tables
  <2>4. Table' = u
    BY <2>2, <2>3, ReturnTable
  <2>5. QED
    BY <2>2, <2>3, <2>4 DEF FdInv, Return
<1>7. CASE OtherTakes
  <2> DEFINE r == get_free_page(page_bitmap)
  <2>1. /\ r.page \in Pages \ page_bitmap /\ r.page \notin Reserved
        /\ r.bitmap = page_bitmap \cup {r.page}
    BY <1>0, <1>7, GetFreePageResult DEF OtherTakes
  <2>2. /\ page_bitmap' = page_bitmap \cup {r.page} /\ other' = other \cup {r.page}
        /\ UNCHANGED <<open_files, data, duplicated>>
    BY <1>7, <2>1 DEF OtherTakes
  <2> HIDE DEF r
  <2>3. /\ Table' \in Tables /\ Table'.files = Table.files /\ Table'.data = Table.data
        /\ Table'.bitmap = Table.bitmap \cup {r.page}
    BY <1>0, <2>1, <2>2 DEF Table, Tables
  <2>4. ASSUME ~ duplicated
        PROVE  Exact(Table', other')
    <3>1. Exact(Table, other)
      BY <2>4 DEF FdInv
    <3>2. Holds(Table') = Holds(Table)
      BY <2>3 DEF Holds
    <3>3. \A f \in Holds(Table) : Table.files[f] # r.page /\ Table.data[Table.files[f]] # r.page
      BY <1>0, <2>1, <3>1 DEF Exact
    <3>4. QED
      BY <2>2, <2>3, <3>1, <3>2, <3>3 DEF Exact
  <2>5. QED
    BY <2>1, <2>2, <2>3, <2>4 DEF FdInv
<1>8. ASSUME NEW p \in other, NEW value \in Written, OtherWrites(p, value)
      PROVE  FdInv'
  <2>1. p \in Pages /\ value \in Address
    BY FdAssumption DEF FdInv, Address
  <2>2. /\ data' = [data EXCEPT ![p] = value]
        /\ UNCHANGED <<open_files, page_bitmap, other, duplicated>>
    BY <1>8 DEF OtherWrites
  <2>3. /\ Table' \in Tables /\ Table'.files = Table.files /\ Table'.bitmap = Table.bitmap
        /\ Table'.data = [data EXCEPT ![p] = value]
    BY <1>0, <2>1, <2>2 DEF Table, Tables
  <2>4. ASSUME ~ duplicated
        PROVE  Exact(Table', other')
    <3>1. Exact(Table, other)
      BY <2>4 DEF FdInv
    <3>2. Holds(Table') = Holds(Table)
      BY <2>3 DEF Holds
    <3>3. \A f \in Holds(Table) : Table'.data[Table.files[f]] = Table.data[Table.files[f]]
      BY <1>0, <2>1, <2>3, <3>1 DEF Exact
    <3>4. QED
      BY <2>2, <2>3, <3>1, <3>2, <3>3 DEF Exact
  <2>5. QED
    BY <2>2, <2>3, <2>4 DEF FdInv
<1>9. ASSUME NEW p \in other, OtherFrees(p)
      PROVE  FdInv'
  <2>1. p \in Nat /\ p \notin Reserved
    BY PageFacts DEF FdInv
  <2>2. free_page(page_bitmap, p, 0) = page_bitmap \ {p}
    BY <1>0, <2>1, FreePageResult
  <2>3. /\ page_bitmap' = page_bitmap \ {p} /\ other' = other \ {p}
        /\ UNCHANGED <<open_files, data, duplicated>>
    BY <1>9, <2>2 DEF OtherFrees
  <2>4. /\ Table' \in Tables /\ Table'.files = Table.files /\ Table'.data = Table.data
        /\ Table'.bitmap = Table.bitmap \ {p}
    BY <1>0, <2>1, <2>3 DEF Table, Tables
  <2>5. ASSUME ~ duplicated
        PROVE  Exact(Table', other')
    <3>1. Exact(Table, other)
      BY <2>5 DEF FdInv
    <3>2. Holds(Table') = Holds(Table)
      BY <2>4 DEF Holds
    <3>3. \A f \in Holds(Table) : Table.files[f] # p /\ Table.data[Table.files[f]] # p
      BY <3>1 DEF Exact
    <3>4. QED
      BY <2>1, <2>3, <2>4, <3>1, <3>2, <3>3 DEF Exact
  <2>6. QED
    BY <2>3, <2>4, <2>5 DEF FdInv
<1>10. CASE UNCHANGED vars
  <2>1. Table' = Table /\ other' = other /\ duplicated' = duplicated
    BY <1>10 DEF vars, Table
  <2>2. QED
    BY <2>1 DEF FdInv
<1>11. QED
  BY <1>1, <1>2, <1>3, <1>4, <1>5, <1>6, <1>7, <1>8, <1>9, <1>10 DEF Next

-----------------------------------------------------------------------------
(***************************************************************************)
(* The theorems                                                            *)
(***************************************************************************)

\* The inductive invariant holds throughout, whatever order open, close, pipe,
\* dup, dup2, execve and the other users of the allocator run in.
THEOREM FdInvTheorem == Spec => []FdInv
<1>1. Init => FdInv
  BY FdInvInit
<1>2. FdInv /\ [Next]_vars => FdInv'
  BY FdInvStep
<1>3. QED
  BY <1>1, <1>2, PTL DEF Spec

\* No close frees a page of the kernel, even through the stale descriptor
\* pointers dup and dup2 leave behind and whatever was written where their
\* data field was: free_page ignores those addresses.
THEOREM KernelPagesTheorem == Spec => []KernelPagesStayUsed
<1>1. FdInv => KernelPagesStayUsed
  BY DEF FdInv, Tables, Table, KernelPagesStayUsed
<1>2. QED
  BY <1>1, FdInvTheorem, PTL

\* In every reachable state an open, pipe or execve that fails has put back the
\* table and the bitmap, whichever of its allocations failed.
THEOREM FailedCallTheorem == Spec => []FailedCallUndone
<1>1. FdInv => FailedCallUndone
  <2> SUFFICES ASSUME FdInv, NEW r \in {OpenFile(Table), OpenPipe(Table), Execve(Table)},
                      ~ r.ok
               PROVE  r.t.files = open_files /\ r.t.bitmap = page_bitmap
    BY DEF FailedCallUndone
  <2>1. Table \in Tables /\ Table.files = open_files /\ Table.bitmap = page_bitmap
    BY DEF FdInv, Table
  <2>2. Undone(Table, r.t)
    <3>1. CASE r = OpenFile(Table)
      BY <2>1, <3>1, OpenFileResult
    <3>2. CASE r = OpenPipe(Table)
      BY <2>1, <3>2, OpenPipeResult
    <3>3. CASE r = Execve(Table)
      BY <2>1, <3>3, ExecveResult
    <3>4. QED
      BY <3>1, <3>2, <3>3
  <2>3. QED
    BY <2>1, <2>2 DEF Undone
<1>2. QED
  BY <1>1, FdInvTheorem, PTL

\* A set indexed without repetition is as large as the set of its indices.
LEMMA SameSize ==
  ASSUME NEW S, IsFiniteSet(S), NEW f, f = [x \in S |-> f[x]],
         \A x, y \in S : x # y => f[x] # f[y]
  PROVE  Cardinality({f[x] : x \in S}) = Cardinality(S)
<1> DEFINE T == {f[x] : x \in S}
<1>1. f \in Surjection(S, T)
  BY DEF Surjection
<1>2. f \in Injection(S, T)
  BY DEF Injection, IsInjective
<1>3. QED
  BY <1>1, <1>2, FS_Surjection

\* As long as no descriptor was duplicated, the pages marked used are exactly
\* the kernel's, the other users', and two different pages for each open
\* descriptor: open, close, pipe and execve leak nothing and share nothing.
THEOREM TableExactTheorem == Spec => []TableExact
<1>1. FdInv => TableExact
  <2> SUFFICES ASSUME FdInv, ~ duplicated
               PROVE  /\ Cardinality(DescriptorPages) = Cardinality(Opened)
                      /\ Cardinality(DataPages) = Cardinality(Opened)
                      /\ DescriptorPages \cap DataPages = {}
                      /\ (DescriptorPages \cup DataPages) \cap (Reserved \cup other) = {}
                      /\ page_bitmap = Reserved \cup other \cup DescriptorPages \cup DataPages
    BY DEF TableExact
  <2>1. /\ Exact(Table, other) /\ Holds(Table) = Opened
        /\ Table.files = open_files /\ Table.data = data /\ Table.bitmap = page_bitmap
    BY DEF FdInv, Table, Holds, Opened
  <2>2. /\ \A f \in Opened : /\ open_files[f] \notin Reserved \cup other
                             /\ data[open_files[f]] \notin Reserved \cup other
        /\ \A f, g \in Opened : open_files[f] # data[open_files[g]]
        /\ \A f, g \in Opened :
             f # g => open_files[f] # open_files[g] /\ data[open_files[f]] # data[open_files[g]]
        /\ \A p : p \in page_bitmap <=>
             \/ p \in Reserved \cup other
             \/ \E f \in Opened : p = open_files[f] \/ p = data[open_files[f]]
    BY <2>1 DEF Exact
  <2>3. IsFiniteSet(Opened)
    <3>1. IsFiniteSet(Fd)
      BY FdAssumption, FS_Interval DEF Fd
    <3>2. QED
      BY <3>1, FS_Subset DEF Opened
  <2>4. Cardinality(DescriptorPages) = Cardinality(Opened)
    <3> DEFINE f == [fd \in Opened |-> open_files[fd]]
    <3>1. \A x, y \in Opened : x # y => f[x] # f[y]
      BY <2>2
    <3>2. f = [x \in Opened |-> f[x]] /\ DescriptorPages = {f[x] : x \in Opened}
      BY DEF DescriptorPages
    <3> HIDE DEF f
    <3>3. QED
      BY <2>3, <3>1, <3>2, SameSize
  <2>5. Cardinality(DataPages) = Cardinality(Opened)
    <3> DEFINE f == [fd \in Opened |-> data[open_files[fd]]]
    <3>1. \A x, y \in Opened : x # y => f[x] # f[y]
      BY <2>2
    <3>2. f = [x \in Opened |-> f[x]] /\ DataPages = {f[x] : x \in Opened}
      BY DEF DataPages
    <3> HIDE DEF f
    <3>3. QED
      BY <2>3, <3>1, <3>2, SameSize
  <2>6. DescriptorPages \cap DataPages = {}
    BY <2>2 DEF DescriptorPages, DataPages
  <2>7. (DescriptorPages \cup DataPages) \cap (Reserved \cup other) = {}
    BY <2>2 DEF DescriptorPages, DataPages
  <2>8. page_bitmap = Reserved \cup other \cup DescriptorPages \cup DataPages
    BY <2>2 DEF DescriptorPages, DataPages
  <2>9. QED
    BY <2>4, <2>5, <2>6, <2>7, <2>8
<1>2. QED
  BY <1>1, FdInvTheorem, PTL

-----------------------------------------------------------------------------
(***************************************************************************)
(* The files behind the descriptors                                        *)
(***************************************************************************)
Bytes  == 0 .. Wrap - 1
Copies == [n : Bytes, offset : Bytes, size : 0 .. Limit]

\* What InsideUnlessPastEnd says of a copy.
Justified(copy) == copy.offset <= copy.size /\ copy.offset + copy.n < Wrap => Inside(copy)

\* What the calls work on: files no larger than a page, justified copies.
Works ==
  {w \in [off : [Files -> Bytes], size : [Files -> 0 .. Limit], copies : SUBSET Copies, ret : Int] :
     \A copy \in w.copies : Justified(copy)}

AllInside(w) == \A copy \in w.copies : Inside(copy)

\* A call on descriptor fd that returns r: the offset has moved by what it returns,
\* and a call that fails has left it alone or has copied outside the page.
Moved(w, r, fd) ==
  /\ r \in Works /\ w.copies \subseteq r.copies
  /\ r.ret >= 0 => r.off[fd] = U(w.off[fd] + r.ret)
  /\ r.ret < 0 /\ AllInside(r) => r.off[fd] = w.off[fd]

LEMMA Words ==
  /\ Wrap \in Nat \ {0} /\ Limit \in Nat \ {0} /\ Limit < Wrap /\ Limit + Limit < Wrap
  /\ 0 .. Limit \subseteq Bytes
  /\ \A n \in Bytes : /\ Signed(n) \in Int /\ Signed(n) <= n /\ (Signed(n) >= 0 => Signed(n) = n)
                      /\ (Signed(n) < 0 => n > Limit) /\ U(n) = n
  /\ \A n \in Int : U(n) \in Bytes
<1>1. Wrap \in Nat \ {0} /\ Limit \in Nat \ {0} /\ Limit < Wrap \div 2
  BY FileAssumption
<1>2. Wrap \div 2 \in Nat /\ Limit < Wrap /\ Limit + Limit < Wrap /\ Wrap \div 2 <= Wrap
  BY <1>1
<1>3. \A n \in Bytes : /\ Signed(n) \in Int /\ Signed(n) <= n /\ (Signed(n) >= 0 => Signed(n) = n)
                       /\ (Signed(n) < 0 => n > Limit)
  BY <1>1, <1>2 DEF Signed, Bytes
<1>4. \A n \in Bytes : U(n) = n
  BY <1>1 DEF U, Bytes
<1>5. \A n \in Int : U(n) \in Bytes
  BY <1>1 DEF U, Bytes
<1>6. QED
  BY <1>1, <1>2, <1>3, <1>4, <1>5 DEF Bytes

\* U where nothing wraps.
LEMMA Wrapping ==
  ASSUME NEW a \in Bytes, NEW b \in Bytes
  PROVE  /\ a + b < Wrap => U(a + b) = a + b
         /\ b <= a => U(a - b) = a - b
<1>1. a + b < Wrap => a + b \in Bytes
  BY Words DEF Bytes
<1>2. b <= a => a - b \in Bytes
  BY Words DEF Bytes
<1>3. QED
  BY <1>1, <1>2, Words

\* What a step of read or write makes of w.
Step(w, fd, n, s, ret, copies) ==
  [w EXCEPT !.ret = ret, !.off[fd] = U(w.off[fd] + n), !.size[fd] = s, !.copies = copies]

LEMMA StepMoves ==
  ASSUME NEW w \in Works, NEW fd \in Files, NEW n \in Bytes, NEW s \in 0 .. Limit,
         NEW c, c = w.copies \/ c = Copy(w, n, fd), n > 0 => c = Copy(w, n, fd),
         Justified([n |-> n, offset |-> w.off[fd], size |-> w.size[fd]])
  PROVE  Moved(w, Step(w, fd, n, s, Signed(n), c), fd)
<1> DEFINE r == Step(w, fd, n, s, Signed(n), c)
           new == [n |-> n, offset |-> w.off[fd], size |-> w.size[fd]]
<1>1. /\ w \in [off : [Files -> Bytes], size : [Files -> 0 .. Limit], copies : SUBSET Copies, ret : Int]
      /\ \A copy \in w.copies : Justified(copy)
  BY DEF Works
<1>2. w.off \in [Files -> Bytes] /\ w.size \in [Files -> 0 .. Limit] /\ w.copies \subseteq Copies
  BY <1>1
<1>3. w.off[fd] \in Bytes /\ w.size[fd] \in 0 .. Limit
  BY <1>2
<1>4. new \in Copies
  BY <1>3 DEF Copies
<1>5. Justified(new) /\ new.n = n /\ new.offset = w.off[fd]
  OBVIOUS
<1> HIDE DEF new
<1>6. c \subseteq w.copies \cup {new} /\ w.copies \subseteq c /\ (n > 0 => new \in c)
  BY DEF Copy, new
<1>7. c \subseteq Copies /\ \A copy \in c : Justified(copy)
  BY <1>1, <1>2, <1>4, <1>5, <1>6
<1>8. w.off[fd] + n \in Int /\ U(w.off[fd] + n) \in Bytes /\ Signed(n) \in Int
  BY <1>3, Words DEF Bytes
<1>9. /\ r.ret = Signed(n) /\ r.copies = c
      /\ r.off = [w.off EXCEPT ![fd] = U(w.off[fd] + n)] /\ r.size = [w.size EXCEPT ![fd] = s]
      /\ r \in [off : [Files -> Bytes], size : [Files -> 0 .. Limit], copies : SUBSET Copies, ret : Int]
  <2>1. /\ [w.off EXCEPT ![fd] = U(w.off[fd] + n)] \in [Files -> Bytes]
        /\ [w.size EXCEPT ![fd] = s] \in [Files -> 0 .. Limit]
    BY <1>2, <1>8
  <2> DEFINE o == [w.off EXCEPT ![fd] = U(w.off[fd] + n)]
             z == [w.size EXCEPT ![fd] = s]
             g == Signed(n)
  <2>2. r = [w EXCEPT !.ret = g, !.off = o, !.size = z, !.copies = c]
    BY <1>1 DEF Step
  <2>3. o \in [Files -> Bytes] /\ z \in [Files -> 0 .. Limit] /\ g \in Int
    BY <1>8, <2>1
  <2> HIDE DEF o, z, g, r
  <2>4. QED
    BY <1>1, <1>7, <2>2, <2>3 DEF o, z, g
<1> HIDE DEF r
<1>10. r \in Works
  BY <1>7, <1>9 DEF Works
<1>11. r.off[fd] = U(w.off[fd] + n)
  BY <1>2, <1>9
<1>12. r.ret >= 0 => r.off[fd] = U(w.off[fd] + r.ret)
  BY <1>9, <1>11, Words
<1>13. r.ret < 0 => ~ AllInside(r)
  <2>1. SUFFICES ASSUME r.ret < 0 PROVE ~ AllInside(r)
    OBVIOUS
  <2>2. n > Limit
    BY <1>9, <2>1, Words
  <2>3. new \in r.copies
    <3>1. n > 0
      BY <2>2, Words DEF Bytes
    <3>2. QED
      BY <1>6, <1>9, <3>1
  <2>4. ~ Inside(new)
    BY <1>3, <1>5, <2>2, Words DEF Inside, Bytes
  <2>5. QED
    BY <2>3, <2>4 DEF AllInside
<1>14. Moved(w, r, fd)
  BY <1>6, <1>9, <1>10, <1>12, <1>13 DEF Moved
<1>15. QED
  BY <1>14 DEF r

LEMMA Refused ==
  ASSUME NEW w \in Works, NEW fd \in Files
  PROVE  Moved(w, [w EXCEPT !.ret = -1], fd)
<1> DEFINE r == [w EXCEPT !.ret = -1]
<1>1. r \in Works /\ r.copies = w.copies /\ r.off = w.off /\ r.ret = -1
  BY DEF Works
<1> HIDE DEF r
<1>2. Moved(w, r, fd)
  BY <1>1 DEF Moved
<1>3. QED
  BY <1>2 DEF r

LEMMA ReadMoves ==
  ASSUME NEW w \in Works, NEW fd \in Files, NEW count \in Bytes
  PROVE  Moved(w, Read(w, fd, count), fd)
<1> DEFINE off == w.off[fd]
           s == w.size[fd]
           n == IF U(off + count) > s THEN U(s - off) ELSE count
           c == IF n > 0 THEN Copy(w, n, fd) ELSE w.copies
<1>1. off \in Bytes /\ s \in 0 .. Limit /\ w.size \in [Files -> 0 .. Limit] /\ s \in Bytes
  BY Words DEF Works
<1>2. CASE type[fd] # 0
  BY <1>2, Refused DEF Read
<1>3. CASE type[fd] = 0
  <2>1. n \in Bytes
    BY <1>1, Words DEF Bytes
  <2>2. off <= s /\ off + n < Wrap => off + n <= Limit
    <3>1. SUFFICES ASSUME off <= s, off + n < Wrap PROVE off + n <= Limit
      OBVIOUS
    <3>2. CASE U(off + count) > s
      <4>1. n = s - off
        BY <1>1, <3>1, <3>2, Wrapping
      <4> HIDE DEF n, off, s
      <4>2. QED
        BY <1>1, <4>1, Words DEF Bytes
    <3>3. CASE ~ U(off + count) > s
      <4>1. n = count /\ U(off + count) = off + count
        BY <1>1, <3>1, <3>3, Wrapping
      <4>2. off + count <= s
        <5> HIDE DEF off, s, n
        <5>1. off + count \in Int
          BY <1>1 DEF Bytes
        <5>2. QED
          BY <1>1, <3>3, <4>1, <5>1, Words DEF Bytes
      <4> HIDE DEF n, off, s
      <4>3. QED
        BY <1>1, <4>1, <4>2, Words DEF Bytes
    <3>4. QED
      BY <3>2, <3>3
  <2>3. Justified([n |-> n, offset |-> off, size |-> s])
    <3> HIDE DEF n, off, s
    <3>1. QED
      BY <2>2 DEF Justified, Inside
  <2>4. Read(w, fd, count) = [w EXCEPT !.ret = Signed(n), !.off[fd] = U(off + n), !.copies = c]
    BY <1>3 DEF Read
  <2>5. [w EXCEPT !.ret = Signed(n), !.off[fd] = U(off + n), !.copies = c]
          = Step(w, fd, n, s, Signed(n), c)
    <3>1. [w.size EXCEPT ![fd] = s] = w.size
      BY <1>1
    <3> HIDE DEF n, c
    <3>2. QED
      BY <3>1 DEF Step, Works
  <2>6. /\ c = w.copies \/ c = Copy(w, n, fd)
        /\ n > 0 => c = Copy(w, n, fd)
    <3> HIDE DEF n
    <3>1. QED
      OBVIOUS
  <2> HIDE DEF n, c
  <2>7. Moved(w, Step(w, fd, n, s, Signed(n), c), fd)
    BY <1>1, <2>1, <2>3, <2>6, StepMoves
  <2>8. QED
    BY <2>4, <2>5, <2>7
<1>4. QED
  BY <1>2, <1>3

LEMMA WriteMoves ==
  ASSUME NEW w \in Works, NEW fd \in Files, NEW count \in Bytes
  PROVE  Moved(w, Write(w, fd, count), fd)
<1> DEFINE off == w.off[fd]
           s == w.size[fd]
           end == U(off + count)
           z == IF end > s THEN end ELSE s
           c == Copy(w, count, fd)
<1>1. off \in Bytes /\ s \in 0 .. Limit /\ end \in Bytes
  BY Words DEF Works, Bytes
<1>2. CASE type[fd] # 0 \/ (end > s /\ end > Limit)
  BY <1>2, Refused DEF Write
<1>3. CASE ~ (type[fd] # 0 \/ (end > s /\ end > Limit))
  <2>1. z \in 0 .. Limit
    <3> HIDE DEF end, s
    <3>1. QED
      BY <1>1, <1>3, Words DEF Bytes
  <2>2. off + count < Wrap => off + count <= Limit
    <3>1. off + count < Wrap => end = off + count
      BY <1>1, Wrapping
    <3> HIDE DEF end, s, off
    <3>2. QED
      BY <1>1, <1>3, <3>1, Words DEF Bytes
  <2>3. Justified([n |-> count, offset |-> off, size |-> s])
    <3> HIDE DEF off, s
    <3>1. QED
      BY <2>2 DEF Justified, Inside
  <2>4. Write(w, fd, count) = Step(w, fd, count, z, Signed(count), c)
    BY <1>3 DEF Write, Step
  <2> HIDE DEF z, c
  <2>5. Moved(w, Step(w, fd, count, z, Signed(count), c), fd)
    BY <1>1, <2>1, <2>3, StepMoves DEF c
  <2>6. QED
    BY <2>4, <2>5
<1>4. QED
  BY <1>2, <1>3

LEMMA DoMoves ==
  ASSUME NEW op, NEW w \in Works, NEW fd \in Files, NEW count \in Bytes
  PROVE  Moved(w, Do(op, w, fd, count), fd)
BY ReadMoves, WriteMoves DEF Do

(***************************************************************************)
(* pread64 and pwrite64                                                    *)
(***************************************************************************)
LEMMA OffsetSet ==
  ASSUME NEW w \in Works, NEW fd \in Files, NEW o \in Bytes
  PROVE  /\ [w EXCEPT !.off[fd] = o] \in Works
         /\ [w EXCEPT !.off[fd] = o].off[fd] = o
<1> DEFINE f == [w.off EXCEPT ![fd] = o]
<1>1. w.off \in [Files -> Bytes]
  BY DEF Works
<1>2. f \in [Files -> Bytes] /\ f[fd] = o
  BY <1>1
<1>3. [w EXCEPT !.off[fd] = o] = [w EXCEPT !.off = f]
  BY DEF Works
<1> HIDE DEF f
<1> DEFINE r == [w EXCEPT !.off = f]
<1>4. r \in Works /\ r.off = f
  BY <1>2 DEF Works
<1> HIDE DEF r
<1>5. QED
  BY <1>2, <1>3, <1>4 DEF r

LEMMA AtResult ==
  ASSUME NEW w \in Works, NEW fd \in Files, NEW pos \in Bytes, NEW op, NEW count \in Bytes
  PROVE  At(w, fd, pos, op, count) \in Works /\ At(w, fd, pos, op, count).off[fd] = w.off[fd]
<1> DEFINE u == [w EXCEPT !.off[fd] = U(pos)]
           r == Do(op, u, fd, count)
<1>1. w.off[fd] \in Bytes /\ U(pos) \in Bytes
  BY Words DEF Works
<1>2. u \in Works
  BY <1>1, OffsetSet
<1>3. At(w, fd, pos, op, count) = [r EXCEPT !.off[fd] = w.off[fd]]
  BY DEF At
<1> HIDE DEF u
<1>4. r \in Works
  BY <1>2, DoMoves DEF Moved
<1> HIDE DEF r
<1>5. QED
  BY <1>1, <1>3, <1>4, OffsetSet

(***************************************************************************)
(* readv and writev. After some pieces the offset has moved by their total,*)
(* unless one of them has copied outside the page.                         *)
(***************************************************************************)
Parts(w, fd) ==
  {s \in [w : Works, total : Int, done : BOOLEAN] :
     /\ ~ s.done => s.total >= 0
     /\ s.total >= 0 /\ AllInside(s.w) => s.w.off[fd] = U(w.off[fd] + s.total)}

LEMMA PartsIntro ==
  ASSUME NEW w, NEW fd, NEW x \in Works, NEW total \in Int, NEW done \in BOOLEAN,
         ~ done => total >= 0,
         total >= 0 /\ AllInside(x) => x.off[fd] = U(w.off[fd] + total)
  PROVE  [w |-> x, total |-> total, done |-> done] \in Parts(w, fd)
<1> DEFINE s == [w |-> x, total |-> total, done |-> done]
<1>1. s.w = x /\ s.total = total /\ s.done = done
      /\ s \in [w : Works, total : Int, done : BOOLEAN]
  OBVIOUS
<1> HIDE DEF s
<1>2. s \in Parts(w, fd)
  BY <1>1 DEF Parts
<1>3. QED
  BY <1>2 DEF s

LEMMA PieceKeeps ==
  ASSUME NEW w \in Works, NEW fd \in Files, NEW op, NEW count \in Bytes, NEW s \in Parts(w, fd)
  PROVE  Piece(s, fd, op, count) \in Parts(w, fd)
<1> DEFINE r == Do(op, s.w, fd, count)
           off == w.off[fd]
<1>1. /\ s.w \in Works /\ s.total \in Int /\ s.done \in BOOLEAN
      /\ ~ s.done => s.total >= 0
      /\ s.total >= 0 /\ AllInside(s.w) => s.w.off[fd] = U(off + s.total)
  BY DEF Parts
<1>2. Moved(s.w, r, fd)
  BY <1>1, DoMoves
<1>3. off \in Bytes
  BY DEF Works
<1>4. CASE s.done \/ count = 0
  BY <1>4 DEF Piece
<1>5. CASE ~ (s.done \/ count = 0) /\ r.ret < 0
  <2> DEFINE t == IF s.total = 0 THEN r.ret ELSE s.total
  <2>1. Piece(s, fd, op, count) = [w |-> r, total |-> t, done |-> TRUE]
    BY <1>5 DEF Piece
  <2> HIDE DEF r, off
  <2>2. /\ r \in Works /\ s.w.copies \subseteq r.copies /\ r.ret \in Int
        /\ AllInside(r) => r.off[fd] = s.w.off[fd]
    BY <1>2, <1>5 DEF Moved, Works
  <2>3. AllInside(r) => AllInside(s.w)
    BY <2>2 DEF AllInside
  <2>4. t \in Int /\ (t >= 0 => t = s.total)
    BY <1>1, <1>5, <2>2
  <2> HIDE DEF t
  <2>5. t >= 0 /\ AllInside(r) => r.off[fd] = U(off + t)
    BY <1>1, <2>2, <2>3, <2>4
  <2>6. [w |-> r, total |-> t, done |-> TRUE] \in Parts(w, fd)
    BY <2>2, <2>4, <2>5, PartsIntro DEF off
  <2>7. QED
    BY <2>1, <2>6
<1>6. CASE ~ (s.done \/ count = 0) /\ ~ (r.ret < 0)
  <2> DEFINE t == s.total + r.ret
             d == (r.ret < Signed(count))
  <2>1. Piece(s, fd, op, count) = [w |-> r, total |-> t, done |-> d]
    BY <1>6 DEF Piece
  <2> HIDE DEF r, off
  <2>2. r \in Works /\ s.w.copies \subseteq r.copies /\ r.ret \in Int
    BY <1>2 DEF Moved, Works
  <2>3. r.ret \in Nat /\ s.total \in Nat
    BY <1>1, <1>6, <2>2
  <2>4. r.off[fd] = U(s.w.off[fd] + r.ret)
    BY <1>2, <2>3 DEF Moved
  <2>5. AllInside(r) => AllInside(s.w)
    BY <2>2 DEF AllInside
  <2>6. AllInside(r) => r.off[fd] = U(U(off + s.total) + r.ret)
    BY <1>1, <2>3, <2>4, <2>5
  <2>7. U(U(off + s.total) + r.ret) = U(off + t)
    <3>1. off + s.total \in Nat /\ Wrap \in Nat \ {0} /\ off \in Nat
      BY <1>3, <2>3, Words DEF Bytes
    <3>2. U(U(off + s.total) + r.ret) = U((off + s.total) + r.ret)
      BY <2>3, <3>1, RemainderOfSum DEF U
    <3>3. (off + s.total) + r.ret = off + t
      BY <2>3, <3>1
    <3>4. QED
      BY <3>2, <3>3
  <2>8. t \in Int /\ t >= 0 /\ d \in BOOLEAN
    BY <2>3
  <2> HIDE DEF t, d
  <2>9. [w |-> r, total |-> t, done |-> d] \in Parts(w, fd)
    BY <2>2, <2>6, <2>7, <2>8, PartsIntro DEF off
  <2>10. QED
    BY <2>1, <2>9
<1>7. QED
  BY <1>4, <1>5, <1>6

LEMMA VectorLoop ==
  ASSUME NEW w, NEW fd, NEW iov, NEW op, Len(iov) \in Nat, NEW S,
         [w |-> w, total |-> 0, done |-> FALSE] \in S,
         \A k \in 1 .. Len(iov), s \in S : Piece(s, fd, op, iov[k]) \in S
  PROVE  \E s \in S : Vector(w, fd, iov, op) = [s.w EXCEPT !.ret = s.total]
<1> DEFINE n == Len(iov)
           s0 == [w |-> w, total |-> 0, done |-> FALSE]
           F == [k \in 1 .. n |-> [s \in S |-> Piece(s, fd, op, iov[k])]]
           P(f) == f = [k \in 0 .. n |-> IF k = 0 THEN s0 ELSE Piece(f[k - 1], fd, op, iov[k])]
           pieces == CHOOSE f : P(f)
<1>1. s0 \in S /\ n \in Nat
  OBVIOUS
<1>2. F \in [1 .. n -> [S -> S]]
  OBVIOUS
<1> HIDE DEF s0, n
<1>3. PICK g \in [0 .. n -> S] : Rounds(g, s0, F, n)
  <2> HIDE DEF F
  <2>1. QED
    BY <1>1, <1>2, LoopExists
<1>4. \A k \in 1 .. n : g[k] = Piece(g[k - 1], fd, op, iov[k])
  <2>1. TAKE k \in 1 .. n
  <2>2. k - 1 \in 0 .. n
    BY <1>1
  <2>3. g[k - 1] \in S /\ g[k] = F[k][g[k - 1]]
    BY <1>3, <2>2 DEF Rounds
  <2>4. QED
    BY <2>3
<1>5. \A k \in 0 .. n : g[k] = IF k = 0 THEN s0 ELSE Piece(g[k - 1], fd, op, iov[k])
  <2>1. TAKE k \in 0 .. n
  <2>2. k = 0 \/ k \in 1 .. n
    BY <1>1
  <2>3. QED
    BY <1>3, <1>4, <2>2 DEF Rounds
<1>6. P(g)
  BY <1>5
<1>7. P(pieces)
  BY <1>6
<1> HIDE DEF pieces
<1>8. \A k \in 0 .. n : pieces[k] = IF k = 0 THEN s0 ELSE Piece(pieces[k - 1], fd, op, iov[k])
  BY <1>7
<1> DEFINE Q == {k \in 0 .. n : pieces[k] \in S}
<1>9. 0 \in Q /\ \A k \in 1 .. n : k - 1 \in Q => k \in Q
  BY <1>1, <1>8 DEF n
<1>10. n \in Q
  <2> HIDE DEF Q
  <2>1. QED
    BY <1>1, <1>9, RoundInduction
<1>11. Vector(w, fd, iov, op) = [pieces[n].w EXCEPT !.ret = pieces[n].total]
  BY DEF Vector, pieces, s0, n
<1>12. QED
  BY <1>10, <1>11

LEMMA ReturnSet ==
  ASSUME NEW w \in Works, NEW ret \in Int
  PROVE  LET r == [w EXCEPT !.ret = ret]
         IN  r \in Works /\ r.ret = ret /\ r.off = w.off /\ r.copies = w.copies
BY DEF Works

LEMMA VectorMoves ==
  ASSUME NEW w \in Works, NEW fd \in Files, NEW iov \in Vectors, NEW op
  PROVE  LET r == Vector(w, fd, iov, op)
         IN  /\ r \in Works
             /\ r.ret >= 0 /\ AllInside(r) => r.off[fd] = U(w.off[fd] + r.ret)
<1>1. Len(iov) \in Nat /\ \A k \in 1 .. Len(iov) : iov[k] \in Bytes
  <2>1. PICK m \in 1 .. MaxPieces : iov \in [1 .. m -> Counts]
    BY DEF Vectors
  <2>2. m \in Nat
    BY FileAssumption
  <2>3. iov \in Seq(Counts)
    BY <2>1, <2>2
  <2>4. Len(iov) = m
    BY <2>1, <2>2, <2>3
  <2>5. \A k \in 1 .. m : iov[k] \in Counts
    BY <2>1
  <2>6. QED
    BY <2>2, <2>4, <2>5, FileAssumption DEF Bytes
<1>2. [w |-> w, total |-> 0, done |-> FALSE] \in Parts(w, fd)
  <2>1. w.off[fd] \in Bytes
    BY DEF Works
  <2>2. U(w.off[fd] + 0) = w.off[fd]
    BY <2>1, Words DEF Bytes
  <2> DEFINE s == [w |-> w, total |-> 0, done |-> FALSE]
  <2>3. s \in [w : Works, total : Int, done : BOOLEAN] /\ s.w = w /\ s.total = 0 /\ ~ s.done
    OBVIOUS
  <2> HIDE DEF s
  <2>4. s \in Parts(w, fd)
    BY <2>2, <2>3 DEF Parts
  <2>5. QED
    BY <2>4 DEF s
<1>3. \A k \in 1 .. Len(iov), s \in Parts(w, fd) : Piece(s, fd, op, iov[k]) \in Parts(w, fd)
  BY <1>1, PieceKeeps
<1>5. PICK s \in Parts(w, fd) : Vector(w, fd, iov, op) = [s.w EXCEPT !.ret = s.total]
  BY <1>1, <1>2, <1>3, VectorLoop
<1>6. /\ s.w \in Works /\ s.total \in Int
      /\ s.total >= 0 /\ AllInside(s.w) => s.w.off[fd] = U(w.off[fd] + s.total)
  BY DEF Parts
<1> DEFINE r == Vector(w, fd, iov, op)
<1>7. r \in Works /\ r.ret = s.total /\ r.off = s.w.off /\ r.copies = s.w.copies
  BY <1>5, <1>6, ReturnSet
<1> HIDE DEF r
<1>8. AllInside(r) => AllInside(s.w)
  BY <1>7 DEF AllInside
<1>9. r \in Works /\ (r.ret >= 0 /\ AllInside(r) => r.off[fd] = U(w.off[fd] + r.ret))
  BY <1>6, <1>7, <1>8
<1>10. QED
  BY <1>9 DEF r

(***************************************************************************)
(* sendfile                                                                *)
(***************************************************************************)
Chunks == [w : Works, count : Bytes, total : Int, done : BOOLEAN]

LEMMA ChunkKeeps ==
  ASSUME NEW out \in Files, NEW in \in Files, NEW s \in Chunks
  PROVE  Chunk(s, out, in) \in Chunks
<1> DEFINE c == IF s.count < Limit THEN s.count ELSE Limit
           r == Read(s.w, in, c)
           v == Write(r, out, U(r.ret))
<1>1. s.w \in Works /\ s.count \in Bytes /\ s.total \in Int /\ c \in Bytes
  BY Words DEF Chunks, Bytes
<1>2. Chunk(s, out, in) \in
        {s, [s EXCEPT !.w = r, !.done = TRUE], [s EXCEPT !.w = v, !.done = TRUE],
         [w |-> v, count |-> U(s.count - v.ret), total |-> s.total + v.ret,
          done |-> v.ret # r.ret]}
  BY DEF Chunk
<1> HIDE DEF c
<1>3. r \in Works
  BY <1>1, ReadMoves DEF Moved
<1> HIDE DEF r
<1>4. r.ret \in Int /\ U(r.ret) \in Bytes
  BY <1>3, Words DEF Works
<1>5. v \in Works
  BY <1>3, <1>4, WriteMoves DEF Moved
<1> HIDE DEF v
<1>6. v.ret \in Int
  BY <1>5 DEF Works
<1>7. U(s.count - v.ret) \in Bytes /\ s.total + v.ret \in Int
  BY <1>1, <1>6, Words DEF Bytes
<1>8. [s EXCEPT !.w = r, !.done = TRUE] \in Chunks /\ [s EXCEPT !.w = v, !.done = TRUE] \in Chunks
  BY <1>3, <1>5 DEF Chunks
<1> DEFINE k == U(s.count - v.ret)
           t == s.total + v.ret
           d == v.ret # r.ret
<1>9. k \in Bytes /\ t \in Int /\ d \in BOOLEAN
  BY <1>7
<1> HIDE DEF k, t, d
<1>10. [w |-> v, count |-> k, total |-> t, done |-> d] \in Chunks
  BY <1>5, <1>9 DEF Chunks
<1>11. QED
  BY <1>2, <1>8, <1>10 DEF k, t, d

LEMMA SendResult ==
  ASSUME NEW w \in Works, NEW out \in Files, NEW in \in Files, NEW count \in Bytes
  PROVE  Send(w, out, in, count) \in Works
<1> DEFINE n == Limit + 1
           s0 == [w |-> w, count |-> count, total |-> 0, done |-> FALSE]
           F == [k \in 1 .. n |-> [s \in Chunks |-> Chunk(s, out, in)]]
           P(f) == f = [k \in 0 .. n |-> IF k = 0 THEN s0 ELSE Chunk(f[k - 1], out, in)]
           rounds == CHOOSE f : P(f)
<1>1. s0 \in Chunks /\ n \in Nat
  BY Words DEF Chunks
<1>2. F \in [1 .. n -> [Chunks -> Chunks]]
  BY ChunkKeeps
<1> HIDE DEF s0, n
<1>3. PICK g \in [0 .. n -> Chunks] : Rounds(g, s0, F, n)
  <2> HIDE DEF F
  <2>1. QED
    BY <1>1, <1>2, LoopExists
<1>4. \A k \in 1 .. n : g[k] = Chunk(g[k - 1], out, in)
  <2>1. TAKE k \in 1 .. n
  <2>2. k - 1 \in 0 .. n
    BY <1>1
  <2>3. g[k - 1] \in Chunks /\ g[k] = F[k][g[k - 1]]
    BY <1>3, <2>2 DEF Rounds
  <2>4. QED
    BY <2>3
<1>5. \A k \in 0 .. n : g[k] = IF k = 0 THEN s0 ELSE Chunk(g[k - 1], out, in)
  <2>1. TAKE k \in 0 .. n
  <2>2. k = 0 \/ k \in 1 .. n
    BY <1>1
  <2>3. QED
    BY <1>3, <1>4, <2>2 DEF Rounds
<1>6. P(g)
  BY <1>5
<1>7. P(rounds)
  BY <1>6
<1> HIDE DEF rounds
<1>8. \A k \in 0 .. n : rounds[k] = IF k = 0 THEN s0 ELSE Chunk(rounds[k - 1], out, in)
  BY <1>7
<1> DEFINE Q == {k \in 0 .. n : rounds[k] \in Chunks}
<1>9. 0 \in Q /\ \A k \in 1 .. n : k - 1 \in Q => k \in Q
  BY <1>1, <1>8, ChunkKeeps
<1>10. n \in Q
  <2> HIDE DEF Q
  <2>1. QED
    BY <1>1, <1>9, RoundInduction
<1>11. Send(w, out, in, count) = [rounds[n].w EXCEPT !.ret = rounds[n].total]
  BY DEF Send, rounds, s0, n
<1>12. rounds[n].w \in Works /\ rounds[n].total \in Int
  BY <1>10 DEF Chunks
<1>13. QED
  BY <1>11, <1>12, ReturnSet

-----------------------------------------------------------------------------
(***************************************************************************)
(* The inductive invariant of FileIO, and what every call does.            *)
(***************************************************************************)
FileInv ==
  /\ offset \in [Files -> Bytes] /\ size \in [Files -> 0 .. Limit]
  /\ \A copy \in last.copies : Justified(copy)

\* A call on fd that returns r keeps the invariant and, when it is one of
\* those OffsetMatchesReturn is about, reports what it did.
Reports(call, fd, r) ==
  /\ r \in Works
  /\ call \in {"read", "write", "readv", "writev"} /\ r.ret >= 0 /\ AllInside(r)
       => r.off[fd] = U(offset[fd] + r.ret)
  /\ call \in {"pread", "pwrite"} => r.off[fd] = offset[fd]

LEMMA FileInitInv == FileInit => FileInv
BY Words DEF FileInit, FileInv, Bytes

LEMMA WorkIsSound == FileInv => Work \in Works /\ Work.off = offset /\ Work.size = size
BY DEF FileInv, Work, Works

LEMMA CallReports ==
  ASSUME FileInv, FileNext
  PROVE  \E call, fd, r : fd \in Files /\ FileReturn(call, fd, r) /\ Reports(call, fd, r)
<1>0. Work \in Works /\ Work.off = offset /\ Work.size = size
  BY WorkIsSound
<1>1. Counts \subseteq Bytes /\ Seeks \subseteq Bytes
  BY FileAssumption DEF Bytes
<1>2. PICK fd \in Files :
        \/ \E n \in Counts : sys_read(fd, n) \/ sys_write(fd, n)
        \/ \E n \in Counts, pos \in Seeks : sys_pread64(fd, n, pos) \/ sys_pwrite64(fd, n, pos)
        \/ \E iov \in Vectors : sys_readv(fd, iov) \/ sys_writev(fd, iov)
        \/ \E by \in Seeks, whence \in {"SET", "CUR", "END"} : sys_lseek(fd, by, whence)
        \/ \E in \in Files, n \in Counts : sys_sendfile(fd, in, n)
  BY DEF FileNext
<1>3. ASSUME NEW n \in Counts, sys_read(fd, n)
      PROVE  FileReturn("read", fd, Read(Work, fd, n)) /\ Reports("read", fd, Read(Work, fd, n))
  <2> DEFINE r == Read(Work, fd, n)
  <2>1. Moved(Work, r, fd)
    BY <1>0, <1>1, ReadMoves
  <2>2. FileReturn("read", fd, r)
    BY <1>3 DEF sys_read
  <2> HIDE DEF r
  <2>3. Reports("read", fd, r)
    BY <1>0, <2>1 DEF Reports, Moved
  <2>4. QED
    BY <2>2, <2>3 DEF r
<1>4. ASSUME NEW n \in Counts, sys_write(fd, n)
      PROVE  FileReturn("write", fd, Write(Work, fd, n)) /\ Reports("write", fd, Write(Work, fd, n))
  <2> DEFINE r == Write(Work, fd, n)
  <2>1. Moved(Work, r, fd)
    BY <1>0, <1>1, WriteMoves
  <2>2. FileReturn("write", fd, r)
    BY <1>4 DEF sys_write
  <2> HIDE DEF r
  <2>3. Reports("write", fd, r)
    BY <1>0, <2>1 DEF Reports, Moved
  <2>4. QED
    BY <2>2, <2>3 DEF r
<1>5. ASSUME NEW n \in Counts, NEW pos \in Seeks, sys_pread64(fd, n, pos)
      PROVE  \E r : FileReturn("pread", fd, r) /\ Reports("pread", fd, r)
  <2> DEFINE r == At(Work, fd, pos, "read", n)
  <2>1. r \in Works /\ r.off[fd] = offset[fd]
    BY <1>0, <1>1, AtResult
  <2>2. FileReturn("pread", fd, r)
    BY <1>5 DEF sys_pread64
  <2> HIDE DEF r
  <2>3. QED
    BY <2>1, <2>2 DEF Reports
<1>6. ASSUME NEW n \in Counts, NEW pos \in Seeks, sys_pwrite64(fd, n, pos)
      PROVE  \E r : FileReturn("pwrite", fd, r) /\ Reports("pwrite", fd, r)
  <2> DEFINE r == At(Work, fd, pos, "write", n)
  <2>1. r \in Works /\ r.off[fd] = offset[fd]
    BY <1>0, <1>1, AtResult
  <2>2. FileReturn("pwrite", fd, r)
    BY <1>6 DEF sys_pwrite64
  <2> HIDE DEF r
  <2>3. QED
    BY <2>1, <2>2 DEF Reports
<1>7. ASSUME NEW iov \in Vectors, sys_readv(fd, iov)
      PROVE  \E r : FileReturn("readv", fd, r) /\ Reports("readv", fd, r)
  <2> DEFINE r == Vector(Work, fd, iov, "read")
  <2>1. r \in Works /\ (r.ret >= 0 /\ AllInside(r) => r.off[fd] = U(Work.off[fd] + r.ret))
    BY <1>0, VectorMoves
  <2>2. FileReturn("readv", fd, r)
    BY <1>7 DEF sys_readv
  <2> HIDE DEF r
  <2>3. QED
    BY <1>0, <2>1, <2>2 DEF Reports
<1>8. ASSUME NEW iov \in Vectors, sys_writev(fd, iov)
      PROVE  \E r : FileReturn("writev", fd, r) /\ Reports("writev", fd, r)
  <2> DEFINE r == Vector(Work, fd, iov, "write")
  <2>1. r \in Works /\ (r.ret >= 0 /\ AllInside(r) => r.off[fd] = U(Work.off[fd] + r.ret))
    BY <1>0, VectorMoves
  <2>2. FileReturn("writev", fd, r)
    BY <1>8 DEF sys_writev
  <2> HIDE DEF r
  <2>3. QED
    BY <1>0, <2>1, <2>2 DEF Reports
<1>9. ASSUME NEW by \in Seeks, NEW whence \in {"SET", "CUR", "END"}, sys_lseek(fd, by, whence)
      PROVE  \E r : FileReturn("lseek", fd, r) /\ Reports("lseek", fd, r)
  <2> DEFINE base == CASE whence = "SET" -> 0
                       [] whence = "CUR" -> offset[fd]
                       [] whence = "END" -> size[fd]
             to == Signed(U(base + by))
             w  == IF to < 0 THEN [Work EXCEPT !.ret = -1]
                             ELSE [Work EXCEPT !.ret = to, !.off[fd] = to]
  <2>1. FileReturn("lseek", fd, w)
    BY <1>9 DEF sys_lseek
  <2>2. base \in Int
    <3>1. offset[fd] \in Int /\ size[fd] \in Int
      BY DEF FileInv, Bytes
    <3>2. QED
      BY <3>1
  <2>3. by \in Int
    BY <1>1 DEF Bytes
  <2> HIDE DEF base
  <2>4. U(base + by) \in Bytes
    BY <2>2, <2>3, Words
  <2>5. to \in Int /\ (~ (to < 0) => to \in Bytes)
    BY <2>4, Words
  <2> HIDE DEF to
  <2>6. [Work EXCEPT !.ret = -1] \in Works
    BY <1>0, ReturnSet
  <2>7. ~ (to < 0) => [Work EXCEPT !.ret = to, !.off[fd] = to] \in Works
    <3>1. SUFFICES ASSUME ~ (to < 0) PROVE [Work EXCEPT !.ret = to, !.off[fd] = to] \in Works
      OBVIOUS
    <3> DEFINE x == [Work EXCEPT !.ret = to]
    <3>2. x \in Works
      BY <1>0, <2>5, ReturnSet
    <3>3. [Work EXCEPT !.ret = to, !.off[fd] = to] = [x EXCEPT !.off[fd] = to]
      BY <1>0 DEF Works
    <3> HIDE DEF x
    <3>4. QED
      BY <2>5, <3>1, <3>2, <3>3, OffsetSet
  <2>8. w \in Works
    BY <2>6, <2>7
  <2> HIDE DEF w
  <2>9. QED
    BY <2>1, <2>8 DEF Reports
<1>10. ASSUME NEW in \in Files, NEW n \in Counts, sys_sendfile(fd, in, n)
       PROVE  \E r : FileReturn("sendfile", fd, r) /\ Reports("sendfile", fd, r)
  <2> DEFINE r == Send(Work, fd, in, n)
  <2>1. r \in Works
    BY <1>0, <1>1, SendResult
  <2>2. FileReturn("sendfile", fd, r)
    BY <1>10 DEF sys_sendfile
  <2> HIDE DEF r
  <2>3. QED
    BY <2>1, <2>2 DEF Reports
<1>11. CASE \E n \in Counts : sys_read(fd, n) \/ sys_write(fd, n)
  BY <1>3, <1>4, <1>11
<1>12. CASE \E n \in Counts, pos \in Seeks : sys_pread64(fd, n, pos) \/ sys_pwrite64(fd, n, pos)
  BY <1>5, <1>6, <1>12
<1>13. CASE \E iov \in Vectors : sys_readv(fd, iov) \/ sys_writev(fd, iov)
  BY <1>7, <1>8, <1>13
<1>14. CASE \E by \in Seeks, whence \in {"SET", "CUR", "END"} : sys_lseek(fd, by, whence)
  BY <1>9, <1>14
<1>15. CASE \E in \in Files, n \in Counts : sys_sendfile(fd, in, n)
  BY <1>10, <1>15
<1>16. QED
  BY <1>2, <1>11, <1>12, <1>13, <1>14, <1>15

LEMMA FileInvStep == FileInv /\ [FileNext]_fileVars => FileInv'
<1> SUFFICES ASSUME FileInv, [FileNext]_fileVars PROVE FileInv'
  OBVIOUS
<1>1. CASE UNCHANGED fileVars
  BY <1>1 DEF fileVars, FileInv, Justified, Inside
<1>2. CASE FileNext
  <2>1. PICK call, fd, r : fd \in Files /\ FileReturn(call, fd, r) /\ Reports(call, fd, r)
    BY <1>2, CallReports
  <2>2. offset' = r.off /\ size' = r.size /\ last'.copies = r.copies
    BY <2>1 DEF FileReturn
  <2>3. r \in Works
    BY <2>1 DEF Reports
  <2>4. /\ r.off \in [Files -> Bytes] /\ r.size \in [Files -> 0 .. Limit]
        /\ \A copy \in r.copies : Justified(copy)
    BY <2>3 DEF Works
  <2>5. QED
    BY <2>2, <2>4 DEF FileInv
<1>3. QED
  BY <1>1, <1>2

\* Files are never larger than their page and every copy is justified, whatever
\* reads, writes, vectors, seeks and sendfile calls went before.
THEOREM FileInvTheorem == FileSpec => []FileInv
<1>1. FileInv /\ [(\A copy \in last.copies : Inside(copy)) /\ FileNext]_fileVars => FileInv'
  BY FileInvStep
<1>2. QED
  BY <1>1, FileInitInv, PTL DEF FileSpec

\* A copy from an offset within the file, by a count that does not wrap, stays
\* inside the data page, for every size of the page and of size_t, and in every
\* round of a vector call or sendfile.
THEOREM InsideTheorem == FileSpec => []InsideUnlessPastEnd
<1>1. FileInv => InsideUnlessPastEnd
  <2>1. ASSUME FileInv, NEW fd \in Files PROVE size[fd] <= Limit
    BY <2>1, Words DEF FileInv
  <2>2. QED
    BY <2>1 DEF FileInv, InsideUnlessPastEnd, Justified
<1>2. QED
  BY <1>1, FileInvTheorem, PTL

\* read, write, readv and writev move the offset by just what they return, also
\* when a later piece failed; pread64 and pwrite64 put it back.
THEOREM OffsetTheorem == FileSpec => OffsetMatchesReturn
<1> DEFINE A == \A fd \in Files :
                  last'.fd = fd /\ last' # last /\ (\A copy \in last'.copies : Inside(copy)) =>
                    /\ last'.call \in {"read", "write", "readv", "writev"} /\ last'.ret >= 0
                         => offset'[fd] = U(offset[fd] + last'.ret)
                    /\ last'.call \in {"pread", "pwrite"} => offset'[fd] = offset[fd]
<1>1. ASSUME FileInv, FileNext PROVE A
  <2>1. PICK call, fd, r : fd \in Files /\ FileReturn(call, fd, r) /\ Reports(call, fd, r)
    BY <1>1, CallReports
  <2>2. /\ offset' = r.off /\ last'.copies = r.copies /\ last'.fd = fd
        /\ last'.call = call /\ last'.ret = r.ret
    BY <2>1 DEF FileReturn
  <2>3. QED
    BY <2>1, <2>2 DEF Reports, AllInside
<1>2. FileInv /\ [(\A copy \in last.copies : Inside(copy)) /\ FileNext]_fileVars => [A]_fileVars
  BY <1>1
<1>3. QED
  BY <1>2, FileInvTheorem, PTL DEF FileSpec, OffsetMatchesReturn

=============================================================================
