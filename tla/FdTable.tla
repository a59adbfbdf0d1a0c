------------------------------ MODULE FdTable -------------------------------
(***************************************************************************)
(* The descriptor table of a process, kernel.c: open, close, pipe, dup,    *)
(* dup2 and execve, over the page allocator of mm.c.                       *)
(*                                                                         *)
(* A descriptor is a page, and so is the data it points to. There is no    *)
(* reference count: dup copies the pointer, close frees both pages. Pages  *)
(* keep their contents when they are freed, so a descriptor pointer that   *)
(* outlives its page finds in it what the page's next user wrote there;    *)
(* the other users of the allocator are therefore part of this module.     *)
(***************************************************************************)
EXTENDS Mm

CONSTANTS
  MAX_OPEN_FILES,   \* 64 in the code
  Written           \* bound: what other users leave where a data field was

\* The addresses free_page ignores for not being page-aligned count as one.
Unaligned == PhysPages

ASSUME FdAssumption ==
  /\ MAX_OPEN_FILES \in Nat \ {0}
  /\ Written \subseteq Pages \cup {Unaligned}

Fd == 0 .. MAX_OPEN_FILES - 1

VARIABLES
  open_files,   \* current_process->open_files: a page, or NULL
  data,         \* the data field of the descriptor a page holds
  page_bitmap,
  other,        \* pages held by the other users of the allocator
  duplicated    \* history: a descriptor was once duplicated

vars == <<open_files, data, page_bitmap, other, duplicated>>

\* A system call works on the table, the memory and the bitmap.
Table == [files |-> open_files, data |-> data, bitmap |-> page_bitmap]

Init ==
  /\ open_files = [fd \in Fd |-> NULL]
  /\ data = [p \in Pages |-> NULL]
  /\ page_bitmap = mm_init
  /\ other = {}
  /\ duplicated = FALSE

-----------------------------------------------------------------------------
Unused(t) == {fd \in Fd : t.files[fd] = NULL}

\* A page for the descriptor, a page for the data; the first is given back
\* when there is no second.
NewDescriptor(t, fd) ==
  LET r1 == get_free_page(t.bitmap)
      r2 == get_free_page(r1.bitmap)
  IN  IF r1.page = NULL THEN [ok |-> FALSE, fd |-> fd, t |-> t]
      ELSE IF r2.page = NULL
        THEN [ok |-> FALSE, fd |-> fd,
              t |-> [t EXCEPT !.bitmap = free_page(r1.bitmap, r1.page, 0),
                              !.data[r1.page] = NULL]]
      ELSE [ok |-> TRUE, fd |-> fd,
            t |-> [t EXCEPT !.files[fd] = r1.page, !.data[r1.page] = r2.page,
                            !.bitmap = r2.bitmap]]

OpenFile(t) ==
  IF Unused(t) = {}
    THEN [ok |-> FALSE, fd |-> 0, t |-> t]
    ELSE NewDescriptor(t, Min(Unused(t)))

\* Mutant: the data page is forgotten.
CloseFile_descriptor_only(t, fd) ==
  [t EXCEPT !.files[fd] = NULL, !.bitmap = free_page(t.bitmap, t.files[fd], 0)]

CloseFile(t, fd) ==
  LET p == t.files[fd]
      freed == IF t.data[p] = NULL THEN t.bitmap ELSE free_page(t.bitmap, t.data[p], 0)
  IN  IF p = NULL THEN t
      ELSE [t EXCEPT !.files[fd] = NULL, !.bitmap = free_page(freed, p, 0)]

\* Mutant: the first end is left open when there is no second.
OpenPipe_keeps_first(t) ==
  LET one == OpenFile(t)
      two == OpenFile(one.t)
  IN  IF ~ one.ok THEN one ELSE two

OpenPipe(t) ==
  LET one == OpenFile(t)
      two == OpenFile(one.t)
  IN  IF ~ one.ok THEN one
      ELSE IF two.ok THEN two
      ELSE [two EXCEPT !.t = CloseFile(two.t, one.fd)]

(***************************************************************************)
(* execve reads the program through a descriptor it has just opened. The   *)
(* path plays no part in sys_open and a new file has size 0, so sys_read   *)
(* returns 0.                                                              *)
(***************************************************************************)
BytesRead == 0

Execve(t) ==
  LET program == get_free_page(t.bitmap)
      opened  == OpenFile([t EXCEPT !.bitmap = program.bitmap])
      closed  == CloseFile(opened.t, opened.fd)
      Release(u) == [u EXCEPT !.bitmap = free_page(u.bitmap, program.page, 0)]
  IN  IF program.page = NULL THEN [ok |-> FALSE, fd |-> 0, t |-> t]
      ELSE IF ~ opened.ok    THEN [ok |-> FALSE, fd |-> 0, t |-> Release(opened.t)]
      ELSE [ok |-> BytesRead > 0, fd |-> 0, t |-> Release(closed)]

-----------------------------------------------------------------------------
\* A system call ends with table t.
Return(t) ==
  /\ open_files' = t.files
  /\ data' = t.data
  /\ page_bitmap' = t.bitmap
  /\ UNCHANGED other

sys_open      == Return(OpenFile(Table).t)      /\ UNCHANGED duplicated
sys_pipe      == Return(OpenPipe(Table).t)      /\ UNCHANGED duplicated
sys_execve    == Return(Execve(Table).t)        /\ UNCHANGED duplicated
sys_close(fd) == Return(CloseFile(Table, fd))   /\ UNCHANGED duplicated

sys_dup(old) ==
  /\ open_files[old] # NULL
  /\ Unused(Table) # {}
  /\ Return([Table EXCEPT !.files[Min(Unused(Table))] = open_files[old]])
  /\ duplicated' = TRUE

\* newfd is closed first, also when it names the same descriptor as oldfd.
sys_dup2(old, new) ==
  /\ open_files[old] # NULL
  /\ old # new
  /\ Return([CloseFile(Table, new) EXCEPT !.files[new] = open_files[old]])
  /\ duplicated' = TRUE

\* The rest of the kernel takes a page, writes it, gives it back.
OtherTakes ==
  LET r == get_free_page(page_bitmap) IN
  /\ r.page # NULL
  /\ page_bitmap' = r.bitmap
  /\ other' = other \cup {r.page}
  /\ UNCHANGED <<open_files, data, duplicated>>

OtherWrites(p, value) ==
  /\ data' = [data EXCEPT ![p] = value]
  /\ UNCHANGED <<open_files, page_bitmap, other, duplicated>>

OtherFrees(p) ==
  /\ page_bitmap' = free_page(page_bitmap, p, 0)
  /\ other' = other \ {p}
  /\ UNCHANGED <<open_files, data, duplicated>>

Next ==
  \/ sys_open \/ sys_pipe \/ sys_execve
  \/ \E fd \in Fd : sys_close(fd)
  \/ OtherTakes
  \/ \E p \in other, value \in Written : OtherWrites(p, value)
  \/ \E p \in other : OtherFrees(p)
  \/ \E old \in Fd : sys_dup(old)
  \/ \E old, new \in Fd : sys_dup2(old, new)

Spec == Init /\ [][Next]_vars

-----------------------------------------------------------------------------
(***************************************************************************)
(* Properties                                                              *)
(***************************************************************************)

Opened == {fd \in Fd : open_files[fd] # NULL}

DescriptorPages == {open_files[fd] : fd \in Opened}
DataPages       == {data[open_files[fd]] : fd \in Opened}

\* As long as a program does not use dup every page has one role and one holder: the descriptors, their
\* data and what the others hold are all different pages outside the kernel,
\* and together with the kernel's they are just the pages marked used. So
\* nothing leaks through the failure paths of open, pipe and execve.
TableExact ==
  ~ duplicated =>
    /\ Cardinality(DescriptorPages) = Cardinality(Opened)
    /\ Cardinality(DataPages) = Cardinality(Opened)
    /\ DescriptorPages \cap DataPages = {}
    /\ (DescriptorPages \cup DataPages) \cap (Reserved \cup other) = {}
    /\ page_bitmap = Reserved \cup other \cup DescriptorPages \cup DataPages

\* With dup, close leaves pointers to freed pages behind whose data field may
\* have become any address. Still no close can release a page of the kernel.
KernelPagesStayUsed == Reserved \subseteq page_bitmap

\* An open, pipe or execve that fails at any of its allocations, or for want
\* of a second descriptor, leaves the table and the bitmap as they were -
\* whatever pointers dup and close have left dangling.
FailedCallUndone ==
  \A r \in {OpenFile(Table), OpenPipe(Table), Execve(Table)} :
    ~ r.ok => r.t.files = open_files /\ r.t.bitmap = page_bitmap

=============================================================================
