------------------------------- MODULE FileIO -------------------------------
(***************************************************************************)
(* Reading, writing and seeking in the in-memory files of kernel.c. A file *)
(* is a data page with a size and an offset, all size_t. Contents are left *)
(* out: what matters here is where a memcpy starts and how long it is.     *)
(*                                                                         *)
(* Arithmetic is modulo Wrap, which stands for 2^64. A result of sys_read  *)
(* or sys_write is also converted to int: the upper half of the numbers    *)
(* reads as negative. Numbers between 2^31 and 2^63 have no counterpart.   *)
(***************************************************************************)
EXTENDS Integers, Sequences

CONSTANTS
  Files,       \* the open descriptors
  Limit,       \* the size of a data page, and of sendfile's buffer (4096)
  Wrap,        \* 2^64
  MaxPieces,   \* bound: the pieces of a vector
  Counts,      \* bound: the byte counts programs ask for
  Seeks        \* bound: the offsets given to lseek, pread64 and pwrite64,
               \* modulo Wrap: Wrap - 1 is -1

ASSUME FileAssumption ==
  /\ Limit \in Nat \ {0} /\ Wrap \in Nat /\ Limit < Wrap \div 2
  /\ MaxPieces \in Nat
  /\ Counts \subseteq 0 .. Wrap - 1
  /\ Seeks \subseteq 0 .. Wrap - 1

VARIABLES
  type,        \* 0 for a file, 1 for an end of a pipe
  offset,
  size,
  last         \* the last call: its name, its descriptors, its return value
               \* and the copies it made

fileVars == <<type, offset, size, last>>

Signed(n) == IF n >= Wrap \div 2 THEN n - Wrap ELSE n
U(n)      == n % Wrap

FileInit ==
  /\ type \in [Files -> {0, 1}]
  /\ offset = [fd \in Files |-> 0]
  /\ size = [fd \in Files |-> 0]
  /\ last = [call |-> "none", fd |-> CHOOSE fd \in Files : TRUE, ret |-> 0, copies |-> {}]

\* What a call works on: the offsets, the sizes and the copies made so far.
Work == [off |-> offset, size |-> size, copies |-> {}, ret |-> 0]

\* A copy of n bytes at the offset, with the size the file then has.
Copy(w, n, fd) ==
  w.copies \cup {[n |-> n, offset |-> w.off[fd], size |-> w.size[fd]]}

-----------------------------------------------------------------------------
Read(w, fd, count) ==
  LET off == w.off[fd]
      n   == IF U(off + count) > w.size[fd] THEN U(w.size[fd] - off) ELSE count
  IN  IF type[fd] # 0 THEN [w EXCEPT !.ret = -1]
      ELSE [w EXCEPT !.ret = Signed(n),
                     !.off[fd] = U(off + n),
                     !.copies = IF n > 0 THEN Copy(w, n, fd) ELSE @]

\* Mutant: the size is set without looking at the limit.
Write_unlimited(w, fd, count) ==
  LET end == U(w.off[fd] + count)
  IN  IF type[fd] # 0 THEN [w EXCEPT !.ret = -1]
      ELSE [w EXCEPT !.ret = Signed(count),
                     !.off[fd] = end,
                     !.size[fd] = IF end > @ THEN end ELSE @,
                     !.copies = Copy(w, count, fd)]

Write(w, fd, count) ==
  LET end == U(w.off[fd] + count)
  IN  IF type[fd] # 0 \/ (end > w.size[fd] /\ end > Limit)
        THEN [w EXCEPT !.ret = -1]
      ELSE [w EXCEPT !.ret = Signed(count),
                     !.off[fd] = end,
                     !.size[fd] = IF end > @ THEN end ELSE @,
                     !.copies = Copy(w, count, fd)]

\* The call that a compound call makes.
Do(op, w, fd, count) == IF op = "read" THEN Read(w, fd, count) ELSE Write(w, fd, count)

\* pread64 and pwrite64 move the offset, do the call, and put it back.
\* Mutant: the offset is put back only when the call succeeded.
At_success_only(w, fd, pos, op, count) ==
  LET r == Do(op, [w EXCEPT !.off[fd] = U(pos)], fd, count)
  IN  IF r.ret < 0 THEN r ELSE [r EXCEPT !.off[fd] = w.off[fd]]

At(w, fd, pos, op, count) ==
  [Do(op, [w EXCEPT !.off[fd] = U(pos)], fd, count) EXCEPT !.off[fd] = w.off[fd]]

(***************************************************************************)
(* readv and writev: one call per piece until one fails or falls short.    *)
(* The total is what was moved; a failure counts only if it is the first.  *)
(***************************************************************************)
Piece(s, fd, op, count) ==
  LET r == Do(op, s.w, fd, count)
  IN  IF s.done \/ count = 0 THEN s
      ELSE IF r.ret < 0
        THEN [w |-> r, total |-> IF s.total = 0 THEN r.ret ELSE s.total, done |-> TRUE]
        ELSE [w |-> r, total |-> s.total + r.ret, done |-> r.ret < Signed(count)]

Vector(w, fd, iov, op) ==
  LET pieces[k \in 0 .. Len(iov)] ==
        IF k = 0 THEN [w |-> w, total |-> 0, done |-> FALSE]
                 ELSE Piece(pieces[k - 1], fd, op, iov[k])
      s == pieces[Len(iov)]
  IN  [s.w EXCEPT !.ret = s.total]

(***************************************************************************)
(* sendfile: a loop of a read into a buffer and a write from it.           *)
(***************************************************************************)
Chunk(s, out, in) ==
  LET r == Read(s.w, in, IF s.count < Limit THEN s.count ELSE Limit)
      v == Write(r, out, U(r.ret))
  IN  IF s.done \/ s.count = 0 THEN s
      ELSE IF r.ret <= 0 THEN [s EXCEPT !.w = r, !.done = TRUE]
      ELSE IF v.ret <= 0 THEN [s EXCEPT !.w = v, !.done = TRUE]
      ELSE [w |-> v, count |-> U(s.count - v.ret), total |-> s.total + v.ret,
            done |-> v.ret # r.ret]

\* Every round but the last moves at least a byte, and the reader has no more
\* than Limit bytes to give: Limit + 1 rounds are enough.
Send(w, out, in, count) ==
  LET rounds[k \in 0 .. Limit + 1] ==
        IF k = 0 THEN [w |-> w, count |-> count, total |-> 0, done |-> FALSE]
                 ELSE Chunk(rounds[k - 1], out, in)
      s == rounds[Limit + 1]
  IN  [s.w EXCEPT !.ret = s.total]

-----------------------------------------------------------------------------
FileReturn(call, fd, w) ==
  /\ offset' = w.off
  /\ size' = w.size
  /\ last' = [call |-> call, fd |-> fd, ret |-> w.ret, copies |-> w.copies]
  /\ UNCHANGED type

sys_read(fd, n)           == FileReturn("read", fd, Read(Work, fd, n))
sys_write(fd, n)          == FileReturn("write", fd, Write(Work, fd, n))
sys_pread64(fd, n, pos)   == FileReturn("pread", fd, At(Work, fd, pos, "read", n))
sys_pwrite64(fd, n, pos)  == FileReturn("pwrite", fd, At(Work, fd, pos, "write", n))
sys_readv(fd, iov)        == FileReturn("readv", fd, Vector(Work, fd, iov, "read"))
sys_writev(fd, iov)       == FileReturn("writev", fd, Vector(Work, fd, iov, "write"))
sys_sendfile(out, in, n)  == FileReturn("sendfile", out, Send(Work, out, in, n))

\* SEEK_SET, SEEK_CUR and SEEK_END; a negative result is refused.
sys_lseek(fd, by, whence) ==
  LET base == CASE whence = "SET" -> 0
                [] whence = "CUR" -> offset[fd]
                [] whence = "END" -> size[fd]
      to   == Signed(U(base + by))
      w    == IF to < 0 THEN [Work EXCEPT !.ret = -1]
                        ELSE [Work EXCEPT !.ret = to, !.off[fd] = to]
  IN  FileReturn("lseek", fd, w)

Vectors == UNION {[1 .. k -> Counts] : k \in 1 .. MaxPieces}

FileNext ==
  \E fd \in Files :
    \/ \E n \in Counts : sys_read(fd, n) \/ sys_write(fd, n)
    \/ \E n \in Counts, pos \in Seeks : sys_pread64(fd, n, pos) \/ sys_pwrite64(fd, n, pos)
    \/ \E iov \in Vectors : sys_readv(fd, iov) \/ sys_writev(fd, iov)
    \/ \E by \in Seeks, whence \in {"SET", "CUR", "END"} : sys_lseek(fd, by, whence)
    \/ \E in \in Files, n \in Counts : sys_sendfile(fd, in, n)

\* A copy that leaves the data page has undefined effects: behaviours end.
Inside(copy) == copy.offset + copy.n <= Limit

FileSpec == FileInit /\ [][(\A copy \in last.copies : Inside(copy)) /\ FileNext]_fileVars

-----------------------------------------------------------------------------
(***************************************************************************)
(* Properties                                                              *)
(***************************************************************************)

\* The only ways out of the data page: an offset beyond the end of the file,
\* or a count so large that offset + count wraps. Reads, writes, vectors and
\* sendfile from an offset within the file stay inside. And a file never claims
\* to be larger than its page, although the sum that becomes its size may have
\* wrapped around.
InsideUnlessPastEnd ==
  /\ \A copy \in last.copies :
       copy.offset <= copy.size /\ copy.offset + copy.n < Wrap => Inside(copy)
  /\ \A fd \in Files : size[fd] <= Limit

\* What a call reports is what it did: read, write and the vector calls that
\* do not fail and stay inside the page move the offset by just the bytes they
\* return, also when a later piece of the vector failed; pread64 and pwrite64
\* do not move it.
OffsetMatchesReturn ==
  [][\A fd \in Files :
       last'.fd = fd /\ last' # last /\ (\A copy \in last'.copies : Inside(copy)) =>
         /\ last'.call \in {"read", "write", "readv", "writev"} /\ last'.ret >= 0
              => offset'[fd] = U(offset[fd] + last'.ret)
         /\ last'.call \in {"pread", "pwrite"} => offset'[fd] = offset[fd]]_fileVars

=============================================================================
