------------------------------- MODULE IOVec -------------------------------
(***************************************************************************)
(* The scatter/gather helpers of src/iov.c as operators.  An iovec entry   *)
(* is a base address and a length; the bytes an entry stands for are the   *)
(* addresses base .. base+len-1.  Each C loop is a RECURSIVE operator that *)
(* follows the loop's own variables, and each is checked against a         *)
(* reference definition in IOVecCheck.                                    *)
(***************************************************************************)
EXTENDS Integers, Sequences, SequencesExt

Entry(b, l) == [base |-> b, len |-> l]
Bytes(e) == [k \in 1..e.len |-> e.base + k - 1]
Flat(iov) == FlattenSeq([i \in DOMAIN iov |-> Bytes(iov[i])])
Lesser(a, b) == IF a < b THEN a ELSE b

\* iov_size: the sum of the entry lengths.
RECURSIVE SizeLoop(_, _, _)
SizeLoop(iov, i, len) ==
    IF i > Len(iov) THEN len ELSE SizeLoop(iov, i + 1, len + iov[i].len)
IovSize(iov) == SizeLoop(iov, 1, 0)

(***************************************************************************)
(* The loop shared by iov_from_buf, iov_to_buf and iov_memset.  It yields  *)
(* the addresses the copy touches in buffer order (buffer byte k goes to   *)
(* or comes from touched[k]), the count it returns, and whether the final  *)
(* assert(offset == 0) holds.                                              *)
(***************************************************************************)
\* The loop below with the offset test dropped from its condition.
RECURSIVE WalkLoopNoOffset(_, _, _, _, _, _)
WalkLoopNoOffset(iov, i, offset, walked, bytes, touched) ==
    IF walked < bytes /\ i <= Len(iov)
    THEN IF offset < iov[i].len
         THEN LET len == Lesser(iov[i].len - offset, bytes - walked)
              IN  WalkLoopNoOffset(iov, i + 1, 0, walked + len, bytes,
                           touched \o SubSeq(Bytes(iov[i]), offset + 1, offset + len))
         ELSE WalkLoopNoOffset(iov, i + 1, offset - iov[i].len, walked, bytes, touched)
    ELSE [touched |-> touched, walked |-> walked, ok |-> offset = 0]

\* walked is the C loop's done, touched the bytes it visits.
RECURSIVE WalkLoop(_, _, _, _, _, _)
WalkLoop(iov, i, offset, walked, bytes, touched) ==
    IF (offset # 0 \/ walked < bytes) /\ i <= Len(iov)
    THEN IF offset < iov[i].len
         THEN LET len == Lesser(iov[i].len - offset, bytes - walked)
              IN  WalkLoop(iov, i + 1, 0, walked + len, bytes,
                           touched \o SubSeq(Bytes(iov[i]), offset + 1, offset + len))
         ELSE WalkLoop(iov, i + 1, offset - iov[i].len, walked, bytes, touched)
    ELSE [touched |-> touched, walked |-> walked, ok |-> offset = 0]

IovFromBuf(iov, offset, bytes) == WalkLoop(iov, 1, offset, 0, bytes, <<>>)
IovToBuf(iov, offset, bytes) == WalkLoop(iov, 1, offset, 0, bytes, <<>>)
IovMemset(iov, offset, bytes) == WalkLoop(iov, 1, offset, 0, bytes, <<>>)

(***************************************************************************)
(* iov_copy: the loop stops when the destination is full or no bytes are   *)
(* left; j is the length of the destination built so far.                  *)
(***************************************************************************)
\* The copy loop taking the whole rest of each entry, the byte count ignored.
RECURSIVE CopyLoopWhole(_, _, _, _, _, _)
CopyLoopWhole(iov, i, dstCnt, offset, bytes, dst) ==
    IF i <= Len(iov) /\ Len(dst) < dstCnt /\ bytes # 0
    THEN IF offset >= iov[i].len
         THEN CopyLoopWhole(iov, i + 1, dstCnt, offset - iov[i].len, bytes, dst)
         ELSE LET len == iov[i].len - offset
              IN  CopyLoopWhole(iov, i + 1, dstCnt, 0, Max({bytes - len, 0}),
                           Append(dst, Entry(iov[i].base + offset, len)))
    ELSE [dst |-> dst, ok |-> offset = 0]

RECURSIVE CopyLoop(_, _, _, _, _, _)
CopyLoop(iov, i, dstCnt, offset, bytes, dst) ==
    IF i <= Len(iov) /\ Len(dst) < dstCnt /\ bytes # 0
    THEN IF offset >= iov[i].len
         THEN CopyLoop(iov, i + 1, dstCnt, offset - iov[i].len, bytes, dst)
         ELSE LET len == Lesser(bytes, iov[i].len - offset)
              IN  CopyLoop(iov, i + 1, dstCnt, 0, bytes - len,
                           Append(dst, Entry(iov[i].base + offset, len)))
    ELSE [dst |-> dst, ok |-> offset = 0]

IovCopy(dstCnt, iov, offset, bytes) == CopyLoop(iov, 1, dstCnt, offset, bytes, <<>>)
(***************************************************************************)
(* iov_send_recv around its call of do_send_recv.  The first loop skips    *)
(* whole entries before the offset and the rest of the offset is cut from  *)
(* the front of entry si; the second loop skips whole entries inside the   *)
(* byte count and entry ei is cut to the bytes left, its tail remembered.  *)
(* The window [si, ei) of the trimmed vector goes to do_send_recv, then    *)
(* both cuts are undone.  ok is the conjunction of the asserts.            *)
(***************************************************************************)
RECURSIVE SkipStart(_, _, _)
SkipStart(iov, si, offset) ==
    IF si <= Len(iov) /\ offset >= iov[si].len
    THEN SkipStart(iov, si + 1, offset - iov[si].len) ELSE <<si, offset>>

\* The end loop below stopping before an entry the bytes left fill exactly.
RECURSIVE SkipEndShort(_, _, _)
SkipEndShort(iov, ei, bytes) ==
    IF ei <= Len(iov) /\ iov[ei].len < bytes
    THEN SkipEndShort(iov, ei + 1, bytes - iov[ei].len) ELSE <<ei, bytes>>

RECURSIVE SkipEnd(_, _, _)
SkipEnd(iov, ei, bytes) ==
    IF ei <= Len(iov) /\ iov[ei].len <= bytes
    THEN SkipEnd(iov, ei + 1, bytes - iov[ei].len) ELSE <<ei, bytes>>

\* front is the offset left over inside entry si.
SendRecvTrim(iov, offset, bytes) ==
    LET s    == SkipStart(iov, 1, offset)
        front == s[2]
        iov1 == IF front # 0 /\ s[1] <= Len(iov)
                THEN [iov EXCEPT ![s[1]] = Entry(@.base + front, @.len - front)] ELSE iov
        e    == SkipEnd(iov1, s[1], bytes)
        cut  == e[2] # 0 /\ e[1] <= Len(iov1)
    IN  [iov    |-> IF cut THEN [iov1 EXCEPT ![e[1]].len = e[2]] ELSE iov1,
         si     |-> s[1],
         ei     |-> IF e[2] # 0 THEN e[1] + 1 ELSE e[1],
         offset |-> front,
         tail   |-> IF cut THEN iov1[e[1]].len - e[2] ELSE e[2],
         ok     |-> /\ front # 0 => s[1] <= Len(iov)
                    /\ e[2] # 0 => cut /\ iov1[e[1]].len > e[2]]

\* The window running to the end of the vector instead of to ei.
WindowToEnd(t) == SubSeq(t.iov, t.si, Len(t.iov))

\* The entries handed to do_send_recv.
Window(t) == SubSeq(t.iov, t.si, t.ei - 1)

\* The undo that skips the tail when the same entry was cut at both ends.
SendRecvRestoreOnce(t) ==
    LET r1 == IF t.offset # 0
              THEN [t.iov EXCEPT ![t.si] = Entry(@.base - t.offset, @.len + t.offset)]
              ELSE t.iov
    IN  IF t.tail # 0 /\ t.ei - 1 # t.si THEN [r1 EXCEPT ![t.ei - 1].len = @ + t.tail] ELSE r1

SendRecvRestore(t) ==
    LET r1 == IF t.offset # 0
              THEN [t.iov EXCEPT ![t.si] = Entry(@.base - t.offset, @.len + t.offset)]
              ELSE t.iov
    IN  IF t.tail # 0 THEN [r1 EXCEPT ![t.ei - 1].len = @ + t.tail] ELSE r1

(***************************************************************************)
(* QEMUIOVector.  iov holds the niov entries in use; nalloc is the         *)
(* capacity of the array, -1 for a vector over an external array.          *)
(***************************************************************************)
QemuIovecInit(hint) == [iov |-> <<>>, niov |-> 0, nalloc |-> hint, size |-> 0]

QemuIovecInitExternal(iov) ==
    [iov |-> iov, niov |-> Len(iov), nalloc |-> -1, size |-> IovSize(iov)]

\* qemu_iovec_add growing the array by doubling alone.
QemuIovecAddDouble(q, base, len) ==
    [iov    |-> Append(q.iov, Entry(base, len)),
     niov   |-> q.niov + 1,
     nalloc |-> IF q.niov = q.nalloc THEN 2 * q.nalloc ELSE q.nalloc,
     size   |-> q.size + len]

QemuIovecAdd(q, base, len) ==
    [iov    |-> Append(q.iov, Entry(base, len)),
     niov   |-> q.niov + 1,
     nalloc |-> IF q.niov = q.nalloc THEN 2 * q.nalloc + 1 ELSE q.nalloc,
     size   |-> q.size + len]

\* qemu_iovec_concat: appends the part of src after soffset, up to sbytes.
\* added is the C loop's done.
RECURSIVE ConcatLoop(_, _, _, _, _, _)
ConcatLoop(dst, siov, i, soffset, sbytes, added) ==
    IF added < sbytes /\ i <= Len(siov)
    THEN IF soffset < siov[i].len
         THEN LET len == Lesser(siov[i].len - soffset, sbytes - added)
              IN  ConcatLoop(QemuIovecAdd(dst, siov[i].base + soffset, len),
                             siov, i + 1, 0, sbytes, added + len)
         ELSE ConcatLoop(dst, siov, i + 1, soffset - siov[i].len, sbytes, added)
    ELSE dst

QemuIovecConcat(dst, src, soffset, sbytes) == ConcatLoop(dst, src.iov, 1, soffset, sbytes, 0)

\* qemu_iovec_reset leaving size alone.
QemuIovecResetKeepSize(q) == [q EXCEPT !.iov = <<>>, !.niov = 0]

\* qemu_iovec_reset: the array and its capacity are kept for reuse.
QemuIovecReset(q) == [q EXCEPT !.iov = <<>>, !.niov = 0, !.size = 0]

\* qemu_iovec_destroy: reset, then the array is freed.
QemuIovecDestroy(q) == [QemuIovecReset(q) EXCEPT !.nalloc = 0]

\* The wrappers over the niov entries in use.
QemuIovecToBuf(q, offset, bytes) == IovToBuf(q.iov, offset, bytes)
QemuIovecFromBuf(q, offset, bytes) == IovFromBuf(q.iov, offset, bytes)
QemuIovecMemset(q, offset, bytes) == IovMemset(q.iov, offset, bytes)

=============================================================================
