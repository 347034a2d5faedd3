----------------------------- MODULE IOVecCheck -----------------------------
(***************************************************************************)
(* The helpers of IOVec checked against reference definitions in terms of  *)
(* Flat, the addresses of a vector laid end to end: the meaning the        *)
(* comments of src/iov.h give the functions.  Each check takes a vector    *)
(* and tries every offset and byte count up to one past its size, every    *)
(* destination count up to one past its length and both allocation hints  *)
(* qemu_iovec_init is given (0 and 1).  MCCoSendRecv applies them to the   *)
(* vector of the qemu_co_sendv_recvv call, built on these helpers.         *)
(***************************************************************************)
EXTENDS IOVec

\* Offsets and byte counts tried on v: up to one past its size.
Counts(v) == 0..(IovSize(v) + 1)

\* The bytes of v from offset o on, at most b of them.
RegionOf(v, o, b) == SubSeq(Flat(v), o + 1, Lesser(o + b, Len(Flat(v))))

\* iov_from_buf, iov_to_buf, iov_memset: the assertion holds exactly when
\* the offset is inside v; the bytes touched are the region, in order.
WalkAgrees(v) ==
    \A o, b \in Counts(v) :
        \A res \in {IovFromBuf(v, o, b), IovToBuf(v, o, b), IovMemset(v, o, b)} :
            /\ res.ok = (o <= IovSize(v))
            /\ res.ok => res.touched = RegionOf(v, o, b) /\ res.walked = Len(RegionOf(v, o, b))

\* iov_copy: at most dst_iov_cnt entries covering a prefix of the region,
\* all of it when the destination did not fill.
IovCopyAgrees(v) ==
    \A o, b \in Counts(v), dc \in 0..(Len(v) + 1) :
        LET res == IovCopy(dc, v, o, b)
        IN  res.ok =>
                /\ Len(res.dst) <= dc
                /\ IsPrefix(Flat(res.dst), RegionOf(v, o, b))
                /\ Len(res.dst) < dc => Flat(res.dst) = RegionOf(v, o, b)

\* iov_send_recv on a non-empty range inside v: the asserts hold and the
\* window covers exactly the range.
WindowAgrees(v) ==
    \A o, b \in Counts(v) :
        b > 0 /\ o + b <= IovSize(v) =>
            LET t == SendRecvTrim(v, o, b)
            IN  t.ok /\ Flat(Window(t)) = SubSeq(Flat(v), o + 1, o + b)

\* iov_send_recv's undo gives every entry its base and length back.
RestoreAgrees(v) ==
    \A o, b \in Counts(v) :
        b > 0 /\ o + b <= IovSize(v) =>
            SendRecvRestore(SendRecvTrim(v, o, b)) = v

\* qemu_iovec_concat onto a fresh vector: the entries cover the region,
\* size matches them and the capacity covers them.
ConcatAgrees(v) ==
    \A o, b \in Counts(v), h \in 0..1 :
        o <= IovSize(v) =>
            LET q == QemuIovecConcat(QemuIovecInit(h), QemuIovecInitExternal(v), o, b)
            IN  /\ Flat(q.iov) = RegionOf(v, o, b)
                /\ q.size = IovSize(q.iov)
                /\ q.niov = Len(q.iov) /\ q.niov <= q.nalloc

(***************************************************************************)
(* A vector built over the whole of v, reset or destroyed, and reused:     *)
(* concatenating a region of v again gives exactly that region, the size   *)
(* and count match the entries, the capacity holds them, and a reset keeps *)
(* the capacity of the first use.  Each wrapper then visits exactly the    *)
(* bytes it is asked for.                                                  *)
(***************************************************************************)
ReuseAgrees(v) ==
    LET full == QemuIovecConcat(QemuIovecInit(1), QemuIovecInitExternal(v), 0, IovSize(v))
    IN  \A o, b \in Counts(v), clear \in {"reset", "destroy"} :
          o <= IovSize(v) =>
            LET emptied == IF clear = "reset" THEN QemuIovecReset(full)
                           ELSE QemuIovecDestroy(full)
                q == QemuIovecConcat(emptied, QemuIovecInitExternal(v), o, b)
                want == RegionOf(v, o, b)
            IN  /\ Flat(q.iov) = want
                /\ q.size = IovSize(q.iov)
                /\ q.niov = Len(q.iov) /\ q.niov <= q.nalloc
                /\ clear = "reset" => q.nalloc >= full.nalloc
                /\ \A w \in {QemuIovecToBuf(q, 0, q.size), QemuIovecFromBuf(q, 0, q.size),
                              QemuIovecMemset(q, 0, q.size)} :
                     w.touched = want /\ w.walked = Len(want) /\ w.ok
=============================================================================
