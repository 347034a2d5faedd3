---------------------------- MODULE MCCoSendRecv ----------------------------
EXTENDS CoSendRecv, IOVecCheck

\* Vectors of up to three entries of up to two bytes, entry k at 10 * k,
\* with empty entries first, in the middle and last, and the empty vector.
MCVectors == UNION {{[k \in 1..n |-> Entry(10 * k, l[k])] : l \in [1..n -> 0..2]}
                    : n \in 0..3}

(* The helpers qemu_co_sendv_recvv is built on, applied to the caller's    *)
(* vector, agree with the meaning iov.h gives them (IOVecCheck):           *)
(* iov_from_buf, iov_to_buf and iov_memset assert exactly when the offset *)
(* is past the end, and otherwise touch min(bytes, size - offset) bytes   *)
(* from the offset on, in order, even for a byte count past the end;      *)
WalkMatchesReference == WalkAgrees(vec)
(* iov_copy fills at most dst_iov_cnt entries with the bytes from the      *)
(* offset on, all of them when the destination did not fill;              *)
IovCopyMatchesReference == IovCopyAgrees(vec)
(* iov_send_recv hands do_send_recv a window of exactly the asked range,  *)
(* its asserts holding, even when one entry is cut at both ends;          *)
SendRecvWindowExact == WindowAgrees(vec)
(* and its undo of the in-place trim restores the caller's vector;        *)
SendRecvRestores == RestoreAgrees(vec)
(* qemu_iovec_concat from qemu_iovec_init, with hint 0 or 1, appends the  *)
(* source from soffset on, up to sbytes, and keeps size and capacity     *)
(* true.                                                                  *)
ConcatMatchesReference == ConcatAgrees(vec)
(* qemu_iovec_reset and qemu_iovec_destroy leave a vector that a second  *)
(* qemu_iovec_concat fills with exactly the requested region, size and    *)
(* capacity kept true, and qemu_iovec_to_buf, _from_buf and _memset then  *)
(* visit exactly that region.                                             *)
ResetReuseMatchesReference == ReuseAgrees(vec)
=============================================================================
