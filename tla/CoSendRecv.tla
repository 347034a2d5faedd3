----------------------------- MODULE CoSendRecv -----------------------------
(***************************************************************************)
(* qemu_co_sendv_recvv (src/qemu-coroutine-io.c) over iov_send_recv and    *)
(* do_send_recv (src/iov.c), against a socket that may move fewer bytes    *)
(* than asked, be interrupted (EINTR), be not ready (EAGAIN), fail (EIO)   *)
(* or, for a receive, be at end of file.                                   *)
(*                                                                         *)
(* HAS_SEND_MSG picks the body of do_send_recv at build time: on POSIX     *)
(* builds one sendmsg/recvmsg call over the window (Spec), on Windows the  *)
(* window's entries sent piece by piece (SpecWin).  qemu_co_sendv_recvv    *)
(* always passes use_send_msg = true.                                      *)
(*                                                                         *)
(* Bytes are the addresses of the caller's vector (see IOVec); `moved' is  *)
(* the sequence of addresses sent or filled, in the socket's order.        *)
(* iov_send_recv's in-place trim and its undo are the operators            *)
(* SendRecvTrim and SendRecvRestore, checked in IOVecCheck; here the call  *)
(* hands do_send_recv the window they compute.                             *)
(***************************************************************************)
EXTENDS IOVec

CONSTANTS
    Vectors,        \* the caller's vectors tried
    MaxFaults       \* the most EINTR, EAGAIN and EIO results in one call

VARIABLES
    vec, off, nbytes, doSend,   \* the arguments, fixed for the call
    pc,         \* "loop", "sys", "io_ret", "yield", "ret"
    done,       \* qemu_co_sendv_recvv's done
    win,        \* the window iov_send_recv hands to do_send_recv
    pi,         \* do_send_recv's i, piece by piece
    r,          \* do_send_recv's ret, piece by piece
    ret,        \* what iov_send_recv returned
    errno,      \* "none", "EAGAIN" or "EIO"
    result,     \* what qemu_co_sendv_recvv returned
    moved,      \* the bytes through the socket, in order
    faults      \* the fault results so far

args == <<vec, off, nbytes, doSend>>
vars == <<vec, off, nbytes, doSend, pc, done, win, pi, r, ret, errno, result, moved, faults>>

Init ==
    /\ vec \in Vectors
    /\ off \in 0..IovSize(vec)
    /\ nbytes \in 0..(IovSize(vec) - off)
    /\ doSend \in BOOLEAN
    /\ pc = "loop"
    /\ done = 0
    /\ win = <<>>
    /\ pi = 1
    /\ r = 0
    /\ ret = 0
    /\ errno = "none"
    /\ result = 0
    /\ moved = <<>>
    /\ faults = 0

\* The loop passing the original offset on every retry.
CallArgsNoDone == <<off, nbytes - done>>

\* The arguments of iov_send_recv in the loop of qemu_co_sendv_recvv.
CallArgs == <<off + done, nbytes - done>>

\* The loop test, then iov_send_recv up to its call of do_send_recv.
CoLoop ==
    /\ pc = "loop"
    /\ \/ /\ done < nbytes
          /\ win' = Window(SendRecvTrim(vec, CallArgs[1], CallArgs[2]))
          /\ pc' = "sys"
          /\ pi' = 1
          /\ r' = 0
          /\ UNCHANGED result
       \/ /\ done >= nbytes
          /\ pc' = "ret"
          /\ result' = done
          /\ UNCHANGED <<win, pi, r>>
    /\ UNCHANGED <<args, done, ret, errno, moved, faults>>

\* A socket call fails; EINTR leaves pc for the retry the code makes.
Fault(e) ==
    /\ faults < MaxFaults
    /\ faults' = faults + 1
    /\ errno' = IF e = "EINTR" THEN errno ELSE e

\* do_send_recv with sendmsg/recvmsg: one call over the whole window,
\* repeated on EINTR.
SendMsg ==
    /\ pc = "sys"
    /\ LET bytesOut == Flat(win) IN
       \/ /\ \E k \in 1..Len(bytesOut) :
                /\ moved' = moved \o SubSeq(bytesOut, 1, k)
                /\ ret' = k
          /\ pc' = "io_ret"
          /\ UNCHANGED <<errno, faults>>
       \/ /\ ~doSend
          /\ ret' = 0
          /\ pc' = "io_ret"
          /\ UNCHANGED <<moved, errno, faults>>
       \/ /\ Fault("EINTR")
          /\ UNCHANGED <<pc, ret, moved>>
       \/ /\ \E e \in {"EAGAIN", "EIO"} : Fault(e)
          /\ ret' = -1
          /\ pc' = "io_ret"
          /\ UNCHANGED moved
    /\ UNCHANGED <<args, done, win, pi, r, result>>

\* do_send_recv piece by piece: one send/recv per entry; a positive count
\* moves on to the next entry, 0 ends the loop, EINTR retries the entry,
\* another error ends it with -1 if nothing moved yet.
PieceStep ==
    /\ pc = "sys"
    /\ pi <= Len(win)
    /\ LET e == win[pi] IN
       \/ /\ \E k \in 1..e.len :
                /\ moved' = moved \o SubSeq(Bytes(e), 1, k)
                /\ r' = r + k
          /\ pi' = pi + 1
          /\ UNCHANGED <<pc, ret, errno, faults>>
       \/ /\ e.len = 0 \/ ~doSend
          /\ ret' = r
          /\ pc' = "io_ret"
          /\ UNCHANGED <<pi, r, moved, errno, faults>>
       \/ /\ Fault("EINTR")
          /\ UNCHANGED <<pc, pi, r, ret, moved>>
       \/ /\ \E f \in {"EAGAIN", "EIO"} : Fault(f)
          /\ ret' = IF r = 0 THEN -1 ELSE r
          /\ pc' = "io_ret"
          /\ UNCHANGED <<pi, r, moved>>
    /\ UNCHANGED <<args, done, win, result>>

\* The piece-by-piece loop ran past the last entry.
PieceDone ==
    /\ pc = "sys"
    /\ pi > Len(win)
    /\ ret' = r
    /\ pc' = "io_ret"
    /\ UNCHANGED <<args, done, win, pi, r, errno, result, moved, faults>>

\* qemu_co_sendv_recvv continuing after a receive of 0 bytes.
CoResultNoEof ==
    /\ pc = "io_ret"
    /\ \/ ret > 0 /\ done' = done + ret /\ pc' = "loop" /\ UNCHANGED result
       \/ ret < 0 /\ errno = "EAGAIN" /\ pc' = "yield" /\ UNCHANGED <<done, result>>
       \/ ret < 0 /\ errno # "EAGAIN" /\ done = 0 /\ result' = -1 /\ pc' = "ret"
          /\ UNCHANGED done
       \/ ret < 0 /\ errno # "EAGAIN" /\ done # 0 /\ result' = done /\ pc' = "ret"
          /\ UNCHANGED done
       \/ ret = 0 /\ pc' = "loop" /\ UNCHANGED <<done, result>>
    /\ UNCHANGED <<args, win, pi, r, ret, errno, moved, faults>>

\* qemu_co_sendv_recvv acting on the result of iov_send_recv: count the
\* bytes, yield on EAGAIN, fail if nothing moved, stop at end of file;
\* a send returning 0 goes round the loop again.
CoResult ==
    /\ pc = "io_ret"
    /\ \/ ret > 0 /\ done' = done + ret /\ pc' = "loop" /\ UNCHANGED result
       \/ ret < 0 /\ errno = "EAGAIN" /\ pc' = "yield" /\ UNCHANGED <<done, result>>
       \/ ret < 0 /\ errno # "EAGAIN" /\ done = 0 /\ result' = -1 /\ pc' = "ret"
          /\ UNCHANGED done
       \/ ret < 0 /\ errno # "EAGAIN" /\ done # 0 /\ result' = done /\ pc' = "ret"
          /\ UNCHANGED done
       \/ ret = 0 /\ ~doSend /\ result' = done /\ pc' = "ret" /\ UNCHANGED done
       \/ ret = 0 /\ doSend /\ pc' = "loop" /\ UNCHANGED <<done, result>>
    /\ UNCHANGED <<args, win, pi, r, ret, errno, moved, faults>>

\* The coroutine is re-entered once the socket is ready.
Resume ==
    /\ pc = "yield"
    /\ pc' = "loop"
    /\ UNCHANGED <<args, done, win, pi, r, ret, errno, result, moved, faults>>

\* The call has returned.
Returned ==
    /\ pc = "ret"
    /\ UNCHANGED vars

\* POSIX builds: do_send_recv is one sendmsg/recvmsg call.
Next == CoLoop \/ SendMsg \/ CoResult \/ Resume \/ Returned

\* Builds without HAS_SEND_MSG: do_send_recv goes piece by piece.
NextWin == CoLoop \/ PieceStep \/ PieceDone \/ CoResult \/ Resume \/ Returned

(* The coroutine runs whenever it is not waiting, and the main loop       *)
(* re-enters a yielded coroutine when its socket is ready.                *)
Fairness ==
    /\ WF_vars(CoLoop) /\ WF_vars(SendMsg) /\ WF_vars(CoResult) /\ WF_vars(Resume)

FairnessWin ==
    /\ WF_vars(CoLoop) /\ WF_vars(PieceStep) /\ WF_vars(PieceDone)
    /\ WF_vars(CoResult) /\ WF_vars(Resume)

Spec == Init /\ [][Next]_vars /\ Fairness
SpecWin == Init /\ [][NextWin]_vars /\ FairnessWin

-----------------------------------------------------------------------------
\* The bytes of the vector the call covers.
Region == SubSeq(Flat(vec), off + 1, off + nbytes)

Transfer == INSTANCE TransferSpec
    WITH region <- Region, stream <- moved, finished <- (pc = "ret"), result <- result

TypeOK ==
    /\ pc \in {"loop", "sys", "io_ret", "yield", "ret"}
    /\ done \in 0..nbytes
    /\ errno \in {"none", "EAGAIN", "EIO"}
    /\ faults \in 0..MaxFaults
    /\ moved \in Seq(Nat) /\ Len(moved) <= nbytes

(* qemu_co_sendv_recvv implements the logical transfer its helpers'      *)
(* comment in iov.h promises: across partial sends, EINTR retries,       *)
(* EAGAIN yields and errors, the bytes through the socket are the region *)
(* in order, and the call returns (a send that returned 0 would loop     *)
(* without end, qemu-coroutine-io.c:49), with the count moved, or -1     *)
(* only when nothing moved.                                              *)
TransferRefinement == Transfer!Spec

=============================================================================
