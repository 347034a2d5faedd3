---------------------------- MODULE TransferSpec ----------------------------
(***************************************************************************)
(* What a scatter/gather send or receive promises, after the comment on    *)
(* iov_send_recv in src/iov.h: it is "logically equivalent" to one send    *)
(* or recv of the `bytes' bytes of the vector from `offset' on.  The bytes *)
(* that reach (or come from) the socket are a prefix of that region, in    *)
(* order; the call ends and returns how many bytes moved, or -1 when it    *)
(* failed before any byte moved.                                           *)
(***************************************************************************)
EXTENDS Integers, Sequences

VARIABLES
    region,     \* the bytes of the vector the call covers, in order
    stream,     \* the bytes moved through the socket so far, in order
    finished,   \* the call has returned
    result      \* its return value

vars == <<region, stream, finished, result>>

Init ==
    /\ stream = <<>>
    /\ finished = FALSE
    /\ result = 0

\* Some more bytes of the region move, the next ones in order.
Move ==
    /\ ~finished
    /\ \E k \in 1..(Len(region) - Len(stream)) :
            stream' = SubSeq(region, 1, Len(stream) + k)
    /\ UNCHANGED <<region, finished, result>>

\* The call returns the count moved, or -1 if nothing moved.
Finish ==
    /\ ~finished
    /\ finished' = TRUE
    /\ result' \in {Len(stream)} \cup (IF stream = <<>> THEN {-1} ELSE {})
    /\ UNCHANGED <<region, stream>>

Next == Move \/ Finish

\* The call always returns.
Spec == Init /\ [][Next]_vars /\ [][UNCHANGED region]_region /\ WF_vars(Finish)
=============================================================================
