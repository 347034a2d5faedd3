---------------------------- MODULE MCMigration ----------------------------
(***************************************************************************)
(* Instances of Migration for TLC: two devices of a few sectors, chunks   *)
(* of two sectors, so that the tail chunk, the shared-base skip and the    *)
(* per-device progress sums all occur.                                     *)
(***************************************************************************)
EXTENDS Migration

\* Device 1: 4 sectors (two chunks); device 2: 3 sectors (a partial tail).
MCSize == <<4, 3>>
MCAlloc0 == <<{1, 2, 3}, {0, 1, 2}>>
\* Device 1's sector 0 is unallocated: the shared-base skip hops over it.
MCAllocSkip == <<{1}, {2}>>

\* A full copy of fully allocated images, and an incremental one
\* (shared base) with holes the skip hops over.
MCFullCopy == {<<FALSE, MCAlloc0>>}
MCSetups == {<<FALSE, MCAlloc0>>, <<TRUE, MCAllocSkip>>}

====
