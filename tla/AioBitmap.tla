----------------------------- MODULE AioBitmap -----------------------------
(***************************************************************************)
(* The in-flight AIO bitmap of src/block-migration.c: alloc_aio_bitmap,    *)
(* bmds_set_aio_inflight and bmds_aio_inflight, at the level of the words  *)
(* the code reads and writes.  BlockMigration keeps the bitmap as the set  *)
(* of chunks with a dirty read in flight (aioBits); here that set is the   *)
(* reference the words must agree with.                                    *)
(*                                                                         *)
(* A word is the set of its bits that are 1, so 1UL << bit, | and &~ are   *)
(* set operations; bit < WordBits, so the shifts are defined.  Memory is   *)
(* addressed in bytes: word idx occupies bytes idx*WordBytes up to         *)
(* (idx+1)*WordBytes - 1 of the allocation.                                *)
(***************************************************************************)
EXTENDS Integers, FiniteSets

CONSTANTS
    SectorsPerChunk,    \* BDRV_SECTORS_PER_DIRTY_CHUNK
    SectorBits,         \* BDRV_SECTOR_BITS
    WordBits,           \* sizeof(unsigned long) * 8
    Sizes,              \* device sizes tried, in sectors
    Probes              \* chunk numbers tried, relative to the ends of a device

ASSUME WordBits \in {32, 64} /\ SectorsPerChunk > 0

WordBytes == WordBits \div 8

VARIABLES
    totalSectors,   \* the device's size, fixed
    words,          \* aio_bitmap as words: index -> set of bits that are 1
    touched,        \* the word indexes the code has read or written
    inflight        \* the reference: chunks with a read in flight

vars == <<totalSectors, words, touched, inflight>>

\* bdrv_getlength in bytes.
Length == totalSectors * 2^SectorBits

NChunks == (totalSectors + SectorsPerChunk - 1) \div SectorsPerChunk

\* alloc_aio_bitmap: the number of bytes g_malloc0 hands out.
BitmapBytes ==
    ((Length \div 2^SectorBits) + SectorsPerChunk * 8 - 1) \div (SectorsPerChunk * 8)

\* The chunks a run of the model reads: the first ones, those around a
\* word boundary and the last ones.
Chunks == {c \in 0..(NChunks - 1) :
              \/ c \in Probes
              \/ NChunks - 1 - c \in Probes
              \/ c - WordBits \in Probes}

\* The bit number taken without the modulo.
BitNoMod(chunk) == chunk

\* Where the code finds the bit of a chunk.
Idx(chunk) == chunk \div WordBits
Bit(chunk) == chunk % WordBits

Word(idx) == IF idx \in DOMAIN words THEN words[idx] ELSE {}

\* bmds_aio_inflight: the bit of the sector's chunk, 0 past the device.
AioInflight(sector) ==
    LET chunk == sector \div SectorsPerChunk
    IN  IF sector * 2^SectorBits < Length
        THEN Bit(chunk) \in Word(Idx(chunk))
        ELSE FALSE

\* The range of chunks computed without the -1 on the last sector.
LastChunkPast(sectorNum, nbSectors) == (sectorNum + nbSectors) \div SectorsPerChunk

\* The last chunk bmds_set_aio_inflight touches.
LastChunk(sectorNum, nbSectors) == (sectorNum + nbSectors - 1) \div SectorsPerChunk

(***************************************************************************)
(* bmds_set_aio_inflight: a read-modify-write of the word of every chunk   *)
(* from the first to the last sector of the run.  The loop is a fold over  *)
(* the chunk range, applied to the words; `touched' records the words,    *)
(* with the one bmds_aio_inflight read just before.                        *)
(***************************************************************************)
SetAioInflight(sectorNum, nbSectors, set) ==
    LET first == sectorNum \div SectorsPerChunk
        last  == LastChunk(sectorNum, nbSectors)
        range == first..last
        idxs  == {Idx(c) : c \in range}
        new(i) == LET bits == {Bit(c) : c \in {x \in range : Idx(x) = i}}
                  IN  IF set THEN Word(i) \cup bits ELSE Word(i) \ bits
    IN  /\ words' = [i \in DOMAIN words \cup idxs |->
                        IF i \in idxs THEN new(i) ELSE words[i]]
        /\ touched' = touched \cup idxs \cup {Idx(first)}

\* The run mig_save_device_dirty reads for a chunk: a whole chunk, or the
\* tail of the device (block-migration.c:368-372).
ChunkRun(chunk) ==
    LET sector == chunk * SectorsPerChunk
    IN  <<sector, IF totalSectors - sector < SectorsPerChunk
                  THEN totalSectors - sector ELSE SectorsPerChunk>>

Init ==
    /\ totalSectors \in Sizes
    /\ words = [i \in {} |-> {}]
    /\ touched = {}
    /\ inflight = {}

\* mig_save_device_dirty tests the chunk's bit before its dirty read, and
\* sets it on submission (block-migration.c:363, 392); a set bit makes it
\* drain first, which here is CompleteRead of the chunk.
SubmitDirtyRead(chunk) ==
    /\ ~AioInflight(ChunkRun(chunk)[1])
    /\ SetAioInflight(ChunkRun(chunk)[1], ChunkRun(chunk)[2], TRUE)
    /\ inflight' = inflight \cup {chunk}
    /\ UNCHANGED totalSectors

\* blk_mig_read_cb clears the bit of the completed read (block-migration.c:186).
CompleteRead(chunk) ==
    /\ chunk \in inflight
    /\ SetAioInflight(ChunkRun(chunk)[1], ChunkRun(chunk)[2], FALSE)
    /\ inflight' = inflight \ {chunk}
    /\ UNCHANGED totalSectors

Next ==
    \E c \in Chunks : SubmitDirtyRead(c) \/ CompleteRead(c)

Spec == Init /\ [][Next]_vars

-----------------------------------------------------------------------------
TypeOK ==
    /\ totalSectors \in Sizes
    /\ inflight \subseteq 0..(NChunks - 1)
    /\ \A i \in DOMAIN words : words[i] \subseteq 0..(WordBits - 1)

(* The bit bmds_aio_inflight reads for any sector of the device is set    *)
(* exactly while that chunk's read is in flight, whatever reads of the    *)
(* neighbouring chunks, of the same word or of the partial last chunk,    *)
(* have set and cleared in between.                                       *)
InflightAgrees ==
    \A c \in Chunks :
        \A s \in {c * SectorsPerChunk,
                  IF (c + 1) * SectorsPerChunk <= totalSectors
                  THEN (c + 1) * SectorsPerChunk - 1 ELSE totalSectors - 1} :
            AioInflight(s) = (c \in inflight)

(* Every word the code reads or writes lies inside the bytes that         *)
(* alloc_aio_bitmap allocated.                                            *)
AccessInBounds ==
    \A i \in touched : (i + 1) * WordBytes <= BitmapBytes
=============================================================================
