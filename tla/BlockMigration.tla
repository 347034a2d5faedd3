--------------------------- MODULE BlockMigration ---------------------------
(***************************************************************************)
(* The sending side of live block migration (src/block-migration.c): the  *)
(* save handlers that the migration thread calls under the iothread lock   *)
(* (setup, iterate, complete, cancel), the bulk and dirty engines they     *)
(* drive, the queue of asynchronous reads and its completion callback,    *)
(* and the external pieces they act on: the guest's block devices with     *)
(* their dirty bitmaps, the rate-limited stream, and the receiver's image *)
(* as it results from the frames put on the stream.                        *)
(*                                                                         *)
(* Data is abstracted to versions: a guest write to a chunk bumps that     *)
(* chunk's version, and a block frame carries the version its read saw.    *)
(* Sectors are kept, so alignment, the partial tail chunk and the          *)
(* shared-base skip are modelled as in the code.                           *)
(*                                                                         *)
(* A handler runs as a sequence of steps named by hpc; the caller enters   *)
(* it by setting hpc and waits for hpc = "ret".  The only points where     *)
(* other actors interleave inside a handler are the drains                 *)
(* (bdrv_drain_all), which complete in-flight reads one by one.            *)
(***************************************************************************)
EXTENDS Integers, Sequences, FiniteSets, SequencesExt, FiniteSetsExt, Functions

CONSTANTS
  Size,                  \* Size[d]: total_sectors of device d; devices are
                         \* 1..Len(Size) in bdrv_iterate order
  CHUNK,                 \* BDRV_SECTORS_PER_DIRTY_CHUNK
  Setups,                \* pairs <<params->shared, sectors allocated in
                         \* the top image of each device>> a run starts from
  MaxIsAllocatedSearch,  \* MAX_IS_ALLOCATED_SEARCH
  XferLimit,             \* per-tick stream budget, in chunks
  InOrderCompletion,     \* TRUE: the AIO layer completes in submit order
  ReadErrors,            \* TRUE: a device read may fail
  MaxWrites              \* bound on the number of guest writes

Devs == 1 .. Len(Size)

ASSUME /\ CHUNK \in Nat \ {0}
       /\ \A d \in Devs : Size[d] \in Nat \ {0}
       /\ \A s \in Setups : s[1] \in BOOLEAN /\
             \A d \in Devs : s[2][d] \subseteq 0 .. Size[d] - 1
       /\ MaxIsAllocatedSearch \in Nat \ {0}
       /\ XferLimit \in Nat \ {0}
       /\ InOrderCompletion \in BOOLEAN
       /\ ReadErrors \in BOOLEAN /\ MaxWrites \in Nat

NONE == -1   \* receiver image: chunk never received (and not in a base)

NChunks(d) == (Size[d] + CHUNK - 1) \div CHUNK
Chunks(d) == 0 .. NChunks(d) - 1
ChunkOf(s) == s \div CHUNK
SectorsOf(d, c) == {s \in c * CHUNK .. c * CHUNK + CHUNK - 1 : s < Size[d]}

VARIABLES
  \* BlkMigState and the BlkMigDevState of each device
  sharedBase,     \* block_mig_state.shared_base, set by block_set_params
  listed,         \* bmds_list holds every device (FALSE: empty list)
  bulkDone,       \* bmds->bulk_completed
  curSector,      \* bmds->cur_sector
  curDirty,       \* bmds->cur_dirty
  completed,      \* bmds->completed_sectors
  aioBits,        \* bmds->aio_bitmap, as a set of chunks
  submitted,      \* block_mig_state.submitted
  readDone,       \* block_mig_state.read_done
  bulkCompleted,  \* block_mig_state.bulk_completed
  prevProgress,   \* block_mig_state.prev_progress
  inflight,       \* reads submitted and not yet completed, in submit order
  blkList,        \* block_mig_state.blk_list: completed reads, FIFO
  \* the guest's block devices
  ver,            \* ver[d][c]: version of chunk c's contents
  dirty,          \* dirty chunks in the device's dirty bitmap
  alloc,          \* sectors allocated in the top image
  tracking,       \* dirty tracking enabled on the listed devices
  writes,         \* guest writes so far (bounded by MaxWrites)
  guestRunning,   \* the guest runs and may write
  \* the stream and the receiver
  dest,           \* receiver image: version of each chunk, NONE if none
  progWire,       \* value of the last PROGRESS frame sent (-1: none)
  lastFrame,      \* kind of the last record put on the stream
  xfer,           \* chunks put on the stream since the last rate reset
  rateLimit,      \* xfer_limit of the stream, in chunks (0: unlimited)
  \* control
  hpc,            \* handler program counter
  caller,         \* which handler is running
  retv,           \* the handler's ret
  scanIdx,        \* device blk_mig_save_dirty_block is at
  draining,       \* bdrv_drain_all in progress
  bql             \* holder of the iothread lock

blkVars == <<sharedBase, listed, bulkDone, curSector, curDirty, completed, aioBits,
             submitted, readDone, bulkCompleted, prevProgress, inflight,
             blkList>>
devVars == <<ver, dirty, alloc, tracking, writes, guestRunning>>
wireVars == <<dest, progWire, lastFrame, xfer, rateLimit>>
ctlVars == <<hpc, caller, retv, scanIdx, draining, bql>>
bmVars == <<blkVars, devVars, wireVars, ctlVars>>

List == IF listed THEN Devs ELSE {}
TotalSectorSum == SumFunctionOnSet(Size, Devs)   \* total_sector_sum
ReadResults == IF ReadErrors THEN {0, -1} ELSE {0}
Block == [dev : Devs, sector : Nat, ver : Int, ret : {0, -1}]

-----------------------------------------------------------------------------
(***************************************************************************)
(* The external device: bdrv_is_allocated and the chunk length rule.       *)
(***************************************************************************)

\* *pnum of bdrv_is_allocated(bs, s, MAX_IS_ALLOCATED_SEARCH, &pnum): the
\* length of the run starting at s with the allocation status of s.
\* Mutant: one sector too many.
RunLenLong(d, s) ==
  LET lim == Min({MaxIsAllocatedSearch, Size[d] - s})
  IN  1 + Max({n \in 1 .. lim :
                 \A j \in 0 .. n - 1 : ((s + j) \in alloc[d]) = (s \in alloc[d])})
RunLen(d, s) ==
  LET lim == Min({MaxIsAllocatedSearch, Size[d] - s})
  IN  Max({n \in 1 .. lim :
             \A j \in 0 .. n - 1 : ((s + j) \in alloc[d]) = (s \in alloc[d])})

\* The shared-base skip of mig_save_device_bulk: hop over unallocated runs.
RECURSIVE SkipUnallocated(_, _)
SkipUnallocated(d, s) ==
  IF s < Size[d] /\ s \notin alloc[d]
    THEN SkipUnallocated(d, s + RunLen(d, s))
    ELSE s

\* nr_sectors of a chunk-aligned transfer at s: a whole chunk or the tail.
\* Mutant: the tail not clamped to total_sectors.
NrSectorsWhole(d, s) == CHUNK
NrSectors(d, s) == IF Size[d] - s < CHUNK THEN Size[d] - s ELSE CHUNK

-----------------------------------------------------------------------------
(***************************************************************************)
(* The records of the stream and the receiver, block_load.  A record opens *)
(* with a be64 header: the sector, or the percentage of a PROGRESS record,  *)
(* shifted over BDRV_SECTOR_BITS and or-ed with its BLK_MIG_FLAG_*.  A      *)
(* DEVICE_BLOCK record then names the device and carries BLOCK_SIZE bytes.  *)
(* The receiver's devices have the sizes of the sender's, so bdrv_find and *)
(* bdrv_getlength succeed; its image keeps the version of each chunk.       *)
(***************************************************************************)

SectorBits == 9   \* BDRV_SECTOR_BITS
FlagDeviceBlock == 1
FlagProgress == 4

\* The flags lie below 2^BDRV_SECTOR_BITS, so or-ing them in is an addition.
Header(addr, flags) == addr * 2^SectorBits + flags

\* flags = addr & ~BDRV_SECTOR_MASK; addr >>= BDRV_SECTOR_BITS
HeaderFlags(h) == h % 2^SectorBits
HeaderAddr(h) == h \div 2^SectorBits

\* flags & flag, for a single-bit flag
HasFlag(flags, flag) == (flags \div flag) % 2 = 1

\* The receiver's nr_sectors: a whole chunk, or what is left of its device.
LoadNrSectors(d, addr) ==
  IF Size[d] - addr < CHUNK THEN Size[d] - addr ELSE CHUNK

\* One pass of block_load's loop over the record with header h and data v:
\* a DEVICE_BLOCK record is written with bdrv_write over nr_sectors from
\* addr; PROGRESS and EOS records leave the image alone.
BlockLoad(img, d, h, v) ==
  LET addr    == HeaderAddr(h)
      written == {ChunkOf(s) : s \in addr .. addr + LoadNrSectors(d, addr) - 1}
      old     == img[d]
  IN  IF HasFlag(HeaderFlags(h), FlagDeviceBlock)
        THEN [img EXCEPT ![d] = [c \in DOMAIN old |->
                                    IF c \in written THEN v ELSE old[c]]]
        ELSE img

\* The percentage the receiver prints for a PROGRESS record.
ReceivedProgress(p) == HeaderAddr(Header(p, FlagProgress))

-----------------------------------------------------------------------------
(***************************************************************************)
(* flush_blks: send queued blocks in order while the stream is not         *)
(* rate-limited and the head block carries no read error.                  *)
(***************************************************************************)

RateLimited(x) == rateLimit > 0 /\ x >= rateLimit   \* qemu_file_rate_limit

OkPrefix == Max({n \in 0 .. Len(blkList) :
                   \A i \in 1 .. n : blkList[i].ret >= 0})

FlushCount ==
  LET budget == IF rateLimit = 0 THEN Len(blkList)
                ELSE Max({0, rateLimit - xfer})
  IN  Min({OkPrefix, budget})

\* The loop stops at a block with ret < 0 and reports its error.
FlushFails ==
  /\ FlushCount < Len(blkList)
  /\ ~RateLimited(xfer + FlushCount)
  /\ blkList[FlushCount + 1].ret < 0

\* blk_send of each block, and block_load applying its record in order.
Deliver(img, blocks) ==
  FoldLeft(LAMBDA acc, b : BlockLoad(acc, b.dev, Header(b.sector, FlagDeviceBlock),
                                     b.ver),
           img, blocks)

\* rd: read_done when the flush starts.
FlushBlks(rd) ==
  /\ readDone' = rd - FlushCount
  /\ blkList' = SubSeq(blkList, FlushCount + 1, Len(blkList))
  /\ dest' = Deliver(dest, SubSeq(blkList, 1, FlushCount))
  /\ xfer' = xfer + FlushCount

FlushedFrame == IF FlushCount > 0 THEN "block" ELSE lastFrame

-----------------------------------------------------------------------------
(***************************************************************************)
(* The AIO read completion, blk_mig_read_cb.  The data a read returns is   *)
(* any version between the one at submission and the current one: the     *)
(* read races the guest's writes to the same chunk.                        *)
(***************************************************************************)

\* QSIMPLEQ_INSERT_TAIL on blk_list.  Mutant: a head insertion.
InsertHead(q, b) == <<b>> \o q
InsertTail(q, b) == Append(q, b)

CanComplete(i) == i \in 1 .. Len(inflight) /\ (InOrderCompletion => i = 1)

ReadCb(i) ==
  LET b == inflight[i]
      c == ChunkOf(b.sector)
  IN  /\ \E v \in b.lo .. ver[b.dev][c], r \in ReadResults :
           blkList' = InsertTail(blkList, [dev |-> b.dev, sector |-> b.sector,
                                           ver |-> v, ret |-> r])
      /\ inflight' = RemoveAt(inflight, i)
      /\ aioBits' = [aioBits EXCEPT ![b.dev] = @ \ {c}]
      /\ submitted' = submitted - 1
      /\ readDone' = readDone + 1

\* A completion delivered by the main loop, which holds the iothread lock.
MainLoopReadCb ==
  /\ bql = "free" /\ ~draining
  /\ \E i \in 1 .. Len(inflight) : CanComplete(i) /\ ReadCb(i)
  /\ UNCHANGED <<listed, bulkDone, curSector, curDirty, completed,
                 bulkCompleted, prevProgress, devVars, wireVars, ctlVars>>

\* One completion run by bdrv_drain_all in whichever thread drains.
DrainOne ==
  /\ draining
  /\ \E i \in 1 .. Len(inflight) : CanComplete(i) /\ ReadCb(i)
  /\ draining' = (Len(inflight) > 1)
  /\ UNCHANGED <<listed, bulkDone, curSector, curDirty, completed,
                 bulkCompleted, prevProgress, devVars, wireVars, hpc, caller,
                 retv, scanIdx, bql>>

\* bdrv_reset_dirty of the chunk at c.  Mutant: a reset of zero sectors.
ResetDirtyNone(d, c) == UNCHANGED dirty
ResetDirty(d, c) == dirty' = [dirty EXCEPT ![d] = @ \ {c}]

\* A guest write to chunk c: bdrv_set_dirty marks it when tracking is on.
GuestWrite(d, c) ==
  /\ bql = "free" /\ guestRunning /\ writes < MaxWrites
  /\ ver' = [ver EXCEPT ![d][c] = @ + 1]
  /\ writes' = writes + 1
  /\ alloc' = [alloc EXCEPT ![d] = @ \cup SectorsOf(d, c)]
  /\ dirty' = IF tracking THEN [dirty EXCEPT ![d] = @ \cup {c}] ELSE dirty
  /\ UNCHANGED <<blkVars, tracking, guestRunning, wireVars, ctlVars>>

-----------------------------------------------------------------------------
(***************************************************************************)
(* Bulk phase: blk_mig_save_bulked_block and mig_save_device_bulk.         *)
(***************************************************************************)

Progress(sum) == IF TotalSectorSum # 0 THEN (sum * 100) \div TotalSectorSum
                 ELSE 100

EmitProgress(p) ==
  IF p # prevProgress
    THEN /\ prevProgress' = p /\ progWire' = ReceivedProgress(p)
         /\ lastFrame' = "progress"
    ELSE UNCHANGED <<prevProgress, progWire, lastFrame>>

\* All devices already bulk-completed: return 0 after reporting progress.
BulkAllDone ==
  /\ bulkCompleted' = TRUE
  /\ EmitProgress(Progress(SumFunctionOnSet(completed, List)))
  /\ UNCHANGED <<listed, bulkDone, curSector, curDirty, completed, aioBits,
                 submitted, readDone, inflight, blkList, devVars, dest, xfer,
                 rateLimit, ctlVars>>

\* completed_sector_sum when device d is the one worked on and now has
\* n completed sectors.  Mutant: the earlier devices are not added in.
BulkSumOwn(d, n) == n
BulkSum(d, n) == SumFunctionOnSet(completed, {e \in List : e < d}) + n

\* One chunk of the first device whose bulk phase is not complete.
BulkDevice(d) ==
  LET cur   == IF sharedBase THEN SkipUnallocated(d, curSector[d])
               ELSE curSector[d]
      fin   == cur >= Size[d]
      a     == cur - (cur % CHUNK)
      nr    == NrSectors(d, a)
      newCur == IF fin THEN Size[d] ELSE a + nr
      newCompleted == IF fin THEN Size[d] ELSE cur
      sum   == BulkSum(d, newCompleted)
  IN  /\ curSector' = [curSector EXCEPT ![d] = newCur]
      /\ completed' = [completed EXCEPT ![d] = newCompleted]
      /\ bulkDone' = [bulkDone EXCEPT ![d] = newCur >= Size[d]]
      /\ IF fin
           THEN UNCHANGED <<inflight, submitted, dirty>>
           ELSE /\ inflight' = Append(inflight,
                     [dev |-> d, sector |-> a, nr |-> nr,
                      lo |-> ver[d][ChunkOf(a)]])
                /\ submitted' = submitted + 1
                /\ ResetDirty(d, ChunkOf(a))
      /\ EmitProgress(Progress(sum))
      /\ UNCHANGED <<listed, curDirty, aioBits, readDone, bulkCompleted,
                     blkList, ver, alloc, tracking, writes, guestRunning,
                     dest, xfer, rateLimit, ctlVars>>

BulkedBlock ==
  LET pend == {d \in List : ~bulkDone[d]}
  IN  IF pend = {} THEN BulkAllDone ELSE BulkDevice(Min(pend))

-----------------------------------------------------------------------------
(***************************************************************************)
(* Dirty phase: blk_mig_save_dirty_block and mig_save_device_dirty.        *)
(***************************************************************************)

\* bmds_aio_inflight: the chunk's bit in the in-flight bitmap.
AioInflight(d, c) == c \in aioBits[d]

\* The sector the scan of device d stops at: the first chunk from cur_dirty
\* with its in-flight bit or dirty bit set, or the cursor past the end.
NextDirty(d) ==
  LET cand == {s \in {curDirty[d] + k * CHUNK : k \in 0 .. NChunks(d)} :
                 s < Size[d] /\ (AioInflight(d, ChunkOf(s)) \/ ChunkOf(s) \in dirty[d])}
      past == {s \in {curDirty[d] + k * CHUNK : k \in 0 .. NChunks(d)} : s >= Size[d]}
  IN  IF cand # {} THEN Min(cand) ELSE Min(past)

\* blk_mig_save_dirty_block returns ret to the iterate or complete loop.
DirtyBlockReturns(r) ==
  \/ /\ caller = "iterate"
     /\ r # 0
     /\ hpc' = "iterEnd" /\ retv' = r /\ UNCHANGED scanIdx
  \/ /\ caller = "iterate"
     /\ r = 0
     /\ hpc' = "iterLoop" /\ UNCHANGED <<retv, scanIdx>>
  \/ /\ caller = "complete"
     /\ r # 0
     /\ hpc' = "cleanup" /\ retv' = r /\ UNCHANGED scanIdx
  \/ /\ caller = "complete"
     /\ r = 0
     /\ hpc' = "dscan" /\ scanIdx' = 1 /\ UNCHANGED retv

DirtyScan ==
  /\ hpc = "dscan" /\ ~draining
  /\ IF scanIdx \notin List
       THEN \* the list is exhausted: every device returned 1
            /\ DirtyBlockReturns(1)
            /\ UNCHANGED <<blkVars, devVars, wireVars, caller, draining,
                           bql>>
       ELSE LET d == scanIdx
                s == NextDirty(d)
                c == ChunkOf(s)
            IN  /\ curDirty' = [curDirty EXCEPT ![d] = s]
                /\ CASE s >= Size[d] ->
                          \* this device is clean: on to the next one
                          /\ scanIdx' = scanIdx + 1
                          /\ UNCHANGED <<hpc, retv, draining, aioBits,
                                         submitted, inflight, devVars,
                                         wireVars>>
                     [] AioInflight(d, c) ->
                          \* a read of this chunk is in flight: drain all
                          /\ draining' = (inflight # <<>>)
                          /\ UNCHANGED <<hpc, retv, scanIdx, aioBits,
                                         submitted, inflight, devVars,
                                         wireVars>>
                     [] caller = "iterate" ->
                          \* is_async: submit a read, mark it in flight
                          /\ inflight' = Append(inflight,
                                 [dev |-> d, sector |-> s,
                                  nr |-> NrSectors(d, s), lo |-> ver[d][c]])
                          /\ submitted' = submitted + 1
                          /\ aioBits' = [aioBits EXCEPT ![d] = @ \cup {c}]
                          /\ ResetDirty(d, c)
                          /\ DirtyBlockReturns(0)
                          /\ UNCHANGED <<draining, ver, alloc, tracking,
                                         writes, guestRunning, wireVars>>
                     [] OTHER ->
                          \* synchronous read, sent straight to the stream
                          /\ UNCHANGED <<draining, aioBits, submitted, inflight>>
                          /\ \E r \in ReadResults :
                            IF r < 0
                              THEN /\ DirtyBlockReturns(r)
                                   /\ UNCHANGED <<devVars, wireVars>>
                              ELSE /\ dest' = Deliver(dest, <<[dev |-> d, sector |-> s,
                                                    ver |-> ver[d][c]]>>)
                                   /\ lastFrame' = "block"
                                   /\ xfer' = xfer + 1
                                   /\ ResetDirty(d, c)
                                   /\ DirtyBlockReturns(0)
                                   /\ UNCHANGED <<ver, alloc, tracking, writes,
                                                  guestRunning, progWire,
                                                  rateLimit>>
                /\ UNCHANGED <<listed, bulkDone, curSector, completed,
                               readDone, bulkCompleted, prevProgress, blkList,
                               caller, bql>>

-----------------------------------------------------------------------------
(***************************************************************************)
(* The save handlers.                                                      *)
(***************************************************************************)

\* blk_mig_reset_dirty_cursor
ResetDirtyCursor ==
  curDirty' = IF listed THEN [d \in Devs |-> 0] ELSE curDirty

\* block_save_setup with init_blk_migration: list every device, zero the
\* counters, start dirty tracking, flush, reset the cursors, put EOS.
SaveSetup ==
  /\ hpc = "setup"
  /\ listed' = TRUE
  /\ bulkDone' = [d \in Devs |-> FALSE]
  /\ curSector' = [d \in Devs |-> 0]
  /\ completed' = [d \in Devs |-> 0]
  /\ aioBits' = [d \in Devs |-> {}]
  /\ curDirty' = [d \in Devs |-> 0]
  /\ submitted' = 0
  /\ bulkCompleted' = FALSE
  /\ prevProgress' = -1
  /\ tracking' = TRUE
  /\ dirty' = [d \in Devs |-> {}]
  /\ FlushBlks(0)
  /\ IF FlushFails
       THEN hpc' = "cleanup" /\ retv' = -1 /\ lastFrame' = FlushedFrame
       ELSE hpc' = "ret" /\ retv' = 0 /\ lastFrame' = "eos"
  /\ UNCHANGED <<inflight, ver, alloc, writes, guestRunning, progWire,
                 rateLimit, caller, scanIdx, draining, bql>>

\* block_save_iterate_locked, up to the rate-controlled loop.
IterateStart ==
  /\ hpc = "iterate"
  /\ FlushBlks(readDone)
  /\ lastFrame' = FlushedFrame
  /\ IF FlushFails
       THEN hpc' = "cleanup" /\ retv' = -1 /\ UNCHANGED curDirty
       ELSE hpc' = "iterLoop" /\ retv' = 0 /\ ResetDirtyCursor
  /\ UNCHANGED <<listed, bulkDone, curSector, completed, aioBits, submitted,
                 bulkCompleted, prevProgress, inflight, devVars, progWire,
                 rateLimit, caller, scanIdx, draining, bql>>

\* One turn of the loop "while ((submitted + read_done) * BLOCK_SIZE <
\* rate_limit)": a bulk chunk until the bulk phase is over, then a dirty one.
IterateLoop ==
  /\ hpc = "iterLoop"
  /\ IF submitted + readDone < rateLimit
       THEN IF ~bulkCompleted
              THEN BulkedBlock
              ELSE /\ hpc' = "dscan" /\ scanIdx' = 1
                   /\ UNCHANGED <<blkVars, devVars, wireVars, caller, retv,
                                  draining, bql>>
       ELSE /\ hpc' = "iterEnd"
            /\ UNCHANGED <<blkVars, devVars, wireVars, caller, retv, scanIdx,
                           draining, bql>>

\* After the loop: "if (ret) { blk_mig_cleanup(); return ret; }", then a
\* second flush and EOS.
IterateEnd ==
  /\ hpc = "iterEnd"
  /\ IF retv # 0
       THEN /\ hpc' = "cleanup"
            /\ UNCHANGED <<blkVars, devVars, wireVars, retv>>
       ELSE /\ FlushBlks(readDone)
            /\ IF FlushFails
                 THEN hpc' = "cleanup" /\ retv' = -1 /\ lastFrame' = FlushedFrame
                 ELSE hpc' = "ret" /\ UNCHANGED retv /\ lastFrame' = "eos"
            /\ UNCHANGED <<listed, bulkDone, curSector, curDirty, completed,
                           aioBits, submitted, bulkCompleted, prevProgress,
                           inflight, devVars, progWire, rateLimit>>
  /\ UNCHANGED <<caller, scanIdx, draining, bql>>

\* block_save_complete up to its assertion.
CompleteStart ==
  /\ hpc = "complete"
  /\ FlushBlks(readDone)
  /\ lastFrame' = FlushedFrame
  /\ IF FlushFails
       THEN hpc' = "cleanup" /\ retv' = -1 /\ UNCHANGED curDirty
       ELSE hpc' = "cplAssert" /\ retv' = 0 /\ ResetDirtyCursor
  /\ UNCHANGED <<listed, bulkDone, curSector, completed, aioBits, submitted,
                 bulkCompleted, prevProgress, inflight, devVars, progWire,
                 rateLimit, caller, scanIdx, draining, bql>>

\* assert(block_mig_state.submitted == 0), then the synchronous dirty loop.
CompleteAssert ==
  /\ hpc = "cplAssert"
  /\ hpc' = "dscan" /\ scanIdx' = 1
  /\ UNCHANGED <<blkVars, devVars, wireVars, caller, retv, draining, bql>>

\* blk_mig_cleanup: first bdrv_drain_all ...
CleanupStart ==
  /\ hpc = "cleanup" /\ ~draining
  /\ draining' = (inflight # <<>>)
  /\ hpc' = "cleanup2"
  /\ UNCHANGED <<blkVars, devVars, wireVars, caller, retv, scanIdx, bql>>

\* ... then stop tracking, release every device and free the queued blocks.
\* In block_save_complete the cleanup is followed by "if (ret) return ret;"
\* and only a zero ret reaches the final PROGRESS 100 and EOS frames.
CleanupFinish ==
  /\ hpc = "cleanup2" /\ ~draining
  /\ tracking' = FALSE
  /\ dirty' = [d \in Devs |-> {}]
  /\ listed' = FALSE
  /\ aioBits' = [d \in Devs |-> {}]
  /\ blkList' = <<>>
  /\ IF caller = "complete" /\ retv = 0
       THEN progWire' = ReceivedProgress(100) /\ lastFrame' = "eos"
       ELSE UNCHANGED <<progWire, lastFrame>>
  /\ hpc' = "ret"
  /\ UNCHANGED <<bulkDone, curSector, curDirty, completed, submitted,
                 readDone, bulkCompleted, prevProgress, inflight, ver, alloc,
                 writes, guestRunning, dest, xfer, rateLimit, caller, retv,
                 scanIdx, draining, bql>>

\* block_migration_cancel
CancelHandler ==
  /\ hpc = "cancel"
  /\ hpc' = "cleanup" /\ retv' = 0
  /\ UNCHANGED <<blkVars, devVars, wireVars, caller, scanIdx, draining, bql>>

\* block_save_pending: get_remaining_dirty, in chunks.
SavePending == SumFunctionOnSet([d \in Devs |-> Cardinality(dirty[d])], List)

\* The steps of whichever handler is running, and the drains inside it.
HandlerStep ==
  \/ SaveSetup \/ IterateStart \/ IterateLoop \/ DirtyScan \/ IterateEnd
  \/ CompleteStart \/ CompleteAssert \/ CleanupStart \/ CleanupFinish
  \/ CancelHandler \/ DrainOne

\* Enter handler h (the caller holds the iothread lock).
CallHandler(h) == hpc = "idle" /\ hpc' = h /\ caller' = h

BlockInit ==
  /\ listed = FALSE
  /\ bulkDone = [d \in Devs |-> FALSE]
  /\ curSector = [d \in Devs |-> 0]
  /\ curDirty = [d \in Devs |-> 0]
  /\ completed = [d \in Devs |-> 0]
  /\ aioBits = [d \in Devs |-> {}]
  /\ submitted = 0 /\ readDone = 0
  /\ bulkCompleted = FALSE /\ prevProgress = -1
  /\ inflight = <<>> /\ blkList = <<>>
  /\ ver = [d \in Devs |-> [c \in Chunks(d) |-> 0]]
  /\ dirty = [d \in Devs |-> {}]
  /\ \E s \in Setups : sharedBase = s[1] /\ alloc = s[2]
  /\ tracking = FALSE /\ writes = 0 /\ guestRunning = TRUE
  \* with a shared base the receiver already has every unallocated chunk
  /\ dest = [d \in Devs |-> [c \in Chunks(d) |->
              IF sharedBase /\ SectorsOf(d, c) \cap alloc[d] = {}
                THEN 0 ELSE NONE]]
  /\ progWire = -1 /\ lastFrame = "none"
  /\ xfer = 0 /\ rateLimit = XferLimit
  /\ hpc = "idle" /\ caller = "none" /\ retv = 0 /\ scanIdx = 1
  /\ draining = FALSE /\ bql = "free"

=============================================================================
