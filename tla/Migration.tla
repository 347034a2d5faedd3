----------------------------- MODULE Migration -----------------------------
(***************************************************************************)
(* The outgoing migration of src/migration.c driving the block save       *)
(* handlers of BlockMigration: migration_thread, the QMP cancel command   *)
(* and the cleanup bottom half, composed with the main loop's AIO          *)
(* completions and the guest's writes.                                     *)
(*                                                                         *)
(* The savevm layer between the thread and the handlers (not part of the  *)
(* repository) is modelled from the description of the outer migration   *)
(* engine: every call is framed by a section header, a handler return     *)
(* below 0 latches an error on the stream, and vm_stop_force_state stops  *)
(* a running guest and drains its AIO.                                     *)
(***************************************************************************)
EXTENDS BlockMigration

CONSTANTS
  MaxSizes,     \* values max_size may take after a bandwidth measurement
  SpeedLimits,  \* xfer_limits, in chunks per tick, a migrate_set_speed may set
  StreamErrors  \* TRUE: a write to the migration socket may fail

ASSUME MaxSizes \subseteq Nat /\ MaxSizes # {} /\ StreamErrors \in BOOLEAN
       /\ SpeedLimits \subseteq Nat

VARIABLES
  mig,           \* s->state
  pc,            \* migration_thread's program counter
  firstTime,     \* first_time
  maxSize,       \* max_size, in chunks
  elapsed,       \* the thread slept until the end of the BUFFER_DELAY tick
  oldVmRunning,  \* old_vm_running
  fileError,     \* qemu_file_get_error(s->file) # 0
  bhPc,          \* the cleanup bottom half: "none", "pending", "cancelWait", "done"
  cleanupBh      \* s->cleanup_bh # NULL

migVars == <<mig, pc, firstTime, maxSize, elapsed, oldVmRunning, fileError,
             bhPc, cleanupBh>>
vars == <<bmVars, migVars>>

-----------------------------------------------------------------------------
(***************************************************************************)
(* migration_thread                                                        *)
(***************************************************************************)

\* "while (s->state == MIG_STATE_ACTIVE)": read without the iothread lock.
ThreadTop ==
  /\ pc = "top"
  /\ pc' = IF mig = "ACTIVE" THEN "body" ELSE "exit"
  /\ UNCHANGED <<bmVars, mig, firstTime, maxSize, elapsed, oldVmRunning,
                 fileError, bhPc, cleanupBh>>

\* The loop body up to the savevm calls.  With reset, the clock has
\* passed initial_time + BUFFER_DELAY: max_size is measured anew and the
\* stream's budget is reset; after a rate-limit sleep it always has.  Then
\* the error check, the rate-limit sleep, and qemu_savevm_state_begin the
\* first time round.
ThreadBody(reset) ==
  /\ pc = "body"
  /\ elapsed => reset
  /\ IF reset
       THEN xfer' = 0 /\ maxSize' \in MaxSizes
       ELSE UNCHANGED <<xfer, maxSize>>
  /\ LET x == IF reset THEN 0 ELSE xfer
     IN  CASE fileError ->
                mig' = "ERROR" /\ pc' = "top" /\ elapsed' = FALSE
           [] RateLimited(x) ->
                UNCHANGED mig /\ pc' = "top" /\ elapsed' = TRUE
           [] firstTime ->
                UNCHANGED mig /\ pc' = "setup" /\ elapsed' = FALSE
           [] OTHER ->
                UNCHANGED mig /\ pc' = "pending" /\ elapsed' = FALSE
  /\ UNCHANGED <<blkVars, devVars, dest, progWire, lastFrame, rateLimit,
                 ctlVars, firstTime, oldVmRunning, fileError, bhPc, cleanupBh>>

\* qemu_savevm_state_begin under the lock: section header, then setup.
Setup ==
  /\ pc = "setup" /\ bql = "free" /\ CallHandler("setup")
  /\ bql' = "thread" /\ lastFrame' = "section"
  /\ firstTime' = FALSE /\ pc' = "setupWait"
  /\ UNCHANGED <<blkVars, devVars, dest, progWire, xfer, rateLimit, retv,
                 scanIdx, draining, mig, maxSize, elapsed, oldVmRunning,
                 fileError, bhPc, cleanupBh>>

\* The stream's error latch after a savevm call: the socket write of the
\* section header or of the handler's frames may have failed.
StreamFails == IF StreamErrors THEN {TRUE} ELSE {}

\* Return from a handler called in savevm: a negative ret latches an error,
\* and so does a failed write.
SaveRet(from, to) ==
  /\ pc = from /\ hpc = "ret"
  /\ hpc' = "idle" /\ bql' = "free" /\ pc' = to
  /\ fileError' \in {fileError \/ retv < 0} \cup StreamFails
  /\ UNCHANGED <<blkVars, devVars, wireVars, caller, retv, scanIdx, draining,
                 mig, firstTime, maxSize, elapsed, oldVmRunning, bhPc, cleanupBh>>

\* "if (pending_size >= max_size)": iterate again rather than cut over.
\* Mutant: off by one.
IterateMoreByOne == SavePending + 1 >= maxSize
IterateMore == SavePending >= maxSize

\* qemu_savevm_state_pending, called without the lock.
Pending ==
  /\ pc = "pending"
  /\ pc' = IF IterateMore THEN "iterate" ELSE "stop"
  /\ UNCHANGED <<bmVars, mig, firstTime, maxSize, elapsed, oldVmRunning,
                 fileError, bhPc, cleanupBh>>

\* qemu_savevm_state_iterate: section header, then block_save_iterate,
\* which takes the iothread lock itself.  Its return value is ignored.
Iterate ==
  /\ pc = "iterate" /\ bql = "free" /\ CallHandler("iterate")
  /\ bql' = "thread" /\ lastFrame' = "section" /\ pc' = "iterWait"
  /\ UNCHANGED <<blkVars, devVars, dest, progWire, xfer, rateLimit, retv,
                 scanIdx, draining, mig, firstTime, maxSize, elapsed,
                 oldVmRunning, fileError, bhPc, cleanupBh>>

\* vm_stop_force_state(RUN_STATE_FINISH_MIGRATE): a running guest is
\* stopped and bdrv_drain_all completes its reads; a stopped one is not.
\* Mutant: no drain.
VmStopNoDrain == guestRunning' = FALSE /\ draining' = FALSE
VmStopForceState ==
  /\ guestRunning' = FALSE
  /\ draining' = (guestRunning /\ inflight # <<>>)

\* Cutover: under the lock, remember whether the guest ran, stop it
\* (vm_stop_force_state drains the AIO only if it was running) and lift
\* the rate limit.
StopVm ==
  /\ pc = "stop" /\ bql = "free"
  /\ bql' = "thread"
  /\ oldVmRunning' = guestRunning
  /\ VmStopForceState
  /\ rateLimit' = 0
  /\ pc' = "complete"
  /\ UNCHANGED <<blkVars, ver, dirty, alloc, tracking, writes, dest, progWire,
                 lastFrame, xfer, hpc, caller, retv, scanIdx, mig, firstTime,
                 maxSize, elapsed, fileError, bhPc, cleanupBh>>

\* qemu_savevm_state_complete: section header, then block_save_complete.
Complete ==
  /\ pc = "complete" /\ ~draining /\ CallHandler("complete")
  /\ lastFrame' = "section" /\ pc' = "cplWait"
  /\ UNCHANGED <<blkVars, devVars, dest, progWire, xfer, rateLimit, retv,
                 scanIdx, draining, bql, mig, firstTime, maxSize, elapsed,
                 oldVmRunning, fileError, bhPc, cleanupBh>>

\* "if (qemu_savevm_state_complete(s->file) < 0) ERROR else COMPLETED",
\* written whatever the state became in the meantime; the savevm call
\* also fails when a write of the final frames failed.
CompleteRet ==
  /\ pc = "cplWait" /\ hpc = "ret"
  /\ hpc' = "idle" /\ bql' = "free" /\ pc' = "top"
  /\ \E failed \in {retv < 0} \cup StreamFails :
       mig' = IF failed THEN "ERROR" ELSE "COMPLETED"
  /\ UNCHANGED <<blkVars, devVars, wireVars, caller, retv, scanIdx, draining,
                 firstTime, maxSize, elapsed, oldVmRunning, fileError, bhPc, cleanupBh>>

\* After the loop: restart the guest unless completed, schedule cleanup_bh.
ThreadExit ==
  /\ pc = "exit" /\ bql = "free"
  /\ guestRunning' = (guestRunning \/ (mig # "COMPLETED" /\ oldVmRunning))
  /\ bhPc' = "pending"
  /\ pc' = "done"
  /\ UNCHANGED <<blkVars, ver, dirty, alloc, tracking, writes, wireVars,
                 ctlVars, mig, firstTime, maxSize, elapsed, oldVmRunning,
                 fileError, cleanupBh>>

-----------------------------------------------------------------------------
(***************************************************************************)
(* The main loop: QMP migrate_cancel and the cleanup bottom half.          *)
(***************************************************************************)

\* migrate_fd_cancel
QmpCancel ==
  /\ bql = "free" /\ mig = "ACTIVE"
  /\ mig' = "CANCELLED"
  /\ UNCHANGED <<bmVars, pc, firstTime, maxSize, elapsed, oldVmRunning,
                 fileError, bhPc, cleanupBh>>

\* qmp_migrate_set_speed, run by the main loop under the iothread lock:
\* bandwidth_limit / XFER_LIMIT_RATIO becomes the stream's xfer_limit while
\* s->file is open, that is until the cleanup bottom half closes it; after
\* that it only stores s->bandwidth_limit for a later migration.
QmpSetSpeed ==
  /\ bql = "free" /\ ~draining /\ bhPc # "done"
  /\ \E lim \in SpeedLimits : rateLimit' = lim
  /\ UNCHANGED <<blkVars, devVars, dest, progWire, lastFrame, xfer, ctlVars,
                 migVars>>

\* "if (s->state == MIG_STATE_CANCELLED)".  Mutant: the error state tested.
MustCancelError == mig = "ERROR"
MustCancel == mig = "CANCELLED"

\* migrate_fd_cleanup: delete the bottom half and clear s->cleanup_bh, the
\* cancel handlers when cancelled, then join the (finished) thread and
\* close the file.
CleanupBH ==
  /\ bhPc = "pending" /\ bql = "free"
  /\ cleanupBh' = FALSE
  /\ IF MustCancel
       THEN /\ CallHandler("cancel") /\ bql' = "main"
            /\ bhPc' = "cancelWait"
       ELSE /\ bhPc' = "done"
            /\ UNCHANGED <<hpc, caller, bql>>
  /\ UNCHANGED <<blkVars, devVars, wireVars, retv, scanIdx, draining, mig, pc,
                 firstTime, maxSize, elapsed, oldVmRunning, fileError>>

CancelRet ==
  /\ bhPc = "cancelWait" /\ hpc = "ret"
  /\ hpc' = "idle" /\ bql' = "free" /\ bhPc' = "done"
  /\ UNCHANGED <<blkVars, devVars, wireVars, caller, retv, scanIdx, draining,
                 mig, pc, firstTime, maxSize, elapsed, oldVmRunning,
                 fileError, cleanupBh>>

-----------------------------------------------------------------------------
(***************************************************************************)
(* A second QMP migrate.  qmp_migrate refuses only an ACTIVE migration, so *)
(* after a cancel (or an error) it may run while the old thread and its    *)
(* cleanup bottom half are still live.                                    *)
(***************************************************************************)

\* migrate_init: the memset of the MigrationState makes cleanup_bh (and
\* file and thread) NULL; bandwidth, capabilities and the XBZRLE cache
\* size are put back, and the state becomes SETUP.
MigrateInit == cleanupBh' = FALSE

\* migrate_fd_error: asserts s->file == NULL (true after the memset) and
\* sets the state ERROR.
MigrateFdError == "ERROR"

\* qmp_migrate: refused while ACTIVE, else migrate_init and the transport
\* start, which either fails at once (local_err: migrate_fd_error) or
\* leaves the state SETUP: a connect in flight, or an unknown URI, which
\* returns with no state change.  The connect's completion
\* (migrate_fd_connect, starting a second migration_thread) is not
\* modelled.
QmpMigrate ==
  /\ bql = "free" /\ mig # "ACTIVE"
  /\ MigrateInit
  /\ mig' \in {"SETUP", MigrateFdError}
  /\ UNCHANGED <<bmVars, pc, firstTime, maxSize, elapsed, oldVmRunning,
                 fileError, bhPc>>

-----------------------------------------------------------------------------

\* Thread and bottom half are over; the guest may still write.
Finished ==
  /\ pc = "done" /\ bhPc = "done"
  /\ UNCHANGED vars

Init ==
  /\ BlockInit
  /\ mig = "ACTIVE"          \* migrate_fd_connect, then the thread starts
  /\ pc = "top"
  /\ firstTime = TRUE
  /\ maxSize = 0
  /\ elapsed = FALSE
  /\ oldVmRunning = FALSE
  /\ fileError = FALSE
  /\ bhPc = "none"
  /\ cleanupBh = TRUE       \* qemu_bh_new in migrate_fd_connect

ThreadStep ==
  \/ ThreadTop \/ ThreadBody(FALSE) \/ ThreadBody(TRUE) \/ Setup \/ SaveRet("setupWait", "pending")
  \/ Pending \/ Iterate \/ SaveRet("iterWait", "top") \/ StopVm \/ Complete
  \/ CompleteRet \/ ThreadExit

\* Steps of the block layer alone, which leave the driver's state alone.
Handler == HandlerStep /\ UNCHANGED <<migVars, sharedBase>>
ReadCompletion == MainLoopReadCb /\ UNCHANGED <<migVars, sharedBase>>
Guest == \E d \in Devs : \E c \in Chunks(d) :
           GuestWrite(d, c) /\ UNCHANGED <<migVars, sharedBase>>

Next ==
  \/ ThreadStep
  \/ Handler
  \/ ReadCompletion
  \/ QmpCancel
  \/ QmpSetSpeed
  \/ CleanupBH \/ CancelRet
  \/ Guest
  \/ Finished

\* The thread and the handlers it calls run whenever they can.  The main
\* loop competes with the thread for the iothread lock, which the thread
\* gives up at every turn of its loop: its completions and the bottom half
\* get strong fairness.  The clock advances, so a thread that keeps
\* coming back to the top of its loop eventually starts a new tick.  The
\* guest and the user get no fairness.
Fairness ==
  /\ WF_vars(ThreadStep)
  /\ SF_vars(ThreadBody(TRUE))
  /\ WF_vars(Handler)
  /\ SF_vars(ReadCompletion)
  /\ SF_vars(CleanupBH)
  /\ WF_vars(CancelRet)

Spec == Init /\ [][Next]_vars /\ Fairness

\* The same, with the user free to issue migrate again (safety only).
SpecRestart == Init /\ [][Next \/ QmpMigrate]_vars

-----------------------------------------------------------------------------
(***************************************************************************)
(* Properties                                                              *)
(***************************************************************************)

States == {"SETUP", "ACTIVE", "COMPLETED", "ERROR", "CANCELLED"}
Pcs == {"top", "body", "setup", "setupWait", "pending", "iterate", "iterWait",
        "stop", "complete", "cplWait", "exit", "done"}
Hpcs == {"idle", "setup", "iterate", "iterLoop", "dscan", "iterEnd",
         "complete", "cplAssert", "cleanup", "cleanup2", "cancel", "ret"}
Reads == [dev : Devs, sector : Nat, nr : 1 .. CHUNK, lo : Nat]

TypeOK ==
  /\ listed \in BOOLEAN /\ bulkCompleted \in BOOLEAN
  /\ bulkDone \in [Devs -> BOOLEAN]
  /\ \A d \in Devs : /\ curSector[d] \in 0 .. Size[d]
                     /\ curDirty[d] \in 0 .. Size[d] + CHUNK
                     /\ completed[d] \in 0 .. Size[d]
                     /\ aioBits[d] \subseteq Chunks(d)
                     /\ dirty[d] \subseteq Chunks(d)
                     /\ alloc[d] \subseteq 0 .. Size[d] - 1
                     /\ \A c \in Chunks(d) : /\ ver[d][c] \in 0 .. MaxWrites
                                            /\ dest[d][c] \in NONE .. MaxWrites
  /\ submitted = Len(inflight) /\ inflight \in Seq(Reads)
  /\ readDone \in Nat /\ blkList \in Seq(Block)
  /\ prevProgress \in -1 .. 100 /\ progWire \in -1 .. 100
  /\ lastFrame \in {"none", "section", "block", "progress", "eos"}
  /\ xfer \in Nat /\ rateLimit \in {0, XferLimit} \cup SpeedLimits
  /\ tracking \in BOOLEAN /\ guestRunning \in BOOLEAN
  /\ writes \in 0 .. MaxWrites
  /\ hpc \in Hpcs /\ caller \in {"none", "setup", "iterate", "complete", "cancel"}
  /\ retv \in {-1, 0, 1} /\ scanIdx \in 1 .. Len(Size) + 1
  /\ draining \in BOOLEAN /\ bql \in {"free", "thread", "main"}
  /\ mig \in States /\ pc \in Pcs /\ firstTime \in BOOLEAN
  /\ maxSize \in {0} \cup MaxSizes /\ elapsed \in BOOLEAN
  /\ oldVmRunning \in BOOLEAN /\ fileError \in BOOLEAN
  /\ bhPc \in {"none", "pending", "cancelWait", "done"}
  /\ cleanupBh \in BOOLEAN

\* Chunks of d the bulk phase has gone past: every sector below cur_sector.
BulkPassed(d) == {c \in Chunks(d) : \A s \in SectorsOf(d, c) : s < curSector[d]}

IsChunk(d, c, b) == b.dev = d /\ ChunkOf(b.sector) = c

\* The version the receiver ends up with for chunk c of d if nothing else
\* is read: the last read submitted (in-flight reads complete after the
\* queued blocks are sent), else the last queued block, else what it has.
LastCopy(d, c) ==
  LET fs == SelectSeq(inflight, LAMBDA b : IsChunk(d, c, b))
      qs == SelectSeq(blkList, LAMBDA b : IsChunk(d, c, b))
  IN  IF fs # <<>> THEN Last(fs).lo
      ELSE IF qs # <<>> THEN Last(qs).ver
      ELSE dest[d][c]

\* No lost write: while a device is being migrated, every chunk the bulk
\* phase has passed is either marked dirty (and will be sent again) or
\* its newest contents are what the receiver will end up with.  Breaks if
\* the bulk skip, the dirty-bit reset at submission (bdrv_reset_dirty in
\* mig_save_device_bulk and mig_save_device_dirty) or the FIFO order of
\* blk_list and flush_blks goes wrong.
NoLostWrite ==
  \A d \in List : \A c \in BulkPassed(d) :
    c \in dirty[d] \/ LastCopy(d, c) = ver[d][c]

\* The PROGRESS frames of blk_mig_save_bulked_block and block_save_complete
\* report a percentage that only goes up, summed over the devices.
ProgressIncreasing ==
  [][progWire' # progWire => progWire' > progWire]_progWire

\* The assertion of block_save_complete: when the final phase starts, no
\* asynchronous read is outstanding (vm_stop drained them).
CompleteFindsNoReads == hpc = "cplAssert" => submitted = 0

\* Once the cleanup bottom half has run, whichever way the migration
\* ended (completed, failed or cancelled in any window), dirty tracking
\* is off, no device is held and no read is in flight.
CleanedUp == bhPc = "done" => ~tracking /\ ~listed /\ inflight = <<>>

\* The migration thread always ends and its cleanup bottom half runs.
MigrationEnds == <>(bhPc = "done")

\* Violated by the code.

\* Per the description of block_save_pending, the outer loop never cuts
\* over while a device's bulk phase is unfinished.
CutoverAfterBulk == hpc = "complete" => \A d \in List : bulkDone[d]

\* A completed migration has left the receiver with the newest contents
\* of every chunk the bulk phase went past, whatever the guest wrote in
\* between: the dirty count block_save_pending reads without the lock may
\* be stale when the thread decides to cut over, and the stopped guest's
\* last writes must then be sent by block_save_complete's flush and its
\* synchronous dirty loop, which run under the lock once vm_stop drained
\* the reads the last iterate left in flight.
CompletedCopyExact ==
  mig = "COMPLETED" =>
    \A d \in Devs : \A c \in BulkPassed(d) : dest[d][c] = ver[d][c]

\* A completed migration has told the receiver so: block_save_complete's
\* PROGRESS 100 frame followed by EOS ended the block section.
CompletionReported == mig = "COMPLETED" => progWire = 100 /\ lastFrame = "eos"

\* A cancel is final: migration_thread never overwrites CANCELLED.
CancelSticks == [][mig = "CANCELLED" => mig' = "CANCELLED"]_mig


\* migration_thread's last step passes s->cleanup_bh to qemu_bh_schedule
\* and migrate_fd_cleanup passes it to qemu_bh_delete; both dereference
\* it, so neither may run while s->cleanup_bh is NULL.
CleanupBhLive == [][ThreadExit \/ CleanupBH => cleanupBh]_vars
=============================================================================
