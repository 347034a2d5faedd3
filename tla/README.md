# TLA+ models of live block migration

This directory models the outgoing side of QEMU's live block migration as it
is implemented in `src/block-migration.c` and driven by `src/migration.c`,
together with the scatter/gather helpers of `src/iov.c` and the coroutine
socket I/O of `src/qemu-coroutine-io.c`. The models are checked with TLC.

## The system

| Part | Source | Role |
|---|---|---|
| Save handlers | `block-migration.c` `block_save_setup` / `_iterate` / `_complete` / `_pending`, `block_migration_cancel` | Called by the migration thread through the savevm layer. |
| Bulk engine | `blk_mig_save_bulked_block`, `mig_save_device_bulk` | Reads every chunk of every device once, skipping unallocated runs with a shared base. |
| Dirty engine | `blk_mig_save_dirty_block`, `mig_save_device_dirty` | Re-reads chunks the guest dirtied: asynchronously while iterating, synchronously at cutover. |
| In-flight bitmap | `bmds_aio_inflight`, `bmds_set_aio_inflight`, `alloc_aio_bitmap` | Marks chunks with an outstanding dirty read, so the scan drains before re-reading them. |
| Completion queue | `blk_mig_read_cb`, `flush_blks`, `blk_mig_cleanup` | AIO completions queue blocks in `blk_list`; flushes put them on the stream under the rate limit. |
| Receiver | `block_load` | Decodes each record's be64 header and writes each DEVICE_BLOCK record into the destination image. |
| Migration thread | `migration.c` `migration_thread` | Measures bandwidth per tick, sleeps when rate-limited, calls pending and iterate, and cuts over (vm_stop, complete). |
| Cancel and cleanup | `migrate_fd_cancel`, `migrate_fd_cleanup` (bottom half) | Cancel sets the state; the BH deletes itself, runs the cancel handlers and joins the thread. |
| QMP migrate | `qmp_migrate`, `migrate_init`, `migrate_fd_error` | Refuses only an ACTIVE migration; otherwise wipes the `MigrationState` and starts a transport. |
| QMP set_speed | `qmp_migrate_set_speed` | Stores the bandwidth and, while the stream is open, sets its `xfer_limit` to a tenth of it. |
| iovec helpers | `iov.c` | `iov_size`, `iov_from_buf` / `_to_buf` / `_memset`, `iov_copy`, `iov_send_recv` and its `do_send_recv`, `qemu_iovec_*`. |
| Coroutine socket I/O | `qemu-coroutine-io.c` `qemu_co_sendv_recvv` | Loops over `iov_send_recv`, yielding on EAGAIN until every byte has moved. |

### How they interact

- **Locking.** The thread calls `setup`, `iterate` and `complete` with the iothread lock held. `iterate` takes the lock itself. `pending` is called, and the thread's `s->state` is read and written, without the lock. QMP commands, AIO completions and the bottom half run in the main loop under the lock.
- **Drains.** `bdrv_drain_all` runs completions in whichever thread drains. It is called from `mig_save_device_dirty`, `blk_mig_cleanup` and `vm_stop`.
- **The iovec layer** sits under the stream: `qemu_co_sendv_recvv` calls `iov_send_recv`, which trims the caller's vector in place to the requested window, calls `do_send_recv`, and undoes the trim.
- **Not in the repository.** The savevm layer, the QEMUFile stream and the block layer's dirty bitmap are modelled from `spec.md` and marked `spec_modelled` in `PROJECT.json`.

## Modules

- **`BlockMigration.tla`** models the block save side.
  - **State** is `block_mig_state`, including `shared_base` (`sharedBase`, chosen in Init with the allocation map, as `block_set_params` latches it before setup). It also holds each device's `BlkMigDevState` fields, the in-flight reads (in submit order) and `blk_list`, plus the guest's devices, the stream and the receiver.
  - **Guest's devices:** a version per chunk, the dirty set, the allocated sectors, and whether tracking is on.
  - **Stream:** the last PROGRESS value, the kind of the last frame, and the chunks sent this tick against the `xfer_limit`.
  - **Receiver:** the version it holds per chunk. Each record passes through `Header` (the encoding of `blk_send` and `block_save_complete`: address shifted over `BDRV_SECTOR_BITS`, flags below) and `BlockLoad` (the decode of `block_load`: `HeaderFlags`, `HeaderAddr`, then `bdrv_write` over the receiver's own `nr_sectors` clamp, `LoadNrSectors`). The PROGRESS value the receiver prints is `ReceivedProgress`. The image invariants of the core run are therefore about the decoded writes.
  - **Handlers** are step sequences on `hpc`: `SaveSetup`, `IterateStart`, `IterateLoop`, `DirtyScan`, `IterateEnd`, `CompleteStart`, `CompleteAssert`, `CleanupStart`, `CleanupFinish` and `CancelHandler`. Drains interleave with them through `DrainOne`.
  - **The other actors:**
    - `MainLoopReadCb` is an AIO completion delivered by the main loop.
    - `GuestWrite` bumps a chunk's version and marks it dirty when tracking is on.
  - **Data** is abstracted to versions. A read returns any version between the one at submission and the current one, because it races the guest's writes.
  - **Sectors are kept**, so the shared-base skip, chunk alignment and the partial tail chunk are computed as in the code.
- **`Migration.tla`** (EXTENDS `BlockMigration`) adds the driver.
  - **Thread:** the `migration_thread` program counter, `s->state`, `first_time`, `max_size`, `old_vm_running`, the stream's error latch, and the cleanup bottom half.
  - **Actions:**
    - thread steps: `ThreadTop`, `ThreadBody(reset)`, `Setup`, `Pending`, `Iterate`, `StopVm`, `Complete`, `CompleteRet`, `ThreadExit`, and `SaveRet` for returns from savevm;
    - main-loop steps: `QmpCancel`, `QmpSetSpeed` (the stream's `xfer_limit` set to a value of `SpeedLimits` until the bottom half closes the stream), `CleanupBH`, `CancelRet`;
    - in `SpecRestart` only, `QmpMigrate`: a second `qmp_migrate`. It runs `migrate_init`'s memset, which NULLs `s->cleanup_bh` (`cleanupBh`). The transport then either fails at once through `migrate_fd_error` (ERROR) or leaves the state SETUP.
  - **Faults:** read errors (`ReadErrors`) and failed socket writes (`StreamErrors`), which latch the stream's error when a savevm call returns.
- **`AioBitmap.tla`** models the in-flight bitmap at the level of `unsigned long` words and byte offsets.
  - A word is the set of its 1 bits. Memory is counted in bytes, so that accesses can be compared with what `alloc_aio_bitmap` allocated.
  - `SubmitDirtyRead` (test the bit, then set the chunk range) and `CompleteRead` (clear it) run over chunks at both ends of the device and around a word boundary.
  - A set of chunks with a read in flight is kept as the reference the words must agree with.
- **`IOVec.tla`** holds the `iov.c` helpers as operators.
  - Each C loop is a RECURSIVE operator over the loop's own variables: `SizeLoop`, `WalkLoop` (shared by `iov_from_buf`, `iov_to_buf`, `iov_memset`), `CopyLoop`, `SkipStart` and `SkipEnd` (the two trims of `iov_send_recv`), and `ConcatLoop`.
  - `SendRecvTrim`, `Window` and `SendRecvRestore` are the in-place trim, the window passed to `do_send_recv`, and the undo.
  - `QemuIovecInit`, `QemuIovecInitExternal`, `QemuIovecAdd` (with its `2 * nalloc + 1` growth), `QemuIovecReset`, `QemuIovecDestroy` and the `QemuIovecToBuf` / `FromBuf` / `Memset` wrappers model the `QEMUIOVector` calls.
  - Bytes are addresses (entry *k* at base `10 * k`), so the reference is `Flat(iov)`, the addresses laid end to end.
- **`IOVecCheck.tla`** checks those operators against reference definitions from the comments in `iov.h`. Each check takes a vector and tries every offset and byte count up to one past its size, every destination count and both allocation hints. `MCCoSendRecv` applies the checks to the vector of the `qemu_co_sendv_recvv` call, so they run in the `co_sendmsg` run.
- **`TransferSpec.tla`** is the abstract specification of a scatter/gather send or receive, from the `iov.h` comment: the bytes moved are a growing prefix of the region, in order; the call ends, returning the count or -1 when nothing moved.
- **`CoSendRecv.tla`** models `qemu_co_sendv_recvv` over `iov_send_recv`.
  - The socket may move fewer bytes than asked, be interrupted (EINTR), be not ready (EAGAIN, so the coroutine yields), fail (EIO), or be at end of file.
  - `Spec` is the POSIX build (one `sendmsg` / `recvmsg` over the window).
  - `SpecWin` is the build without `HAS_SEND_MSG` (one call per entry, `PieceStep` and `PieceDone`).
  - `Transfer` maps it to `TransferSpec`: region is the covered bytes, stream is `moved`, finished is `pc = "ret"`, and result is `result`.
- **MC modules:** `MCMigration.tla`, `MCAioBitmap.tla` and `MCCoSendRecv.tla` hold TLC's constants. `MCCoSendRecv.tla` also states the iovec reference properties for the call's vector.

## Runs

| Run | cfg | Expect | What it shows |
|---|---|---|---|
| core | `MCMigration.cfg` | pass | The migration properties below, for full and incremental (shared-base) copies, with a `migrate_set_speed` lowering the rate limit at any point. |
| dirty_scan_teardown | `MCDirtyCleanup.cfg` | violation | `CompletedCopyExact`: an iterate whose dirty scan finds nothing calls `blk_mig_cleanup` (`block-migration.c:571`), freeing a dirty read it had just submitted; the migration still ends COMPLETED and the receiver misses the guest's write. |
| cutover_during_bulk | `MCBulkCutover.cfg` | violation | `CutoverAfterBulk`: `block_save_pending` ignores the bulk phase, so the thread cuts over mid-bulk (`:638`). |
| completion_frames | `MCCompletion.cfg` | violation | `CompletionReported`: `block_save_complete` returns 1 before its PROGRESS 100 and EOS frames (`:619`). |
| cancel_overwritten | `MCCancel.cfg` | violation | `CancelSticks`: `migration_thread` overwrites CANCELLED with COMPLETED or ERROR (`migration.c:402`, `:371`). |
| migrate_restart | `MCRestart.cfg` | violation | `CleanupBhLive`: after a cancel, `qmp_migrate` (`migration.c:489` refuses only ACTIVE) runs `migrate_init`'s memset while the old thread is still live. The thread's exit then calls `qemu_bh_schedule(NULL)` (`:422`), or a pending BH calls `qemu_bh_delete(NULL)` (`:277`). The trace has 5 states. |
| bulk_dirty_overlap | `MCOutOfOrder.cfg` | violation | `NoLostWrite` with out-of-order completion: bulk reads carry no in-flight mark, so a dirty read of the same chunk overlaps one and stale data is sent last (`:242`). |
| stream_error | `MCStreamError.cfg` | violation | `CleanedUp`: a failed socket write ends the migration in ERROR with no handler having failed, and the cleanup BH cancels the block handlers only for CANCELLED (`migration.c:280`), so tracking and the devices are never released. |
| co_sendmsg | `MCCoSendMsg.cfg` | pass | `qemu_co_sendv_recvv` over `sendmsg` implements `TransferSpec`, and every `iov.c` helper agrees with its reference on the call's vector. |
| co_short_send | `MCCoShortSend.cfg` | violation | `TransferRefinement` without `HAS_SEND_MSG`: after a short send or receive of one entry, `do_send_recv` moves on to the next entry (`iov.c:144`), so bytes go out of order. |
| aio_bitmap | `MCAioBitmap.cfg` | pass | The word-level bitmap agrees with the chunks in flight. |
| aio_bitmap_bounds | `MCAioBitmapBounds.cfg` | violation | `AccessInBounds`: the bitmap is allocated in bytes but accessed in `unsigned long` words (`block-migration.c:176`). |

### What the core run checks

It covers two devices, with guest writes, read errors and user cancels, in-order completion, and both a full copy and a shared-base copy. It checks these properties:

- **`NoLostWrite`.** While devices are migrated, every chunk the bulk phase has passed is either dirty or will reach the receiver in its newest version. It tests the FIFO order of `blk_list` and the dirty bookkeeping. It does not test the drain in `mig_save_device_dirty` (`block-migration.c:362-364`): with in-order completion, two overlapping reads of a chunk still reach the stream oldest first. The drain itself is not checked, because the code does not keep its guarantee. In this configuration TLC reaches two dirty reads of one chunk in flight at the same time. A bulk read never sets the chunk's aio bit (`:242`), and its completion clears the bit that an overlapping dirty read set (`:189`). The next scan of that chunk then submits a second read without draining.
- **`ProgressIncreasing`.** PROGRESS frames only go up.
- **`CompleteFindsNoReads`.** This is the assertion in `block_save_complete`.
- **`CleanedUp`.** After the bottom half, tracking is off and no device or read is left, whichever way (completed, handler failure, cancel) the migration ended. A cancel overwritten at `migration.c:402` skips the cancel handlers, but the path that overwrote it (`block_save_complete`, or the failing handler) has already run `blk_mig_cleanup`, so that bug is shown by `CancelSticks`, not by this property.
- **`MigrationEnds`.** The bottom half always runs. This is shown for the modelled drain, `DrainOne`, which takes no lock; a completion that waits on the iothread lock held by the drainer (`block-migration.c:489`) is outside the model.

`CompletedCopyExact` goes further than `NoLostWrite`. It says that once the migration is COMPLETED, the receiver has the newest version of every chunk the bulk phase passed. It is violated in the core configuration only through the `block-migration.c:571` bug. With the test in `block_save_iterate_locked` changed to `ret < 0`, TLC finds it holding over the whole core configuration.

### The iovec and coroutine runs

- **`co_sendmsg`** checks these helpers on the caller's vector (`WalkMatchesReference`, `IovCopyMatchesReference`, `SendRecvWindowExact`, `SendRecvRestores`, `ConcatMatchesReference`, `ResetReuseMatchesReference`):
  - `iov_from_buf`, `iov_to_buf` and `iov_memset` touch exactly the bytes of the region, in order;
  - `iov_copy` produces a prefix of the region that fills it unless the destination is full;
  - `iov_send_recv` passes a window covering exactly the requested bytes and restores the caller's vector afterwards;
  - `qemu_iovec_concat` appends exactly the requested part;
  - a vector emptied by `qemu_iovec_reset` (capacity kept) or `qemu_iovec_destroy` (array freed) and filled again by `qemu_iovec_concat` holds exactly the new region with a true size and a sufficient capacity, and the `qemu_iovec_to_buf` / `_from_buf` / `_memset` wrappers then visit exactly that region.
- **`co_sendmsg`** also checks `TransferRefinement == Transfer!Spec`. The spec includes `TransferSpec`'s weak fairness on `Finish`, so the property also says that the call returns. `Finish` does not require the whole region to have moved: a call that ends early on an error or at end of file, returning the count so far, also implements it.

### Mutants

Each property of a passing run has a mutant in `PROJECT.json`. The mutant replaces one definition with a plausible bug, and TLC finds the property violated. Examples:

- a head insertion into `blk_list`;
- no drain in `vm_stop`;
- a wrong state tested in the cleanup BH;
- the earlier devices left out of the progress sum;
- an off-by-one in the iterate-or-cutover comparison;
- a tail chunk left unclamped;
- a copy that ignores the byte count;
- an undo that skips the tail;
- `QEMUIOVector` growth by plain doubling;
- a reset that leaves `size` alone;
- a retry that forgets the bytes already done;
- a bit index without the modulo;
- a chunk range one past the end.

## Bounds

- **Migration.**
  - **Devices.** Two devices of 4 and 3 sectors, with chunks of 2 sectors. The progress sums span devices, the scan moves between devices, and device 2 has a 1-sector tail chunk.
  - **Allocation maps.** One for the full copy (everything allocated), and one for the shared base with holes, so that the `bdrv_is_allocated` skip runs.
  - **Rate budget.** 2 chunks per tick, so reads queue up, flushes stop at the limit, and the thread sleeps. A `migrate_set_speed` may lower it to 1 chunk at any point, also after more was sent in the tick than the new limit allows. The other runs leave `SpeedLimits` empty.
  - **Guest writes.** At most 2, enough for a write during a bulk read and another after the dirty re-read.
  - **`max_size`.** It starts at 0, as in the code, and is 1 after a tick.
  - **Size.** The core run reaches 607,736 distinct states in about 60 s.
- **Coroutine I/O and iovec.** Vectors of 0 to 3 entries of 0 to 2 bytes, with empty entries at the start, the middle and the end, and up to 2 EINTR, EAGAIN or EIO results per call. That gives 40,394 states in about 125 s. The helper checks try, for each vector, every offset and count up to one past its size.
- **Bitmap.** The real constants are used: 2048 sectors per chunk, 512-byte sectors and 64-bit words.
  - Device sizes: 1 sector, one chunk, one chunk plus a sector, 63 chunks, and 64 chunks plus a sector.
  - Chunks probed: the first three, the last three, and the three after the first word boundary.

## Fairness

- **Migration thread and handlers: weak fairness.** They run whenever they can.
- **Main-loop completions and the cleanup BH: strong fairness.** They compete for the iothread lock, which the thread releases on every turn of its loop.
- **The tick reset: strong fairness.** The clock advances, so a thread that keeps returning to the top of its loop eventually starts a new tick.
- **The guest and the user: no fairness.** A guest write, a cancel or a speed change may never happen.
- **`SpecRestart`** has no fairness. It is checked only for the safety property `CleanupBhLive`.
- **Coroutine: weak fairness.** The coroutine runs whenever it is not waiting. The main loop re-enters a yielded coroutine once its socket is ready, which is what `qemu_coroutine_yield` under an fd handler relies on. Faults are bounded by `MaxFaults`, so a socket that is never ready again is out of scope.

## Not modelled

- **A user pause before cutover.** With the guest paused, `vm_stop_force_state` does not drain, so the assertion at `block-migration.c:613` can fire.
- **A second `qmp_migrate` that connects.** `migrate_fd_connect` would start a second `migration_thread` over the same `MigrationState` while the first may still run. `migrate_restart` already shows the memset breaking the first thread before any connect, and the model has a single thread.
- **A `migrate_set_speed` below `XFER_LIMIT_RATIO`.** A value under 10, or a negative value clamped to 0, makes `xfer_limit` 0. `qemu_file_rate_limit` reads 0 as "no limit". `block_save_iterate`'s loop, however, runs only while `(submitted + read_done) * BLOCK_SIZE < 0`, so it never submits a read, and the dirty scan never runs. With `SpeedLimits = {0}` in the core configuration, TLC finds `MigrationEnds` violated by a 17-state lasso: set_speed, setup, one guest write, then Pending and an empty Iterate forever. This is listed as a hazard at `block-migration.c:554`. The core run keeps limits of one chunk or more, so that its other properties are checked.
- **`qmp_migrate_set_downtime`** sets `max_downtime`, which only scales `max_size` (`migration.c:360`). The model draws `max_size` from `MaxSizes = {1}`, so it does not cover every downtime. A downtime of 0 gives `max_size` 0, and then `pending_size >= max_size` (`migration.c:392`) always holds: the thread never cuts over and iterates until cancelled. A tick with no bytes transferred gives the same 0 for that tick. `MigrationEnds` holds in the core run only because `max_size` is never 0 after a tick.
- **The early returns of `qmp_migrate`** (`qemu_savevm_state_blocked`, migration blockers) change no state.
- **The receiver's error exits.** `block_load` returns on an unknown device name, a zero-length device, a failed `bdrv_write`, a stream error or unknown flags. The destination is created with the sender's devices and sizes and no property is about a failing destination, so the model decodes and applies records and never takes these exits.
- **Incoming migration** (`qemu_start_incoming_migration`, `process_incoming_migration_co`, `migration.c` 1-100). It hands the stream to `qemu_loadvm_state` and the RAM and device loaders, none of which are in the repository.
- **Queries and capabilities** (`qmp_query_migrate`, `get_xbzrle_cache_stats`, `qmp_query_migrate_capabilities`, `qmp_migrate_set_capabilities`, `migrate_use_xbzrle` and the cache size setters, `blk_mig_bytes_transferred` / `_remaining` / `_total`, `blk_mig_active`). They fill report records or latch options that no modelled code reads. The XBZRLE cache and RAM migration are not in the repository.
- **`iov_hexdump`.** It only prints. It has a defect, listed as a hazard at `iov.c:216`. The loop moves to the next entry only when `i` equals the current entry's length, and it tests this once per byte. After it steps onto a zero-length entry, it prints past that entry until `limit` bytes are out. No run checks it; the dump would need a run of its own.
- **A zero-length `iov_copy` at an offset inside the vector.** This trips its final `assert(offset == 0)`. It is a single call that a unit test reproduces; `IovCopyMatchesReference` covers the copies that pass the assert.
- **`qemu-file.h`.** Only declarations are in the repository. The rate limit and error latch are modelled from the spec, and byte encoding is left out.
