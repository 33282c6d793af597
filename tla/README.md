# TLA+ models of the replicated write log (librbd/cache/ReplicatedWriteLog.cc)

The replicated write log (RWL) is a write-back block cache between an RBD
image and the layer below it. Writes are acknowledged once they are durable
in a ring of log entries in persistent memory. Later they are written back to
the lower layer and their entries are retired. All of its code in this
repository is `src/src/librbd/cache/ReplicatedWriteLog.cc`. The header,
`BlockGuard`, `C_Gather` and the request classes live outside `src/`.
Anything taken from those is modelled from `spec.md` and marked
`spec_modelled` in `PROJECT.json`.

## The system's parts and how they interact

| Part | Code | What it does |
|---|---|---|
| Block guard | `detain_guarded_request*`, `release_guarded_request` | Serialises overlapping requests. An `aio_flush` is a barrier over the whole volume. |
| Allocation, deferred queue | `alloc_write_resources`, `alloc_flush_resources`, `alloc_and_dispatch_io_req`, `dispatch_deferred_writes`, `release_write_lanes` | A request takes a lane, a log entry and buffer bytes, or waits in FIFO order in `m_deferred_ios`. |
| Sync points | `new_sync_point`, `flush_new_sync_point`, `SyncPointLogOperation::appending/complete` | Split the write stream into generations. A sync point's record is appended after every write of its generation and after the earlier sync point is appending. |
| Append pipeline | `schedule_flush_and_append`, `flush_then_append_scheduled_ops`, `schedule_append`, `append_scheduled_ops`, `alloc_op_log_entries`, `append_op_log_entries`, `complete_op_log_entries`, `complete_write_req` | Batches operations into ring slots and publishes `first_free_entry` in one transaction. Completions run on `m_on_persist_finisher`. |
| Writeback | `process_writeback_dirty_entries`, `can_flush_entry`, `construct_flush_entry_ctx` | Writes dirty entries to the lower layer, one generation at a time, and retries failures from the front of the list. |
| Wake-up | `wake_up`, `process_work` | `wake_up` queues one `process_work` job on the work queue. `process_work` retires when triggered, calls `dispatch_deferred_writes` and `process_writeback_dirty_entries`, and loops while woken meanwhile, at most `max_iterations` times. |
| Reads | `aio_read`, `add_reader`, `remove_reader` | Each map entry a read hits is pinned until the read's buffer is released. `can_retire_entry` refuses a pinned entry. |
| Retirement | `process_work`, `can_retire_entry`, `retire_entries` | Frees a flushed prefix of the ring and advances `first_valid_entry`. Runs when an allocation failed or the bytes exceed the water marks. |
| Interval map | `WriteLogMap` | Maps each block to the newest log entry covering it. Used for reads and dropped on retirement. |
| Discard | `aio_discard`, `flush()`, `invalidate(extents)` | Holds a guard cell over its extent, waits in `flush()` until nothing is dirty or flushing, calls `invalidate` on the extent (which does nothing), discards in the lower layer, then completes and releases the cell. |
| Invalidate | `invalidate(Context*)`, `flush()`, `retire_entries` | Holds a guard cell over the whole volume (not a barrier), sets `m_invalidating`, closes the current sync point and waits for it, then `flush()`: while `m_invalidating` the dirty entries are marked flushed without being written to the lower layer. It then retires everything it can, invalidates the lower layer, clears `m_invalidating`, asserts the log and the dirty list are empty, and releases the cell. |
| Shutdown | `shut_down`, `flush()` | Waits for tracked async operations, sets `m_shutting_down`, waits in `flush()` until no entry is dirty or flushing, retires everything it can, waits again, then clears the map and closes the pool. |
| Recovery | `load_existing_entries` | Reloads `[first_valid_entry, first_free_entry)` after a restart and fabricates missing sync points. |

A write goes through these steps in order:
1. guard;
2. allocation, or the deferred queue;
3. `dispatch_aio_write`, which may start a sync point and adds the write to the map;
4. buffer flush;
5. append;
6. persist finisher, which completes the write, releases its lane and guard cell, and puts the entry on the dirty list;
7. writeback;
8. retirement.

A flush is a barrier. It closes the current sync point, and it completes when that sync point's record has persisted.

## Modules

| Module | Models |
|---|---|
| `BlockMap.tla` | The abstract promise of the interval map: block → newest entry, with `Add` and `Remove`. |
| `WriteLogMap.tla` | `WriteLogMap`: `add_log_entry_locked` (full occlusion, adjust at either end, split) and `remove_log_entry_locked`. The set of map entries and the `referring_map_entries` counts are the state. `find_map_entries_locked` is the set of entries the overlap comparator calls equal. `Abstract == INSTANCE BlockMap WITH blockMap <- AbstractMap` is the refinement mapping. A write's image extent (offset, length) is converted by `BlockExtentOf`, which does what `block_extent` does: the last block is `offset + length - 1`, so a zero-length extent ends before it starts and wraps to `UINT64_MAX` at offset 0 (`U64Max`, a value above every image block). The constant `MinLength` is the shortest write the environment issues. |
| `MC_WriteLogMap.tla` | Three entries over four blocks. That covers every occlusion case, including a split that is later occluded again. `MC_WriteLogMap.cfg` issues writes of at least one block (`MinLength = 1`); `MC_WriteLogMap_zero.cfg` allows length 0. |
| `WriteLog.tla` | The write path from `aio_write` and `aio_flush` to retirement, with one action per handler or context (list below). |
| `MC_WriteLog.tla` | Model values: three writes (w1 and w2 on block 0, w3 on block 1), one flush, one read, one discard of block 0 and one invalidate. The liveness instances use two writes to block 0, and `writes_written_back` adds the read. |
| `DeferredDispatch.tla` | Who retries a deferred write, and when. `dispatch_deferred_writes` is split into its three `m_lock` sections and the `alloc_resources` call between them, with one frame per thread that calls it: each caller, the persist finisher and `process_work`. It also models `m_dispatching_deferred_ops`, the `m_work_queue` dispatch of an allocated request, `wake_up` with its two flags, and `process_work`'s loop. Entries go from persisted to dirty, flushing, flushed and retired. The order of the log is left to `WriteLog`. |
| `MC_DeferredDispatch.tla` | Two requests for the liveness runs. Four requests, with symmetry, for the safety run: two deferred requests allocated in one dispatch pass put the first on the work queue. |

The WriteLog actions, and the code each one stands for:

| Action | Code |
|---|---|
| `AioWrite` | `aio_write` and `detain_guarded_request` |
| `GuardedWrite` | the guarded callback and `alloc_and_dispatch_io_req` |
| `DispatchWrite` | `dispatch_aio_write`, including `flush_new_sync_point` when a new sync point is due |
| `SPPersistReady` | the `m_sync_point_persist` finisher, which dispatches the internal flush request |
| `DispatchDeferred` | one pass of the `dispatch_deferred_writes` loop |
| `DispatchAllocated` | the queued dispatch of an allocated request |
| `FlushThenAppend` | `flush_then_append_scheduled_ops` and `schedule_append` |
| `AppendBatch` | `append_scheduled_ops` and `alloc_op_log_entries`; the copy into the ring is `AppendOpLogEntries` (`append_op_log_entries`) |
| `FinishBatch` | `complete_op_log_entries`, including `SyncPointLogOperation::complete` |
| `FinishWriteReq` | `complete_write_req`, `release_write_lanes` and `release_guarded_request` |

`DispatchWrite` (persist-on-flush) and `FinishWriteReq` (persist-on-write) acknowledge the caller through `CompleteUserRequest`, which models `complete_user_request`. Its compare-exchange makes a second call do nothing, so the model adds the write to `userAcked` as a set.
| `AioFlush` and `FlushGuarded` | `aio_flush` and its guarded callback |
| `ProcessWriteback` | `process_writeback_dirty_entries` and `can_flush_entry` |
| `WritebackDone` | the flush completion, on success or failure |
| `RetireTake` | the first locked section of `retire_entries`, including its `front()` reads |
| `RetireCommit` | the transaction and accounting of `retire_entries` |
| `RetireLoopEnd` | the time limit of `process_work`'s retire loop |
| `AioRead` | `aio_read`: find the map entries of a block range and `add_reader` each |
| `ReadRelease` | the hit buffers' deleters: `remove_reader` |
| `AioDiscard` | `aio_discard` entering the block guard over its extent |
| `DiscardGuarded` | the guarded callback: `flush()`, and when all clean at once `invalidate(extents)` and the lower layer's `aio_discard` |
| `DiscardDone` | the lower layer's discard completing, the completion to the caller and `release_guarded_request` |
| `SDStart` | `shut_down` registering its chain with `m_async_op_tracker.wait`, once the caller's requests have completed |
| `SDFlush` | the tracker wait completing: `m_shutting_down = true` and `flush()` (all clean, or a context left in `m_flush_complete_contexts`) |
| `ProcessWriteback` (drain) | `process_writeback_dirty_entries` finding the list empty and nothing in flight: it finishes the flush contexts, whose re-called `flush()` completes shut_down's flush stage or a discard's flush |
| `SDRetire` | one call of shut_down's `while (retire_entries(MAX_ALLOC_PER_TRANSACTION))` loop; the call that retires nothing ends the stage |
| `SDClose` | the close stage after the second tracker wait: map removal, `m_log_entries.clear()`, pool close |
| `AioInvalidate` | `invalidate` entering the block guard over the whole volume |
| `InvGuarded` | the guarded callback: `m_invalidating = true` and `flush_new_sync_point` with the invalidate's flush request |
| `InvFlush` | the flush request completing: `flush()` (all clean, or a context left in `m_flush_complete_contexts`) |
| `InvRetire` | one call of the `while (retire_entries(MAX_ALLOC_PER_TRANSACTION))` loop; the call that retires nothing calls the lower layer's `invalidate` |
| `InvDone` | the final context: `m_invalidating = false`, the asserts, the completion and `release_guarded_request` |

`AsyncOpsIdle` is what `m_async_op_tracker` waits for: no dispatched write or sync point flush request, no append or completion context, no writeback in flight, and no `retire_entries` between its halves. `m_shutting_down` (`ShuttingDown`) also turns on `process_work`'s retire loop, which then frees `MAX_ALLOC_PER_TRANSACTION` entries per transaction. The constant `ShutDownCalled` is TRUE only in `MC_WriteLog_live.cfg`, and `Discards` is non-empty (one discard of block 0) only in `MC_WriteLog_live_flush.cfg` and `MC_WriteLog_discard_map.cfg`, so the other runs are unchanged.

While `m_invalidating` is set, `can_flush_entry` admits every dirty entry, and a flush context made then (`construct_flush_entry_ctx` snapshots the flag) completes at once with success and writes nothing: such an entry is flushed but lands nowhere (`flushingInv`). `Dropped` is the set of those writes, the ones the invalidate threw away; `Newest`, `ReadLatest` and `WritebackOrdered` leave them out, and `ReadLatest` is not claimed while the invalidate is taking its entries out of the map. With no invalidate these are the properties as before. `Invalidates` holds one invalidate only in `MC_WriteLog.cfg` and `MC_WriteLog_invalidate_read.cfg`. In `MC_WriteLog.cfg` the bound `InvalidateAfterWrites` lets the caller invalidate only once every write and the flush have completed to it; the invalidate still meets the writes' pending, in-flight and failed writebacks and retirement.

The DeferredDispatch actions:

| Action | Code |
|---|---|
| `Submit`, `CallerAlloc`, `CallerDefer` | the three steps of `alloc_and_dispatch_io_req` on the caller's thread |
| `DDEnter`, `DDLoop`, `DDTry`, `DDExit` | `dispatch_deferred_writes`: become the dispatcher; the locked loop body; `alloc_resources` and the queueing of the previous allocated request; the final `dispatch()` |
| `DispatchQueued` | the `m_work_queue` job that dispatches an allocated request |
| `Persist` | `complete_op_log_entries`: the entry becomes dirty, then `wake_up` |
| `FinishReq` | `complete_write_req` → `release_write_lanes` → `dispatch_deferred_writes` on the finisher |
| `WritebackDone` | the writeback completion and its `wake_up` |
| `PWTop` … `PWEnd` | `process_work`: clear the request, the retire loop with `retire_entries`, the two `dispatch_deferred_writes` and writeback calls, the iteration test, the rescheduling |

How the model's state and data correspond to the code:
- Each guard cell is named by the request that holds it.
- Each write is one extent, and so one log operation.
- Data is the identity of the write that produced it. The lower layer's content of each block is `backing`.
- Bytes are counted in `MIN_WRITE_ALLOC_SIZE` units, one per write.
- Contexts queued on the persist finisher keep their FIFO order in `onPersistQ`. This is the `use_finishers` build.
- Contexts on the work queues are separate actions, so they interleave freely.

The recovery checks are state predicates, not actions. `DurableLog` is the ring between the root's two indices. `LoadScan` is the first pass of `load_existing_entries` over it. `RecoveredRead` is the second pass: it adds the reloaded writes to the map in log order, each occluding the older, so a block reads the last write of the ring covering it, else the lower layer. Evaluating them in every state amounts to checking a crash and reopen at every point.

## Runs

| Run | Config | Expect | What it shows |
|---|---|---|---|
| `map_refines_blockmap` | `MC_WriteLogMap.cfg` | pass | For writes of at least one block: map entries stay disjoint, which is what the comparator's `equal_range` relies on. `referring_map_entries` is exact. `RemovedUnreferenced`: after `remove_log_entry` no map entry refers to the removed entry, which `retire_entries` (line 3481) and `shut_down` (line 3103) assert; every split and adjustment must stay inside the entry's own extent for the removal to find it. The map implements `BlockMap` (`AbstractSpec`). Zero-length writes break the map; see the results not in the run list. |
| `persist_on_write_safety` | `MC_WriteLog.cfg` | pass | `RingConsistent`: the live entries sit in order from `first_valid_entry` to `first_free_entry`, and free + reserved + live = N−1 (see below). `ReadLatest`: a read from the map, or on a miss from the lower layer, returns the newest write. `WritebackOrdered`: the lower layer never receives a write before an overlapping one that completed before it was submitted. All of this holds with writeback failures and every interleaving. `CrashDurable`: a crash at any point loses no write completed to its caller (persist-on-write) or covered by a completed flush; after reopening, each of its blocks reads it or a newer write. One whole-cache invalidate joins the writes, so the four invariants also hold across its sync point, its bookkeeping-only flush and its retire loop. The instance has no reads, so `InvalidateEmpties` (its final context's asserts) is not checked here: it would hold only because nothing pins an entry. With a read it fails (see the results not in the run list). |
| `persist_on_flush_log_order` | `MC_WriteLog_pof.cfg` | pass | `LogGenOrder`: a crash at any point leaves sync points and writes in the order `load_existing_entries` asserts. |
| `writes_written_back` | `MC_WriteLog_live.cfg` | pass | Every submitted write eventually reaches the lower layer. `ReadBuffersLive`: while a read holds an entry's buffer, that entry is not being retired, and once completed it is still in the log. This holds with one read interleaved with the writes, writeback and retirement. The run also calls `shut_down` once every request has completed. `ShutDownDurable` (an action property): the close stage runs only when its asserts hold (no dirty entry, no remaining entry flushing or read) and the lower layer holds the newest write of every block. `ShutDownCompletes`: the shutdown eventually finishes. |
| `flushes_complete` | `MC_WriteLog_live_flush.cfg` | pass | With five log entries, so that no request is ever deferred, every `aio_flush` and every `aio_discard` eventually completes (`DiscardCompletes`). `DiscardNotOverwritten`: once a discard has completed, none of its blocks in the lower layer holds a write submitted before the discard. In other words, no earlier writeback lands after the discard, even with a failed writeback going back to the dirty list. |
| `flush_stalls_on_exhausted_ring` | `MC_WriteLog_stall.cfg` | violation | The flush never completes (finding 1). |
| `recovery_after_retire` | `MC_WriteLog_recovery.cfg` | violation | After retirement, the ring cannot be reloaded (finding 2). |
| `retire_front_of_empty` | `MC_WriteLog_retire_empty.cfg` | violation | `front()` is called on an empty list (finding 3). |
| `flush_not_downstream` | `MC_WriteLog_flush_downstream.cfg` | violation | A flush does not write back (finding 4). |
| `bytes_over_cap` | `MC_WriteLog_bytes_cap.cfg` | violation | The allocated bytes exceed the cap (finding 5). |
| `persist_on_flush_reorders_writeback` | `MC_WriteLog_pof_order.cfg` | violation | Persist-on-flush reorders writeback (finding 6). |
| `dispatch_flag_loses_wakeup` | `MC_DeferredDispatch_lanes.cfg` | violation | A freed lane is never used by the write waiting for it (finding 7). |

In `RingConsistent`, reserved entries are those taken by `alloc_write_resources` or `alloc_flush_resources` but not yet appended, and one slot is always kept free.

Every property of a passing run has a mutant in `PROJECT.json`: a plausible bug in one mapped definition, which TLC finds. The mutants are:
- a flush allocation without its free-entry test;
- a sync point dispatched without reserving its entry;
- retirement of unflushed writes;
- `can_flush_entry` without its generation test;
- a prior gather that ignores the generation's writes;
- a failed writeback that is dropped;
- `can_retire_entry` without its `reader_count` test;
- an `appending()` that does not release the later sync point;
- `process_writeback_dirty_entries`' `all_clean` without its in-flight test (the close stage then runs with a failed writeback back on the dirty list);
- `m_flush_complete_contexts` never finished (shutdown and discards hang);
- `flush()`'s `all_clean` without its in-flight test (a discard overtakes a writeback in flight);
- the second pass of `load_existing_entries` letting the first write of the ring win instead of the last;
- the map's occlusion, split, reference count and comparator each off by one case;
- an adjustment that decrements the reference count (the count goes negative);
- `remove_log_entry` erasing only the first map entry of the equal range.

## Findings

1. **Deadlock on an exhausted ring (code bug).**
   - `alloc_flush_resources` (line 2173) fails without setting `m_alloc_failed_since_retire`.
   - `process_work` retires only on that flag or when the bytes exceed the high-water mark.
   - Sync point entries take log entries but no bytes.
   - So the ring can be full while the bytes are at the high-water mark. A sync point's flush request then waits at the head of `m_deferred_ios` for ever, and so does every request behind it.
   - The trace (20 steps): w1, SP1 and w2 fill the three usable entries; f1 closes generation 2; SP2's flush request is deferred; nothing retires.
2. **Unrecoverable ring after retirement (code bug).**
   - `retire_entries` may free a prefix that ends just after sync point g while writes of generation g+1 remain.
   - When the pool is reopened there is no sync point in the ring, so `m_current_sync_gen` is 0.
   - `assert(kv.first == m_current_sync_gen+1)` (line 2818) then fails with 2 ≠ 1.
3. **`front()` of an empty list (code bug).** `retire_entries` reads `m_log_entries.front()` before the emptiness test (lines 3460 and 3483). This is reachable whenever the retire triggers hold while nothing is yet appended, and it is undefined behaviour. `shut_down`'s loop `while (retire_entries(MAX_ALLOC_PER_TRANSACTION)) {}` (line 3131) reaches it on every clean shutdown: the loop only ends on a call that retires nothing, and once everything is retired that call reads the front of an empty list.
4. **Flush does not reach the lower layer (divergence).** `aio_flush` completes once its sync point persists in the log (comment at line 2355). The spec's invariant 5 and scenario S6 say a flush makes earlier writes durable downstream.
5. **Byte cap exceeded (divergence).** The cap test at line 1677 runs before the new bytes are added. So `m_bytes_allocated` can exceed the cap, against spec invariant 4.
6. **Writeback reordered in persist-on-flush mode (divergence).**
   - A completed write does not start a new sync point (line 1920).
   - An overlapping write submitted after it completed shares its generation.
   - `can_flush_entry` (line 3283) flushes both concurrently.
   - The lower layer can receive the newer write first, against the spec's ordering law (spec line 238).
   - In persist-on-write mode the same law holds (`persist_on_write_safety`).
   - The reorder also loses data across a crash. `MC_WriteLog_crash_pof.cfg` (the persist-on-flush instance with `CrashDurable`) fails in 23 steps. f1 completes over w1 and w2, both on block 0. w2 lands first and w1 lands over it, then both entries are retired. A crash now reopens a ring without them, and block 0 reads w1, so w2 is lost although a completed flush covered it. This config is not in the run list; it shows the same root cause as `persist_on_flush_reorders_writeback`.
7. **Lost retry through `m_dispatching_deferred_ops` (code bug).**
   - `dispatch_deferred_writes` returns at once while another thread is the dispatcher (line 1772).
   - A dispatcher whose `alloc_resources` failed clears the flag in its next locked section and leaves.
   - A lane released between those two steps is retried by nobody.
   - The trace (27 steps), with one lane:
     - r2 is deferred, and its own thread becomes the dispatcher;
     - r2's allocation fails;
     - the finisher releases r1's lane, and its `dispatch_deferred_writes` returns at once because the flag is still set;
     - `process_work`'s calls return the same way;
     - r2's thread clears the flag and exits;
     - r2 waits for ever with the lane free.
   - This needs no entry shortage, so a fix for the missing `wake_up` below does not remove it.

### Results not yet in the run list

The project keeps to twelve runs, so these checks are on disk but not listed in `PROJECT.json`. Each can be run with `tlc`.
- **`MC_DeferredDispatch.cfg`: `TypeOK` and `SingleAllocation` pass.**
  - The run has four requests, two lanes and two entries, and takes 1.45M states.
  - Every thread may call `dispatch_deferred_writes`, yet no request is allocated twice, and free plus held lanes and entries stay constant.
  - TLC finds the mutants `AllocNoCheck` and `DDEnterNoFlag`.
  - It sets `CHECK_DEADLOCK FALSE`, because the code really does stop with a write deferred (finding 7).
- **`MC_DeferredDispatch_live.cfg`: a write deferred for want of log entries waits for ever (code bug).**
  - `alloc_write_resources` sets `m_alloc_failed_since_retire` (line 1749) and calls no `wake_up`.
  - `process_work` reads that flag only at its retire test.
  - The trace (27 steps): r2 is persisted, written back and flushed. The bytes are not above the high-water mark, so `process_work` does not retire. r1's allocation then fails for want of an entry, and r1 stays deferred with a flushed, retirable entry.
  - The spec (line 215) says an allocation failure kicks retirement.
- **`MC_WriteLog_discard_map.cfg`: discard leaves the old data in the map (divergence).**
  - `aio_discard` calls `invalidate({extent})`. That overload (line 3624) walks the extents and completes (line 3648) without touching the map.
  - The comment in `aio_discard` (lines 2117–2123) says the invalidate makes reads of the extent misses, "so all reads of the discarded region will always return the same content". Spec line 161 says discard invalidates the extent in the map.
  - `DiscardInvalidatesMap` fails in 11 steps: w1 is written back, d1 flushes and discards block 0 in the lower layer, and the map still maps block 0 to w1.
  - A read then returns w1 until w1's entry is retired. After that it returns the discarded content.
- **`MC_WriteLog_invalidate_read.cfg`: invalidate's assert fails while a read holds an entry (code bug).**
  - `aio_read` does not enter the block guard, so a read can hold an entry (`add_reader`) while the invalidate runs.
  - `can_retire_entry` refuses the pinned entry, so `while (retire_entries(...))` ends with it still in the log, and the final context's `assert(m_log_entries.size() == 0)` (line 3582) fails.
  - `InvalidateEmpties` fails in 17 steps: w1 is written back, r1 reads block 0 and holds w1, the invalidate's sync point persists, the retire loop retires nothing, and the invalidate completes with w1 and the sync point still in the log.
  - The writeback buffer's own reference is a second way to the same failure. `construct_flush_entry_ctx` calls `add_reader` (line 3318), and the buffer's deleter drops it only after the flush completes, so an entry written back just before the invalidate may still be pinned when the retire loop runs. `WriteLog` does not model that reference.
- **`MC_WriteLogMap_zero.cfg`: a zero-length write is never removed from the map (code bug).**
  - `block_extent` (line 45) gives a zero-length write the extent `[offset, offset - 1]`. Nothing in `aio_write` or `dispatch_aio_write` rejects length 0.
  - `WriteLogMapEntryCompare` then orders that extent before itself, so `equal_range` in `remove_log_entry_locked` never returns its own map entry.
  - `RemovedUnreferenced` fails in 3 steps: e1 is added with length 0 at block 1 and removed, and `referring_map_entries` stays 1. `retire_entries` asserts it is 0 (line 3481).
  - At offset 0 the extent wraps to `UINT64_MAX`, and the zero-length write occludes every entry of the map. Reads then hit an entry with no data. This is from reading the code; `AbstractSpec` does not catch it, because `BlockMap` is stated over block extents.
  - Two zero-length entries at the same offset are each less than the other, which breaks the ordering `std::set` requires.
- **One writeback over the in-flight limit (divergence).**
  - `can_flush_entry` admits an entry while `m_flush_ops_in_flight <= IN_FLIGHT_FLUSH_WRITE_LIMIT` (line 3290).
  - So a second `process_writeback_dirty_entries` call, with the limit already in flight, starts one more.
  - With limit 1, a bound of `Cardinality(flushing) <= InFlightFlushWriteLimit` fails after 9 steps.

## Bounds and why they suffice

- **Writes and flushes.** Three writes and one flush, with two writes overlapping. That is enough for:
  - guard detention and the barrier;
  - a sync point closed by a completed write and one closed by a flush;
  - `MaxWritesPerSyncPoint = 1`, so a point also fills up;
  - a deferred sync point request;
  - writeback of two generations with a failure in between.
- **Ring.** `NumLogEntries = 4` keeps three usable slots (five entries in `flushes_complete`, see Discard). So the ring wraps, is exhausted, and has appends, retirement and reservations in flight at once.
- **Lanes.** `NumLanes = 2` means lanes also run out.
- **Bytes.** `BytesAllocatedCap = 3` with water marks 1 and 0 makes retirement run both on the high-water trigger and inside the low-water loop. The violation runs that need it use cap 2, or water marks 2 and 1.
- **Batching.** `OpsFlushedTogether = 4`, `OpsAppendedTogether = 8`, `MaxFreePerTransaction = 8` and `InFlightFlushWriteLimit = 8` exceed the number of operations, so batching never splits a batch. Every action and every disjunct of `Next` fires in the passing runs.
- **WriteLogMap.** Four blocks and three entries reach every case of `add_log_entry_locked`, and a second occlusion of a split entry.
- **Reads.** One read, in the liveness instance with two writes to block 0 and high water 1, is enough to retire entries while the read holds them. With three writes the state space took nearly 3 minutes.
- **DeferredDispatch.**
  - For safety (`MC_DeferredDispatch.cfg`): four requests, two lanes and two entries. Two requests are deferred together and both get resources in one dispatch pass, so the first goes to the work queue (`DispatchQueued`). With three requests that never happens. `max_iterations` is 2, and symmetry over the requests is sound.
  - For liveness: two requests, with one lane (finding 7) or one entry short, and the code's `max_iterations` of 4.
- **Discard.** One discard of block 0 with two writes to block 0. The discard can come before, between or after the writes, with their writebacks pending, in flight or failed. `flushes_complete` uses five log entries (four usable), so no request waits in `m_deferred_ios`. It has 58,751 states and takes about 2 minutes.
- **Invalidate.** One invalidate in the three-write safety instance, issued once every write and the flush have completed (`InvalidateAfterWrites`). Without that bound the run took about 6 minutes alone (3.9M states); issued after the writes only, 2.0M states. With it, 827k states in under 1.5 minutes. A write or flush detained behind the invalidate's cell is therefore not checked. The invalidate still meets writebacks pending, in flight (made before `m_invalidating`, so real writes the retire loop must wait for) and failed, and retirement at every point.
- **Shutdown.** In `writes_written_back` the shutdown starts after both writes, the flush and the read have completed, in any state of writeback and retirement; a writeback may still fail during the flush stage. That run now has 41,429 states and takes about a minute.
- **Liveness.** The WriteLog liveness runs use two writes and one flush: 59k states with a discard (`flushes_complete`), 41k with a read and the shutdown (`writes_written_back`). The stall needs only two writes.

## Fairness

The safety runs assume no fairness. The liveness runs use `FairSpec`:
- weak fairness for each step of the work queue, the persist finisher, the appender, the writeback thread and `process_work`, which all keep running in the code;
- strong fairness for a successful writeback of each entry: the lower layer may fail a write, but the code retries it for ever and the lower layer is assumed to accept one eventually;
- weak fairness for a discard's guarded callback and for the lower layer's completion of its discard;
- weak fairness for the stages of `shut_down`, which run as completions of the tracker and of `flush()` on the work queue;
- no fairness for callers (including the call of `shut_down`) or for the retire loop's time limit;
- no fairness for `DispatchDeferred`. `release_write_lanes` and `process_work` call `dispatch_deferred_writes` again, but a call made while another thread holds `m_dispatching_deferred_ops` returns at once, and that thread may already have passed the front it failed on (finding 7). So the code does not guarantee the retry. The liveness runs therefore use rings in which nothing is deferred. `FairSpecRetry` adds weak fairness for `DispatchDeferred`, and only the violation run `flush_stalls_on_exhausted_ring` uses it: the flush stalls even when the deferred request is retried for ever.

DeferredDispatch's `FairSpec` gives weak fairness to each thread's steps:
- each caller inside `alloc_and_dispatch_io_req`;
- every frame of `dispatch_deferred_writes`;
- the work queue;
- the finisher;
- `process_work`;
- the lower layer's completions.

Issuing a request (`Submit`) is not fair. Finding 7 holds under this fairness: every thread keeps running, and still nobody retries. A read's buffers are released once the read completes, so `WriteLog`'s `FairSpec` makes `ReadRelease` weakly fair. `AioRead` is not fair.

The liveness runs set `CHECK_DEADLOCK FALSE`. A stop with work pending violates their properties anyway, so the property reports it rather than TLC's deadlock check. The safety runs keep the deadlock check, and `Next` allows idling only when every request has finished and every write has been written back.

## Not modelled

- **Read data.** The hit/miss split of `aio_read` and the assembly of its bufferlist are data layout. `ReadLatest` states what reads return.
- **The type of `reader_count`.** It is declared in the header, so the model takes `add_reader` and `remove_reader` as atomic. They run under a shared lock and under no lock.
- **Parts of `invalidate`.** The error override (`r < 0`) and the lower layer's invalidate, which changes no cache state. There is no liveness run for it: the liveness instances grew past what TLC checks in minutes.
- **Parts of `aio_discard`.** The `-EROFS` return for snapshots and read-only images, the error override, and `skip_partial_discard` (discards cover whole blocks).
- **Parts of `shut_down`.** `m_wake_up_enabled` (wake-ups are fairness in `WriteLog`), the error overrides of the context chain, timers, finishers, statistics and the lower layer's `shut_down`, none of which change cache state. The writeback buffer's own reader reference, released by its deleter after the flush completion, is not modelled. In the code it can leave a flushed entry unretired at close, which is harmless.
- **`writesame` and `compare_and_write`.** The code says of both "TBD: Must pass through block guard". `aio_compare_and_write` sends the request straight to the lower layer. It does not look at the cache, so it compares against data older than a dirty cached write. The later writeback of that cached write then overwrites its data. `aio_writesame` writes the lower layer directly, outside the guard. It also passes the same `on_finish` to `aio_write` of the expanded data, so the caller is completed twice. Its expansion loop appends `bl` after `bl` was moved into the lower-layer call, so the loop may never end. These are findings from reading the code; no run checks them. Modelling either operation puts a lower-layer write outside the guard and outside the write order. `ReadLatest`, `WritebackOrdered` and `CrashDurable` would fail in every passing instance, and showing that would take a violation run of its own. Both are listed as hazards in `PROJECT.json`.
- **Statistics.** Perf counters and periodic statistics.
- **Append details.**
  - the `use_finishers == false` completion path;
  - the ring-wrap split of `flush_op_log_entries`;
  - `pmemobj_reserve` failure and cancellation;
  - `MAX_BYTES_PER_SYNC_POINT`;
  - `IN_FLIGHT_FLUSH_BYTES_LIMIT`.
- **Dispatch inside WriteLog.** `WriteLog` still runs one dispatcher step at a time. The hand-off between dispatchers is the subject of `DeferredDispatch`, which leaves out log order, sync points and the map.
- **Recovery's second pass** beyond the map it rebuilds: the dirty list, the sync point statistics and byte counts, and reopening with the fabricated sync points appended.

These, together with the uncovered hazards in `PROJECT.json`, are the next candidates to model.
