------------------------------- MODULE WriteLog -------------------------------
(***************************************************************************)
(* The write path of ReplicatedWriteLog.cc from aio_write / aio_flush to    *)
(* writeback and retirement:                                               *)
(*   - the block guard and its flush barrier (detain_guarded_request,      *)
(*     release_guarded_request; BlockGuard itself is not in src/ and is    *)
(*     modelled from the specification);                                   *)
(*   - resource allocation and the deferred queue (alloc_write_resources,  *)
(*     alloc_flush_resources, alloc_and_dispatch_io_req,                   *)
(*     dispatch_deferred_writes);                                          *)
(*   - sync points (new_sync_point, flush_new_sync_point, their C_Gathers, *)
(*     SyncPointLogOperation::appending / complete);                       *)
(*   - the append pipeline (schedule_flush_and_append,                     *)
(*     flush_then_append_scheduled_ops, schedule_append,                   *)
(*     append_scheduled_ops, complete_op_log_entries, complete_write_req)  *)
(*     over the persistent ring of log entries;                            *)
(*   - writeback (process_writeback_dirty_entries, can_flush_entry, the    *)
(*     flush completion of construct_flush_entry_ctx) and retirement       *)
(*     (retire_entries).                                                   *)
(* Each write request carries one extent, hence one log operation.  Data  *)
(* are abstracted to the identity of the write that produced them; a      *)
(* block's content in the write log map is the newest write mapped to it  *)
(* (the abstract map of WriteLogMap, which refines BlockMap).              *)
(* Contexts run on m_on_persist_finisher are kept in FIFO order           *)
(* (use_finishers); the other contexts run on thread-pool work queues and *)
(* are separate actions that may interleave in any order.                  *)
(***************************************************************************)
EXTENDS Naturals, Sequences, FiniteSets, SequencesExt, FiniteSetsExt

CONSTANTS
  Writes,                    \* write requests (model values), one extent each
  UserFlushes,               \* aio_flush requests (model values)
  Reads,                     \* aio_read requests (model values)
  Ext,                       \* Ext[w]: the blocks of write w (an interval)
  MaxBlock,                  \* image blocks are 0 .. MaxBlock
  NumLogEntries,             \* m_total_log_entries: slots of the pmem ring
  NumLanes,                  \* lanes available to writes
  BytesAllocatedCap,         \* m_bytes_allocated_cap, in MIN_WRITE_ALLOC_SIZE units
  HighWater,                 \* cap * RETIRE_HIGH_WATER, same units
  LowWater,                  \* cap * RETIRE_LOW_WATER, same units
  MaxWritesPerSyncPoint,     \* MAX_WRITES_PER_SYNC_POINT
  OpsFlushedTogether,        \* ops_flushed_together
  OpsAppendedTogether,       \* ops_appended_together = MAX_ALLOC_PER_TRANSACTION
  MaxFreePerTransaction,     \* MAX_FREE_PER_TRANSACTION
  InFlightFlushWriteLimit,   \* IN_FLIGHT_FLUSH_WRITE_LIMIT
  PersistOnFlushInit,        \* initial m_persist_on_flush
  PersistOnWriteUntilFlush,  \* m_persist_on_write_until_flush
  WritebackMayFail,          \* the lower layer may fail a writeback write
  ShutDownCalled,            \* the image is closed: shut_down is called
  Discards,                  \* aio_discard requests (model values)
  DExt,                      \* DExt[d]: the blocks of discard d (an interval)
  Invalidates,               \* invalidate(whole) requests (model values)
  InvalidateAfterWrites,     \* bound: callers invalidate once every write and flush completed
  NoReq                      \* a model value: no request

Blocks == 0 .. MaxBlock
Reqs == Writes \cup UserFlushes \cup Discards \cup Invalidates

\* Sync generations: 1 at open (init_flush_new_sync_point), one more per
\* sync point created, and a sync point is created only after a write.
MaxGen == Cardinality(Writes) + Cardinality(Invalidates) + 1
Gens == 1 .. MaxGen

\* Log operations: a write's, or the sync point of a generation.
WOp(w) == [t |-> "w", id |-> w]
SPOp(g) == [t |-> "sp", id |-> g]
Ops == {WOp(w) : w \in Writes} \cup {SPOp(g) : g \in Gens}
NoOp == [t |-> "none", id |-> 0]

\* Requests that go through the deferred queue: writes, and the internal
\* flush requests that append a sync point.
DReq(w) == [t |-> "w", id |-> w]
DSP(g) == [t |-> "sp", id |-> g]

Slots == 0 .. NumLogEntries - 1

VARIABLES
  wPhase,           \* write request state
  wGen,             \* ram_entry.sync_gen_number of the write's log entry
  wOrder,           \* position of the write in map-insertion order
  dispatchCount,    \* writes dispatched so far
  detainedW,        \* write_req->m_detained
  deferredW,        \* write_req->m_deferred
  userAcked,        \* writes completed to the caller
  fPhase,           \* user flush request state
  fCover,           \* writes acknowledged before the flush was issued
  gCells,           \* requests holding a block guard cell
  gDetained,        \* requests detained on each cell, in order
  barrierInProgress,\* m_barrier_in_progress
  barrierCell,      \* m_barrier_cell (identified by the holding request)
  awaitingBarrier,  \* m_awaiting_barrier
  curGen,           \* m_current_sync_gen
  spPhase,          \* per generation: state of its sync point
  spWrites,         \* log_entry->m_writes
  spCompleted,      \* log_entry->m_writes_completed
  spWaitPrior,      \* prior gather holds a sub on the earlier point appending
  spEarlier,        \* earlier_sync_point link is set
  spOnAppending,    \* writes whose append waits in m_on_sync_point_appending
  spOnPersisted,    \* user flushes in m_on_sync_point_persisted
  persistOnFlush,   \* m_persist_on_flush
  flushSeen,        \* m_flush_seen
  deferredIos,      \* m_deferred_ios
  allocatedReqs,    \* allocated deferred requests queued for dispatch
  freeLanes,        \* m_free_lanes
  freeLogEntries,   \* m_free_log_entries
  bytesAllocated,   \* m_bytes_allocated
  allocFailed,      \* m_alloc_failed_since_retire
  opsToFlush,       \* m_ops_to_flush
  opsToAppend,      \* m_ops_to_append
  onPersistQ,       \* m_on_persist_finisher queue
  logEntries,       \* m_log_entries
  completed,        \* log_entry->completed
  pmem,             \* the pmem slot array
  firstFree,        \* m_first_free_entry (= pool root first_free_entry)
  firstValid,       \* m_first_valid_entry (= pool root first_valid_entry)
  dirty,            \* m_dirty_log_entries
  flushing,         \* write_entry->flushing
  flushed,          \* write_entry->flushed
  lowestFlushingGen,\* m_lowest_flushing_sync_gen
  retiring,         \* entries retire_entries took and has not yet freed
  blockMap,         \* m_blocks_to_log_entries as block -> newest write
  backing,          \* the lower layer's content of each block
  landed,           \* writes written back to each block (history)
  frontOnEmpty,     \* retire_entries called front() on an empty list
  retireLoop,       \* process_work is inside its retire loop
  wPof,             \* writes whose op set is m_persist_on_flush
  wAckedBefore,     \* overlapping writes completed to their caller before w was submitted
  rPhase,           \* read request state
  rPins,            \* write entries a read's hit buffers refer to (add_reader)
  sdPhase,          \* the stage of shut_down's context chain
  dPhase,           \* discard request state
  dBefore,          \* overlapping writes submitted before the discard
  iPhase,           \* invalidate request state
  invalidating,     \* m_invalidating
  flushingInv       \* flushing entries whose flush context saw m_invalidating

guardVars == <<gCells, gDetained, barrierInProgress, barrierCell, awaitingBarrier>>
spVars == <<curGen, spPhase, spWrites, spCompleted, spWaitPrior, spEarlier,
            spOnAppending, spOnPersisted>>
reqVars == <<wPhase, wGen, wOrder, dispatchCount, detainedW, deferredW,
             userAcked, fPhase, fCover, persistOnFlush, flushSeen, wPof,
             wAckedBefore>>
resVars == <<deferredIos, allocatedReqs, freeLanes, freeLogEntries,
             bytesAllocated, allocFailed>>
pipeVars == <<opsToFlush, opsToAppend, onPersistQ, logEntries, completed,
              pmem, firstFree, firstValid>>
wbVars == <<dirty, flushing, flushed, lowestFlushingGen, retiring, blockMap,
            backing, landed, frontOnEmpty, retireLoop>>
rVars == <<rPhase, rPins>>
dVars == <<dPhase, dBefore>>
iVars == <<iPhase, invalidating, flushingInv>>
vars == <<guardVars, spVars, reqVars, resVars, pipeVars, wbVars, rVars, sdPhase, dVars, iVars>>

-----------------------------------------------------------------------------
(***************************************************************************)
(* Block guard.  A guard state is a record of the guard variables.  A     *)
(* request holds at most one cell, so a cell is named by its holder.       *)
(***************************************************************************)
ExtOf(r) == CASE r \in Writes -> Ext[r]
               [] r \in Discards -> DExt[r]
               [] OTHER -> Blocks   \* flushes, invalidates: whole_volume_extent

Overlap(r1, r2) == ExtOf(r1) \cap ExtOf(r2) # {}

\* BlockGuard::detain: the request joins the first (lowest) cell its extent
\* overlaps, as std::set::find does under the overlap comparator, or gets a
\* new cell.  Returns the new guard and whether the cell was acquired.
Detain(G, r) ==
  LET ov == {h \in G.cells : Overlap(r, h)} IN
  IF ov = {}
  THEN [g |-> [G EXCEPT !.cells = @ \cup {r}], acq |-> TRUE]
  ELSE LET h == CHOOSE h \in ov : \A h2 \in ov : Min(ExtOf(h)) <= Min(ExtOf(h2))
       IN [g |-> [G EXCEPT !.det[h] = Append(@, r)], acq |-> FALSE]

\* detain_guarded_request_barrier_helper: while a barrier is in progress
\* every request queues in m_awaiting_barrier; a flush starts a barrier.
DetainBarrier(G, r) ==
  IF G.bip
  THEN [g |-> [G EXCEPT !.await = Append(@, r)], acq |-> FALSE]
  ELSE LET barrier == r \in UserFlushes
           G1 == IF barrier THEN [G EXCEPT !.bip = TRUE] ELSE G
           d == Detain(G1, r)
       IN [g |-> IF barrier
                 THEN [d.g EXCEPT !.bcell = IF d.acq THEN r ELSE NoReq]
                 ELSE d.g,
           acq |-> d.acq]

\* A flush detained in a cell is the current barrier (req.current_barrier).
RECURSIVE Redetain(_, _, _)
Redetain(G, reqs, acq) ==
  IF reqs = <<>> THEN [g |-> G, acq |-> acq]
  ELSE LET r == Head(reqs)
           d == Detain(G, r)
           G1 == IF d.acq /\ r \in UserFlushes THEN [d.g EXCEPT !.bcell = r] ELSE d.g
       IN Redetain(G1, Tail(reqs), IF d.acq THEN acq \cup {r} ELSE acq)

\* Move waiting requests into the guard until another barrier starts.
RECURSIVE DrainAwaiting(_, _)
DrainAwaiting(G, acq) ==
  IF G.bip \/ G.await = <<>> THEN [g |-> G, acq |-> acq]
  ELSE LET r == Head(G.await)
           d == DetainBarrier([G EXCEPT !.await = Tail(@)], r)
       IN DrainAwaiting(d.g, IF d.acq THEN acq \cup {r} ELSE acq)

\* release_guarded_request: the requests detained on the released cell are
\* detained again, then a released barrier lets the waiting requests in.
Release(G, h) ==
  LET G0 == [G EXCEPT !.cells = @ \ {h}, !.det[h] = <<>>]
      R1 == Redetain(G0, G.det[h], {})
  IN IF R1.g.bip /\ h = R1.g.bcell
     THEN DrainAwaiting([R1.g EXCEPT !.bip = FALSE, !.bcell = NoReq], R1.acq)
     ELSE R1

Guard == [cells |-> gCells, det |-> gDetained, bip |-> barrierInProgress,
          bcell |-> barrierCell, await |-> awaitingBarrier]

SetGuard(G) ==
  /\ gCells' = G.cells
  /\ gDetained' = G.det
  /\ barrierInProgress' = G.bip
  /\ barrierCell' = G.bcell
  /\ awaitingBarrier' = G.await

-----------------------------------------------------------------------------
(***************************************************************************)
(* Resources and sync points                                               *)
(***************************************************************************)
\* alloc_write_resources for a one-extent write: one lane, one log entry
\* and a buffer, unless the lanes or entries are short or the allocated
\* bytes already exceed the cap.  Entry or byte shortage is "no space".
WriteAllocOK == freeLanes >= 1 /\ freeLogEntries >= 1 /\ ~(bytesAllocated > BytesAllocatedCap)
WriteNoSpace == freeLogEntries < 1 \/ bytesAllocated > BytesAllocatedCap

AllocWrite ==
  /\ freeLanes' = freeLanes - 1
  /\ freeLogEntries' = freeLogEntries - 1
  /\ bytesAllocated' = bytesAllocated + 1

\* Fault model: alloc_flush_resources without its test for a free entry.
FlushAllocOKNoCheck == freeLogEntries >= 0

\* alloc_flush_resources: one log entry for the sync point record.
FlushAllocOK == freeLogEntries > 0

\* The write's log operation has been handed to schedule_append, so its
\* appending() ran and its sub of the sync point's prior gather completed.
Appending(w) == wPhase[w] \in {"toAppend", "appended", "persisted", "done"}

\* Fault model: the prior gather of a sync point does not wait for the
\* writes of its generation.
SPGatherDoneEarly(g) ==
  /\ spPhase[g] = "closed"
  /\ ~spWaitPrior[g]

\* m_prior_log_entries_persisted completes, and with it m_sync_point_persist:
\* the gather was activated (the point is no longer current), every write
\* of the generation is appending, and the earlier point is appending.
SPGatherDone(g) ==
  /\ spPhase[g] = "closed"
  /\ \A w \in Writes : wGen[w] = g => Appending(w)
  /\ ~spWaitPrior[g]

\* new_sync_point followed by the rest of flush_new_sync_point: the current
\* point is superseded (its gather activated, its flush request set as the
\* finisher of m_sync_point_persist) and a later point becomes current.
\* onPersisted: the user flush to complete when the old point persists.
FlushNewSyncPoint(onPersisted) ==
  LET old == curGen
      new == curGen + 1
  IN /\ curGen' = new
     /\ spPhase' = [spPhase EXCEPT ![old] = "closed", ![new] = "open"]
     /\ spEarlier' = [spEarlier EXCEPT ![new] = TRUE]
     /\ spWaitPrior' = [spWaitPrior EXCEPT ![new] =
                          spPhase[old] \notin {"toAppend", "appended", "done"}]
     /\ spOnPersisted' = [spOnPersisted EXCEPT ![old] = @ \cup onPersisted]

\* Fault model: appending() does not complete the later point's sub of its
\* prior gather.
SPAppendingKeepsPrior(g) ==
  /\ spPhase' = [spPhase EXCEPT ![g] = "toAppend"]
  /\ UNCHANGED spWaitPrior
  /\ spOnAppending' = [spOnAppending EXCEPT ![g] = <<>>]
  /\ opsToFlush' = opsToFlush \o [i \in 1 .. Len(spOnAppending[g]) |-> WOp(spOnAppending[g][i])]
  /\ wPhase' = [w \in Writes |-> IF w \in ToSet(spOnAppending[g]) THEN "toFlush" ELSE wPhase[w]]

\* SyncPointLogOperation::appending(), run by schedule_append: the point is
\* appending and the contexts waiting for that run in order: deferred write
\* appends go to schedule_flush_and_append, and the later point's prior
\* gather loses its sub.
SPAppending(g) ==
  /\ spPhase' = [spPhase EXCEPT ![g] = "toAppend"]
  /\ spWaitPrior' = IF g + 1 \in Gens THEN [spWaitPrior EXCEPT ![g + 1] = FALSE]
                                    ELSE spWaitPrior
  /\ spOnAppending' = [spOnAppending EXCEPT ![g] = <<>>]
  /\ opsToFlush' = opsToFlush \o [i \in 1 .. Len(spOnAppending[g]) |-> WOp(spOnAppending[g][i])]
  /\ wPhase' = [w \in Writes |-> IF w \in ToSet(spOnAppending[g]) THEN "toFlush" ELSE wPhase[w]]

\* dispatch_aio_flush: the sync point's log operation goes to schedule_append.
DispatchAioFlush(g) ==
  /\ opsToAppend' = Append(opsToAppend, SPOp(g))
  /\ SPAppending(g)

-----------------------------------------------------------------------------
(***************************************************************************)
(* Write requests                                                          *)
(***************************************************************************)
\* C_BlockIORequest::complete_user_request: the caller's request completes
\* once (compare_exchange on m_user_req_completed); a later call does
\* nothing.
CompleteUserRequest(w) == userAcked' = userAcked \cup {w}

\* dispatch_aio_write, resources already allocated.  A new sync point is
\* started first when, persisting on write, a write of the current point
\* has completed, or the point is full.  The write takes the current
\* generation, enters the map, is completed to the caller at once when
\* persisting on flush, and its append is scheduled: after the earlier sync
\* point is appending (persist-on-write with an earlier point still
\* linked), else at once, through the caller's thread (early flush) when
\* the write was neither detained, deferred nor persist-on-flush.
DispatchWrite(w, deferred) ==
  LET newSP == \/ ~persistOnFlush /\ spCompleted[curGen] > 0
               \/ spWrites[curGen] > MaxWritesPerSyncPoint
      g == IF newSP THEN curGen + 1 ELSE curGen
      waitEarlier == ~persistOnFlush /\ (newSP \/ spEarlier[curGen])
      early == ~(w \in detainedW \/ deferred \/ persistOnFlush)
      next == IF waitEarlier THEN "waitPriorSP"
              ELSE IF early THEN "toAppend" ELSE "toFlush"
  IN /\ IF newSP THEN FlushNewSyncPoint({})
                 ELSE UNCHANGED <<curGen, spPhase, spEarlier, spWaitPrior, spOnPersisted>>
     /\ wGen' = [wGen EXCEPT ![w] = g]
     /\ spWrites' = [spWrites EXCEPT ![g] = @ + 1]
     /\ wOrder' = [wOrder EXCEPT ![w] = dispatchCount + 1]
     /\ dispatchCount' = dispatchCount + 1
     /\ blockMap' = [b \in Blocks |-> IF b \in Ext[w] THEN w ELSE blockMap[b]]
     /\ wPof' = IF persistOnFlush THEN wPof \cup {w} ELSE wPof
     /\ IF persistOnFlush THEN CompleteUserRequest(w) ELSE UNCHANGED userAcked
     /\ spOnAppending' = IF waitEarlier
                         THEN [spOnAppending EXCEPT ![g - 1] = Append(@, w)]
                         ELSE spOnAppending
     /\ opsToFlush' = IF next = "toFlush" THEN Append(opsToFlush, WOp(w)) ELSE opsToFlush
     /\ opsToAppend' = IF next = "toAppend" THEN Append(opsToAppend, WOp(w)) ELSE opsToAppend
     /\ wPhase' = [wPhase EXCEPT ![w] = next]

DispatchWriteVars == <<curGen, spPhase, spEarlier, spWaitPrior, spOnPersisted,
                       wGen, spWrites, wOrder, dispatchCount, blockMap, wPof,
                       userAcked, spOnAppending, opsToFlush, opsToAppend, wPhase>>

\* aio_write: the request enters the block guard; when it gets its cell at
\* once, the guarded callback runs next on this thread.
AioWrite(w) ==
  /\ wPhase[w] = "init"
  /\ LET d == DetainBarrier(Guard, w) IN
     /\ SetGuard(d.g)
     /\ wPhase' = [wPhase EXCEPT ![w] = IF d.acq THEN "guarded" ELSE "detained"]
  /\ wAckedBefore' = [wAckedBefore EXCEPT ![w] = {x \in userAcked : Overlap(x, w)}]
  /\ UNCHANGED <<spVars, wGen, wOrder, dispatchCount, detainedW, deferredW,
                 userAcked, fPhase, fCover, persistOnFlush, flushSeen, wPof,
                 resVars, pipeVars, wbVars>>
  /\ UNCHANGED <<rVars, sdPhase, dVars, iVars>>

\* The guarded callback of aio_write, alloc_and_dispatch_io_req: dispatch
\* here when nothing is deferred and resources are allocated, else join the
\* deferred queue (a no-space failure sets m_alloc_failed_since_retire).
GuardedWrite(w) ==
  /\ wPhase[w] = "guarded"
  /\ IF deferredIos = <<>> /\ WriteAllocOK
     THEN /\ AllocWrite
          /\ DispatchWrite(w, FALSE)
          /\ UNCHANGED <<deferredIos, deferredW, allocFailed>>
     ELSE /\ deferredW' = deferredW \cup {w}
          /\ deferredIos' = Append(deferredIos, DReq(w))
          /\ allocFailed' = (allocFailed \/ (deferredIos = <<>> /\ WriteNoSpace))
          /\ wPhase' = [wPhase EXCEPT ![w] = "deferred"]
          /\ UNCHANGED <<freeLanes, freeLogEntries, bytesAllocated, curGen, spPhase,
                         spEarlier, spWaitPrior, spOnPersisted, wGen, spWrites, wOrder,
                         dispatchCount, blockMap, wPof, userAcked, spOnAppending,
                         opsToFlush, opsToAppend>>
  /\ UNCHANGED <<guardVars, spCompleted, detainedW, fPhase, fCover, persistOnFlush,
                 flushSeen, wAckedBefore, allocatedReqs, onPersistQ, logEntries, completed, pmem,
                 firstFree, firstValid, dirty, flushing, flushed, lowestFlushingGen,
                 retiring, backing, landed, frontOnEmpty, retireLoop>>
  /\ UNCHANGED <<rVars, sdPhase, dVars, iVars>>

-----------------------------------------------------------------------------
(***************************************************************************)
(* Sync point flush requests and the deferred queue                         *)
(***************************************************************************)
\* Fault model: the sync point's flush request is dispatched without
\* taking its log entry from m_free_log_entries.
SPPersistReadyNoReserve(g) ==
  /\ SPGatherDone(g)
  /\ deferredIos = <<>> /\ FlushAllocOK
  /\ DispatchAioFlush(g)
  /\ UNCHANGED <<deferredIos, freeLogEntries, guardVars, curGen, spWrites, spCompleted,
                 spEarlier, spOnPersisted, wGen, wOrder, dispatchCount, detainedW,
                 deferredW, userAcked, fPhase, fCover, persistOnFlush, flushSeen, wPof, wAckedBefore,
                 allocatedReqs, freeLanes, bytesAllocated, allocFailed, onPersistQ,
                 logEntries, completed, pmem, firstFree, firstValid, wbVars>>
  /\ UNCHANGED <<rVars, sdPhase, dVars, iVars>>

\* The finisher of m_sync_point_persist: alloc_and_dispatch_io_req for the
\* flush request that appends the sync point.
SPPersistReady(g) ==
  /\ SPGatherDone(g)
  /\ IF deferredIos = <<>> /\ FlushAllocOK
     THEN /\ freeLogEntries' = freeLogEntries - 1
          /\ DispatchAioFlush(g)
          /\ UNCHANGED deferredIos
     ELSE /\ deferredIos' = Append(deferredIos, DSP(g))
          /\ spPhase' = [spPhase EXCEPT ![g] = "deferred"]
          /\ UNCHANGED <<freeLogEntries, spWaitPrior, spOnAppending, opsToFlush,
                         opsToAppend, wPhase>>
  /\ UNCHANGED <<guardVars, curGen, spWrites, spCompleted, spEarlier, spOnPersisted,
                 wGen, wOrder, dispatchCount, detainedW, deferredW, userAcked, fPhase,
                 fCover, persistOnFlush, flushSeen, wPof, wAckedBefore, allocatedReqs, freeLanes,
                 bytesAllocated, allocFailed, onPersistQ, logEntries, completed, pmem,
                 firstFree, firstValid, wbVars>>
  /\ UNCHANGED <<rVars, sdPhase, dVars, iVars>>

\* One pass of the dispatch_deferred_writes loop: allocate for the request
\* at the front of m_deferred_ios; on success it leaves the list and its
\* dispatch is queued to the work queue, on failure dispatching stops.
DispatchDeferred ==
  /\ deferredIos # <<>>
  /\ LET r == Head(deferredIos) IN
     IF r.t = "w"
     THEN IF WriteAllocOK
          THEN /\ AllocWrite
               /\ deferredIos' = Tail(deferredIos)
               /\ allocatedReqs' = allocatedReqs \cup {r}
               /\ wPhase' = [wPhase EXCEPT ![r.id] = "allocated"]
               /\ UNCHANGED <<allocFailed, spPhase>>
          ELSE /\ WriteNoSpace /\ ~allocFailed
               /\ allocFailed' = TRUE
               /\ UNCHANGED <<freeLanes, freeLogEntries, bytesAllocated, deferredIos,
                              allocatedReqs, wPhase, spPhase>>
     ELSE /\ FlushAllocOK
          /\ freeLogEntries' = freeLogEntries - 1
          /\ deferredIos' = Tail(deferredIos)
          /\ allocatedReqs' = allocatedReqs \cup {r}
          /\ spPhase' = [spPhase EXCEPT ![r.id] = "allocated"]
          /\ UNCHANGED <<freeLanes, bytesAllocated, allocFailed, wPhase>>
  /\ UNCHANGED <<guardVars, curGen, spWrites, spCompleted, spWaitPrior, spEarlier,
                 spOnAppending, spOnPersisted, wGen, wOrder, dispatchCount, detainedW,
                 deferredW, userAcked, fPhase, fCover, persistOnFlush, flushSeen, wPof, wAckedBefore,
                 pipeVars, wbVars>>
  /\ UNCHANGED <<rVars, sdPhase, dVars, iVars>>

\* The queued dispatch of an allocated deferred request.
DispatchAllocated(r) ==
  /\ r \in allocatedReqs
  /\ allocatedReqs' = allocatedReqs \ {r}
  /\ IF r.t = "w"
     THEN DispatchWrite(r.id, TRUE)
     ELSE /\ DispatchAioFlush(r.id)
          /\ UNCHANGED <<curGen, spEarlier, spOnPersisted, wGen, spWrites, wOrder,
                         dispatchCount, blockMap, wPof, userAcked>>
  /\ UNCHANGED <<guardVars, spCompleted, detainedW, deferredW, fPhase, fCover,
                 persistOnFlush, flushSeen, wAckedBefore, deferredIos, freeLanes, freeLogEntries,
                 bytesAllocated, allocFailed, onPersistQ, logEntries, completed, pmem,
                 firstFree, firstValid, dirty, flushing, flushed, lowestFlushingGen,
                 retiring, backing, landed, frontOnEmpty, retireLoop>>
  /\ UNCHANGED <<rVars, sdPhase, dVars, iVars>>

-----------------------------------------------------------------------------
(***************************************************************************)
(* Append pipeline                                                         *)
(***************************************************************************)
BatchLen(q, limit) == IF Len(q) > limit THEN limit ELSE Len(q)

\* One pass of flush_then_append_scheduled_ops: up to ops_flushed_together
\* ops leave m_ops_to_flush, have their buffers flushed, and go to
\* schedule_append (their appending() runs).
FlushThenAppend ==
  /\ opsToFlush # <<>>
  /\ LET k == BatchLen(opsToFlush, OpsFlushedTogether)
         batch == SubSeq(opsToFlush, 1, k)
     IN /\ opsToFlush' = SubSeq(opsToFlush, k + 1, Len(opsToFlush))
        /\ opsToAppend' = opsToAppend \o batch
        /\ wPhase' = [w \in Writes |-> IF WOp(w) \in ToSet(batch) THEN "toAppend" ELSE wPhase[w]]
  /\ UNCHANGED <<guardVars, spVars, wGen, wOrder, dispatchCount, detainedW, deferredW,
                 userAcked, fPhase, fCover, persistOnFlush, flushSeen, wPof, wAckedBefore, resVars,
                 onPersistQ, logEntries, completed, pmem, firstFree, firstValid, wbVars>>
  /\ UNCHANGED <<rVars, sdPhase, dVars, iVars>>

\* alloc_op_log_entries: the i-th op of a batch of k takes the i-th slot
\* from m_first_free_entry on.
LogSlot(i, k) == (firstFree + i - 1) % NumLogEntries

\* append_op_log_entries: each op's entry is copied into its slot of the
\* ring and flushed, and one transaction publishes the new
\* first_free_entry with the ops' data buffers.  An abort of that
\* transaction asserts.
AppendOpLogEntries(batch, k) ==
  /\ pmem' = [s \in Slots |-> IF \E i \in 1 .. k : LogSlot(i, k) = s
                              THEN batch[CHOOSE i \in 1 .. k : LogSlot(i, k) = s]
                              ELSE pmem[s]]
  /\ firstFree' = (firstFree + k) % NumLogEntries

\* One pass of append_scheduled_ops by the single appender (m_appending):
\* up to ops_appended_together ops leave m_ops_to_append, take the next
\* slots of the ring in order (alloc_op_log_entries), are written and
\* published with the new first_free_entry in one transaction
\* (append_op_log_entries), and their completion is queued on the persist
\* finisher (complete_op_log_entries).
AppendBatch ==
  /\ opsToAppend # <<>>
  /\ LET k == BatchLen(opsToAppend, OpsAppendedTogether)
         batch == SubSeq(opsToAppend, 1, k)
     IN /\ opsToAppend' = SubSeq(opsToAppend, k + 1, Len(opsToAppend))
        /\ AppendOpLogEntries(batch, k)
        /\ logEntries' = logEntries \o batch
        /\ onPersistQ' = Append(onPersistQ, [kind |-> "batch", ops |-> batch])
        /\ wPhase' = [w \in Writes |-> IF WOp(w) \in ToSet(batch) THEN "appended" ELSE wPhase[w]]
        /\ spPhase' = [g \in Gens |-> IF SPOp(g) \in ToSet(batch) THEN "appended" ELSE spPhase[g]]
  /\ UNCHANGED <<guardVars, curGen, spWrites, spCompleted, spWaitPrior, spEarlier,
                 spOnAppending, spOnPersisted, wGen, wOrder, dispatchCount, detainedW,
                 deferredW, userAcked, fPhase, fCover, persistOnFlush, flushSeen, wPof, wAckedBefore,
                 resVars, opsToFlush, completed, firstValid, wbVars>>
  /\ UNCHANGED <<rVars, sdPhase, dVars, iVars>>

\* The completion context of complete_op_log_entries, at the head of the
\* persist finisher.  Each op is completed in order.  A write counts in its
\* sync point's m_writes_completed and its op set's persist gather queues
\* the write request's completion on the same finisher (C_OnFinisher).  A
\* sync point (SyncPointLogOperation::complete) unlinks from the later
\* point, runs the append contexts queued on it since it began appending,
\* and completes the flush requests waiting for it.  The writes then join
\* the dirty list.
FinishBatch ==
  /\ onPersistQ # <<>>
  /\ Head(onPersistQ).kind = "batch"
  /\ LET b == Head(onPersistQ).ops
         ws == [i \in 1 .. Len(SelectSeq(b, LAMBDA o : o.t = "w")) |->
                  SelectSeq(b, LAMBDA o : o.t = "w")[i].id]
         sps == {o.id : o \in {o \in ToSet(b) : o.t = "sp"}}
         spSeq == SetToSortSeq(sps, LAMBDA x, y : x < y)
         waiting == FoldLeft(LAMBDA acc, g : acc \o spOnAppending[g], <<>>, spSeq)
     IN /\ completed' = completed \cup ToSet(b)
        /\ spCompleted' = [g \in Gens |-> spCompleted[g]
                             + Cardinality({w \in ToSet(ws) : wGen[w] = g})]
        /\ dirty' = dirty \o ws
        /\ onPersistQ' = Tail(onPersistQ) \o [i \in 1 .. Len(ws) |-> [kind |-> "wreq", w |-> ws[i]]]
        /\ spEarlier' = [g \in Gens |-> IF g - 1 \in sps THEN FALSE ELSE spEarlier[g]]
        /\ spOnAppending' = [g \in Gens |-> IF g \in sps THEN <<>> ELSE spOnAppending[g]]
        /\ opsToFlush' = opsToFlush \o [i \in 1 .. Len(waiting) |-> WOp(waiting[i])]
        /\ wPhase' = [w \in Writes |-> IF w \in ToSet(ws) THEN "persisted"
                                       ELSE IF w \in ToSet(waiting) THEN "toFlush"
                                       ELSE wPhase[w]]
        /\ fPhase' = [f \in UserFlushes |-> IF \E g \in sps : f \in spOnPersisted[g]
                                            THEN "done" ELSE fPhase[f]]
        /\ iPhase' = [i \in Invalidates |-> IF \E g \in sps : i \in spOnPersisted[g]
                                            THEN "persisted" ELSE iPhase[i]]
        /\ spOnPersisted' = [g \in Gens |-> IF g \in sps THEN {} ELSE spOnPersisted[g]]
        /\ spPhase' = [g \in Gens |-> IF g \in sps THEN "done" ELSE spPhase[g]]
  /\ UNCHANGED <<guardVars, curGen, spWrites, spWaitPrior, wGen, wOrder, dispatchCount,
                 detainedW, deferredW, userAcked, fCover, persistOnFlush, flushSeen,
                 wPof, wAckedBefore, resVars, opsToAppend, logEntries, pmem, firstFree, firstValid,
                 flushing, flushed, lowestFlushingGen, retiring, blockMap, backing,
                 landed, frontOnEmpty, retireLoop>>
  /\ UNCHANGED <<rVars, sdPhase, dVars, invalidating, flushingInv>>

\* complete_write_req at the head of the persist finisher: a
\* persist-on-write request completes to its caller, its lane is returned
\* (release_write_lanes) and its block guard cell released.
FinishWriteReq ==
  /\ onPersistQ # <<>>
  /\ Head(onPersistQ).kind = "wreq"
  /\ LET w == Head(onPersistQ).w
         R == Release(Guard, w)
     IN /\ onPersistQ' = Tail(onPersistQ)
        /\ CompleteUserRequest(w)
        /\ freeLanes' = freeLanes + 1
        /\ SetGuard(R.g)
        /\ detainedW' = detainedW \cup (ToSet(gDetained[w]) \cap Writes)
        /\ wPhase' = [x \in Writes |-> IF x = w THEN "done"
                                       ELSE IF x \in R.acq THEN "guarded" ELSE wPhase[x]]
        /\ fPhase' = [f \in UserFlushes |-> IF f \in R.acq THEN "guarded" ELSE fPhase[f]]
        /\ dPhase' = [d \in Discards |-> IF d \in R.acq THEN "guarded" ELSE dPhase[d]]
        /\ iPhase' = [i \in Invalidates |-> IF i \in R.acq THEN "guarded" ELSE iPhase[i]]
  /\ UNCHANGED <<spVars, wGen, wOrder, dispatchCount, deferredW, fCover, persistOnFlush,
                 flushSeen, wPof, wAckedBefore, deferredIos, allocatedReqs, freeLogEntries,
                 bytesAllocated, allocFailed, opsToFlush, opsToAppend, logEntries,
                 completed, pmem, firstFree, firstValid, wbVars>>
  /\ UNCHANGED <<rVars, sdPhase, dBefore, invalidating, flushingInv>>

-----------------------------------------------------------------------------
(***************************************************************************)
(* User flush requests                                                     *)
(***************************************************************************)
\* aio_flush: the request enters the block guard as a barrier over the
\* whole volume.  fCover records the writes already completed to callers.
AioFlush(f) ==
  /\ fPhase[f] = "init"
  /\ LET d == DetainBarrier(Guard, f) IN
     /\ SetGuard(d.g)
     /\ fPhase' = [fPhase EXCEPT ![f] = IF d.acq THEN "guarded" ELSE "detained"]
  /\ fCover' = [fCover EXCEPT ![f] = userAcked]
  /\ UNCHANGED <<spVars, wPhase, wGen, wOrder, dispatchCount, detainedW, deferredW,
                 userAcked, persistOnFlush, flushSeen, wPof, wAckedBefore, resVars, pipeVars, wbVars>>
  /\ UNCHANGED <<rVars, sdPhase, dVars, iVars>>

\* The guarded callback of aio_flush.  The first flush switches to
\* persist-on-flush when so configured.  With writes in the current sync
\* point a new point starts and the flush completes when the old one
\* persists; else it completes with the earlier point if one is still
\* linked, else at once.  The guard cell is then released.
FlushGuarded(f) ==
  /\ fPhase[f] = "guarded"
  /\ flushSeen' = TRUE
  /\ persistOnFlush' = (persistOnFlush \/ (~flushSeen /\ PersistOnWriteUntilFlush))
  /\ LET R == Release(Guard, f) IN
     /\ SetGuard(R.g)
     /\ wPhase' = [w \in Writes |-> IF w \in R.acq THEN "guarded" ELSE wPhase[w]]
     /\ detainedW' = detainedW \cup (ToSet(gDetained[f]) \cap Writes)
     /\ dPhase' = [d \in Discards |-> IF d \in R.acq THEN "guarded" ELSE dPhase[d]]
     /\ iPhase' = [i \in Invalidates |-> IF i \in R.acq THEN "guarded" ELSE iPhase[i]]
     /\ CASE spWrites[curGen] > 0 ->
               /\ FlushNewSyncPoint({f})
               /\ fPhase' = [g \in UserFlushes |-> IF g = f THEN "waitSP"
                                                   ELSE IF g \in R.acq THEN "guarded"
                                                   ELSE fPhase[g]]
          [] spEarlier[curGen] ->
               /\ spOnPersisted' = [spOnPersisted EXCEPT ![curGen - 1] = @ \cup {f}]
               /\ fPhase' = [g \in UserFlushes |-> IF g = f THEN "waitSP"
                                                   ELSE IF g \in R.acq THEN "guarded"
                                                   ELSE fPhase[g]]
               /\ UNCHANGED <<curGen, spPhase, spEarlier, spWaitPrior>>
          [] OTHER ->
               /\ fPhase' = [g \in UserFlushes |-> IF g = f THEN "done"
                                                   ELSE IF g \in R.acq THEN "guarded"
                                                   ELSE fPhase[g]]
               /\ UNCHANGED <<curGen, spPhase, spEarlier, spWaitPrior, spOnPersisted>>
  /\ UNCHANGED <<spWrites, spCompleted, spOnAppending, wGen, wOrder, dispatchCount,
                 deferredW, userAcked, fCover, wPof, wAckedBefore, resVars, pipeVars, wbVars>>
  /\ UNCHANGED <<rVars, sdPhase, dBefore, invalidating, flushingInv>>

-----------------------------------------------------------------------------
(***************************************************************************)
(* Writeback and retirement                                                *)
(***************************************************************************)
\* Fault model: can_flush_entry without the sync generation test.
CanFlushEntryAnyGen(w, fl, lowest) ==
  /\ WOp(w) \in completed
  /\ Cardinality(fl) <= InFlightFlushWriteLimit

\* can_flush_entry for a dirty (hence completed) write entry: any entry
\* while invalidating; else while flushes are in flight only entries of a
\* generation no higher than the lowest flushing one, and only while at
\* most the in-flight limit are flushing.
CanFlushEntry(w, fl, lowest) ==
  \/ invalidating
  \/ /\ ~(fl # {} /\ wGen[w] > lowest)
     /\ WOp(w) \in completed
     /\ Cardinality(fl) <= InFlightFlushWriteLimit

\* The loop of process_writeback_dirty_entries: start writeback of dirty
\* entries from the front while they are flushable, at most
\* IN_FLIGHT_FLUSH_WRITE_LIMIT per call (construct_flush_entry_ctx lowers
\* m_lowest_flushing_sync_gen and counts the entry in flight).
RECURSIVE StartFlushes(_, _)
StartFlushes(st, n) ==
  IF n >= InFlightFlushWriteLimit \/ st.dirty = <<>> THEN st
  ELSE LET w == Head(st.dirty) IN
       IF ~CanFlushEntry(w, st.flushing, st.lowest) THEN st
       ELSE StartFlushes([dirty |-> Tail(st.dirty),
                          flushing |-> st.flushing \cup {w},
                          lowest |-> IF st.flushing = {} \/ wGen[w] < st.lowest
                                     THEN wGen[w] ELSE st.lowest], n + 1)

\* Fault model: all_clean without the test of m_flush_ops_in_flight.
WritebackAllCleanDirtyOnly(st) == st.dirty = <<>>

\* all_clean of process_writeback_dirty_entries, when its loop found
\* m_dirty_log_entries empty: no writeback is in flight.
WritebackAllClean(st) == st.dirty = <<>> /\ st.flushing = {}

\* Fault model: m_flush_complete_contexts are never finished.
ProcessWritebackNoDrain ==
  LET st == StartFlushes([dirty |-> dirty, flushing |-> flushing,
                          lowest |-> lowestFlushingGen], 0)
  IN /\ st.dirty # dirty
     /\ dirty' = st.dirty
     /\ flushing' = st.flushing
     /\ lowestFlushingGen' = st.lowest
     /\ UNCHANGED <<guardVars, spVars, reqVars, resVars, pipeVars, flushed, retiring,
                    blockMap, backing, landed, frontOnEmpty, retireLoop>>
  /\ UNCHANGED <<rVars, sdPhase, dVars, iVars>>

\* Requests whose flush() left a context in m_flush_complete_contexts.
FlushWaiting ==
  \/ sdPhase = "flushWait"
  \/ \E d \in Discards : dPhase[d] = "flushWait"
  \/ \E i \in Invalidates : iPhase[i] = "flushWait"

\* process_writeback_dirty_entries, run by process_work after a wake_up (a
\* new dirty entry, a writeback completion, flush()): start the writebacks
\* of the flushable front of the dirty list; when it is all clean, finish
\* m_flush_complete_contexts: each context flush() left re-calls flush(),
\* which finds everything clean and runs its caller's next stage
\* (shut_down's or invalidate's retirement, a discard's pass-down).  The
\* flush contexts made while invalidating only do the bookkeeping.
ProcessWriteback ==
  LET st == StartFlushes([dirty |-> dirty, flushing |-> flushing,
                          lowest |-> lowestFlushingGen], 0)
      drain == WritebackAllClean(st) /\ FlushWaiting
  IN /\ st.dirty # dirty \/ drain
     /\ dirty' = st.dirty
     /\ flushing' = st.flushing
     /\ lowestFlushingGen' = st.lowest
     /\ sdPhase' = IF drain /\ sdPhase = "flushWait" THEN "retire" ELSE sdPhase
     /\ dPhase' = [d \in Discards |-> IF drain /\ dPhase[d] = "flushWait"
                                      THEN "discarding" ELSE dPhase[d]]
     /\ iPhase' = [i \in Invalidates |-> IF drain /\ iPhase[i] = "flushWait"
                                         THEN "retire" ELSE iPhase[i]]
     /\ flushingInv' = IF invalidating THEN flushingInv \cup (st.flushing \ flushing)
                                      ELSE flushingInv
     /\ UNCHANGED <<guardVars, spVars, reqVars, resVars, pipeVars, flushed, retiring,
                    blockMap, backing, landed, frontOnEmpty, retireLoop>>
  /\ UNCHANGED <<rVars, dBefore, invalidating>>

\* Fault model: a failed writeback is not put back on the dirty list.
WritebackDoneDropsFailed(w, ok) ==
  /\ w \in flushing
  /\ ok \/ WritebackMayFail
  /\ flushing' = flushing \ {w}
  /\ IF ok
     THEN /\ flushed' = flushed \cup {w}
          /\ backing' = [b \in Blocks |-> IF b \in Ext[w] THEN w ELSE backing[b]]
          /\ landed' = [b \in Blocks |-> IF b \in Ext[w] THEN landed[b] \cup {w} ELSE landed[b]]
     ELSE UNCHANGED <<flushed, backing, landed>>
  /\ UNCHANGED <<guardVars, spVars, reqVars, resVars, pipeVars, lowestFlushingGen,
                 retiring, blockMap, frontOnEmpty, retireLoop, dirty>>
  /\ UNCHANGED <<rVars, sdPhase, dVars, iVars>>

\* The flush completion of construct_flush_entry_ctx, after the lower
\* layer's aio_write of the entry: on success the entry is flushed (its
\* data is now the lower layer's content of its blocks), on failure it goes
\* back to the front of the dirty list.  A context made while invalidating
\* runs at once with success and writes nothing to the lower layer.
WritebackDone(w, ok) ==
  /\ w \in flushing
  /\ ok \/ (WritebackMayFail /\ w \notin flushingInv)
  /\ flushing' = flushing \ {w}
  /\ flushingInv' = flushingInv \ {w}
  /\ IF ok
     THEN /\ flushed' = flushed \cup {w}
          /\ IF w \in flushingInv
             THEN UNCHANGED <<backing, landed>>
             ELSE /\ backing' = [b \in Blocks |-> IF b \in Ext[w] THEN w ELSE backing[b]]
                  /\ landed' = [b \in Blocks |-> IF b \in Ext[w] THEN landed[b] \cup {w} ELSE landed[b]]
          /\ UNCHANGED dirty
     ELSE /\ dirty' = <<w>> \o dirty
          /\ UNCHANGED <<flushed, backing, landed>>
  /\ UNCHANGED <<guardVars, spVars, reqVars, resVars, pipeVars, lowestFlushingGen,
                 retiring, blockMap, frontOnEmpty, retireLoop>>
  /\ UNCHANGED <<rVars, sdPhase, dVars, iPhase, invalidating>>

\* write_entry->reader_count: the reads whose hit buffers refer to w.
Readers(w) == {r \in Reads : w \in rPins[r]}

\* Fault model: can_retire_entry without the flushed test.
CanRetireEntryUnflushed(op) == op \in completed

\* Fault model: can_retire_entry without the reader_count test.
CanRetireEntryWithReaders(op) ==
  /\ op \in completed
  /\ op.t = "w" => op.id \in flushed

\* can_retire_entry: completed, and for a write flushed with no readers.
CanRetireEntry(op) ==
  /\ op \in completed
  /\ op.t = "w" => op.id \in flushed /\ Readers(op.id) = {}

\* m_shutting_down: set by shut_down's flush stage, never cleared.
ShuttingDown == sdPhase \notin {"running", "waitIO"}

\* frees_per_tx of process_work's retire_entries calls.
FreesPerTx == IF ShuttingDown \/ invalidating THEN OpsAppendedTogether ELSE MaxFreePerTransaction

\* The length of the retirable prefix of the log, at most frees_per_tx.
RECURSIVE RetirablePrefix(_, _)
RetirablePrefix(log, n) ==
  IF log = <<>> \/ n >= FreesPerTx \/ ~CanRetireEntry(Head(log)) THEN n
  ELSE RetirablePrefix(Tail(log), n + 1)

\* process_work enters its retire loop while an allocation failed since the
\* last retirement, the cache is shutting down or the allocated bytes exceed
\* the high water mark, and stays in it while they exceed the low water
\* mark, until the time limit (also while invalidating).
RetireWanted ==
  \/ allocFailed \/ ShuttingDown \/ invalidating \/ bytesAllocated > HighWater
  \/ retireLoop /\ bytesAllocated > LowWater

\* The first m_lock section of retire_entries (under m_log_retire_lock):
\* take the retirable prefix of m_log_entries and remove its writes from
\* the map.  The loop reads m_log_entries.front() before testing for an
\* empty list, first on entry and again after each pop.  Retiring nothing
\* makes retire_entries return false and ends the retire loop.
RetireTake ==
  /\ RetireWanted
  /\ retiring = <<>>
  /\ LET k == RetirablePrefix(logEntries, 0)
         taken == SubSeq(logEntries, 1, k)
         gone == {o.id : o \in {o \in ToSet(taken) : o.t = "w"}}
     IN /\ k > 0 \/ logEntries = <<>> \/ retireLoop
        /\ frontOnEmpty' = (frontOnEmpty \/ k = Len(logEntries))
        /\ retireLoop' = (k > 0)
        /\ retiring' = taken
        /\ logEntries' = SubSeq(logEntries, k + 1, Len(logEntries))
        /\ blockMap' = [b \in Blocks |-> IF blockMap[b] \in gone THEN NoReq ELSE blockMap[b]]
  /\ UNCHANGED <<guardVars, spVars, reqVars, resVars, opsToFlush, opsToAppend,
                 onPersistQ, completed, pmem, firstFree, firstValid, dirty, flushing,
                 flushed, lowestFlushingGen, backing, landed>>
  /\ UNCHANGED <<rVars, sdPhase, dVars, iVars>>

\* RETIRE_BATCH_TIME_LIMIT_MS elapses with the bytes between the water
\* marks: process_work leaves the retire loop.
RetireLoopEnd ==
  /\ retireLoop
  /\ ~(allocFailed \/ ShuttingDown \/ invalidating \/ bytesAllocated > HighWater)
  /\ retireLoop' = FALSE
  /\ UNCHANGED <<guardVars, spVars, reqVars, resVars, pipeVars, dirty, flushing,
                 flushed, lowestFlushingGen, retiring, blockMap, backing, landed,
                 frontOnEmpty>>
  /\ UNCHANGED <<rVars, sdPhase, dVars, iVars>>

\* The rest of retire_entries: one transaction advances first_valid_entry
\* and frees the buffers, then the entries and bytes are returned and
\* m_alloc_failed_since_retire is cleared.
RetireCommit ==
  /\ retiring # <<>>
  /\ firstValid' = (firstValid + Len(retiring)) % NumLogEntries
  /\ freeLogEntries' = freeLogEntries + Len(retiring)
  /\ bytesAllocated' = bytesAllocated - Len(SelectSeq(retiring, LAMBDA o : o.t = "w"))
  /\ allocFailed' = FALSE
  /\ retiring' = <<>>
  /\ UNCHANGED <<guardVars, spVars, reqVars, deferredIos, allocatedReqs, freeLanes,
                 opsToFlush, opsToAppend, onPersistQ, logEntries, completed, pmem,
                 firstFree, dirty, flushing, flushed, lowestFlushingGen, blockMap,
                 backing, landed, frontOnEmpty, retireLoop>>
  /\ UNCHANGED <<rVars, sdPhase, dVars, iVars>>

-----------------------------------------------------------------------------
(***************************************************************************)
(* shut_down and the internal flush()                                      *)
(***************************************************************************)
\* m_async_op_tracker has no op in progress: no dispatched write or sync
\* point flush request (internal null flushes included), no append, flush
\* or completion context, no writeback in flight and no retire_entries
\* between its two halves.
AsyncOpsIdle ==
  /\ \A w \in Writes : wPhase[w] \in {"init", "done"}
  /\ \A g \in Gens : spPhase[g] \in {"none", "open", "done"}
  /\ deferredIos = <<>> /\ allocatedReqs = {}
  /\ opsToFlush = <<>> /\ opsToAppend = <<>> /\ onPersistQ = <<>>
  /\ flushing = {} /\ retiring = <<>>

\* shut_down is called by the image close, after every request the caller
\* issued has completed and its buffers are released, and no request is
\* issued afterwards; it registers its chain with m_async_op_tracker.wait.
SDStart ==
  /\ ShutDownCalled /\ sdPhase = "running"
  /\ \A w \in Writes : wPhase[w] = "done"
  /\ \A f \in UserFlushes : fPhase[f] = "done"
  /\ \A r \in Reads : rPhase[r] = "released"
  /\ \A d \in Discards : dPhase[d] = "done"
  /\ \A i \in Invalidates : iPhase[i] = "done"
  /\ sdPhase' = "waitIO"
  /\ UNCHANGED <<guardVars, spVars, reqVars, resVars, pipeVars, wbVars, rVars, dVars, iVars>>

\* Fault model: flush()'s all_clean without the test of m_flush_ops_in_flight.
FlushAllCleanDirtyOnly == dirty = <<>>

\* all_clean of flush(): 0 == m_flush_ops_in_flight and no dirty entry.
FlushAllClean == flushing = {} /\ dirty = <<>>

\* The tracker wait completes: m_shutting_down = true, then flush(): when
\* all clean the next stage (retirement) follows at once, else a context
\* re-calling flush() goes to m_flush_complete_contexts and wake_up runs.
SDFlush ==
  /\ sdPhase = "waitIO" /\ AsyncOpsIdle
  /\ sdPhase' = IF FlushAllClean THEN "retire" ELSE "flushWait"
  /\ UNCHANGED <<guardVars, spVars, reqVars, resVars, pipeVars, wbVars, rVars, dVars, iVars>>

\* One call of shut_down's while (retire_entries(MAX_ALLOC_PER_TRANSACTION))
\* loop, both halves under m_log_retire_lock (no process_work retirement
\* between its halves).  A call that retires nothing ends the loop;
\* m_wake_up_enabled is cleared and the tracker is waited on again.
SDRetire ==
  /\ sdPhase = "retire" /\ retiring = <<>>
  /\ LET k == RetirablePrefix(logEntries, 0)
         gone == {o.id : o \in {o \in ToSet(SubSeq(logEntries, 1, k)) : o.t = "w"}}
     IN /\ frontOnEmpty' = (frontOnEmpty \/ k = Len(logEntries))
        /\ logEntries' = SubSeq(logEntries, k + 1, Len(logEntries))
        /\ blockMap' = [b \in Blocks |-> IF blockMap[b] \in gone THEN NoReq ELSE blockMap[b]]
        /\ firstValid' = (firstValid + k) % NumLogEntries
        /\ freeLogEntries' = freeLogEntries + k
        /\ bytesAllocated' = bytesAllocated - Cardinality(gone)
        /\ allocFailed' = (allocFailed /\ k = 0)
        /\ sdPhase' = IF k > 0 THEN "retire" ELSE "waitOps"
  /\ UNCHANGED <<guardVars, spVars, reqVars, deferredIos, allocatedReqs, freeLanes,
                 opsToFlush, opsToAppend, onPersistQ, completed, pmem, firstFree,
                 dirty, flushing, flushed, lowestFlushingGen, retiring, backing,
                 landed, retireLoop, rVars, dVars, iVars>>

\* The close stage, once the tracker is idle again: the finishers and the
\* thread pool stop, every remaining write entry leaves the map and
\* m_log_entries is cleared under m_lock, and the pool is closed (its ring
\* stays as it is in pmem).
SDClose ==
  /\ sdPhase = "waitOps" /\ AsyncOpsIdle
  /\ sdPhase' = "closed"
  /\ logEntries' = <<>>
  /\ blockMap' = [b \in Blocks |-> NoReq]
  /\ UNCHANGED <<guardVars, spVars, reqVars, resVars, opsToFlush, opsToAppend,
                 onPersistQ, completed, pmem, firstFree, firstValid, dirty,
                 flushing, flushed, lowestFlushingGen, retiring, backing, landed,
                 frontOnEmpty, retireLoop, rVars, dVars, iVars>>

-----------------------------------------------------------------------------
(***************************************************************************)
(* Discard requests                                                        *)
(***************************************************************************)
\* aio_discard on a writable image: the request enters the block guard
\* over its extent.
AioDiscard(d) ==
  /\ dPhase[d] = "init"
  /\ LET g == DetainBarrier(Guard, d) IN
     /\ SetGuard(g.g)
     /\ dPhase' = [dPhase EXCEPT ![d] = IF g.acq THEN "guarded" ELSE "detained"]
  /\ dBefore' = [dBefore EXCEPT ![d] = {w \in Writes : wPhase[w] # "init" /\ Overlap(w, d)}]
  /\ UNCHANGED <<spVars, reqVars, resVars, pipeVars, wbVars, rVars, sdPhase, iVars>>

\* The guarded callback: flush(); when all clean its context runs at once:
\* invalidate() of the extent, which completes without touching the map,
\* then aio_discard to the lower layer.  Else the context waits in
\* m_flush_complete_contexts.
DiscardGuarded(d) ==
  /\ dPhase[d] = "guarded"
  /\ dPhase' = [dPhase EXCEPT ![d] = IF FlushAllClean THEN "discarding" ELSE "flushWait"]
  /\ UNCHANGED <<guardVars, spVars, reqVars, resVars, pipeVars, wbVars, rVars, sdPhase,
                 dBefore, iVars>>

\* The lower layer's aio_discard completes (its blocks lose their data);
\* the discard completes to its caller and its guard cell is released.
DiscardDone(d) ==
  /\ dPhase[d] = "discarding"
  /\ backing' = [b \in Blocks |-> IF b \in DExt[d] THEN NoReq ELSE backing[b]]
  /\ LET R == Release(Guard, d) IN
     /\ SetGuard(R.g)
     /\ wPhase' = [w \in Writes |-> IF w \in R.acq THEN "guarded" ELSE wPhase[w]]
     /\ detainedW' = detainedW \cup (ToSet(gDetained[d]) \cap Writes)
     /\ fPhase' = [f \in UserFlushes |-> IF f \in R.acq THEN "guarded" ELSE fPhase[f]]
     /\ dPhase' = [x \in Discards |-> IF x = d THEN "done"
                                     ELSE IF x \in R.acq THEN "guarded" ELSE dPhase[x]]
     /\ iPhase' = [i \in Invalidates |-> IF i \in R.acq THEN "guarded" ELSE iPhase[i]]
  /\ UNCHANGED <<spVars, wGen, wOrder, dispatchCount, deferredW, userAcked, fCover,
                 persistOnFlush, flushSeen, wPof, wAckedBefore, resVars, pipeVars,
                 dirty, flushing, flushed, lowestFlushingGen, retiring, blockMap, landed,
                 frontOnEmpty, retireLoop, rVars, sdPhase, dBefore, invalidating,
                 flushingInv>>

-----------------------------------------------------------------------------
(***************************************************************************)
(* Invalidating the whole cache                                            *)
(***************************************************************************)
\* invalidate(on_finish): the request enters the block guard over the whole
\* volume (not as a barrier).
AioInvalidate(i) ==
  /\ iPhase[i] = "init"
  /\ InvalidateAfterWrites =>
       /\ \A w \in Writes : wPhase[w] = "done"
       /\ \A f \in UserFlushes : fPhase[f] = "done"
  /\ LET g == DetainBarrier(Guard, i) IN
     /\ SetGuard(g.g)
     /\ iPhase' = [iPhase EXCEPT ![i] = IF g.acq THEN "guarded" ELSE "detained"]
  /\ UNCHANGED <<spVars, reqVars, resVars, pipeVars, wbVars, rVars, sdPhase, dVars,
                 invalidating, flushingInv>>

\* The guarded callback, under m_lock: m_invalidating = true, and a flush
\* request on a new sync point, whose completion calls flush().
InvGuarded(i) ==
  /\ iPhase[i] = "guarded"
  /\ invalidating' = TRUE
  /\ FlushNewSyncPoint({i})
  /\ iPhase' = [iPhase EXCEPT ![i] = "waitSP"]
  /\ UNCHANGED <<guardVars, spWrites, spCompleted, spOnAppending, persistOnFlush,
                 flushSeen, reqVars, resVars, pipeVars, wbVars, rVars, sdPhase, dVars,
                 flushingInv>>

\* The sync point persisted: flush() runs the retire stage at once when all
\* clean, else queues it in m_flush_complete_contexts and wakes process_work.
InvFlush(i) ==
  /\ iPhase[i] = "persisted"
  /\ iPhase' = [iPhase EXCEPT ![i] = IF FlushAllClean THEN "retire" ELSE "flushWait"]
  /\ UNCHANGED <<guardVars, spVars, reqVars, resVars, pipeVars, wbVars, rVars, sdPhase,
                 dVars, invalidating, flushingInv>>

\* One call of while (retire_entries(MAX_ALLOC_PER_TRANSACTION)), both halves
\* under m_log_retire_lock; a call that retires nothing ends the loop and
\* m_image_writeback->invalidate is called.
InvRetire(i) ==
  /\ iPhase[i] = "retire" /\ retiring = <<>>
  /\ LET k == RetirablePrefix(logEntries, 0)
         gone == {o.id : o \in {o \in ToSet(SubSeq(logEntries, 1, k)) : o.t = "w"}}
     IN /\ frontOnEmpty' = (frontOnEmpty \/ k = Len(logEntries))
        /\ logEntries' = SubSeq(logEntries, k + 1, Len(logEntries))
        /\ blockMap' = [b \in Blocks |-> IF blockMap[b] \in gone THEN NoReq ELSE blockMap[b]]
        /\ firstValid' = (firstValid + k) % NumLogEntries
        /\ freeLogEntries' = freeLogEntries + k
        /\ bytesAllocated' = bytesAllocated - Cardinality(gone)
        /\ allocFailed' = (allocFailed /\ k = 0)
        /\ iPhase' = [iPhase EXCEPT ![i] = IF k > 0 THEN "retire" ELSE "lowerInv"]
  /\ UNCHANGED <<guardVars, spVars, reqVars, deferredIos, allocatedReqs, freeLanes,
                 opsToFlush, opsToAppend, onPersistQ, completed, pmem, firstFree,
                 dirty, flushing, flushed, lowestFlushingGen, retiring, backing,
                 landed, retireLoop, rVars, sdPhase, dVars, invalidating, flushingInv>>

\* The lower layer's invalidate completes: under m_lock m_invalidating =
\* false, on_finish completes and the guard cell is released.
InvDone(i) ==
  /\ iPhase[i] = "lowerInv"
  /\ invalidating' = FALSE
  /\ LET R == Release(Guard, i) IN
     /\ SetGuard(R.g)
     /\ wPhase' = [w \in Writes |-> IF w \in R.acq THEN "guarded" ELSE wPhase[w]]
     /\ detainedW' = detainedW \cup (ToSet(gDetained[i]) \cap Writes)
     /\ fPhase' = [f \in UserFlushes |-> IF f \in R.acq THEN "guarded" ELSE fPhase[f]]
     /\ dPhase' = [d \in Discards |-> IF d \in R.acq THEN "guarded" ELSE dPhase[d]]
     /\ iPhase' = [x \in Invalidates |-> IF x = i THEN "done"
                                        ELSE IF x \in R.acq THEN "guarded" ELSE iPhase[x]]
  /\ UNCHANGED <<spVars, wGen, wOrder, dispatchCount, deferredW, userAcked, fCover,
                 persistOnFlush, flushSeen, wPof, wAckedBefore, resVars, pipeVars,
                 wbVars, rVars, sdPhase, dBefore, flushingInv>>

-----------------------------------------------------------------------------
(***************************************************************************)
(* Reads                                                                   *)
(***************************************************************************)
\* aio_read, for each extent under m_entry_reader_lock (shared): every map
\* entry overlapping the extent is a hit whose buffer refers to its log
\* entry's pmem buffer and holds a reader on it (add_reader); the gaps are
\* misses read from the lower layer.  Completion to the caller, with or
\* without a lower-layer read, changes no cache state.
AioRead(r) ==
  /\ rPhase[r] = "init"
  /\ \E first, last \in Blocks :
       /\ first <= last
       /\ rPins' = [rPins EXCEPT ![r] =
                      {blockMap[b] : b \in first .. last} \ {NoReq}]
  /\ rPhase' = [rPhase EXCEPT ![r] = "reading"]
  /\ UNCHANGED <<guardVars, spVars, reqVars, resVars, pipeVars, wbVars, sdPhase, dVars, iVars>>

\* The caller drops the read's bufferlist: the hit buffers' deleters run
\* remove_reader on each log entry.
ReadRelease(r) ==
  /\ rPhase[r] = "reading"
  /\ rPhase' = [rPhase EXCEPT ![r] = "released"]
  /\ rPins' = [rPins EXCEPT ![r] = {}]
  /\ UNCHANGED <<guardVars, spVars, reqVars, resVars, pipeVars, wbVars, sdPhase, dVars, iVars>>

-----------------------------------------------------------------------------
(***************************************************************************)
(* A newly created pool (rwl_init): an empty ring with one slot kept free, *)
(* and the first sync point (init_flush_new_sync_point, generation 1).     *)
(***************************************************************************)
Init ==
  /\ wPhase = [w \in Writes |-> "init"]
  /\ wGen = [w \in Writes |-> 0]
  /\ wOrder = [w \in Writes |-> 0]
  /\ dispatchCount = 0
  /\ detainedW = {} /\ deferredW = {} /\ userAcked = {} /\ wPof = {}
  /\ wAckedBefore = [w \in Writes |-> {}]
  /\ fPhase = [f \in UserFlushes |-> "init"]
  /\ fCover = [f \in UserFlushes |-> {}]
  /\ gCells = {}
  /\ gDetained = [r \in Reqs |-> <<>>]
  /\ barrierInProgress = FALSE
  /\ barrierCell = NoReq
  /\ awaitingBarrier = <<>>
  /\ curGen = 1
  /\ spPhase = [g \in Gens |-> IF g = 1 THEN "open" ELSE "none"]
  /\ spWrites = [g \in Gens |-> 0]
  /\ spCompleted = [g \in Gens |-> 0]
  /\ spWaitPrior = [g \in Gens |-> FALSE]
  /\ spEarlier = [g \in Gens |-> FALSE]
  /\ spOnAppending = [g \in Gens |-> <<>>]
  /\ spOnPersisted = [g \in Gens |-> {}]
  /\ persistOnFlush = PersistOnFlushInit
  /\ flushSeen = FALSE
  /\ deferredIos = <<>>
  /\ allocatedReqs = {}
  /\ freeLanes = NumLanes
  /\ freeLogEntries = NumLogEntries - 1
  /\ bytesAllocated = 0
  /\ allocFailed = FALSE
  /\ opsToFlush = <<>> /\ opsToAppend = <<>> /\ onPersistQ = <<>>
  /\ logEntries = <<>>
  /\ completed = {}
  /\ pmem = [s \in Slots |-> NoOp]
  /\ firstFree = 0 /\ firstValid = 0
  /\ dirty = <<>> /\ flushing = {} /\ flushed = {}
  /\ lowestFlushingGen = 0
  /\ retiring = <<>>
  /\ blockMap = [b \in Blocks |-> NoReq]
  /\ backing = [b \in Blocks |-> NoReq]
  /\ landed = [b \in Blocks |-> {}]
  /\ frontOnEmpty = FALSE
  /\ retireLoop = FALSE
  /\ rPhase = [r \in Reads |-> "init"]
  /\ rPins = [r \in Reads |-> {}]
  /\ sdPhase = "running"
  /\ dPhase = [d \in Discards |-> "init"]
  /\ dBefore = [d \in Discards |-> {}]
  /\ iPhase = [i \in Invalidates |-> "init"]
  /\ invalidating = FALSE
  /\ flushingInv = {}

\* Every request finished and written back: the cache may stay idle.
Quiescent ==
  /\ \A w \in Writes : wPhase[w] = "done" /\ w \in flushed
  /\ \A f \in UserFlushes : fPhase[f] = "done"
  /\ \A d \in Discards : dPhase[d] = "done"
  /\ \A i \in Invalidates : iPhase[i] = "done"
  /\ deferredIos = <<>> /\ retiring = <<>> /\ ~retireLoop

Next ==
  \/ \E w \in Writes : AioWrite(w) \/ GuardedWrite(w)
  \/ \E f \in UserFlushes : AioFlush(f) \/ FlushGuarded(f)
  \/ \E g \in Gens : SPPersistReady(g)
  \/ DispatchDeferred
  \/ \E r \in allocatedReqs : DispatchAllocated(r)
  \/ FlushThenAppend
  \/ AppendBatch
  \/ FinishBatch
  \/ FinishWriteReq
  \/ ProcessWriteback
  \/ \E w \in Writes, ok \in BOOLEAN : WritebackDone(w, ok)
  \/ RetireTake
  \/ RetireCommit
  \/ RetireLoopEnd
  \/ \E r \in Reads : AioRead(r) \/ ReadRelease(r)
  \/ SDStart \/ SDFlush \/ SDRetire \/ SDClose
  \/ \E d \in Discards : AioDiscard(d) \/ DiscardGuarded(d) \/ DiscardDone(d)
  \/ \E i \in Invalidates : AioInvalidate(i) \/ InvGuarded(i) \/ InvFlush(i)
                           \/ InvRetire(i) \/ InvDone(i)
  \/ Quiescent /\ UNCHANGED vars

Spec == Init /\ [][Next]_vars

\* The work queue, the persist finisher, the appender, process_work and the
\* lower layer keep running: each of their steps is weakly fair, except the
\* retry of deferred requests (see FairSpecRetry).  A write
\* back the lower layer fails is retried, and the lower layer eventually
\* accepts one (strong fairness).  A read's buffers are released once the
\* lower layer returns its misses and the caller consumes the bufferlist.
\* Callers (aio_write, aio_flush, aio_read) and the retire loop's time limit
\* are not fair.
Fairness ==
  /\ \A w \in Writes : WF_vars(GuardedWrite(w)) /\ SF_vars(WritebackDone(w, TRUE))
  /\ \A f \in UserFlushes : WF_vars(FlushGuarded(f))
  /\ \A g \in Gens : WF_vars(SPPersistReady(g))
  /\ WF_vars(\E r \in allocatedReqs : DispatchAllocated(r))
  /\ WF_vars(FlushThenAppend) /\ WF_vars(AppendBatch)
  /\ WF_vars(FinishBatch) /\ WF_vars(FinishWriteReq)
  /\ WF_vars(ProcessWriteback)
  /\ WF_vars(RetireTake) /\ WF_vars(RetireCommit)
  /\ \A r \in Reads : WF_vars(ReadRelease(r))
  /\ WF_vars(SDFlush) /\ WF_vars(SDRetire) /\ WF_vars(SDClose)
  /\ \A d \in Discards : WF_vars(DiscardGuarded(d)) /\ WF_vars(DiscardDone(d))
  /\ \A i \in Invalidates : WF_vars(InvGuarded(i)) /\ WF_vars(InvFlush(i))
                           /\ WF_vars(InvRetire(i)) /\ WF_vars(InvDone(i))

FairSpec == Spec /\ Fairness

\* dispatch_deferred_writes is called again by release_write_lanes and by
\* process_work, but a call made while another thread holds
\* m_dispatching_deferred_ops returns at once, and that thread may already
\* have passed the front it failed on (DeferredDispatch shows the lost
\* retry).  So Fairness leaves DispatchDeferred unfair; FairSpecRetry adds
\* the retry the code does not guarantee, for showing that a request stays
\* deferred even when it is retried for ever.
FairSpecRetry == FairSpec /\ WF_vars(DispatchDeferred)

-----------------------------------------------------------------------------
(* Properties *)

WPhases == {"init", "detained", "guarded", "deferred", "allocated", "waitPriorSP",
            "toFlush", "toAppend", "appended", "persisted", "done"}
SPPhases == {"none", "open", "closed", "deferred", "allocated", "toAppend",
             "appended", "done"}

TypeOK ==
  /\ wPhase \in [Writes -> WPhases]
  /\ wGen \in [Writes -> 0 .. MaxGen]
  /\ fPhase \in [UserFlushes -> {"init", "detained", "guarded", "waitSP", "done"}]
  /\ gCells \subseteq Reqs
  /\ spPhase \in [Gens -> SPPhases]
  /\ curGen \in Gens
  /\ freeLanes \in 0 .. NumLanes
  /\ freeLogEntries \in 0 .. NumLogEntries - 1
  /\ bytesAllocated \in Nat
  /\ firstFree \in Slots /\ firstValid \in Slots
  /\ pmem \in [Slots -> Ops \cup {NoOp}]
  /\ blockMap \in [Blocks -> Writes \cup {NoReq}]
  /\ backing \in [Blocks -> Writes \cup {NoReq}]
  /\ rPhase \in [Reads -> {"init", "reading", "released"}]
  /\ rPins \in [Reads -> SUBSET Writes]
  /\ sdPhase \in {"running", "waitIO", "flushWait", "retire", "waitOps", "closed"}
  /\ dPhase \in [Discards -> {"init", "detained", "guarded", "flushWait", "discarding", "done"}]
  /\ dBefore \in [Discards -> SUBSET Writes]
  /\ iPhase \in [Invalidates -> {"init", "detained", "guarded", "waitSP", "persisted",
                                 "flushWait", "retire", "lowerInv", "done"}]
  /\ invalidating \in BOOLEAN
  /\ flushingInv \subseteq flushing

\* Log operations holding a reserved, not yet appended, log entry: writes
\* from allocation until append_scheduled_ops gives them a slot, and sync
\* points from alloc_flush_resources until then.
ReservedOps ==
  {WOp(w) : w \in {w \in Writes : wPhase[w] \in {"allocated", "waitPriorSP",
                                                  "toFlush", "toAppend"}}}
  \cup {SPOp(g) : g \in {g \in Gens : spPhase[g] \in {"allocated", "toAppend"}}}

\* The live ring: entries being retired, then m_log_entries.
LiveLog == retiring \o logEntries

\* The ring is consistent: the live entries sit in order in the slots from
\* first_valid_entry up to first_free_entry, and every slot is either live,
\* reserved by a dispatched operation, free, or the one slot kept empty.
\* Allocation (alloc_write_resources, alloc_flush_resources), the append
\* (alloc_op_log_entries) and both halves of retire_entries must agree for
\* appends never to overwrite a live entry.
RingConsistent ==
  /\ firstFree = (firstValid + Len(LiveLog)) % NumLogEntries
  /\ \A i \in 1 .. Len(LiveLog) : pmem[(firstValid + i - 1) % NumLogEntries] = LiveLog[i]
  /\ freeLogEntries + Cardinality(ReservedOps) + Len(LiveLog) = NumLogEntries - 1

\* What a reopened pool holds: the slots from the root's first_valid_entry
\* up to its first_free_entry.
DurableLog ==
  [i \in 1 .. (firstFree - firstValid + NumLogEntries) % NumLogEntries |->
     pmem[(firstValid + i - 1) % NumLogEntries]]

OpGen(op) == IF op.t = "w" THEN wGen[op.id] ELSE op.id

\* The first pass of load_existing_entries over a log: ok is FALSE when an
\* assert fails (sync points in increasing order; a write after the highest
\* sync point seen bears a higher generation); missing collects the
\* generations of writes whose sync point was not seen before them.
RECURSIVE LoadScan(_, _)
LoadScan(log, st) ==
  IF log = <<>> THEN st
  ELSE LET op == Head(log)
           g == OpGen(op)
           okHere == st.highest = 0 \/ g > st.highest
       IN LoadScan(Tail(log),
            IF op.t = "sp"
            THEN [st EXCEPT !.ok = @ /\ okHere, !.seen = @ \cup {g},
                            !.missing = @ \ {g}, !.highest = g]
            ELSE [st EXCEPT !.ok = @ /\ okHere,
                            !.missing = IF g \in st.seen THEN @ ELSE @ \cup {g}])

Loaded == LoadScan(DurableLog, [ok |-> TRUE, seen |-> {}, missing |-> {}, highest |-> 0])

\* A crash at any moment leaves a log whose order passes the asserts of
\* load_existing_entries: a sync point is appended only after every write
\* of its generation and after the earlier sync point, and retirement
\* frees a prefix of the ring.
LogGenOrder == Loaded.ok

\* ... and recovery can recreate the missing sync points: the second pass
\* asserts that each missing generation, in ascending order, is the one
\* after m_current_sync_gen (the highest sync point loaded, else 0).
RecoverableLog ==
  /\ Loaded.ok
  /\ Loaded.missing = Loaded.highest + 1 .. Loaded.highest + Cardinality(Loaded.missing)

\* Fault model: the second pass lets the first write of the ring covering a
\* block win, as adding the entries newest first would.
RecoveredReadFirstWins(b) ==
  LET ix == {i \in DOMAIN DurableLog : DurableLog[i].t = "w" /\ b \in Ext[DurableLog[i].id]}
  IN IF ix = {} THEN backing[b] ELSE DurableLog[Min(ix)].id

\* The second pass of load_existing_entries adds the reloaded writes to the
\* map in log order, each occluding the older ones, and makes them all
\* dirty again: a block reads from the last write of the ring covering it,
\* else from the lower layer.
RecoveredRead(b) ==
  LET ix == {i \in DOMAIN DurableLog : DurableLog[i].t = "w" /\ b \in Ext[DurableLog[i].id]}
  IN IF ix = {} THEN backing[b] ELSE DurableLog[Max(ix)].id

\* The writes an invalidate threw away: flushed by a flush context made
\* while m_invalidating, so never written to the lower layer.
Dropped == {w \in flushed : \A b \in Ext[w] : w \notin landed[b]}

\* The newest dispatched write covering block b, if any, that no
\* invalidate threw away.
Newest(b) ==
  LET ws == {w \in Writes \ Dropped : wOrder[w] > 0 /\ b \in Ext[w]} IN
  IF ws = {} THEN NoReq ELSE CHOOSE w \in ws : \A x \in ws : wOrder[x] <= wOrder[w]

\* A read of block b is served from the write log map, or on a miss from the
\* lower layer: it returns the newest write to b.  Writeback order
\* (can_flush_entry, the dirty list) and retirement (map removal only of
\* flushed entries) must agree for a retired block to read back its newest
\* data.  After an invalidate, the newest write it did not throw away is
\* read; while it runs, its entries are still being taken out of the map.
ReadLatest ==
  ~invalidating =>
  \A b \in Blocks :
    (IF blockMap[b] # NoReq THEN blockMap[b] ELSE backing[b]) = Newest(b)

\* The pmem buffer a read's hit refers to stays allocated while the read
\* holds it: a pinned write entry (dispatch_aio_write maps it before it is
\* appended) is never taken by retire_entries, whose
\* transaction frees its buffer (TX_FREE) for reuse.  aio_read pins under
\* m_entry_reader_lock while retire_entries tests reader_count and unmaps
\* under the same lock held exclusively.
ReadBuffersLive ==
  \A r \in Reads : \A w \in rPins[r] :
    /\ WOp(w) \notin ToSet(retiring)
    /\ WOp(w) \in completed => WOp(w) \in ToSet(logEntries)

\* The specification's flush: a completed flush has every such write
\* durable in the lower layer (spec invariant 5, scenario S6).
FlushWritesBack ==
  \A f \in UserFlushes :
    fPhase[f] = "done" => fCover[f] \subseteq flushed

\* The specification's ordering law: a write submitted after an earlier
\* write to the same block completed to its caller reaches the lower layer
\* no earlier than it: when it lands, the earlier one has landed, unless
\* an invalidate threw the earlier one away.
WritebackOrdered ==
  \A b \in Blocks : \A w \in landed[b] :
    \A x \in wAckedBefore[w] : b \in Ext[x] /\ x \notin Dropped => x \in landed[b]

\* Specification invariant 4: bytes_allocated <= bytes_allocated_cap.
BytesWithinCap == bytesAllocated <= BytesAllocatedCap

\* Every write issued is eventually written back to the lower layer: the
\* deferred queue, sync point flush requests, the append pipeline,
\* writeback and retirement never wait on each other for ever.
WriteEventuallyWrittenBack == \A w \in Writes : wPhase[w] # "init" ~> w \in flushed

\* Every aio_flush issued eventually completes to its caller.
FlushEventuallyCompletes == \A f \in UserFlushes : fPhase[f] # "init" ~> fPhase[f] = "done"

\* shut_down's close stage runs only when what it asserts holds (no dirty
\* entry; no remaining entry flushing or read) and the cache is drained:
\* the lower layer holds the newest write of every block.  The flush stage
\* (flush() and the drain of m_flush_complete_contexts by
\* process_writeback_dirty_entries), failed writebacks going back to the
\* dirty list, and the second tracker wait must agree for this to hold.
ShutDownDurable ==
  [][sdPhase # "closed" /\ sdPhase' = "closed" =>
       /\ dirty = <<>>
       /\ \A op \in ToSet(logEntries) :
            op.t = "w" => op.id \notin flushing /\ Readers(op.id) = {}
       /\ \A b \in Blocks : backing[b] = Newest(b)]_vars

\* A shut_down that is called eventually completes.
ShutDownCompletes == sdPhase = "waitIO" ~> sdPhase = "closed"

\* A crash at any moment loses no write the cache promised to keep: one
\* completed to its caller in persist-on-write mode (complete_write_req
\* after its append), or one a completed aio_flush covers.  After the pool
\* is reopened, each of its blocks reads that write or a newer one, unless
\* an invalidate threw it away or a later discard removed it.  The append
\* transaction publishing first_free_entry, retirement freeing only
\* written-back entries and advancing first_valid_entry, writeback order,
\* and the map rebuild in log order must agree for this to hold.
CrashDurable ==
  LET promised == (userAcked \ wPof) \cup UNION {fCover[f] : f \in {f \in UserFlushes : fPhase[f] = "done"}}
      removed == Dropped \cup UNION {dBefore[d] : d \in {d \in Discards : dPhase[d] = "done"}}
  IN \A x \in promised \ removed : \A b \in Ext[x] :
       RecoveredRead(b) # NoReq /\ wOrder[RecoveredRead(b)] >= wOrder[x]

\* A write submitted before an overlapping discard never reaches the lower
\* layer after the discard: once the discard has completed, none of its
\* blocks holds such a write's data.  The block guard (the discard waits
\* for the overlapping writes' cells, released after they persist) and
\* flush() (no dirty entry, no writeback in flight, failed writebacks back
\* on the dirty list) must agree for this to hold.
DiscardNotOverwritten ==
  \A d \in Discards : dPhase[d] = "done" =>
    \A b \in DExt[d] : backing[b] \notin dBefore[d]

\* The comment of aio_discard: the invalidate of the discarded extent makes
\* reads of it misses, so all reads of the discarded region return the same
\* content.  After a discard completes, no write submitted before it is
\* still in the write log map for one of its blocks.
DiscardInvalidatesMap ==
  \A d \in Discards : dPhase[d] = "done" =>
    \A b \in DExt[d] : blockMap[b] \notin dBefore[d]

\* Every aio_discard issued eventually completes.
DiscardCompletes == \A d \in Discards : dPhase[d] # "init" ~> dPhase[d] = "done"

\* invalidate's final context asserts that m_log_entries and
\* m_dirty_log_entries are empty: the sync point flush, flush() with the
\* bookkeeping-only flush contexts made while m_invalidating, the wait for
\* write backs already in flight and the retire loop must together leave
\* nothing behind.  A read that still holds an entry stops the retire loop
\* at that entry, so this fails once reads run beside the invalidate
\* (MC_WriteLog_invalidate_read.cfg); no passing run checks it.
InvalidateEmpties ==
  [][\A i \in Invalidates :
       iPhase[i] = "lowerInv" /\ iPhase'[i] = "done" =>
         logEntries = <<>> /\ dirty = <<>>]_vars

\* retire_entries never reads the front of an empty m_log_entries.
NoFrontOfEmptyLog == ~frontOnEmpty

=============================================================================
