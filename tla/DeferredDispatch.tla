--------------------------- MODULE DeferredDispatch ---------------------------
(***************************************************************************)
(* How deferred write requests get their resources back in                *)
(* ReplicatedWriteLog.cc, with the threads that run the code:              *)
(*   - alloc_and_dispatch_io_req on the caller's thread: test for deferred *)
(*     requests, allocate, else defer and call dispatch_deferred_writes;   *)
(*   - dispatch_deferred_writes, callable from any thread, made exclusive  *)
(*     by m_dispatching_deferred_ops, as its three m_lock sections and the *)
(*     alloc_resources call between them;                                  *)
(*   - the persist finisher: complete_op_log_entries (entry dirty,         *)
(*     wake_up) and complete_write_req (release_write_lanes, then          *)
(*     dispatch_deferred_writes);                                          *)
(*   - wake_up and process_work with m_wake_up_requested,                  *)
(*     m_wake_up_scheduled, max_iterations and the retire loop;            *)
(*   - writeback completions, which call wake_up.                          *)
(* A request is one write of one extent: one lane and one log entry,      *)
(* and one MIN_WRITE_ALLOC_SIZE unit of bytes per log entry held.          *)
(* alloc_write_resources is one step: its m_lock sections re-test the same *)
(* counts.  Retirement frees every flushed entry, the log order being the *)
(* concern of WriteLog.                                                    *)
(***************************************************************************)
EXTENDS Naturals, Sequences, FiniteSets, FiniteSetsExt

CONSTANTS
  Reqs,          \* write requests, each also the caller thread that issues it
  Fin,           \* the m_on_persist_finisher thread
  PW,            \* the work-queue thread running process_work
  None,          \* no request
  NumLanes,      \* lanes
  NumEntries,    \* usable log entries
  HighWater,     \* RETIRE_HIGH_WATER of the cap, in allocation units
  LowWater,      \* RETIRE_LOW_WATER of the cap, in allocation units
  MaxIterations  \* process_work's max_iterations

Threads == Reqs \cup {Fin, PW}

VARIABLES
  rs,            \* request state
  es,            \* state of the request's log entry
  lanesHeld,     \* lanes allocated to each request
  entriesHeld,   \* log entries allocated to each request
  freeLanes,     \* m_free_lanes
  freeEntries,   \* m_free_log_entries
  allocFailed,   \* m_alloc_failed_since_retire
  deferred,      \* m_deferred_ios
  dispatching,   \* m_dispatching_deferred_ops
  dd,            \* each thread's frame of dispatch_deferred_writes
  wq,            \* allocated requests whose dispatch is queued on m_work_queue
  finQ,          \* complete_write_req contexts queued on the persist finisher
  wakeRequested, \* m_wake_up_requested
  wakeScheduled, \* m_wake_up_scheduled
  pw             \* process_work: its position and remaining iterations

vars == <<rs, es, lanesHeld, entriesHeld, freeLanes, freeEntries, allocFailed,
          deferred, dispatching, dd, wq, finQ, wakeRequested, wakeScheduled, pw>>

resVars == <<lanesHeld, entriesHeld, freeLanes, freeEntries, allocFailed>>
wakeVars == <<wakeRequested, wakeScheduled, pw>>

\* m_bytes_allocated
Held == MapThenSumSet(LAMBDA r : entriesHeld[r], Reqs)

\* A dispatch_deferred_writes frame that is not running.
NoFrame == [pc |-> "none", front |-> None, allocated |-> FALSE, allocReq |-> None]

-----------------------------------------------------------------------------
\* wake_up: request process_work, and queue it unless it is scheduled.
\* pwNext is process_work's own next state when it is the caller.
WakeUp(pwNext) ==
  IF wakeRequested /\ wakeScheduled
  THEN /\ pw' = pwNext
       /\ UNCHANGED <<wakeRequested, wakeScheduled>>
  ELSE /\ wakeRequested' = TRUE
       /\ wakeScheduled' = TRUE
       /\ pw' = IF wakeScheduled THEN pwNext ELSE [pc |-> "top", iter |-> MaxIterations]

\* alloc_write_resources for a one-extent write: a lane, a log entry, and
\* buffer space unless the bytes exceed the cap (here the entries bound the
\* bytes).  Missing entries are "no space" and set
\* m_alloc_failed_since_retire; missing lanes are not.  Neither calls
\* wake_up.
AllocOK == freeLanes >= 1 /\ freeEntries >= 1

\* Mutant: allocation that does not test what is free.
AllocNoCheck(r) ==
  /\ freeLanes' = freeLanes - 1
  /\ freeEntries' = freeEntries - 1
  /\ lanesHeld' = [lanesHeld EXCEPT ![r] = @ + 1]
  /\ entriesHeld' = [entriesHeld EXCEPT ![r] = @ + 1]
  /\ UNCHANGED <<allocFailed, wakeVars>>

Alloc(r) ==
  IF AllocOK
  THEN /\ freeLanes' = freeLanes - 1
       /\ freeEntries' = freeEntries - 1
       /\ lanesHeld' = [lanesHeld EXCEPT ![r] = @ + 1]
       /\ entriesHeld' = [entriesHeld EXCEPT ![r] = @ + 1]
       /\ UNCHANGED <<allocFailed, wakeVars>>
  ELSE /\ allocFailed' = (allocFailed \/ freeEntries < 1)
       /\ UNCHANGED <<freeLanes, freeEntries, lanesHeld, entriesHeld, wakeVars>>

\* req->dispatch(): the write goes to the append pipeline.
Dispatch(r) ==
  /\ rs' = [rs EXCEPT ![r] = "dispatched"]
  /\ es' = [es EXCEPT ![r] = "pending"]

-----------------------------------------------------------------------------
(***************************************************************************)
(* alloc_and_dispatch_io_req, on the caller's thread                       *)
(***************************************************************************)
\* First m_lock section: dispatch here only if nothing is deferred.
Submit(r) ==
  /\ rs[r] = "idle"
  /\ rs' = [rs EXCEPT ![r] = IF deferred = <<>> THEN "alloc" ELSE "defer"]
  /\ UNCHANGED <<es, resVars, deferred, dispatching, dd, wq, finQ, wakeVars>>

\* req->alloc_resources(), then req->dispatch() on success.
CallerAlloc(r) ==
  /\ rs[r] = "alloc"
  /\ Alloc(r)
  /\ IF AllocOK THEN Dispatch(r)
                ELSE /\ rs' = [rs EXCEPT ![r] = "defer"]
                     /\ UNCHANGED es
  /\ UNCHANGED <<deferred, dispatching, dd, wq, finQ>>

\* req->deferred(), m_deferred_ios.push_back(req), dispatch_deferred_writes().
CallerDefer(r) ==
  /\ rs[r] = "defer"
  /\ rs' = [rs EXCEPT ![r] = "deferred"]
  /\ deferred' = Append(deferred, r)
  /\ dd' = [dd EXCEPT ![r] = [NoFrame EXCEPT !.pc = "enter"]]
  /\ UNCHANGED <<es, resVars, dispatching, wq, finQ, wakeVars>>

-----------------------------------------------------------------------------
(***************************************************************************)
(* dispatch_deferred_writes, on thread t                                   *)
(***************************************************************************)
\* Mutant: m_dispatching_deferred_ops not tested.
DDEnterNoFlag(t) ==
  /\ dd[t].pc = "enter"
  /\ IF deferred = <<>>
     THEN /\ dd' = [dd EXCEPT ![t] = NoFrame]
          /\ UNCHANGED dispatching
     ELSE /\ dispatching' = TRUE
          /\ dd' = [dd EXCEPT ![t].pc = "loop"]
  /\ UNCHANGED <<rs, es, resVars, deferred, wq, finQ, wakeVars>>

\* Become the dispatcher, or return at once when another thread is
\* dispatching or nothing is deferred.
DDEnter(t) ==
  /\ dd[t].pc = "enter"
  /\ IF dispatching \/ deferred = <<>>
     THEN /\ dd' = [dd EXCEPT ![t] = NoFrame]
          /\ UNCHANGED dispatching
     ELSE /\ dispatching' = TRUE
          /\ dd' = [dd EXCEPT ![t].pc = "loop"]
  /\ UNCHANGED <<rs, es, resVars, deferred, wq, finQ, wakeVars>>

\* The m_lock section of the loop: an allocated front leaves the list and
\* becomes allocated_req; a front whose allocation failed ends dispatching;
\* else the new front is the next candidate, or dispatching ends.
DDLoop(t) ==
  /\ dd[t].pc = "loop"
  /\ LET f == dd[t]
         q == IF f.allocated THEN Tail(deferred) ELSE deferred
         ar == IF f.allocated THEN f.front ELSE f.allocReq
         failed == ~f.allocated /\ f.front # None
         next == IF ~failed /\ q # <<>> THEN Head(q) ELSE None
     IN /\ deferred' = q
        /\ rs' = IF f.allocated THEN [rs EXCEPT ![f.front] = "allocated"] ELSE rs
        /\ dispatching' = (next # None)
        /\ dd' = [dd EXCEPT ![t] = [pc |-> "try", front |-> next,
                                    allocated |-> FALSE, allocReq |-> ar]]
  /\ UNCHANGED <<es, resVars, wq, finQ, wakeVars>>

\* Outside m_lock: allocate for the front; once it succeeds, the earlier
\* allocated request's dispatch is queued to m_work_queue.  The loop goes
\* on while there is a front.
DDTry(t) ==
  /\ dd[t].pc = "try"
  /\ LET f == dd[t] IN
     IF f.front = None
     THEN /\ dd' = [dd EXCEPT ![t].pc = "exit"]
          /\ UNCHANGED <<resVars, wq, wakeVars>>
     ELSE /\ Alloc(f.front)
          /\ IF AllocOK /\ f.allocReq # None
             THEN /\ wq' = wq \cup {f.allocReq}
                  /\ dd' = [dd EXCEPT ![t] = [f EXCEPT !.pc = "loop", !.allocated = TRUE,
                                                       !.allocReq = None]]
             ELSE /\ dd' = [dd EXCEPT ![t] = [f EXCEPT !.pc = "loop", !.allocated = AllocOK]]
                  /\ UNCHANGED wq
  /\ UNCHANGED <<rs, es, deferred, dispatching, finQ>>

\* The last allocated request is dispatched on this thread.
DDExit(t) ==
  /\ dd[t].pc = "exit"
  /\ dd' = [dd EXCEPT ![t] = NoFrame]
  /\ IF dd[t].allocReq # None THEN Dispatch(dd[t].allocReq) ELSE UNCHANGED <<rs, es>>
  /\ UNCHANGED <<resVars, deferred, dispatching, wq, finQ, wakeVars>>

\* A work-queue thread runs a queued dispatch.
DispatchQueued(r) ==
  /\ r \in wq
  /\ wq' = wq \ {r}
  /\ Dispatch(r)
  /\ UNCHANGED <<resVars, deferred, dispatching, dd, finQ, wakeVars>>

-----------------------------------------------------------------------------
(***************************************************************************)
(* The persist finisher and writeback                                      *)
(***************************************************************************)
\* complete_op_log_entries: the entry is persisted and joins the dirty
\* list, wake_up is called, and the request's complete_write_req is
\* queued behind it on the finisher.
Persist(r) ==
  /\ es[r] = "pending"
  /\ dd[Fin].pc = "none"
  /\ es' = [es EXCEPT ![r] = "dirty"]
  /\ finQ' = Append(finQ, r)
  /\ WakeUp(pw)
  /\ UNCHANGED <<rs, resVars, deferred, dispatching, dd, wq>>

\* complete_write_req: release_write_lanes returns the lane, then calls
\* dispatch_deferred_writes on the finisher.
FinishReq ==
  /\ finQ # <<>>
  /\ dd[Fin].pc = "none"
  /\ LET r == Head(finQ) IN
     /\ finQ' = Tail(finQ)
     /\ freeLanes' = freeLanes + 1
     /\ lanesHeld' = [lanesHeld EXCEPT ![r] = @ - 1]
     /\ rs' = [rs EXCEPT ![r] = "done"]
     /\ dd' = [dd EXCEPT ![Fin] = [NoFrame EXCEPT !.pc = "enter"]]
  /\ UNCHANGED <<es, entriesHeld, freeEntries, allocFailed, deferred, dispatching,
                 wq, wakeVars>>

\* The flush completion of construct_flush_entry_ctx: flushed, wake_up.
WritebackDone(r) ==
  /\ es[r] = "flushing"
  /\ es' = [es EXCEPT ![r] = "flushed"]
  /\ WakeUp(pw)
  /\ UNCHANGED <<rs, resVars, deferred, dispatching, dd, wq, finQ>>

-----------------------------------------------------------------------------
(***************************************************************************)
(* process_work, run on the work queue while m_wake_up_scheduled          *)
(***************************************************************************)
RetireTrigger == allocFailed \/ Held > HighWater

\* Top of the do-while: clear m_wake_up_requested; retire if triggered.
PWTop ==
  /\ pw.pc = "top"
  /\ wakeRequested' = FALSE
  /\ pw' = [pw EXCEPT !.pc = IF RetireTrigger THEN "retire" ELSE "ddEnd"]
  /\ UNCHANGED <<rs, es, resVars, deferred, dispatching, dd, wq, finQ, wakeScheduled>>

\* One test of the retire loop and its retire_entries call: the loop goes
\* on while triggered, or above the low water mark until
\* RETIRE_BATCH_TIME_LIMIT_MS (timeLeft).  retire_entries frees the
\* flushed entries, clears m_alloc_failed_since_retire and calls wake_up;
\* retiring nothing leaves the loop.
PWRetire ==
  /\ pw.pc = "retire"
  /\ \E timeLeft \in BOOLEAN :
       LET gone == {r \in Reqs : es[r] = "flushed"} IN
       IF (RetireTrigger \/ (Held > LowWater /\ timeLeft)) /\ gone # {}
       THEN /\ es' = [r \in Reqs |-> IF r \in gone THEN "retired" ELSE es[r]]
            /\ entriesHeld' = [r \in Reqs |-> IF r \in gone THEN entriesHeld[r] - 1
                                                          ELSE entriesHeld[r]]
            /\ freeEntries' = freeEntries + Cardinality(gone)
            /\ allocFailed' = FALSE
            /\ WakeUp([pw EXCEPT !.pc = "ddLoop"])
            /\ UNCHANGED <<lanesHeld, freeLanes>>
       ELSE /\ pw' = [pw EXCEPT !.pc = "ddEnd"]
            /\ UNCHANGED <<es, resVars, wakeRequested, wakeScheduled>>
  /\ UNCHANGED <<rs, deferred, dispatching, dd, wq, finQ>>

\* dispatch_deferred_writes from process_work: in the retire loop
\* ("ddLoop", then "wbLoop") or after it ("ddEnd", then "wbEnd").
PWCallDispatch ==
  /\ pw.pc \in {"ddLoop", "ddEnd"}
  /\ dd' = [dd EXCEPT ![PW] = [NoFrame EXCEPT !.pc = "enter"]]
  /\ pw' = [pw EXCEPT !.pc = IF pw.pc = "ddLoop" THEN "wbLoop" ELSE "wbEnd"]
  /\ UNCHANGED <<rs, es, resVars, deferred, dispatching, wq, finQ,
                 wakeRequested, wakeScheduled>>

\* process_writeback_dirty_entries after the dispatch returned: every dirty
\* entry starts its writeback.
PWWriteback ==
  /\ pw.pc \in {"wbLoop", "wbEnd"}
  /\ dd[PW].pc = "none"
  /\ es' = [r \in Reqs |-> IF es[r] = "dirty" THEN "flushing" ELSE es[r]]
  /\ pw' = [pw EXCEPT !.pc = IF pw.pc = "wbLoop" THEN "retire" ELSE "check"]
  /\ UNCHANGED <<rs, resVars, deferred, dispatching, dd, wq, finQ,
                 wakeRequested, wakeScheduled>>

\* Bottom of the do-while: loop again if woken meanwhile, at most
\* max_iterations times.
PWCheck ==
  /\ pw.pc = "check"
  /\ pw' = IF wakeRequested /\ pw.iter > 1
           THEN [pc |-> "top", iter |-> pw.iter - 1]
           ELSE [pw EXCEPT !.pc = "end"]
  /\ UNCHANGED <<rs, es, resVars, deferred, dispatching, dd, wq, finQ,
                 wakeRequested, wakeScheduled>>

\* Clear m_wake_up_scheduled and reschedule if still requested.
PWEnd ==
  /\ pw.pc = "end"
  /\ IF wakeRequested
     THEN /\ pw' = [pc |-> "top", iter |-> MaxIterations]
          /\ UNCHANGED <<wakeRequested, wakeScheduled>>
     ELSE /\ wakeScheduled' = FALSE
          /\ pw' = [pw EXCEPT !.pc = "idle"]
          /\ UNCHANGED wakeRequested
  /\ UNCHANGED <<rs, es, resVars, deferred, dispatching, dd, wq, finQ>>

-----------------------------------------------------------------------------
Init ==
  /\ rs = [r \in Reqs |-> "idle"]
  /\ es = [r \in Reqs |-> "none"]
  /\ lanesHeld = [r \in Reqs |-> 0]
  /\ entriesHeld = [r \in Reqs |-> 0]
  /\ freeLanes = NumLanes
  /\ freeEntries = NumEntries
  /\ allocFailed = FALSE
  /\ deferred = <<>>
  /\ dispatching = FALSE
  /\ dd = [t \in Threads |-> NoFrame]
  /\ wq = {}
  /\ finQ = <<>>
  /\ wakeRequested = FALSE
  /\ wakeScheduled = FALSE
  /\ pw = [pc |-> "idle", iter |-> MaxIterations]

Next ==
  \/ \E r \in Reqs : Submit(r) \/ CallerAlloc(r) \/ CallerDefer(r)
  \/ \E t \in Threads : DDEnter(t) \/ DDLoop(t) \/ DDTry(t) \/ DDExit(t)
  \/ \E r \in Reqs : DispatchQueued(r) \/ Persist(r) \/ WritebackDone(r)
  \/ FinishReq
  \/ PWTop \/ PWRetire \/ PWCallDispatch \/ PWWriteback \/ PWCheck \/ PWEnd

Spec == Init /\ [][Next]_vars

\* Every thread that runs code keeps running it: the callers once they are
\* inside alloc_and_dispatch_io_req, every frame of
\* dispatch_deferred_writes, the work queue, the finisher, process_work
\* and the lower layer.  Issuing a request (Submit) is up to the caller.
Fairness ==
  /\ \A r \in Reqs : WF_vars(CallerAlloc(r)) /\ WF_vars(CallerDefer(r))
                     /\ WF_vars(DispatchQueued(r)) /\ WF_vars(Persist(r))
                     /\ WF_vars(WritebackDone(r))
  /\ \A t \in Threads : WF_vars(DDEnter(t) \/ DDLoop(t) \/ DDTry(t) \/ DDExit(t))
  /\ WF_vars(FinishReq)
  /\ WF_vars(PWTop \/ PWRetire \/ PWCallDispatch \/ PWWriteback \/ PWCheck \/ PWEnd)

FairSpec == Spec /\ Fairness

-----------------------------------------------------------------------------
(* Properties *)

TypeOK ==
  /\ rs \in [Reqs -> {"idle", "alloc", "defer", "deferred", "allocated",
                      "dispatched", "done"}]
  /\ es \in [Reqs -> {"none", "pending", "dirty", "flushing", "flushed", "retired"}]
  /\ freeLanes \in 0 .. NumLanes /\ freeEntries \in 0 .. NumEntries
  /\ deferred \in Seq(Reqs)
  /\ dd \in [Threads -> [pc : {"none", "enter", "loop", "try", "exit"},
                         front : Reqs \cup {None}, allocated : BOOLEAN,
                         allocReq : Reqs \cup {None}]]
  /\ pw.pc \in {"idle", "top", "retire", "ddLoop", "wbLoop", "ddEnd", "wbEnd",
                "check", "end"}

\* Each write request is allocated its lane and log entry once, and each
\* unit is either free or held: m_dispatching_deferred_ops keeps two threads
\* from allocating for the same front of m_deferred_ios, and the front is
\* popped only by the thread that allocated it.
SingleAllocation ==
  /\ \A r \in Reqs : lanesHeld[r] <= 1 /\ entriesHeld[r] <= 1
  /\ freeLanes + MapThenSumSet(LAMBDA r : lanesHeld[r], Reqs) = NumLanes
  /\ freeEntries + Held = NumEntries

\* Every write request issued is eventually dispatched and completed: a
\* deferred request is retried whenever lanes or log entries come back
\* (release_write_lanes, retire_entries via wake_up and process_work).
RequestEventuallyCompletes == \A r \in Reqs : rs[r] # "idle" ~> rs[r] = "done"

=============================================================================
