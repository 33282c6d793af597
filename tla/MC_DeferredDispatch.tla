-------------------------- MODULE MC_DeferredDispatch --------------------------
EXTENDS DeferredDispatch, TLC

CONSTANTS r1, r2, r3, r4

\* Two write requests competing for one log entry, or for one lane.
MCReqs == {r1, r2}
\* Four write requests for two lanes and two log entries: two requests can
\* be deferred together and both allocated in one dispatch_deferred_writes.
MCReqs4 == {r1, r2, r3, r4}
\* The requests, each with its own caller thread, are interchangeable.
MCSymmetry == Permutations(MCReqs4)
=============================================================================
