----------------------------- MODULE WriteLogMap -----------------------------
(***************************************************************************)
(* The write log map of ReplicatedWriteLog.cc (class WriteLogMap): a set   *)
(* of non-overlapping WriteLogMapEntry records, each an inclusive block    *)
(* extent paired with the write log entry that is newest for it, plus the  *)
(* referring_map_entries count kept in every log entry.                    *)
(*                                                                         *)
(* The std::set is ordered by WriteLogMapEntryCompare, under which two     *)
(* entries compare equal exactly when they overlap, so equal_range finds   *)
(* the overlapping entries.  That is only sound while the set holds no     *)
(* two overlapping entries: NoOverlap is the invariant the container       *)
(* relies on.  find_map_entries is modelled as the set of overlapping map  *)
(* entries, which is what equal_range returns under that invariant.        *)
(*                                                                         *)
(* The environment adds each log entry once (dispatch_aio_write, or        *)
(* load_existing_entries on recovery) with an image extent of its choosing *)
(* (offset and length; nothing on the write path rejects length 0), and    *)
(* removes a log entry that was added (retire_entries, shut_down).  Every  *)
(* call runs under WriteLogMap::m_lock, so each is one atomic step.        *)
(***************************************************************************)
EXTENDS Naturals, FiniteSets, FiniteSetsExt

CONSTANTS
  LogEntries,   \* write log entries (model values)
  MaxBlock,     \* image blocks are 0 .. MaxBlock (block size 1, as in the code)
  NoEntry,      \* the value of a block no map entry covers
  MinLength     \* shortest write the environment issues (0 or 1)

Blocks == 0 .. MaxBlock

\* UINT64_MAX, the block_end of a zero-length extent at offset 0.  The map
\* only compares block numbers and steps one past a block_end smaller than
\* another, so any value above every image block stands for it.
U64Max == MaxBlock + 1

\* A BlockExtent: first and last block, inclusive.
BlockExtent(first, last) == [block_start |-> first, block_end |-> last]

\* block_extent(offset, length): the last block is offset + length - 1 in
\* uint64_t, so a zero-length extent ends one block before it starts, and
\* at offset 0 wraps to UINT64_MAX.
BlockExtentOf(offset, length) ==
  BlockExtent(offset, IF offset + length = 0 THEN U64Max ELSE offset + length - 1)

\* The image extents a write may carry, within the image.
ImageExtents == {<<o, l>> \in Blocks \X (MinLength .. MaxBlock + 1) : o + l <= MaxBlock + 1}

Extents == {BlockExtentOf(e[1], e[2]) : e \in ImageExtents}

VARIABLES
  mapEntries,     \* m_block_to_log_entry_map: set of [block_extent, log_entry]
  referring,      \* log_entry->referring_map_entries
  entryExtent,    \* log_entry->block_extent(), fixed when the entry is created
  entryPhase      \* "new" (not yet added), "mapped", "removed"

vars == <<mapEntries, referring, entryExtent, entryPhase>>

\* Fault model: the comparator treats extents that share their boundary
\* block as ordered.
LessTouching(a, b) == a.block_end <= b.block_start

\* WriteLogMapEntryCompare: lhs < rhs iff lhs ends before rhs starts.
Less(a, b) == a.block_end < b.block_start

\* Two extents are "equal" to the comparator iff they overlap.
Overlaps(a, b) == ~Less(a, b) /\ ~Less(b, a)

MapEntry(ext, le) == [block_extent |-> ext, log_entry |-> le]

\* find_map_entries_locked: the equal_range of the extent.
FindMapEntries(ext) == {m \in mapEntries : Overlaps(m.block_extent, ext)}

\* Fault models of add_log_entry_locked, used to show the properties bite:
\* the begin-occluded entry keeps the new entry's last block, and a split
\* forgets its right remainder.
OccludeKeepsLastBlock(m, n) ==
  LET o == m.block_extent IN
  IF n.block_start <= o.block_start
  THEN IF n.block_end >= o.block_end
       THEN {}
       ELSE {MapEntry(BlockExtent(n.block_end, o.block_end), m.log_entry)}
  ELSE IF n.block_end >= o.block_end
       THEN {MapEntry(BlockExtent(o.block_start, n.block_start - 1), m.log_entry)}
       ELSE {MapEntry(BlockExtent(o.block_start, n.block_start - 1), m.log_entry),
             MapEntry(BlockExtent(n.block_end + 1, o.block_end), m.log_entry)}

OccludeSplitLosesRight(m, n) ==
  LET o == m.block_extent IN
  IF n.block_start <= o.block_start
  THEN IF n.block_end >= o.block_end
       THEN {}
       ELSE {MapEntry(BlockExtent(n.block_end + 1, o.block_end), m.log_entry)}
  ELSE IF n.block_end >= o.block_end
       THEN {MapEntry(BlockExtent(o.block_start, n.block_start - 1), m.log_entry)}
       ELSE {MapEntry(BlockExtent(o.block_start, n.block_start - 1), m.log_entry)}

(***************************************************************************)
(* add_log_entry_locked, for one overlapping entry m and the new extent n: *)
(* the map entries that replace m.  Fully occluded: none; the new entry    *)
(* occludes the beginning or the end: m adjusted; n strictly inside m:     *)
(* split into a left and a right remainder.                                *)
(***************************************************************************)
Occlude(m, n) ==
  LET o == m.block_extent IN
  IF n.block_start <= o.block_start
  THEN IF n.block_end >= o.block_end
       THEN {}                                                  \* remove_map_entry_locked
       ELSE {MapEntry(BlockExtent(n.block_end + 1, o.block_end), m.log_entry)}
  ELSE IF n.block_end >= o.block_end
       THEN {MapEntry(BlockExtent(o.block_start, n.block_start - 1), m.log_entry)}
       ELSE {MapEntry(BlockExtent(o.block_start, n.block_start - 1), m.log_entry),
             MapEntry(BlockExtent(n.block_end + 1, o.block_end), m.log_entry)}

\* Fault model: an adjustment, done as erase and re-insert, decrements the
\* count on the erase and does not increment it on the insert.
RefDeltaAdjustDecrements(m, n) ==
  LET o == m.block_extent IN
  CASE n.block_start > o.block_start /\ n.block_end < o.block_end -> 1
    [] OTHER                                                      -> -1

\* Fault model: split_map_entry_locked without the increment.
RefDeltaNoSplit(m, n) ==
  LET o == m.block_extent IN
  CASE n.block_start <= o.block_start /\ n.block_end >= o.block_end -> -1
    [] OTHER                                                        -> 0

\* Change to m.log_entry->referring_map_entries made while occluding m:
\* remove_map_entry_locked decrements, adjust leaves it, split increments.
RefDelta(m, n) ==
  LET o == m.block_extent IN
  CASE n.block_start <= o.block_start /\ n.block_end >= o.block_end -> -1
    [] n.block_start > o.block_start /\ n.block_end < o.block_end   -> 1
    [] OTHER                                                        -> 0

\* add_log_entry / add_log_entry_locked / add_map_entry_locked.
AddLogEntry(le) ==
  /\ entryPhase[le] = "new"
  /\ \E n \in Extents :
       /\ LET ov == FindMapEntries(n) IN
          /\ mapEntries' = (mapEntries \ ov)
                             \cup UNION {Occlude(m, n) : m \in ov}
                             \cup {MapEntry(n, le)}
          /\ referring' = [x \in LogEntries |->
                             referring[x]
                             + MapThenSumSet(LAMBDA m : RefDelta(m, n),
                                             {m \in ov : m.log_entry = x})
                             + (IF x = le THEN 1 ELSE 0)]
          /\ entryExtent' = [entryExtent EXCEPT ![le] = n]
  /\ entryPhase' = [entryPhase EXCEPT ![le] = "mapped"]

\* Fault model: only the first map entry of the equal_range is erased.
RemoveLogEntryOneHit(le) ==
  /\ entryPhase[le] = "mapped"
  /\ LET hits == {m \in FindMapEntries(entryExtent[le]) : m.log_entry = le} IN
     /\ mapEntries' = IF hits = {} THEN mapEntries
                      ELSE mapEntries \ {CHOOSE m \in hits : \A x \in hits : ~Less(x.block_extent, m.block_extent)}
     /\ referring' = [referring EXCEPT ![le] = @ - (IF hits = {} THEN 0 ELSE 1)]
  /\ entryPhase' = [entryPhase EXCEPT ![le] = "removed"]
  /\ UNCHANGED entryExtent

\* remove_log_entry / remove_log_entry_locked: every map entry found in the
\* log entry's extent that refers to it is removed.
RemoveLogEntry(le) ==
  /\ entryPhase[le] = "mapped"
  /\ LET hits == {m \in FindMapEntries(entryExtent[le]) : m.log_entry = le} IN
     /\ mapEntries' = mapEntries \ hits
     /\ referring' = [referring EXCEPT ![le] = @ - Cardinality(hits)]
  /\ entryPhase' = [entryPhase EXCEPT ![le] = "removed"]
  /\ UNCHANGED entryExtent

Init ==
  /\ mapEntries = {}
  /\ referring = [le \in LogEntries |-> 0]
  /\ entryExtent = [le \in LogEntries |-> BlockExtent(0, 0)]
  /\ entryPhase = [le \in LogEntries |-> "new"]

\* The environment stops once every entry was added and removed.
Done == \A le \in LogEntries : entryPhase[le] = "removed"

Next ==
  \/ \E le \in LogEntries : AddLogEntry(le)
  \/ \E le \in LogEntries : RemoveLogEntry(le)
  \/ Done /\ UNCHANGED vars

Spec == Init /\ [][Next]_vars

-----------------------------------------------------------------------------
(* Properties *)

TypeOK ==
  /\ mapEntries \subseteq [block_extent : Extents, log_entry : LogEntries]
  /\ referring \in [LogEntries -> Nat]
  /\ entryExtent \in [LogEntries -> Extents]
  /\ entryPhase \in [LogEntries -> {"new", "mapped", "removed"}]

\* No two map entries overlap: the precondition of equal_range in
\* find_map_entries_locked, which every add_log_entry_locked must restore.
NoOverlap ==
  \A m1, m2 \in mapEntries :
    m1 # m2 => ~Overlaps(m1.block_extent, m2.block_extent)

\* Each log entry's referring_map_entries equals the number of map entries
\* that point at it (retire_entries asserts it is zero after removal, and
\* shut_down asserts it too).
RefCountMatches ==
  \A le \in LogEntries :
    referring[le] = Cardinality({m \in mapEntries : m.log_entry = le})

\* retire_entries (and shut_down) assert that a log entry no map entry
\* refers to once remove_log_entry has run: the entry's splits and
\* adjustments must all stay inside its own extent, where the equal_range
\* of the removal finds them.
RemovedUnreferenced ==
  \A le \in LogEntries : entryPhase[le] = "removed" => referring[le] = 0

\* The block -> newest log entry function the interval set represents.
Covering(b) == {m \in mapEntries : b \in m.block_extent.block_start .. m.block_extent.block_end}

AbstractMap ==
  [b \in Blocks |-> IF Covering(b) = {} THEN NoEntry
                    ELSE (CHOOSE m \in Covering(b) : TRUE).log_entry]

\* WriteLogMap implements BlockMap: the map answers every block lookup with
\* the newest added entry covering it, and forgets exactly the removed one.
Abstract == INSTANCE BlockMap WITH blockMap <- AbstractMap

AbstractSpec == Abstract!Spec

=============================================================================
