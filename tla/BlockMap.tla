------------------------------ MODULE BlockMap ------------------------------
(***************************************************************************)
(* Abstract specification of what the write log map promises: for every   *)
(* image block, the newest log entry whose extent covers it, or NoEntry.   *)
(* Adding a log entry makes it the newest entry for every block of its     *)
(* extent; removing a log entry forgets it for every block it still owns.  *)
(* WriteLogMap, the interval-set implementation, is shown to implement     *)
(* this specification under a refinement mapping.                          *)
(***************************************************************************)
EXTENDS Naturals

CONSTANTS LogEntries, MaxBlock, NoEntry

Blocks == 0 .. MaxBlock

VARIABLE blockMap

Init == blockMap = [b \in Blocks |-> NoEntry]

\* Every block of the extent first .. last now reads from log entry le.
Add(le, first, last) ==
  blockMap' = [b \in Blocks |-> IF b \in first .. last THEN le ELSE blockMap[b]]

\* Blocks still owned by le no longer hit in the map.
Remove(le) ==
  blockMap' = [b \in Blocks |-> IF blockMap[b] = le THEN NoEntry ELSE blockMap[b]]

Next ==
  \/ \E le \in LogEntries, first, last \in Blocks : first <= last /\ Add(le, first, last)
  \/ \E le \in LogEntries : Remove(le)

Spec == Init /\ [][Next]_blockMap

=============================================================================
