----------------------------- MODULE MC_WriteLog -----------------------------
EXTENDS WriteLog

CONSTANTS w1, w2, w3, f1, r1, d1, i1

MCWrites == {w1, w2, w3}
MCUserFlushes == {f1}
MCNoReads == {}
MCReads == {r1}
\* w1 and w2 write block 0, w3 writes block 1.
MCExt == [w \in MCWrites |-> IF w = w3 THEN {1} ELSE {0}]
\* Liveness instance: two writes to block 0 and one flush.
MCWrites2 == {w1, w2}
MCExt2 == [w \in MCWrites2 |-> {0}]
\* Discards: none, or one discard of block 0.
MCNoDiscards == {}
MCDiscards == {d1}
MCDExt == [d \in {d1} |-> {0}]
\* Invalidates: none, or one invalidate of the whole cache.
MCNoInvalidates == {}
MCInvalidates == {i1}
=============================================================================
