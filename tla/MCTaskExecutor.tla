--------------------------- MODULE MCTaskExecutor ---------------------------
(* Instances of TaskExecutor for TLC.                                      *)
EXTENDS TaskExecutor

CONSTANTS t1, t2, t3, c1, c2

\* Safety: three proposals compete for two slots.
Symmetric == Permutations({t1, t2, t3}) \cup Permutations({c1, c2})

\* Liveness: two proposals, one slot, and t3 proposed to a peer.
TwoInbound == {t1, t2}

\* A previous process stopped while t1 was executing.
OneLeftover == {t1}
=============================================================================
