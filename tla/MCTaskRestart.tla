---------------------------- MODULE MCTaskRestart ----------------------------
(* Instances of TaskRestart for TLC.                                       *)
EXTENDS TaskRestart

CONSTANTS t1, t2, c1, c2

Symmetric == Permutations({t1, t2}) \cup Permutations({c1, c2})
=============================================================================
