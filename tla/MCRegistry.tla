----------------------------- MODULE MCRegistry -----------------------------
(* Instances of Registry for TLC.                                          *)
EXTENDS Registry, TLC

CONSTANTS lo, lan, zero

\* Objects differ by identity only.
Symmetric == Permutations(Objects)
=============================================================================
