--------------------------- MODULE MCDebouncedStore ---------------------------
(* Instances of DebouncedStore for TLC.                                    *)
EXTENDS DebouncedStore
=============================================================================
