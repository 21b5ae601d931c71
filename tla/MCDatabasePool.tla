--------------------------- MODULE MCDatabasePool ---------------------------
(* The instance of DatabasePool for TLC (Pool.cfg).  Threads are model values, *)
(* more of them than connections; no symmetry, because the run checks a        *)
(* liveness property too.                                                      *)
EXTENDS DatabasePool
=============================================================================
