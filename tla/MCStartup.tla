----------------------------- MODULE MCStartup -----------------------------
(* The instance of Startup for TLC: ports of 2 bits, int of 4, size_t of 5,    *)
(* and numbers on both sides of every limit.                                   *)
EXTENDS Startup

SmallDefaults ==
    [s \in Settings |-> IF s = "maxFrameSize" THEN 3 ELSE IF s = "port" THEN 1 ELSE 2]

(* Ports 0 to 3, int -8 to 7, size_t 0 to 31, which wraps -31 to 1. *)
Written_ == {-32, -31, -9, -1, 0, 1, 2, 3, 4, 8, 31, 32}
=============================================================================
