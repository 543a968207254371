---------------------------- MODULE MCUuid7Fork -----------------------------
(* Values for TLC: three generations are enough for a number to come back.  *)
EXTENDS Uuid7Fork, TLC

CONSTANTS p1, p2, p3

MCProcs == {p1, p2, p3}
MCPids == 1 .. 3
MCReadings == 0 .. 1
MCSymmetry == Permutations(MCProcs)
=============================================================================
