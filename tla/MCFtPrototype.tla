---------------------------- MODULE MCFtPrototype ---------------------------
(* Values for TLC: two threads, and processes known by their numbers.       *)
EXTENDS FtPrototype

MCProcs == {1, 2}
MCSizes == {2}
MCReadings == {0, 1}
=============================================================================
