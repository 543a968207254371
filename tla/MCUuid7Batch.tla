---------------------------- MODULE MCUuid7Batch ----------------------------
(* Values for TLC: two threads; the list of timestamps is edited between    *)
(* two contents, one of which ends in a timestamp out of range.             *)
EXTENDS Uuid7Batch, TLC

CONSTANTS t1, t2

MCThreads == {t1, t2}
MCSizes == {2}
MCSources == {<<0, 1>>, <<1, MaxTimestamp + 1>>}
MCReadings == {0, 1}
MCSymmetry == Permutations(MCThreads)
=============================================================================
