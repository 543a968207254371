----------------------------- MODULE MCUuid7Gen -----------------------------
(* Values for TLC.  One reading lies before 1970, and one request lies past *)
(* the last millisecond an identifier can carry.                            *)
EXTENDS Uuid7Gen

MCRealtime == -1 .. 2
MCRequests == 0 .. MaxTimestamp + 1
=============================================================================
