---------------------------- MODULE MCFtEvidence ----------------------------
(* For TLC: two runs in one output directory, the second perhaps after an   *)
(* edit of the sources; one run suffices to leave a probe behind.           *)
EXTENDS FtEvidence

MCInterpreters == {[free |-> TRUE, old |-> FALSE], [free |-> FALSE, old |-> TRUE]}
=============================================================================
