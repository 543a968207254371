--------------------------- MODULE MCUuid7Entropy ---------------------------
(* The constants are given in the .cfg.                                     *)
EXTENDS Uuid7Entropy
=============================================================================
