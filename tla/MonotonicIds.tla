---------------------------- MODULE MonotonicIds ----------------------------
(***************************************************************************)
(* What a caller of the live API is promised, with no word of how: within  *)
(* one epoch of a process (its life after a fork, or since its state was   *)
(* last reset or overwritten) every identifier issued is greater than the  *)
(* one before it.  An identifier is known by its position, the pair        *)
(* <<millisecond, counter>> that the sixteen bytes order by (docs/api.md,  *)
(* "Ordering and time").  Identifiers are counted, so that one issued      *)
(* twice is a step as well, and not an allowed one.                        *)
(***************************************************************************)
EXTENDS Naturals

CONSTANTS MaxTimestamp,   \* the last millisecond an identifier can carry
          MaxCounter      \* the last counter value within a millisecond

Positions == (0 .. MaxTimestamp) \X (0 .. MaxCounter)

\* No identifier has been issued in this epoch.
None == <<>>

\* The order of the sixteen bytes, on positions.
Before(a, b) ==
  \/ a[1] < b[1]
  \/ a[1] = b[1] /\ a[2] < b[2]

VARIABLES latest,   \* the position issued last in this epoch, or None
          issued,   \* how many have been issued in this epoch
          epoch     \* how many epochs have ended

absVars == <<latest, issued, epoch>>

Init ==
  /\ latest = None
  /\ issued = 0
  /\ epoch = 0

\* The next identifier, anywhere above the last: gaps are allowed.
Issue ==
  \E p \in Positions :
    /\ latest = None \/ Before(latest, p)
    /\ latest' = p
    /\ issued' = issued + 1
    /\ UNCHANGED epoch

NewEpoch ==
  /\ latest' = None
  /\ issued' = 0
  /\ epoch' = epoch + 1

Next == Issue \/ NewEpoch

Spec == Init /\ [][Next]_absVars
=============================================================================
