--------------------------- MODULE AtomicBatches ----------------------------
(***************************************************************************)
(* What concurrent callers of a free-threaded generator are promised       *)
(* (docs/design/free-threading.md, "Ordering contract to preserve"): in    *)
(* every process, each batch takes one contiguous block of an increasing   *)
(* sequence, at one moment between its call and its return.                *)
(***************************************************************************)
EXTENDS Naturals, Sequences

CONSTANTS Procs, Threads, Positions, Before(_, _)

VARIABLES log,    \* of each process: all live identifiers, in order
          call    \* of each process and thread: idle, called, or the block taken

absVars == <<log, call>>

Idle == <<"idle">>
Called == <<"called">>
Block(first, items) == <<"block", first, items>>

Init ==
  /\ log = [p \in Procs |-> <<>>]
  /\ call = [p \in Procs |-> [t \in Threads |-> Idle]]

Begin(p, t) ==
  /\ call[p][t] = Idle
  /\ call' = [call EXCEPT ![p][t] = Called]
  /\ UNCHANGED log

\* A batch that fails has taken a block too, though it returns nothing; a
\* historical batch takes an empty one.
Take(p, t) ==
  LET new == SubSeq(log'[p], Len(log[p]) + 1, Len(log'[p]))
  IN  /\ call[p][t] = Called
      /\ log' = [log EXCEPT ![p] = @ \o new]
      /\ \A i \in 1 .. Len(log'[p]) : log'[p][i] \in Positions
      /\ \A i \in 1 .. Len(log'[p]) - 1 : Before(log'[p][i], log'[p][i + 1])
      /\ call' = [call EXCEPT ![p][t] = Block(Len(log[p]), new)]

Return(p, t) ==
  /\ call[p][t] \notin {Idle, Called}
  /\ call' = [call EXCEPT ![p][t] = Idle]
  /\ UNCHANGED log

Next == \E p \in Procs, t \in Threads : Begin(p, t) \/ Take(p, t) \/ Return(p, t)

Spec == Init /\ [][Next]_absVars
=============================================================================
