---------------------------- MODULE AtomicEntropy ---------------------------
(***************************************************************************)
(* secure_random_u64 as the rest of the project has it: one step, in which *)
(* the pool is either refilled or not, and a word is either taken or not.  *)
(* Uuid7Entropy shows that the loops in the code amount to this.           *)
(***************************************************************************)
EXTENDS Uuid7Core

VARIABLES gen,      \* the generator, of which a read concerns the pool only
          fills,    \* how many refills have been begun
          drawn     \* what the last call returned

absVars == <<gen, fills, drawn>>

Nothing == [ok |-> FALSE, word |-> <<Unfilled, 0>>]

Init ==
  /\ gen = InitialGenerator
  /\ fills = 0
  /\ drawn = Nothing

\* Refills are numbered as they begin, and the failed ones use up a number.
DrawWord ==
  \E e \in Entropy(fills + 1) :
    LET d == Draw(gen, e)
    IN  /\ gen' = d.gen
        /\ fills' = IF NeedsRefill(gen) THEN fills + 1 ELSE fills
        /\ drawn' = IF d.ok THEN [ok |-> TRUE, word |-> d.word] ELSE Nothing

Spec == Init /\ [][DrawWord]_absVars
=============================================================================
