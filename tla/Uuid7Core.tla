----------------------------- MODULE Uuid7Core ------------------------------
(***************************************************************************)
(* The native generator core, src/uuid7_gen.c, as operators.  A generator  *)
(* state is a record of the file's static variables; each C function is an *)
(* operator from the state it finds, its arguments and what the operating  *)
(* system answers during the call, to the outcome it leaves: the state,    *)
(* the status it returns and the identifier it wrote.  The modules that    *)
(* put these operators into actions decide who calls them and when.        *)
(*                                                                         *)
(* Entropy is abstracted to the identity of its words.  A successful       *)
(* refill gives the pool a number of its own, and a word is the pair of    *)
(* that number and its offset, so that a word read twice can be told from  *)
(* two words that were read once.  What a word spells is any value.        *)
(***************************************************************************)
EXTENDS Integers

CONSTANTS MaxTimestamp,  \* UUID7_MAX_TIMESTAMP, 2^48 - 1 in the code
          MaxCounter,    \* UUID7_COUNTER_MASK, 2^42 - 1 in the code
          PoolWords,     \* UUID7_ENTROPY_POOL_SIZE / sizeof(uint64_t), 512
          WordSpan       \* 2^64: uint64_t counts modulo this

\* The real values satisfy these with room to spare.  Two words in the pool
\* are what keeps one call to at most one refill.
ASSUME CoreAssumption ==
  /\ MaxTimestamp \in Nat
  /\ MaxCounter \in Nat
  /\ PoolWords \in Nat /\ PoolWords >= 2
  /\ WordSpan \in Nat /\ WordSpan > MaxTimestamp + 1

Timestamps == 0 .. MaxTimestamp
Counters == 0 .. MaxCounter

\* The number of a pool that holds no complete refill: the zeros of static
\* initialisation or of a reset, or what an interrupted refill left.
Unfilled == 0

\* The process number of a generator no process has used yet.
NoProcess == 0

GeneratorStates ==
  [last_ms        : Timestamps,
   counter        : Counters,
   initialized    : BOOLEAN,
   process_id     : Nat,
   pool           : Nat,               \* entropy_pool, by number
   entropy_offset : 0 .. PoolWords,    \* in words: 4096 is PoolWords
   fd_open        : BOOLEAN]           \* urandom_fd >= 0

InitialGenerator ==
  [last_ms |-> 0, counter |-> 0, initialized |-> FALSE,
   process_id |-> NoProcess, pool |-> Unfilled,
   entropy_offset |-> PoolWords, fd_open |-> FALSE]

\* What the operating system may answer to a refill: all the bytes, no
\* descriptor, or fewer bytes than the pool holds.
RefillResults == {"filled", "open_fails", "read_fails"}

\* All that a call takes from the operating system's CSPRNG: what a refill
\* would return, the number it would give the pool, and the value of the word
\* a counter would start from.
Entropy(number) ==
  [refill : RefillResults, number : {number}, seed : Counters]

(***************************************************************************)
(* The clock.  tv_sec is signed; the cast to uint64_t makes a reading from *)
(* before 1970 a very large number.                                        *)
(***************************************************************************)
\* Slip: the reading is cut to the 48 bits it is packed into.
CurrentTimeMsCut(realtime) == realtime % (MaxTimestamp + 1)

CurrentTimeMs(realtime) == realtime % WordSpan

(***************************************************************************)
(* Process identity.                                                       *)
(***************************************************************************)
\* The descriptor survives, everything else goes back to a fresh start.
ResetProcessState(g, pid) ==
  [InitialGenerator EXCEPT !.process_id = pid, !.fd_open = g.fd_open]

\* Slip: the inherited counter goes, the inherited pool stays.
EnsureKeepingPool(g, pid) ==
  IF g.process_id # pid
  THEN [g EXCEPT !.initialized = FALSE, !.process_id = pid]
  ELSE g

\* Slip: the inherited pool goes, the inherited counter stays.
EnsureKeepingCounter(g, pid) ==
  IF g.process_id # pid
  THEN [g EXCEPT !.process_id = pid, !.entropy_offset = PoolWords]
  ELSE g

EnsureCurrentProcess(g, pid) ==
  IF g.process_id # pid THEN ResetProcessState(g, pid) ELSE g

(***************************************************************************)
(* Entropy.                                                                *)
(***************************************************************************)
Word(g) == <<g.pool, g.entropy_offset>>

Refilled(g, number) ==
  [g EXCEPT !.pool = number, !.entropy_offset = 0, !.fd_open = TRUE]

\* Slip: the offset is rewound before the reads have succeeded.
RefillFailedRewound(g, refill) ==
  [g EXCEPT !.pool = Unfilled, !.entropy_offset = 0, !.fd_open = TRUE]

\* Without a descriptor nothing was read; with one, part of the pool may have
\* been overwritten.  Neither moves the offset.
RefillFailed(g, refill) ==
  IF refill = "open_fails" /\ ~g.fd_open
  THEN g
  ELSE [g EXCEPT !.pool = Unfilled, !.fd_open = TRUE]

NeedsRefill(g) == g.entropy_offset + 1 > PoolWords

\* secure_random_u64: "word" is meaningful only when "ok".
Draw(g, e) ==
  IF NeedsRefill(g) /\ e.refill # "filled"
  THEN [ok |-> FALSE, gen |-> RefillFailed(g, e.refill), word |-> Word(g)]
  ELSE LET ready == IF NeedsRefill(g) THEN Refilled(g, e.number) ELSE g
       IN  [ok   |-> TRUE,
            gen  |-> [ready EXCEPT !.entropy_offset = @ + 1],
            word |-> Word(ready)]

(***************************************************************************)
(* Outcomes.  "position" is the millisecond and the counter an identifier  *)
(* carries; "words" are the entropy words it is made of, the one that      *)
(* seeded its counter included.                                            *)
(***************************************************************************)
NoPosition == <<>>

Failure(status, g) ==
  [status |-> status, gen |-> g, position |-> NoPosition, words |-> {}]

Success(g, position, words) ==
  [status |-> "ok", gen |-> g, position |-> position, words |-> words]

\* A call that returns no identifier because it was asked for none.
Done(g) ==
  [status |-> "done", gen |-> g, position |-> NoPosition, words |-> {}]

(***************************************************************************)
(* The live generator, generate_uuid7_words_for_timestamp.                 *)
(***************************************************************************)
Commit(g, ms, ctr) ==
  [g EXCEPT !.last_ms = ms, !.counter = ctr, !.initialized = TRUE]

\* Slip: the commit comes before the tail word is read.
CommitBeforeTail(g, ms, ctr, words, e) ==
  LET tail == Draw(Commit(g, ms, ctr), e)
  IN  IF tail.ok
      THEN Success(tail.gen, <<ms, ctr>>, words \cup {tail.word})
      ELSE Failure("entropy", tail.gen)

\* The tail word, then the commit: last_ms, counter and initialized change
\* only here, after the last read that can fail.
CommitWithTail(g, ms, ctr, words, e) ==
  LET tail == Draw(g, e)
  IN  IF tail.ok
      THEN Success(Commit(tail.gen, ms, ctr), <<ms, ctr>>,
                   words \cup {tail.word})
      ELSE Failure("entropy", tail.gen)

\* A counter that starts from a random value: next_counter_start.
StartCounter(g, ms, e) ==
  LET start == Draw(g, e)
  IN  IF start.ok
      THEN CommitWithTail(start.gen, ms, e.seed, {start.word}, e)
      ELSE Failure("entropy", start.gen)

\* Slip: the mask is forgotten.
NextCounterUnmasked(g) == g.counter + 1

\* (counter + 1) & UUID7_COUNTER_MASK
NextCounter(g) == (g.counter + 1) % (MaxCounter + 1)

\* Slip: the next counter is used and not stored.
ContinueUncommitted(g, e) ==
  CASE NextCounter(g) # 0 ->
         [CommitWithTail(g, g.last_ms, NextCounter(g), {}, e) EXCEPT
            !.gen.counter = g.counter]
    [] NextCounter(g) = 0 /\ g.last_ms = MaxTimestamp ->
         Failure("exhausted", g)
    [] NextCounter(g) = 0 /\ g.last_ms # MaxTimestamp ->
         StartCounter(g, g.last_ms + 1, e)

\* Slip: a wrapped counter stays in its millisecond.
ContinueWithoutCarry(g, e) == CommitWithTail(g, g.last_ms, NextCounter(g), {}, e)

\* Slip: a counter drawn anew for every identifier, one millisecond on.
ContinueAhead(g, e) ==
  IF g.last_ms = MaxTimestamp
  THEN Failure("exhausted", g)
  ELSE StartCounter(g, g.last_ms + 1, e)

\* Slip: the last millisecond is not checked before the carry.
ContinuePastTheEnd(g, e) ==
  IF NextCounter(g) # 0
  THEN CommitWithTail(g, g.last_ms, NextCounter(g), {}, e)
  ELSE StartCounter(g, g.last_ms + 1, e)

\* The clock has not moved past the last identifier: stay in its millisecond,
\* or carry into the next one when the counter wraps.
Continue(g, e) ==
  CASE NextCounter(g) # 0 ->
         CommitWithTail(g, g.last_ms, NextCounter(g), {}, e)
    [] NextCounter(g) = 0 /\ g.last_ms = MaxTimestamp ->
         Failure("exhausted", g)
    [] NextCounter(g) = 0 /\ g.last_ms # MaxTimestamp ->
         StartCounter(g, g.last_ms + 1, e)

\* Slip: >= for >, a new random counter in the millisecond of the last one.
GenerateRestarting(found, now, pid, e) ==
  LET g == EnsureCurrentProcess(found, pid)
  IN  IF now > MaxTimestamp
      THEN Failure("exhausted", g)
      ELSE IF ~g.initialized \/ now >= g.last_ms
           THEN StartCounter(g, now, e)
           ELSE Continue(g, e)

GenerateForTimestamp(found, now, pid, e) ==
  LET g == EnsureCurrentProcess(found, pid)
  IN  CASE now > MaxTimestamp -> Failure("exhausted", g)
        [] now <= MaxTimestamp /\ (~g.initialized \/ now > g.last_ms) ->
             StartCounter(g, now, e)
        [] now <= MaxTimestamp /\ g.initialized /\ now <= g.last_ms ->
             Continue(g, e)

(***************************************************************************)
(* The historical generator: no counter, two words, the exact timestamp.   *)
(* The range is checked before the process is.                             *)
(***************************************************************************)
GenerateAt(found, ts, pid, e) ==
  IF ts > MaxTimestamp
  THEN Failure("exhausted", found)
  ELSE LET high == Draw(EnsureCurrentProcess(found, pid), e)
           low  == Draw(high.gen, e)
       IN  CASE ~high.ok -> Failure("entropy", high.gen)
             [] high.ok /\ ~low.ok -> Failure("entropy", low.gen)
             [] high.ok /\ low.ok ->
                  Success(low.gen, <<ts>>, {high.word, low.word})

(***************************************************************************)
(* The test hooks.                                                         *)
(***************************************************************************)
SetState(found, ts, ctr, pid) ==
  IF ts > MaxTimestamp \/ ctr > MaxCounter
  THEN Failure("refused", found)
  ELSE Done(Commit(EnsureCurrentProcess(found, pid), ts, ctr))

ResetState(g, pid) == Done(ResetProcessState(g, pid))
=============================================================================
