------------------------------ MODULE Uuid7Gen ------------------------------
(***************************************************************************)
(* One process and its generator.  The GIL makes every C call one step     *)
(* here: no other thread runs Python between its first and its last        *)
(* assignment.  The wall clock may read anything at every call, and a      *)
(* refill may fail at every call.                                          *)
(*                                                                         *)
(* The variables after gen are the caller's memory, not the program's:     *)
(* what it was given last, which entropy its identifiers are made of, and  *)
(* how far the clock and the counter have driven the timestamps.           *)
(***************************************************************************)
EXTENDS Uuid7Core

CONSTANTS Pid,        \* getpid()
          Realtime,   \* readings of CLOCK_REALTIME in ms, negative before 1970
          Requests,   \* timestamps a caller or a test passes in, as uint64_t
          MaxFills,   \* bound: how many times the pool is refilled
          MaxEpochs   \* bound: how many resets and test states

\* Clocks count units of 100 ns or less in 64 bits: milliseconds stay far from
\* both ends of a word, and no reading is cast to one of another.
ASSUME GenAssumption ==
  /\ Pid \in Nat \ {NoProcess}
  /\ Realtime \subseteq Int
  /\ \A t \in Realtime : MaxTimestamp < t + WordSpan /\ t < WordSpan
  /\ Requests \subseteq Nat
  /\ MaxFills \in Nat
  /\ MaxEpochs \in Nat

VARIABLES gen,        \* the static variables of uuid7_gen.c
          fills,      \* how many refills the CSPRNG has answered in full
          latest,     \* the position of the live identifier issued last
          issued,     \* how many live identifiers this epoch has had
          epoch,      \* how many times the live state was reset or overwritten
          spent,      \* the entropy words of all identifiers issued
          highest,    \* the highest clock reading a live identifier followed
          carries,    \* the identifiers that followed a counter used up
          answer      \* the operation called last and its outcome

vars == <<gen, fills, latest, issued, epoch, spent, highest, carries, answer>>

\* What the caller sees of an outcome: "asked" is the time it passed in or,
\* for a live call, the reading of the clock before any conversion.
Answer(op, asked, o) ==
  [op |-> op, asked |-> asked,
   status |-> o.status, position |-> o.position, words |-> o.words]

Init ==
  /\ gen = InitialGenerator
  /\ fills = 0
  /\ latest = NoPosition
  /\ issued = 0
  /\ epoch = 0
  /\ spent = {}
  /\ highest = 0
  /\ carries = 0
  /\ answer = Answer("import", 0, Done(InitialGenerator))

\* The call returns: the generator is left as the outcome has it.
Return(op, asked, o) ==
  /\ gen' = o.gen
  /\ fills' = IF o.gen.pool > fills THEN o.gen.pool ELSE fills
  /\ spent' = spent \cup o.words
  /\ answer' = Answer(op, asked, o)

\* Does a live call at this reading find the counter of its millisecond used up?
RunsOut(asked) ==
  gen.initialized /\ asked <= gen.last_ms /\ gen.counter = MaxCounter

\* A live call at the time asked, which the code knows as now.
GenerateLive(op, asked, now, e) ==
  LET o == GenerateForTimestamp(gen, now, Pid, e)
  IN  /\ Return(op, asked, o)
      /\ IF o.status = "ok"
         THEN /\ latest' = o.position
              /\ issued' = issued + 1
              /\ highest' = IF asked > highest THEN asked ELSE highest
              /\ carries' = IF RunsOut(asked) THEN carries + 1 ELSE carries
         ELSE UNCHANGED <<latest, issued, highest, carries>>
      /\ UNCHANGED epoch

\* generate_uuid7_words and generate_uuid7_bytes: the clock decides.
Generate ==
  /\ fills < MaxFills
  /\ \E t \in Realtime, e \in Entropy(fills + 1) :
       GenerateLive("live", t, CurrentTimeMs(t), e)

\* generate_uuid7_bytes_for_timestamp: the test decides.
GenerateForTests ==
  /\ fills < MaxFills
  /\ \E ts \in Requests, e \in Entropy(fills + 1) :
       GenerateLive("test", ts, ts, e)

\* generate_uuid7_at_words and generate_uuid7_at_bytes.
GenerateHistorical ==
  /\ fills < MaxFills
  /\ \E ts \in Requests, e \in Entropy(fills + 1) :
       Return("historical", ts, GenerateAt(gen, ts, Pid, e))
  /\ UNCHANGED <<latest, issued, epoch, highest, carries>>

\* The live sequence starts over from the timestamp ts.
StartEpoch(ts) ==
  /\ latest' = NoPosition
  /\ issued' = 0
  /\ epoch' = epoch + 1
  /\ highest' = ts
  /\ carries' = 0

Reset ==
  /\ epoch < MaxEpochs
  /\ Return("reset", 0, ResetState(gen, Pid))
  /\ StartEpoch(0)

SetStateForTests ==
  /\ epoch < MaxEpochs
  /\ \E ts \in Requests, ctr \in 0 .. MaxCounter + 1 :
       LET o == SetState(gen, ts, ctr, Pid)
       IN  /\ Return("set", ts, o)
           /\ IF o.status = "done"
              THEN StartEpoch(ts)
              ELSE UNCHANGED <<latest, issued, epoch, highest, carries>>

Next ==
  \/ Generate
  \/ GenerateForTests
  \/ GenerateHistorical
  \/ Reset
  \/ SetStateForTests

Spec == Init /\ [][Next]_vars
-----------------------------------------------------------------------------
(***************************************************************************)
(* Correctness.                                                            *)
(***************************************************************************)
Words == (1 .. MaxFills) \X (0 .. PoolWords - 1)

\* The types of the variables: the timestamp and the counter stay within the
\* 48 and 42 bits they are packed into, the offset within the pool.
TypeOK ==
  /\ gen \in GeneratorStates
  /\ fills \in 0 .. MaxFills
  /\ gen.pool \in 0 .. fills
  /\ latest \in {NoPosition} \cup (Timestamps \X Counters)
  /\ issued \in Nat
  /\ epoch \in 0 .. MaxEpochs
  /\ spent \in SUBSET Words
  /\ highest \in Timestamps
  /\ carries \in Nat
  /\ answer.op \in {"import", "live", "test", "historical", "reset", "set"}
  /\ answer.asked \in Int

\* The promise of docs/api.md: live identifiers increase strictly within an
\* epoch, none is issued twice, whatever the clock reads, whatever fails and
\* whatever historical calls come in between.
Promise == INSTANCE MonotonicIds
LiveOrder == Promise!Spec

LiveOps == {"live", "test"}
Place(g) == <<g.initialized, g.last_ms, g.counter>>

\* The place in the live sequence moves only by issuing a live identifier, to
\* that identifier's position, or by a test hook.  A call that fails halfway
\* through its entropy reads leaves no trace there ("Commit only after all
\* random reads succeed"), and neither does a historical call.
PlaceMovesOnlyByIssuing ==
  [][Place(gen') # Place(gen) =>
       \/ /\ answer'.op \in LiveOps /\ answer'.status = "ok"
          /\ gen'.initialized
          /\ answer'.position = <<gen'.last_ms, gen'.counter>>
       \/ answer'.op \in {"reset", "set"} /\ answer'.status = "done"]_vars

\* Two successive live identifiers of one millisecond have successive
\* counters, however many failed and historical calls lie between them: no
\* counter is skipped or repeated, and none is drawn anew in a millisecond in use.
NoGapInAMillisecond ==
  [][(/\ latest # NoPosition /\ issued' > issued
      /\ latest'[1] = latest[1])
     => latest'[2] = latest[2] + 1]_vars

\* No entropy word goes into two identifiers, or twice into one, and none comes
\* from a pool that a failed refill or a reset left behind.
EntropyIsFresh ==
  [][/\ answer'.words \cap spent = {}
     /\ answer'.words \subseteq Words
     /\ answer'.op = "historical" /\ answer'.status = "ok" =>
          \E v, w \in answer'.words : v # w]_vars

\* The timestamp of a live identifier is never behind a clock reading that an
\* earlier one of its epoch followed, and ahead of them all by no more than
\* the number of times a whole counter ran out.
TimestampTracksClock ==
  latest # NoPosition =>
    /\ highest <= latest[1]
    /\ latest[1] <= highest + carries

AtTheEnd == Place(gen) = <<TRUE, MaxTimestamp, MaxCounter>>

\* A live call reports exhaustion exactly when the clock reads a time before 1970
\* or past the last millisecond, or the last position of all has been taken: no
\* reading is mistaken for another when it is cast, and at the end all calls fail
\* until the state is reset.
ExhaustedExactlyAtTheEnd ==
  [][answer'.op \in LiveOps =>
       (answer'.status = "exhausted" <=>
          AtTheEnd \/ answer'.asked \notin Timestamps)]_vars
=============================================================================
