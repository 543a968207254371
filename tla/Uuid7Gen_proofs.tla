-------------------------- MODULE Uuid7Gen_proofs ---------------------------
(***************************************************************************)
(* The generator of one process, for every value of the constants.  All    *)
(* the properties the run checks follow from one inductive invariant,      *)
(* which ties the caller's memory to the static variables.                 *)
(***************************************************************************)
EXTENDS Uuid7Gen, Uuid7Core_proofs

\* Entropy: an identifier's words lie behind the offset of the pool they came
\* from, and an unfilled pool has none.
EntropyInv ==
  /\ PoolOK(gen)
  /\ \A w \in spent :
       /\ w[1] <= fills
       /\ w[1] = gen.pool => w[2] < gen.entropy_offset

\* The last live identifier is where the generator stands.
PlaceInv ==
  /\ gen.process_id \in {NoProcess, Pid}
  /\ gen.process_id # Pid => ~gen.initialized
  /\ ~gen.initialized => gen.last_ms = 0 /\ gen.counter = 0
  /\ latest # NoPosition =>
       gen.initialized /\ latest = <<gen.last_ms, gen.counter>>

\* The clock: also while no identifier of the epoch has been issued.
ClockInv ==
  /\ gen.initialized => /\ highest <= gen.last_ms
                        /\ gen.last_ms <= highest + carries
  /\ ~gen.initialized => highest = 0 /\ carries = 0

IInv == TypeOK /\ EntropyInv /\ PlaceInv /\ ClockInv

LEMMA InitIInv == Init => IInv
<1> SUFFICES ASSUME Init PROVE IInv
  OBVIOUS
<1> USE CoreAssumption, GenAssumption
<1>1. gen \in GeneratorStates
  BY DEF Init, InitialGenerator, GeneratorStates, Timestamps, Counters, Unfilled,
         NoProcess
<1>2. TypeOK
  BY <1>1 DEF Init, TypeOK, InitialGenerator, Unfilled, Timestamps, Answer, Done
<1>3. QED
  BY <1>2 DEF Init, IInv, EntropyInv, PlaceInv, ClockInv, InitialGenerator, PoolOK

\* What the code takes the time asked for: itself, or a number out of range.
Reads(asked, now) ==
  /\ asked \in Int /\ now \in Nat
  /\ IF now <= MaxTimestamp THEN asked = now ELSE asked \notin Timestamps

LEMMA ModuloSpan ==
  ASSUME NEW n \in Nat, n < WordSpan
  PROVE  n % WordSpan = n /\ (n - WordSpan) % WordSpan = n
  BY CoreAssumption

\* The cast makes no reading outside the 48 bits one inside them.
LEMMA ClockReads ==
  ASSUME NEW t \in Realtime
  PROVE  Reads(t, CurrentTimeMs(t))
<1>1. /\ t \in Int /\ WordSpan \in Nat /\ MaxTimestamp \in Nat
      /\ MaxTimestamp < t + WordSpan /\ t < WordSpan
  BY CoreAssumption, GenAssumption
<1>2. CASE t >= 0
  <2>1. CurrentTimeMs(t) = t
    BY <1>1, <1>2, ModuloSpan DEF CurrentTimeMs
  <2>2. QED  BY <1>1, <1>2, <2>1 DEF Reads, Timestamps
<1>3. CASE t < 0
  <2>1. (t + WordSpan) - WordSpan = t /\ t + WordSpan \in Nat /\ t + WordSpan < WordSpan
    BY <1>1, <1>3
  <2>2. CurrentTimeMs(t) = t + WordSpan
    BY <2>1, ModuloSpan DEF CurrentTimeMs
  <2>3. QED  BY <1>1, <1>3, <2>1, <2>2 DEF Reads, Timestamps
<1>4. QED  BY <1>1, <1>2, <1>3

LEMMA RequestReads ==
  ASSUME NEW ts \in Requests
  PROVE  Reads(ts, ts)
  BY CoreAssumption, GenAssumption DEF Reads, Timestamps

(***************************************************************************)
(* Returning from any call: the entropy part of the invariant, and what    *)
(* EntropyIsFresh says of the words.                                       *)
(***************************************************************************)
LEMMA ReturnEntropy ==
  ASSUME IInv, NEW op, NEW asked, NEW o, Return(op, asked, o),
         o.gen \in GeneratorStates,
         Consumes(gen, fills + 1, o.words, o.gen),
         \/ fills < MaxFills
         \/ o.words = {} /\ o.gen.pool \in {gen.pool, Unfilled}
  PROVE  /\ EntropyInv'
         /\ gen' \in GeneratorStates
         /\ fills' \in 0 .. MaxFills
         /\ gen'.pool \in 0 .. fills'
         /\ spent' \in SUBSET Words
         /\ answer'.words \cap spent = {}
         /\ answer'.words \subseteq Words
<1> USE CoreAssumption, GenAssumption DEF Unfilled
<1>1. /\ gen' = o.gen /\ spent' = spent \cup o.words
      /\ fills' = IF o.gen.pool > fills THEN o.gen.pool ELSE fills
      /\ answer'.words = o.words
  BY DEF Return, Answer
<1>2. /\ gen \in GeneratorStates /\ gen.pool \in 0 .. fills
      /\ fills \in 0 .. MaxFills /\ spent \subseteq Words
  BY DEF IInv, TypeOK
<1>3. /\ PoolOK(o.gen) /\ o.gen.pool \in {gen.pool, fills + 1, 0}
      /\ o.gen.pool = gen.pool => o.gen.entropy_offset >= gen.entropy_offset
      /\ \A w \in o.words :
           /\ w \in (Nat \ {0}) \X (0 .. PoolWords - 1)
           /\ \/ w[1] = fills + 1 /\ o.gen.pool = fills + 1
              \/ w[1] = gen.pool /\ w[2] >= gen.entropy_offset
           /\ w[1] = o.gen.pool => w[2] < o.gen.entropy_offset
  BY DEF Consumes
<1>4. fills' \in 0 .. MaxFills /\ gen'.pool \in 0 .. fills' /\ fills <= fills'
  BY <1>1, <1>2, <1>3
<1>5. ASSUME NEW w \in o.words
      PROVE  w \in Words /\ w \notin spent /\ w[1] <= fills'
  <2>1. /\ w[1] \in Nat \ {0} /\ w[2] \in 0 .. PoolWords - 1
        /\ w = <<w[1], w[2]>>
        /\ \/ w[1] = fills + 1 /\ o.gen.pool = fills + 1
           \/ w[1] = gen.pool /\ w[2] >= gen.entropy_offset
    BY <1>3, <1>5
  <2>2. w[1] <= fills'
    BY <1>1, <1>2, <1>4, <2>1
  <2>3. w[1] \in 1 .. MaxFills
    BY <1>4, <2>1, <2>2
  <2>4. w \in Words
    BY <2>1, <2>3 DEF Words
  <2>5. w \notin spent
    BY <1>2, <2>1 DEF IInv, EntropyInv, GeneratorStates
  <2>6. QED  BY <2>2, <2>4, <2>5
<1>6. ASSUME NEW w \in spent
      PROVE  w[1] <= fills' /\ (w[1] = gen'.pool => w[2] < gen'.entropy_offset)
  BY <1>1, <1>2, <1>3, <1>4, <1>6 DEF IInv, EntropyInv, Words, GeneratorStates
<1>7. EntropyInv'
  BY <1>1, <1>3, <1>5, <1>6 DEF EntropyInv
<1>8. QED  BY <1>1, <1>2, <1>4, <1>5, <1>7

(***************************************************************************)
(* One lemma per kind of call: what it does to the invariant, and what the *)
(* properties ask of it.                                                   *)
(***************************************************************************)
\* What every step keeps to.
StepKeepsTo ==
  /\ IInv'
  /\ answer'.words \cap spent = {}
  /\ answer'.words \subseteq Words

AtEnd(g) == g.initialized /\ g.last_ms = MaxTimestamp /\ g.counter = MaxCounter

\* A live call answers with the successor of the place it found, or with a
\* failure that leaves the place alone.
LiveAnswer ==
  \/ /\ answer'.status = "ok"
     /\ gen'.initialized
     /\ answer'.position = <<gen'.last_ms, gen'.counter>>
     /\ latest' = answer'.position /\ issued' = issued + 1
     /\ answer'.asked \in Timestamps
     /\ ~AtEnd(gen)
     /\ \/ ~gen.initialized
        \/ gen'.last_ms > gen.last_ms
        \/ gen'.last_ms = gen.last_ms /\ gen'.counter = gen.counter + 1
  \/ /\ answer'.status = "entropy"
     /\ Place(gen') = Place(gen) /\ UNCHANGED <<latest, issued>>
     /\ answer'.asked \in Timestamps
     /\ ~AtEnd(gen)
  \/ /\ answer'.status = "exhausted"
     /\ Place(gen') = Place(gen) /\ UNCHANGED <<latest, issued>>
     /\ answer'.asked \notin Timestamps \/ AtEnd(gen)

LEMMA LiveStep ==
  ASSUME IInv, fills < MaxFills, NEW op \in LiveOps, NEW asked, NEW now,
         Reads(asked, now), NEW e \in Entropy(fills + 1), GenerateLive(op, asked, now, e)
  PROVE  /\ StepKeepsTo
         /\ answer'.op = op
         /\ epoch' = epoch
         /\ LiveAnswer
<1> USE CoreAssumption, GenAssumption
<1> DEFINE o == GenerateForTimestamp(gen, now, Pid, e)
           g == EnsureCurrentProcess(gen, Pid)
<1>1. /\ gen \in GeneratorStates /\ PoolOK(gen) /\ gen.pool < fills + 1
      /\ fills + 1 \in Nat \ {Unfilled} /\ Pid \in Nat
  BY DEF IInv, TypeOK, EntropyInv, Unfilled
<1>2. LiveOutcome(gen, fills + 1, now, Pid, o)
  BY <1>1, LiveOutcomes DEF Reads
<1>3. /\ Return(op, asked, o)
      /\ IF o.status = "ok"
         THEN /\ latest' = o.position
              /\ issued' = issued + 1
              /\ highest' = IF asked > highest THEN asked ELSE highest
              /\ carries' = IF RunsOut(asked) THEN carries + 1 ELSE carries
         ELSE UNCHANGED <<latest, issued, highest, carries>>
      /\ UNCHANGED epoch
  BY DEF GenerateLive
<1>4. /\ g \in GeneratorStates
      /\ g.initialized = gen.initialized
      /\ g.last_ms = gen.last_ms /\ g.counter = gen.counter
  <2>1. CASE gen.process_id = Pid
    BY <2>1, <1>1, EnsureType
  <2>2. CASE gen.process_id # Pid
    <3>1. /\ g \in GeneratorStates /\ ~g.initialized
          /\ g.last_ms = 0 /\ g.counter = 0
      BY ZenonT(30), <2>2, <1>1, EnsureType
    <3>2. ~gen.initialized /\ gen.last_ms = 0 /\ gen.counter = 0
      BY <2>2 DEF IInv, PlaceInv
    <3> HIDE DEF g
    <3>3. g.initialized \in BOOLEAN /\ gen.initialized \in BOOLEAN
      BY <1>1, <3>1 DEF GeneratorStates
    <3>4. QED  BY <3>1, <3>2, <3>3
  <2>3. QED  BY <2>1, <2>2
<1> HIDE DEF o
<1>5. /\ gen' = o.gen /\ answer'.op = op /\ answer'.asked = asked
      /\ answer'.status = o.status /\ answer'.position = o.position
  BY <1>3 DEF Return, Answer
<1>6. /\ EntropyInv' /\ gen' \in GeneratorStates /\ fills' \in 0 .. MaxFills
      /\ gen'.pool \in 0 .. fills' /\ spent' \in SUBSET Words
      /\ answer'.words \cap spent = {} /\ answer'.words \subseteq Words
  BY <1>2, <1>3, ReturnEntropy DEF LiveOutcome
<1>7. gen'.process_id = Pid
  BY <1>2, <1>5 DEF LiveOutcome
<1>8. /\ gen.last_ms \in 0 .. MaxTimestamp /\ gen.counter \in 0 .. MaxCounter
      /\ gen'.last_ms \in 0 .. MaxTimestamp /\ gen'.counter \in 0 .. MaxCounter
      /\ gen.initialized \in BOOLEAN /\ gen'.initialized \in BOOLEAN
      /\ highest \in 0 .. MaxTimestamp /\ carries \in Nat /\ issued \in Nat
      /\ asked \in Int /\ now \in Nat
  BY <1>1, <1>6 DEF GeneratorStates, Timestamps, Counters, IInv, TypeOK, Reads
<1>9. CASE o.status = "ok"
  <2>1. /\ o.position = <<gen'.last_ms, gen'.counter>>
        /\ gen'.initialized /\ now <= MaxTimestamp
        /\ \/ ~gen.initialized /\ gen'.last_ms = now
           \/ gen.initialized /\ now > gen.last_ms /\ gen'.last_ms = now
           \/ /\ gen.initialized /\ now <= gen.last_ms
              /\ gen'.last_ms = gen.last_ms /\ gen'.counter = gen.counter + 1
           \/ /\ gen.initialized /\ now <= gen.last_ms /\ gen.counter = MaxCounter
              /\ gen'.last_ms = gen.last_ms + 1
    BY <1>2, <1>4, <1>5, <1>9 DEF LiveOutcome
  <2>2. /\ latest' = o.position /\ issued' = issued + 1 /\ asked = now
        /\ highest' = IF now > highest THEN now ELSE highest
        /\ carries' = IF RunsOut(now) THEN carries + 1 ELSE carries
    BY <1>3, <1>9, <2>1 DEF Reads
  <2>3. RunsOut(now) <=>
          gen.initialized /\ now <= gen.last_ms /\ gen'.last_ms > gen.last_ms
    BY <1>8, <2>1 DEF RunsOut
  <2>4. LiveAnswer
    BY <1>5, <1>8, <1>9, <2>1, <2>2 DEF LiveAnswer, AtEnd, Timestamps
  <2>5. /\ highest' \in Timestamps /\ carries' \in Nat /\ issued' \in Nat
        /\ latest' \in Timestamps \X Counters
    BY <1>8, <2>1, <2>2 DEF Timestamps, Counters
  <2>6. ClockInv'
    BY <1>8, <2>1, <2>2, <2>3 DEF IInv, ClockInv
  <2>7. PlaceInv'
    BY <1>7, <2>1, <2>2 DEF PlaceInv
  <2>8. TypeOK'
    BY <1>3, <1>5, <1>6, <1>8, <2>5 DEF TypeOK, IInv, LiveOps
  <2>9. QED  BY <1>3, <1>5, <1>6, <2>4, <2>6, <2>7, <2>8 DEF StepKeepsTo, IInv
<1>10. CASE o.status # "ok"
  <2>1. /\ gen'.initialized = gen.initialized
        /\ gen'.last_ms = gen.last_ms /\ gen'.counter = gen.counter
    BY <1>2, <1>4, <1>5, <1>10 DEF LiveOutcome, SamePlace
  <2>2. UNCHANGED <<latest, issued, highest, carries>>
    BY <1>3, <1>10
  <2>3. LiveAnswer
    BY <1>2, <1>4, <1>5, <1>8, <1>10, <2>1, <2>2
       DEF LiveOutcome, LiveAnswer, AtEnd, Place, Reads, Timestamps
  <2>4. ClockInv' /\ PlaceInv'
    BY <1>7, <2>1, <2>2 DEF IInv, ClockInv, PlaceInv
  <2>5. TypeOK'
    BY <1>3, <1>5, <1>6, <1>8, <2>2 DEF TypeOK, IInv, LiveOps
  <2>6. QED  BY <1>3, <1>5, <1>6, <2>3, <2>4, <2>5 DEF StepKeepsTo, IInv
<1>11. QED  BY <1>9, <1>10

\* A historical call leaves the place, and with it the live sequence, alone.
LEMMA HistoricalStep ==
  ASSUME IInv, GenerateHistorical
  PROVE  /\ StepKeepsTo
         /\ answer'.op = "historical"
         /\ UNCHANGED <<latest, issued, epoch>>
         /\ Place(gen') = Place(gen)
         /\ answer'.status = "ok" => \E v, w \in answer'.words : v # w
<1> USE CoreAssumption, GenAssumption
<1>1. PICK ts \in Requests, e \in Entropy(fills + 1) :
        Return("historical", ts, GenerateAt(gen, ts, Pid, e))
  BY DEF GenerateHistorical
<1>2. UNCHANGED <<latest, issued, epoch, highest, carries>> /\ fills < MaxFills
  BY DEF GenerateHistorical
<1> DEFINE o == GenerateAt(gen, ts, Pid, e)
           g == EnsureCurrentProcess(gen, Pid)
<1>3. /\ gen \in GeneratorStates /\ PoolOK(gen) /\ gen.pool < fills + 1
      /\ fills + 1 \in Nat \ {Unfilled} /\ Pid \in Nat /\ ts \in Nat
  BY DEF IInv, TypeOK, EntropyInv, Unfilled
<1>4. HistoricalOutcome(gen, fills + 1, ts, Pid, o)
  BY <1>3, HistoricalOutcomes
<1>5. \/ g = gen
      \/ /\ g.process_id = Pid
         /\ ~g.initialized /\ g.last_ms = 0 /\ g.counter = 0
         /\ ~gen.initialized /\ gen.last_ms = 0 /\ gen.counter = 0
  <2>1. CASE gen.process_id = Pid
    BY <2>1, <1>3, EnsureType
  <2>2. CASE gen.process_id # Pid
    BY <2>2, <1>3, EnsureType DEF IInv, PlaceInv
  <2>3. QED  BY <2>1, <2>2
<1> HIDE DEF o, g
<1>6. /\ gen' = o.gen /\ answer'.op = "historical" /\ answer'.asked = ts
      /\ answer'.status = o.status /\ answer'.words = o.words
  BY <1>1 DEF Return, Answer, o
<1>7. /\ EntropyInv' /\ gen' \in GeneratorStates /\ fills' \in 0 .. MaxFills
      /\ gen'.pool \in 0 .. fills' /\ spent' \in SUBSET Words
      /\ answer'.words \cap spent = {} /\ answer'.words \subseteq Words
  BY <1>1, <1>2, <1>4, ReturnEntropy DEF HistoricalOutcome, o
<1>8. o.gen = gen \/ SamePlace(g, o.gen)
  BY <1>4 DEF HistoricalOutcome, g
<1>9. /\ gen'.initialized = gen.initialized
      /\ gen'.last_ms = gen.last_ms /\ gen'.counter = gen.counter
      /\ gen'.process_id \in {gen.process_id, Pid}
  <2>1. gen.initialized \in BOOLEAN /\ gen'.initialized \in BOOLEAN
    BY <1>3, <1>7 DEF GeneratorStates
  <2>2. CASE o.gen = gen
    BY <1>6, <2>2
  <2>3. CASE SamePlace(g, o.gen) /\ g = gen
    BY <1>6, <2>3 DEF SamePlace
  <2>4. CASE SamePlace(g, o.gen) /\ g # gen
    BY <1>5, <1>6, <2>1, <2>4 DEF SamePlace
  <2>5. QED  BY <1>8, <2>2, <2>3, <2>4
<1>10. ClockInv' /\ PlaceInv'
  BY <1>2, <1>9 DEF IInv, ClockInv, PlaceInv
<1>11. TypeOK'
  BY <1>2, <1>3, <1>6, <1>7 DEF TypeOK, IInv
<1>12. StepKeepsTo
  BY <1>7, <1>10, <1>11 DEF StepKeepsTo, IInv
<1>13. answer'.status = "ok" => \E v, w \in answer'.words : v # w
  BY <1>4, <1>6 DEF HistoricalOutcome
<1>14. QED  BY <1>2, <1>6, <1>9, <1>12, <1>13 DEF Place

\* A reset starts an epoch from nothing.
LEMMA ResetStep ==
  ASSUME IInv, Reset
  PROVE  /\ StepKeepsTo
         /\ answer'.op = "reset" /\ answer'.status = "done"
         /\ latest' = NoPosition /\ issued' = 0 /\ epoch' = epoch + 1
<1> USE CoreAssumption, GenAssumption
<1> DEFINE o == ResetState(gen, Pid)
<1>1. /\ gen \in GeneratorStates /\ PoolOK(gen) /\ gen.pool < fills + 1
      /\ fills + 1 \in Nat \ {Unfilled} /\ Pid \in Nat
  BY DEF IInv, TypeOK, EntropyInv, Unfilled
<1>2. /\ o.gen \in GeneratorStates /\ o.status = "done"
      /\ o.position = NoPosition /\ o.words = {}
      /\ Consumes(gen, fills + 1, {}, o.gen) /\ o.gen.pool = Unfilled
      /\ ~o.gen.initialized /\ o.gen.last_ms = 0 /\ o.gen.counter = 0
      /\ o.gen.process_id = Pid
  BY <1>1, ResetOutcomes
<1>3. /\ Return("reset", 0, o) /\ epoch < MaxEpochs
      /\ latest' = NoPosition /\ issued' = 0 /\ epoch' = epoch + 1
      /\ highest' = 0 /\ carries' = 0
  BY DEF Reset, StartEpoch
<1> HIDE DEF o
<1>4. /\ gen' = o.gen /\ answer'.op = "reset" /\ answer'.asked = 0
      /\ answer'.status = o.status
  BY <1>3 DEF Return, Answer
<1>5. /\ EntropyInv' /\ gen' \in GeneratorStates /\ fills' \in 0 .. MaxFills
      /\ gen'.pool \in 0 .. fills' /\ spent' \in SUBSET Words
      /\ answer'.words \cap spent = {} /\ answer'.words \subseteq Words
  BY <1>2, <1>3, ReturnEntropy
<1>6. ClockInv' /\ PlaceInv'
  BY <1>2, <1>3, <1>4 DEF ClockInv, PlaceInv
<1>7. TypeOK'
  BY <1>3, <1>4, <1>5 DEF TypeOK, IInv, Timestamps
<1>8. QED  BY <1>2, <1>3, <1>4, <1>5, <1>6, <1>7 DEF StepKeepsTo, IInv

\* The test hook starts an epoch from where it is told, or changes nothing.
LEMMA SetStep ==
  ASSUME IInv, SetStateForTests
  PROVE  /\ StepKeepsTo
         /\ answer'.op = "set"
         /\ \/ /\ answer'.status = "done"
               /\ latest' = NoPosition /\ issued' = 0 /\ epoch' = epoch + 1
            \/ /\ Place(gen') = Place(gen)
               /\ UNCHANGED <<latest, issued, epoch>>
<1> USE CoreAssumption, GenAssumption
<1>1. PICK ts \in Requests, ctr \in 0 .. MaxCounter + 1 :
        LET o == SetState(gen, ts, ctr, Pid)
        IN  /\ Return("set", ts, o)
            /\ IF o.status = "done"
               THEN StartEpoch(ts)
               ELSE UNCHANGED <<latest, issued, epoch, highest, carries>>
  BY DEF SetStateForTests
<1> DEFINE o == SetState(gen, ts, ctr, Pid)
<1>2. /\ gen \in GeneratorStates /\ PoolOK(gen) /\ gen.pool < fills + 1
      /\ fills + 1 \in Nat \ {Unfilled} /\ Pid \in Nat
      /\ ts \in Nat /\ ctr \in Nat /\ epoch < MaxEpochs
  BY DEF IInv, TypeOK, EntropyInv, Unfilled, SetStateForTests
<1>3. /\ o.gen \in GeneratorStates
      /\ o.position = NoPosition /\ o.words = {}
      /\ Consumes(gen, fills + 1, {}, o.gen)
      /\ o.gen.pool \in {gen.pool, Unfilled}
      /\ \/ o.status = "refused" /\ o.gen = gen
         \/ /\ o.status = "done" /\ ts \in Timestamps
            /\ o.gen.process_id = Pid /\ o.gen.initialized
            /\ o.gen.last_ms = ts /\ o.gen.counter = ctr
  <2> DEFINE n == fills + 1
  <2>1. /\ n \in Nat \ {Unfilled} /\ gen.pool < n /\ gen \in GeneratorStates
        /\ PoolOK(gen) /\ Pid \in Nat /\ ts \in Nat /\ ctr \in Nat
    BY <1>2
  <2> HIDE DEF n
  <2>2. /\ o.gen \in GeneratorStates
        /\ o.position = NoPosition /\ o.words = {}
        /\ Consumes(gen, n, {}, o.gen)
        /\ o.gen.pool \in {gen.pool, Unfilled}
        /\ \/ o.status = "refused" /\ o.gen = gen
           \/ /\ o.status = "done" /\ ts \in Timestamps
              /\ o.gen.process_id = Pid /\ o.gen.initialized
              /\ o.gen.last_ms = ts /\ o.gen.counter = ctr
    BY <2>1, SetStateOutcomes
  <2>3. QED  BY <2>2 DEF n
<1> HIDE DEF o
<1>4. /\ gen' = o.gen /\ answer'.op = "set" /\ answer'.asked = ts
      /\ answer'.status = o.status
  BY <1>1 DEF Return, Answer, o
<1>5. /\ EntropyInv' /\ gen' \in GeneratorStates /\ fills' \in 0 .. MaxFills
      /\ gen'.pool \in 0 .. fills' /\ spent' \in SUBSET Words
      /\ answer'.words \cap spent = {} /\ answer'.words \subseteq Words
  BY <1>1, <1>3, ReturnEntropy DEF o
<1>6. CASE o.status = "done"
  <2>1. /\ latest' = NoPosition /\ issued' = 0 /\ epoch' = epoch + 1
        /\ highest' = ts /\ carries' = 0
    BY <1>1, <1>6 DEF StartEpoch, o
  <2>2. ClockInv' /\ PlaceInv'
    BY <1>2, <1>3, <1>4, <1>6, <2>1 DEF ClockInv, PlaceInv
  <2>3. TypeOK'
    BY <1>2, <1>3, <1>4, <1>5, <1>6, <2>1 DEF TypeOK, IInv
  <2>4. QED  BY <1>4, <1>5, <1>6, <2>1, <2>2, <2>3 DEF StepKeepsTo, IInv
<1>7. CASE o.status # "done"
  <2>1. UNCHANGED <<latest, issued, epoch, highest, carries>> /\ gen' = gen
    BY <1>1, <1>3, <1>4, <1>7 DEF o
  <2>2. ClockInv' /\ PlaceInv'
    BY <2>1 DEF IInv, ClockInv, PlaceInv
  <2>3. TypeOK'
    BY <1>2, <1>4, <1>5, <2>1 DEF TypeOK, IInv
  <2>4. QED  BY <1>4, <1>5, <2>1, <2>2, <2>3 DEF StepKeepsTo, IInv
<1>8. QED  BY <1>6, <1>7

(***************************************************************************)
(* One step, whichever action takes it.                                    *)
(***************************************************************************)
\* The three kinds of step that the properties tell apart.
LiveKind == /\ answer'.op \in LiveOps /\ LiveAnswer /\ epoch' = epoch

IdleKind ==
  /\ answer'.op \notin LiveOps
  /\ Place(gen') = Place(gen) /\ UNCHANGED <<latest, issued, epoch>>
  /\ answer'.op = "historical" /\ answer'.status = "ok" =>
       \E v, w \in answer'.words : v # w

EpochKind ==
  /\ answer'.op \in {"reset", "set"} /\ answer'.status = "done"
  /\ latest' = NoPosition /\ issued' = 0 /\ epoch' = epoch + 1

LEMMA StepKinds ==
  ASSUME IInv, Next
  PROVE  StepKeepsTo /\ (LiveKind \/ IdleKind \/ EpochKind)
<1>1. CASE Generate
  <2>1. PICK t \in Realtime, e \in Entropy(fills + 1) :
          GenerateLive("live", t, CurrentTimeMs(t), e)
    BY <1>1 DEF Generate
  <2>2. "live" \in LiveOps /\ fills < MaxFills
    BY <1>1 DEF Generate, LiveOps
  <2>3. /\ StepKeepsTo /\ answer'.op = "live" /\ epoch' = epoch /\ LiveAnswer
    BY <2>1, <2>2, LiveStep, ClockReads
  <2>4. QED  BY <2>2, <2>3 DEF LiveKind
<1>2. CASE GenerateForTests
  <2>1. PICK ts \in Requests, e \in Entropy(fills + 1) : GenerateLive("test", ts, ts, e)
    BY <1>2 DEF GenerateForTests
  <2>2. "test" \in LiveOps /\ fills < MaxFills
    BY <1>2 DEF GenerateForTests, LiveOps
  <2>3. /\ StepKeepsTo /\ answer'.op = "test" /\ epoch' = epoch /\ LiveAnswer
    BY <2>1, <2>2, LiveStep, RequestReads
  <2>4. QED  BY <2>2, <2>3 DEF LiveKind
<1>3. CASE GenerateHistorical
  BY <1>3, HistoricalStep DEF IdleKind, LiveOps
<1>4. CASE Reset
  BY <1>4, ResetStep DEF EpochKind
<1>5. CASE SetStateForTests
  BY <1>5, SetStep DEF EpochKind, IdleKind, LiveOps
<1>6. QED  BY <1>1, <1>2, <1>3, <1>4, <1>5 DEF Next

\* The invariant is inductive.
LEMMA StepIInv == IInv /\ [Next]_vars => IInv'
<1>1. ASSUME IInv, Next PROVE IInv'
  BY <1>1, StepKinds DEF StepKeepsTo
<1>2. ASSUME IInv, UNCHANGED vars PROVE IInv'
  BY <1>2 DEF vars, IInv, TypeOK, EntropyInv, PlaceInv, ClockInv
<1>3. QED  BY <1>1, <1>2

THEOREM Invariance == Spec => []IInv
<1>1. Init => IInv
  BY InitIInv
<1>2. IInv /\ [Next]_vars => IInv'
  BY StepIInv
<1>3. QED  BY <1>1, <1>2, PTL DEF Spec

\* The timestamp, the counter and the offset never leave the ranges the code
\* packs and indexes them by, whatever is called in whatever order.
THEOREM TypeCorrectness == Spec => []TypeOK
<1>1. IInv => TypeOK
  BY DEF IInv
<1>2. QED  BY <1>1, Invariance, PTL

\* Timestamps lead the clock by counter carries only, and never trail it.
THEOREM ClockTracking == Spec => []TimestampTracksClock
<1>1. IInv => TimestampTracksClock
  BY DEF IInv, PlaceInv, ClockInv, TimestampTracksClock
<1>2. QED  BY <1>1, Invariance, PTL

(***************************************************************************)
(* The action properties.                                                  *)
(***************************************************************************)
\* A place is known by its three fields.
LEMMA PlaceFields ==
  ASSUME NEW g, NEW h, Place(h) = Place(g)
  PROVE  h.initialized = g.initialized /\ h.last_ms = g.last_ms /\ h.counter = g.counter
  BY DEF Place

\* Failed and historical calls leave no trace in the live sequence.
THEOREM PlaceMoves == Spec => PlaceMovesOnlyByIssuing
<1> DEFINE A == Place(gen') # Place(gen) =>
                  \/ /\ answer'.op \in LiveOps /\ answer'.status = "ok"
                     /\ gen'.initialized
                     /\ answer'.position = <<gen'.last_ms, gen'.counter>>
                  \/ answer'.op \in {"reset", "set"} /\ answer'.status = "done"
<1>1. IInv /\ [Next]_vars => [A]_vars
  <2>1. ASSUME IInv, Next PROVE A
    BY <2>1, StepKinds DEF LiveKind, LiveAnswer, IdleKind, EpochKind
  <2>2. QED  BY <2>1
<1>2. QED  BY <1>1, Invariance, PTL DEF Spec, PlaceMovesOnlyByIssuing

\* No counter is skipped and none drawn anew within a millisecond.
THEOREM NoGap == Spec => NoGapInAMillisecond
<1> DEFINE A == (/\ latest # NoPosition /\ issued' > issued
                 /\ latest'[1] = latest[1])
                => latest'[2] = latest[2] + 1
<1>1. IInv /\ [Next]_vars => [A]_vars
  <2>1. ASSUME IInv, Next, latest # NoPosition, issued' > issued,
               latest'[1] = latest[1]
        PROVE  latest'[2] = latest[2] + 1
    <3>1. gen.initialized /\ latest = <<gen.last_ms, gen.counter>>
      BY <2>1 DEF IInv, PlaceInv
    <3>2. LiveKind /\ StepKeepsTo /\ answer'.status = "ok"
      <4>1. issued \in Nat
        BY <2>1 DEF IInv, TypeOK
      <4>2. issued' # issued /\ issued' # 0
        BY <2>1, <4>1
      <4>3. QED  BY <2>1, <4>2, StepKinds DEF LiveKind, LiveAnswer, IdleKind, EpochKind
    <3>3. /\ latest' = <<gen'.last_ms, gen'.counter>>
          /\ \/ gen'.last_ms > gen.last_ms
             \/ gen'.last_ms = gen.last_ms /\ gen'.counter = gen.counter + 1
      BY <2>1, <3>1, <3>2 DEF LiveKind, LiveAnswer
    <3>4. gen.last_ms \in Int /\ gen'.last_ms \in Int
      BY <2>1, <3>2, CoreAssumption
         DEF StepKeepsTo, IInv, TypeOK, GeneratorStates, Timestamps
    <3>5. QED  BY <2>1, <3>1, <3>3, <3>4
  <2>2. QED  BY <2>1
<1>2. QED  BY <1>1, Invariance, PTL DEF Spec, NoGapInAMillisecond

\* Every identifier is made of entropy that no other identifier was made of.
THEOREM FreshEntropy == Spec => EntropyIsFresh
<1> DEFINE A == /\ answer'.words \cap spent = {}
                /\ answer'.words \subseteq Words
                /\ answer'.op = "historical" /\ answer'.status = "ok" =>
                     \E v, w \in answer'.words : v # w
<1>1. IInv /\ [Next]_vars => [A]_vars
  <2>1. ASSUME IInv, Next PROVE A
    BY <2>1, StepKinds
       DEF StepKeepsTo, LiveKind, IdleKind, EpochKind, LiveOps
  <2>2. QED  BY <2>1
<1>2. QED  BY <1>1, Invariance, PTL DEF Spec, EntropyIsFresh

\* Exhaustion is reported for the last position of all and for a clock out of
\* range, and for nothing else.
THEOREM Exhaustion == Spec => ExhaustedExactlyAtTheEnd
<1> DEFINE A == answer'.op \in LiveOps =>
                  (answer'.status = "exhausted" <=>
                     AtTheEnd \/ answer'.asked \notin Timestamps)
<1>1. IInv /\ [Next]_vars => [A]_vars
  <2>1. ASSUME IInv, Next, answer'.op \in LiveOps
        PROVE  answer'.status = "exhausted" <=> AtTheEnd \/ answer'.asked \notin Timestamps
    <3>1. AtTheEnd <=> AtEnd(gen)
      <4>1. gen.initialized \in BOOLEAN
        BY <2>1 DEF IInv, TypeOK, GeneratorStates
      <4>2. QED  BY <4>1 DEF AtTheEnd, AtEnd, Place
    <3>2. LiveAnswer
      BY <2>1, StepKinds DEF LiveKind, IdleKind, EpochKind, LiveOps
    <3>3. QED  BY <3>1, <3>2 DEF LiveAnswer
  <2>2. QED  BY <2>1
<1>2. QED  BY <1>1, Invariance, PTL DEF Spec, ExhaustedExactlyAtTheEnd

(***************************************************************************)
(* Refinement: the generator keeps the promise of MonotonicIds.  Whatever  *)
(* is called, each live identifier that a caller gets is greater than the  *)
(* one it got before in the same epoch.                                    *)
(***************************************************************************)
THEOREM Refinement == Spec => LiveOrder
<1>1. Init => Promise!Init
  BY DEF Init, Promise!Init, NoPosition, Promise!None
<1>2. IInv /\ [Next]_vars => [Promise!Next]_(Promise!absVars)
  <2>1. ASSUME IInv, Next PROVE Promise!Next \/ UNCHANGED Promise!absVars
    <3>1. CASE LiveKind
      <4>1. CASE answer'.status = "ok"
        <5>1. /\ latest' = <<gen'.last_ms, gen'.counter>>
              /\ issued' = issued + 1 /\ epoch' = epoch
              /\ \/ ~gen.initialized
                 \/ gen'.last_ms > gen.last_ms
                 \/ gen'.last_ms = gen.last_ms /\ gen'.counter = gen.counter + 1
          BY <3>1, <4>1 DEF LiveKind, LiveAnswer
        <5>2. gen \in GeneratorStates /\ gen' \in GeneratorStates
          BY <2>1, StepKinds DEF StepKeepsTo, IInv, TypeOK
        <5>3. latest' \in Promise!Positions
          BY <5>1, <5>2 DEF Promise!Positions, GeneratorStates, Timestamps, Counters
        <5>4. latest = Promise!None \/ latest = <<gen.last_ms, gen.counter>>
          BY <2>1 DEF IInv, PlaceInv, NoPosition, Promise!None
        <5>5. latest = Promise!None \/ Promise!Before(latest, latest')
          BY <2>1, <5>1, <5>2, <5>4, CoreAssumption
             DEF IInv, PlaceInv, NoPosition, Promise!None, Promise!Before,
                 GeneratorStates, Timestamps, Counters
        <5>6. QED  BY <5>1, <5>3, <5>5 DEF Promise!Next, Promise!Issue
      <4>2. CASE answer'.status # "ok"
        BY <3>1, <4>2 DEF LiveKind, LiveAnswer, Promise!absVars
      <4>3. QED  BY <4>1, <4>2
    <3>2. CASE IdleKind
      BY <3>2 DEF IdleKind, Promise!absVars
    <3>3. CASE EpochKind
      BY <3>3 DEF EpochKind, Promise!Next, Promise!NewEpoch, NoPosition, Promise!None
    <3>4. QED  BY <2>1, <3>1, <3>2, <3>3, StepKinds
  <2>2. ASSUME UNCHANGED vars PROVE UNCHANGED Promise!absVars
    BY <2>2 DEF vars, Promise!absVars
  <2>3. QED  BY <2>1, <2>2
<1>3. QED  BY <1>1, <1>2, Invariance, PTL DEF Spec, LiveOrder, Promise!Spec
=============================================================================
