-------------------------- MODULE Uuid7Core_proofs --------------------------
(***************************************************************************)
(* What the operators of Uuid7Core return, for every value of the          *)
(* constants.  The modules about processes cite these lemmas and never     *)
(* expand the operators.                                                   *)
(***************************************************************************)
EXTENDS Uuid7Core, TLAPS

\* A pool without a complete refill has nothing left to read.
PoolOK(g) == g.pool = Unfilled => g.entropy_offset = PoolWords

\* Calls never change who the generator belongs to or where it stands.
SamePlace(g, h) ==
  /\ h.last_ms = g.last_ms
  /\ h.counter = g.counter
  /\ h.initialized = g.initialized
  /\ h.process_id = g.process_id

\* Going from g to h, the words taken were unread in g or are of the pool
\* numbered n, which is then the pool of h, and all of them lie behind the
\* offset of h.
Consumes(g, n, words, h) ==
  /\ PoolOK(h)
  /\ h.pool \in {g.pool, n, Unfilled}
  /\ h.pool = g.pool => h.entropy_offset >= g.entropy_offset
  /\ \A w \in words :
       /\ w \in (Nat \ {Unfilled}) \X (0 .. PoolWords - 1)
       /\ \/ w[1] = n /\ h.pool = n
          \/ w[1] = g.pool /\ w[2] >= g.entropy_offset
       /\ w[1] = h.pool => w[2] < h.entropy_offset

(***************************************************************************)
(* Typing of the updates.  A record is updated one field at a time: that   *)
(* is as much as the provers see through at once.                          *)
(***************************************************************************)
LEMMA RefilledType ==
  ASSUME NEW g \in GeneratorStates, NEW n \in Nat
  PROVE  /\ Refilled(g, n) \in GeneratorStates
         /\ SamePlace(g, Refilled(g, n))
         /\ Refilled(g, n).pool = n
         /\ Refilled(g, n).entropy_offset = 0
<1> DEFINE a == [g EXCEPT !.pool = n]
           b == [a EXCEPT !.entropy_offset = 0]
           c == [b EXCEPT !.fd_open = TRUE]
<1>1. a \in GeneratorStates /\ SamePlace(g, a) /\ a.pool = n
  BY DEF GeneratorStates, SamePlace
<1> HIDE DEF a
<1>2. /\ b \in GeneratorStates /\ SamePlace(g, b)
      /\ b.pool = n /\ b.entropy_offset = 0
  BY <1>1, CoreAssumption DEF GeneratorStates, SamePlace
<1> HIDE DEF b
<1>3. /\ c \in GeneratorStates /\ SamePlace(g, c)
      /\ c.pool = n /\ c.entropy_offset = 0
  BY <1>2 DEF GeneratorStates, SamePlace
<1>4. Refilled(g, n) = c
  BY DEF Refilled, a, b
<1>5. QED  BY <1>3, <1>4

LEMMA CommitType ==
  ASSUME NEW g \in GeneratorStates, NEW ms \in Timestamps, NEW ctr \in Counters
  PROVE  LET h == Commit(g, ms, ctr)
         IN  /\ h \in GeneratorStates
             /\ h.last_ms = ms /\ h.counter = ctr /\ h.initialized
             /\ h.process_id = g.process_id
             /\ h.pool = g.pool /\ h.entropy_offset = g.entropy_offset
<1> DEFINE a == [g EXCEPT !.last_ms = ms]
           b == [a EXCEPT !.counter = ctr]
           c == [b EXCEPT !.initialized = TRUE]
           Rest(h) == /\ h.process_id = g.process_id /\ h.pool = g.pool
                      /\ h.entropy_offset = g.entropy_offset
<1>1. a \in GeneratorStates /\ a.last_ms = ms /\ Rest(a)
  BY DEF GeneratorStates
<1> HIDE DEF a
<1>2. b \in GeneratorStates /\ b.last_ms = ms /\ b.counter = ctr /\ Rest(b)
  BY <1>1 DEF GeneratorStates
<1> HIDE DEF b
<1>3. /\ c \in GeneratorStates /\ c.last_ms = ms /\ c.counter = ctr
      /\ c.initialized /\ Rest(c)
  BY <1>2 DEF GeneratorStates
<1>4. Commit(g, ms, ctr) = c
  BY DEF Commit, a, b
<1>5. QED  BY <1>3, <1>4

LEMMA ResetType ==
  ASSUME NEW g \in GeneratorStates, NEW pid \in Nat
  PROVE  LET h == ResetProcessState(g, pid)
         IN  /\ h \in GeneratorStates
             /\ h.last_ms = 0 /\ h.counter = 0 /\ ~h.initialized
             /\ h.process_id = pid
             /\ h.pool = Unfilled /\ h.entropy_offset = PoolWords
<1>1. InitialGenerator \in GeneratorStates
  BY CoreAssumption
     DEF InitialGenerator, GeneratorStates, Timestamps, Counters, Unfilled,
         NoProcess
<1>2. g.fd_open \in BOOLEAN
  BY DEF GeneratorStates
<1>3. QED
  BY <1>1, <1>2 DEF ResetProcessState, InitialGenerator, GeneratorStates

\* One read: the word, when there is one, was unread; nothing else changes.
LEMMA DrawConsumes ==
  ASSUME NEW g \in GeneratorStates, PoolOK(g),
         NEW n \in Nat \ {Unfilled}, g.pool < n,
         NEW e \in Entropy(n)
  PROVE  LET d == Draw(g, e)
         IN  /\ d.ok \in BOOLEAN
             /\ d.gen \in GeneratorStates
             /\ SamePlace(g, d.gen)
             /\ PoolOK(d.gen)
             /\ ~d.ok => Consumes(g, n, {}, d.gen)
             /\ d.ok => Consumes(g, n, {d.word}, d.gen)
             /\ d.ok => \/ d.gen.pool = g.pool
                        \/ d.gen.pool = n /\ d.gen.entropy_offset = 1
<1> DEFINE d == Draw(g, e)
<1> USE CoreAssumption DEF Unfilled
<1>t. /\ g = [last_ms |-> g.last_ms, counter |-> g.counter,
             initialized |-> g.initialized, process_id |-> g.process_id,
             pool |-> g.pool, entropy_offset |-> g.entropy_offset,
             fd_open |-> g.fd_open]
      /\ g.pool \in Nat /\ g.entropy_offset \in 0 .. PoolWords
      /\ g.fd_open \in BOOLEAN
      /\ e.number = n
  BY DEF GeneratorStates, Entropy
<1>1. CASE ~NeedsRefill(g)
  <2>1. d = [ok |-> TRUE, gen |-> [g EXCEPT !.entropy_offset = @ + 1],
             word |-> <<g.pool, g.entropy_offset>>]
    BY <1>1 DEF Draw, Word
  <2>2. g.entropy_offset < PoolWords /\ g.pool # Unfilled
    BY <1>1, <1>t DEF NeedsRefill, PoolOK
  <2>3. /\ d.gen \in GeneratorStates
        /\ d.gen.pool = g.pool
        /\ d.gen.entropy_offset = g.entropy_offset + 1
        /\ SamePlace(g, d.gen)
    BY <2>1, <2>2, <1>t DEF GeneratorStates, SamePlace
  <2>4. PoolOK(d.gen) /\ Consumes(g, n, {d.word}, d.gen)
    BY <2>1, <2>2, <2>3, <1>t DEF PoolOK, Consumes
  <2>5. QED  BY <2>1, <2>3, <2>4
<1>2. CASE NeedsRefill(g) /\ e.refill = "filled"
  <2>1. d = [ok |-> TRUE, gen |-> [Refilled(g, n) EXCEPT !.entropy_offset = @ + 1],
             word |-> <<n, 0>>]
    BY <1>2, <1>t DEF Draw, Word, Refilled
  <2>2. /\ d.gen \in GeneratorStates
        /\ d.gen.pool = n
        /\ d.gen.entropy_offset = 1
        /\ SamePlace(g, d.gen)
    <3> DEFINE r == Refilled(g, n)
    <3>1. r \in GeneratorStates /\ SamePlace(g, r) /\ r.pool = n /\ r.entropy_offset = 0
      BY RefilledType
    <3>2. d.gen = [r EXCEPT !.entropy_offset = 1]
      BY <2>1, <3>1
    <3> HIDE DEF r
    <3>3. QED  BY <3>1, <3>2 DEF GeneratorStates, SamePlace
  <2>3. PoolOK(d.gen) /\ Consumes(g, n, {d.word}, d.gen)
    BY <2>1, <2>2, <1>t DEF PoolOK, Consumes
  <2>4. QED  BY <2>1, <2>2, <2>3
<1>3. CASE NeedsRefill(g) /\ e.refill # "filled"
  <2>1. d = [ok |-> FALSE, gen |-> RefillFailed(g, e.refill), word |-> Word(g)]
    BY <1>3 DEF Draw
  <2>2. g.entropy_offset = PoolWords
    BY <1>3, <1>t DEF NeedsRefill
  <2>3. /\ d.gen \in GeneratorStates
        /\ d.gen.pool \in {g.pool, Unfilled}
        /\ d.gen.entropy_offset = PoolWords
        /\ SamePlace(g, d.gen)
    <3>1. CASE d.gen = g
      BY <3>1, <2>2 DEF SamePlace
    <3>2. CASE d.gen = [g EXCEPT !.pool = Unfilled, !.fd_open = TRUE]
      <4>1. d.gen = [last_ms |-> g.last_ms, counter |-> g.counter,
                     initialized |-> g.initialized, process_id |-> g.process_id,
                     pool |-> Unfilled, entropy_offset |-> PoolWords,
                     fd_open |-> TRUE]
        BY <3>2, <2>2, <1>t
      <4>2. QED  BY <4>1 DEF GeneratorStates, SamePlace
    <3>3. QED  BY <3>1, <3>2, <2>1 DEF RefillFailed
  <2>4. PoolOK(d.gen) /\ Consumes(g, n, {}, d.gen)
    BY <2>2, <2>3, <1>t DEF PoolOK, Consumes
  <2>5. QED  BY <2>1, <2>3, <2>4
<1>4. QED  BY <1>1, <1>2, <1>3

\* Two reads of one call, the second after a successful first: the words are
\* different, and between them they fill the pool at most once.
LEMMA DrawTwiceConsumes ==
  ASSUME NEW g \in GeneratorStates, PoolOK(g),
         NEW n \in Nat \ {Unfilled}, g.pool < n,
         NEW e \in Entropy(n),
         Draw(g, e).ok
  PROVE  LET c == Draw(g, e)
             d == Draw(c.gen, e)
         IN  /\ d.ok \in BOOLEAN
             /\ d.gen \in GeneratorStates
             /\ SamePlace(g, d.gen)
             /\ PoolOK(d.gen)
             /\ ~d.ok => Consumes(g, n, {}, d.gen)
             /\ d.ok => /\ Consumes(g, n, {c.word, d.word}, d.gen)
                        /\ c.word # d.word
<1> DEFINE c == Draw(g, e)
           d == Draw(c.gen, e)
<1>1. /\ c.gen \in GeneratorStates /\ SamePlace(g, c.gen) /\ PoolOK(c.gen)
      /\ Consumes(g, n, {c.word}, c.gen)
      /\ \/ c.gen.pool = g.pool
         \/ c.gen.pool = n /\ c.gen.entropy_offset = 1
  BY DrawConsumes
<1> HIDE DEF c
<1>2. CASE c.gen.pool = g.pool
  <2>1. /\ d.ok \in BOOLEAN /\ d.gen \in GeneratorStates
        /\ SamePlace(c.gen, d.gen) /\ PoolOK(d.gen)
        /\ ~d.ok => Consumes(c.gen, n, {}, d.gen)
        /\ d.ok => Consumes(c.gen, n, {d.word}, d.gen)
    BY <1>1, <1>2, DrawConsumes
  <2> HIDE DEF d
  <2>2. SamePlace(g, d.gen)
    BY <1>1, <2>1 DEF SamePlace
  <2>3. ASSUME ~d.ok PROVE Consumes(g, n, {}, d.gen)
    BY <1>1, <1>2, <2>1, <2>3 DEF Consumes, GeneratorStates
  <2>4. ASSUME d.ok PROVE Consumes(g, n, {c.word, d.word}, d.gen) /\ c.word # d.word
    BY <1>1, <1>2, <2>1, <2>4, CoreAssumption DEF Consumes, GeneratorStates
  <2>5. QED  BY <2>1, <2>2, <2>3, <2>4 DEF c, d
<1>3. CASE c.gen.pool = n /\ c.gen.entropy_offset = 1
  <2>1. ~NeedsRefill(c.gen)
    BY <1>3, CoreAssumption DEF NeedsRefill
  <2>2. /\ d.ok
        /\ d.gen = [c.gen EXCEPT !.entropy_offset = 2]
        /\ d.word = <<n, 1>>
    BY <2>1, <1>3 DEF Draw, Word
  <2> HIDE DEF d
  <2>3. /\ d.gen \in GeneratorStates /\ d.gen.pool = n /\ d.gen.entropy_offset = 2
        /\ SamePlace(c.gen, d.gen)
    BY <1>1, <1>3, <2>2, CoreAssumption DEF GeneratorStates, SamePlace
  <2>4. SamePlace(g, d.gen) /\ PoolOK(d.gen)
    BY <1>1, <2>3 DEF SamePlace, PoolOK
  <2>5. Consumes(g, n, {c.word, d.word}, d.gen) /\ c.word # d.word
    BY <1>1, <1>3, <2>2, <2>3, <2>4, CoreAssumption DEF Consumes, GeneratorStates
  <2>6. QED  BY <2>2, <2>3, <2>4, <2>5 DEF c, d
<1>4. QED  BY <1>1, <1>2, <1>3

(***************************************************************************)
(* Outcomes.                                                               *)
(***************************************************************************)
\* An attempt, from g, at the identifier at <<ms, ctr>>: it is issued and the
\* generator stands there, or an entropy read failed and it stands where it
\* stood.
Attempts(g, n, ms, ctr, o) ==
  /\ o.gen \in GeneratorStates
  /\ o.gen.process_id = g.process_id
  /\ Consumes(g, n, o.words, o.gen)
  /\ \/ /\ o.status = "ok"
        /\ o.position = <<ms, ctr>>
        /\ o.gen.initialized /\ o.gen.last_ms = ms /\ o.gen.counter = ctr
     \/ /\ o.status = "entropy"
        /\ o.position = NoPosition /\ o.words = {}
        /\ SamePlace(g, o.gen)

\* An increment draws the tail word only.
LEMMA CommitWithTailAttempts ==
  ASSUME NEW g \in GeneratorStates, PoolOK(g),
         NEW n \in Nat \ {Unfilled}, g.pool < n,
         NEW e \in Entropy(n),
         NEW ms \in Timestamps, NEW ctr \in Counters
  PROVE  Attempts(g, n, ms, ctr, CommitWithTail(g, ms, ctr, {}, e))
<1> DEFINE d == Draw(g, e)
           h == Commit(d.gen, ms, ctr)
           o == CommitWithTail(g, ms, ctr, {}, e)
<1>1. /\ d.ok \in BOOLEAN /\ d.gen \in GeneratorStates /\ SamePlace(g, d.gen)
      /\ PoolOK(d.gen)
      /\ ~d.ok => Consumes(g, n, {}, d.gen)
      /\ d.ok => Consumes(g, n, {d.word}, d.gen)
  BY DrawConsumes
<1>2. /\ h \in GeneratorStates
      /\ h.last_ms = ms /\ h.counter = ctr /\ h.initialized
      /\ h.process_id = d.gen.process_id
      /\ h.pool = d.gen.pool /\ h.entropy_offset = d.gen.entropy_offset
  BY <1>1, CommitType
<1>3. o = IF d.ok THEN Success(h, <<ms, ctr>>, {d.word}) ELSE Failure("entropy", d.gen)
  BY DEF CommitWithTail
<1> HIDE DEF d, h, o
<1>4. CASE d.ok
  <2>1. /\ o.status = "ok" /\ o.gen = h /\ o.position = <<ms, ctr>>
        /\ o.words = {d.word}
    BY <1>3, <1>4 DEF Success
  <2>2. Consumes(g, n, {d.word}, h)
    BY <1>1, <1>2, <1>4 DEF Consumes, PoolOK
  <2>3. h.process_id = g.process_id
    BY <1>1, <1>2 DEF SamePlace
  <2>4. QED  BY <1>2, <2>1, <2>2, <2>3 DEF Attempts, o
<1>5. CASE ~d.ok
  BY <1>1, <1>3, <1>5 DEF Attempts, Failure, SamePlace, o
<1>6. QED  BY <1>1, <1>4, <1>5

\* A new counter draws two words.
LEMMA StartCounterAttempts ==
  ASSUME NEW g \in GeneratorStates, PoolOK(g),
         NEW n \in Nat \ {Unfilled}, g.pool < n,
         NEW e \in Entropy(n),
         NEW ms \in Timestamps
  PROVE  Attempts(g, n, ms, e.seed, StartCounter(g, ms, e))
<1> DEFINE c == Draw(g, e)
           d == Draw(c.gen, e)
           h == Commit(d.gen, ms, e.seed)
           o == StartCounter(g, ms, e)
<1>1. /\ c.ok \in BOOLEAN /\ c.gen \in GeneratorStates /\ SamePlace(g, c.gen)
      /\ ~c.ok => Consumes(g, n, {}, c.gen)
  BY DrawConsumes
<1>2. CASE ~c.ok
  <2>1. o = Failure("entropy", c.gen)
    BY <1>2 DEF StartCounter
  <2> HIDE DEF c, o
  <2>2. QED  BY <1>1, <1>2, <2>1 DEF Attempts, Failure, SamePlace, o
<1>3. CASE c.ok
  <2>1. /\ d.ok \in BOOLEAN /\ d.gen \in GeneratorStates /\ SamePlace(g, d.gen)
        /\ PoolOK(d.gen)
        /\ ~d.ok => Consumes(g, n, {}, d.gen)
        /\ d.ok => Consumes(g, n, {c.word, d.word}, d.gen)
    BY <1>3, DrawTwiceConsumes
  <2>2. /\ h \in GeneratorStates
        /\ h.last_ms = ms /\ h.counter = e.seed /\ h.initialized
        /\ h.process_id = d.gen.process_id
        /\ h.pool = d.gen.pool /\ h.entropy_offset = d.gen.entropy_offset
    BY <2>1, CommitType DEF Entropy
  <2>3. o = IF d.ok THEN Success(h, <<ms, e.seed>>, {c.word} \cup {d.word})
                    ELSE Failure("entropy", d.gen)
    BY <1>3 DEF StartCounter, CommitWithTail
  <2>4. {c.word} \cup {d.word} = {c.word, d.word}
    OBVIOUS
  <2> HIDE DEF c, d, h, o
  <2>5. CASE d.ok
    <3>1. /\ o.status = "ok" /\ o.gen = h /\ o.position = <<ms, e.seed>>
          /\ o.words = {c.word, d.word}
      BY <2>3, <2>4, <2>5 DEF Success
    <3>2. Consumes(g, n, {c.word, d.word}, h)
      BY <2>1, <2>2, <2>5 DEF Consumes, PoolOK
    <3>3. h.process_id = g.process_id
      BY <2>1, <2>2 DEF SamePlace
    <3>4. QED  BY <2>2, <3>1, <3>2, <3>3 DEF Attempts, o
  <2>6. CASE ~d.ok
    BY <2>1, <2>3, <2>6 DEF Attempts, Failure, SamePlace, o
  <2>7. QED  BY <2>1, <2>5, <2>6
<1>4. QED  BY <1>1, <1>2, <1>3

LEMMA EnsureType ==
  ASSUME NEW f \in GeneratorStates, PoolOK(f), NEW pid \in Nat
  PROVE  LET g == EnsureCurrentProcess(f, pid)
         IN  /\ g \in GeneratorStates
             /\ PoolOK(g)
             /\ g.process_id = pid
             /\ g.pool \in {f.pool, Unfilled}
             /\ f.process_id = pid => g = f
             /\ f.process_id # pid => /\ ~g.initialized
                                      /\ g.last_ms = 0 /\ g.counter = 0
<1>1. CASE f.process_id = pid
  BY <1>1 DEF EnsureCurrentProcess
<1>2. CASE f.process_id # pid
  BY <1>2, ResetType DEF EnsureCurrentProcess, PoolOK
<1>3. QED  BY <1>1, <1>2

\* What was taken after a reset was not there before it.
LEMMA EnsureConsumes ==
  ASSUME NEW f \in GeneratorStates, PoolOK(f), NEW pid \in Nat,
         NEW n \in Nat \ {Unfilled}, f.pool < n,
         NEW words, NEW h \in GeneratorStates,
         Consumes(EnsureCurrentProcess(f, pid), n, words, h)
  PROVE  Consumes(f, n, words, h)
<1>1. CASE f.process_id = pid
  BY <1>1 DEF EnsureCurrentProcess
<1>2. CASE f.process_id # pid
  <2>1. /\ EnsureCurrentProcess(f, pid).pool = Unfilled
        /\ EnsureCurrentProcess(f, pid).entropy_offset = PoolWords
    BY <1>2, ResetType DEF EnsureCurrentProcess
  <2>2. h.pool \in {n, Unfilled} /\ PoolOK(h)
    BY <2>1 DEF Consumes
  <2>3. h.pool = f.pool => h.entropy_offset >= f.entropy_offset
    <3>1. SUFFICES ASSUME h.pool = f.pool PROVE h.entropy_offset >= f.entropy_offset
      OBVIOUS
    <3>2. h.pool = Unfilled
      BY <2>2, <3>1 DEF GeneratorStates
    <3>3. QED  BY <2>2, <3>1, <3>2 DEF PoolOK, GeneratorStates
  <2>4. \A w \in words : w[1] = n /\ h.pool = n
    BY <2>1 DEF Consumes
  <2>5. QED  BY <2>1, <2>2, <2>3, <2>4 DEF Consumes
<1>3. QED  BY <1>1, <1>2

\* The live generator, as a caller of a process may rely on it.
LiveOutcome(f, n, now, pid, o) ==
  LET g == EnsureCurrentProcess(f, pid)
  IN  /\ o.gen \in GeneratorStates
      /\ o.gen.process_id = pid
      /\ Consumes(f, n, o.words, o.gen)
      /\ \/ /\ o.status = "ok"
            /\ o.position = <<o.gen.last_ms, o.gen.counter>>
            /\ o.gen.initialized
            /\ now <= MaxTimestamp
            /\ \/ ~g.initialized /\ o.gen.last_ms = now
               \/ g.initialized /\ now > g.last_ms /\ o.gen.last_ms = now
               \/ /\ g.initialized /\ now <= g.last_ms
                  /\ o.gen.last_ms = g.last_ms /\ o.gen.counter = g.counter + 1
               \/ /\ g.initialized /\ now <= g.last_ms /\ g.counter = MaxCounter
                  /\ o.gen.last_ms = g.last_ms + 1
         \/ /\ o.status = "entropy"
            /\ o.position = NoPosition /\ o.words = {}
            /\ SamePlace(g, o.gen)
            /\ now <= MaxTimestamp
            /\ ~(g.initialized /\ g.last_ms = MaxTimestamp /\ g.counter = MaxCounter)
         \/ /\ o.status = "exhausted"
            /\ o.position = NoPosition /\ o.words = {}
            /\ o.gen = g
            /\ \/ now > MaxTimestamp
               \/ g.initialized /\ g.last_ms = MaxTimestamp /\ g.counter = MaxCounter

\* A counter of at most MaxCounter wraps to zero from MaxCounter only.
LEMMA NextCounterWraps ==
  ASSUME NEW g \in GeneratorStates
  PROVE  /\ NextCounter(g) # 0 => /\ NextCounter(g) = g.counter + 1
                                  /\ NextCounter(g) \in Counters
         /\ NextCounter(g) = 0 <=> g.counter = MaxCounter
<1>1. g.counter \in 0 .. MaxCounter /\ MaxCounter \in Nat
  BY CoreAssumption DEF GeneratorStates, Counters
<1>2. CASE g.counter = MaxCounter
  BY <1>1, <1>2 DEF NextCounter, Counters
<1>3. CASE g.counter < MaxCounter
  BY <1>1, <1>3 DEF NextCounter, Counters
<1>4. QED  BY <1>1, <1>2, <1>3

LEMMA LiveOutcomes ==
  ASSUME NEW f \in GeneratorStates, PoolOK(f), NEW pid \in Nat, NEW now \in Nat,
         NEW n \in Nat \ {Unfilled}, f.pool < n,
         NEW e \in Entropy(n)
  PROVE  LiveOutcome(f, n, now, pid, GenerateForTimestamp(f, now, pid, e))
<1> DEFINE g == EnsureCurrentProcess(f, pid)
           o == GenerateForTimestamp(f, now, pid, e)
           AtEnd == g.initialized /\ g.last_ms = MaxTimestamp /\ g.counter = MaxCounter
<1>1. /\ g \in GeneratorStates /\ PoolOK(g) /\ g.process_id = pid /\ g.pool < n
  <2>1. /\ g \in GeneratorStates /\ PoolOK(g) /\ g.process_id = pid
        /\ g.pool \in {f.pool, Unfilled}
    BY EnsureType
  <2> HIDE DEF g
  <2>2. QED  BY <2>1 DEF Unfilled
<1>2. /\ g.last_ms \in 0 .. MaxTimestamp /\ g.counter \in 0 .. MaxCounter
      /\ MaxTimestamp \in Nat /\ MaxCounter \in Nat
  BY <1>1, CoreAssumption DEF GeneratorStates, Timestamps, Counters
<1>3. e.seed \in Counters
  BY DEF Entropy
<1>4. \A h \in GeneratorStates : \A w : Consumes(g, n, w, h) => Consumes(f, n, w, h)
  BY EnsureConsumes
<1>5. Consumes(g, n, {}, g)
  BY <1>1, <1>2, CoreAssumption DEF Consumes, GeneratorStates
<1> HIDE DEF g
<1>6. CASE now > MaxTimestamp
  <2>1. o = Failure("exhausted", g)
    BY <1>2, <1>6 DEF GenerateForTimestamp, g
  <2> HIDE DEF o
  <2>2. QED  BY <1>1, <1>4, <1>5, <1>6, <2>1 DEF LiveOutcome, Failure, g, o
<1>7. CASE now <= MaxTimestamp /\ (~g.initialized \/ now > g.last_ms)
  <2>1. o = StartCounter(g, now, e)
    BY <1>2, <1>7 DEF GenerateForTimestamp, g
  <2>2. Attempts(g, n, now, e.seed, o)
    BY <1>1, <1>7, <2>1, StartCounterAttempts DEF Timestamps
  <2>3. now \in 0 .. MaxTimestamp
    BY <1>2, <1>7
  <2> HIDE DEF o
  <2>4. ~AtEnd
    BY <1>2, <1>7
  <2>5. g.initialized \in BOOLEAN
    BY <1>1 DEF GeneratorStates
  <2>6. CASE o.status = "ok"
    BY <1>1, <1>4, <1>7, <2>2, <2>5, <2>6 DEF LiveOutcome, Attempts, g, o
  <2>7. CASE o.status = "entropy"
    BY <1>1, <1>4, <1>7, <2>2, <2>4, <2>7 DEF LiveOutcome, Attempts, g, o
  <2>8. QED  BY <2>2, <2>6, <2>7 DEF Attempts
<1>8. CASE now <= MaxTimestamp /\ g.initialized /\ now <= g.last_ms
  <2>1. o = Continue(g, e)
    BY <1>2, <1>8 DEF GenerateForTimestamp, g
  <2>2. CASE NextCounter(g) # 0
    <3>1. o = CommitWithTail(g, g.last_ms, NextCounter(g), {}, e)
      BY <2>1, <2>2 DEF Continue
    <3>2. NextCounter(g) \in Counters /\ NextCounter(g) = g.counter + 1
      BY <1>1, <2>2, NextCounterWraps
    <3>3. Attempts(g, n, g.last_ms, g.counter + 1, o)
      BY <1>1, <1>2, <3>1, <3>2, CommitWithTailAttempts DEF Timestamps
    <3>4. ~AtEnd
      BY <1>1, <2>2, NextCounterWraps
    <3> HIDE DEF o
    <3>5. CASE o.status = "ok"
      BY <1>1, <1>4, <1>8, <3>3, <3>5 DEF LiveOutcome, Attempts, g, o
    <3>6. CASE o.status = "entropy"
      BY <1>1, <1>4, <1>8, <3>3, <3>4, <3>6 DEF LiveOutcome, Attempts, g, o
    <3>7. QED  BY <3>3, <3>5, <3>6 DEF Attempts
  <2>3. CASE NextCounter(g) = 0 /\ g.last_ms = MaxTimestamp
    <3>1. o = Failure("exhausted", g)
      BY <2>1, <2>3 DEF Continue
    <3>2. AtEnd
      BY <1>1, <1>8, <2>3, NextCounterWraps
    <3> HIDE DEF o
    <3>3. QED  BY <1>1, <1>4, <1>5, <3>1, <3>2 DEF LiveOutcome, Failure, g, o
  <2>4. CASE NextCounter(g) = 0 /\ g.last_ms # MaxTimestamp
    <3>1. o = StartCounter(g, g.last_ms + 1, e)
      BY <2>1, <2>4 DEF Continue
    <3>2. g.counter = MaxCounter
      BY <1>1, <2>4, NextCounterWraps
    <3>3. g.last_ms + 1 \in Timestamps
      BY <1>2, <2>4 DEF Timestamps
    <3>4. Attempts(g, n, g.last_ms + 1, e.seed, o)
      BY <1>1, <3>1, <3>3, StartCounterAttempts
    <3> HIDE DEF o
    <3>5. CASE o.status = "ok"
      BY <1>1, <1>4, <1>8, <3>2, <3>4, <3>5 DEF LiveOutcome, Attempts, g, o
    <3>6. CASE o.status = "entropy"
      BY <1>1, <1>4, <1>8, <2>4, <3>4, <3>6 DEF LiveOutcome, Attempts, g, o
    <3>7. QED  BY <3>4, <3>5, <3>6 DEF Attempts
  <2>5. QED  BY <2>2, <2>3, <2>4
<1>9. QED
  <2>1. now <= MaxTimestamp \/ now > MaxTimestamp
    BY <1>2
  <2>2. now <= g.last_ms \/ now > g.last_ms
    BY <1>2
  <2>3. QED  BY <1>6, <1>7, <1>8, <2>1, <2>2

\* The historical generator draws two different words and leaves the live
\* sequence where the process had it.
HistoricalOutcome(f, n, ts, pid, o) ==
  /\ o.gen \in GeneratorStates
  /\ Consumes(f, n, o.words, o.gen)
  /\ \/ o.gen = f
     \/ SamePlace(EnsureCurrentProcess(f, pid), o.gen)
  /\ \/ /\ o.status = "ok"
        /\ o.position = <<ts>>
        /\ \E v, w \in o.words : v # w
     \/ /\ o.status \in {"entropy", "exhausted"}
        /\ o.position = NoPosition /\ o.words = {}

LEMMA HistoricalOutcomes ==
  ASSUME NEW f \in GeneratorStates, PoolOK(f), NEW pid \in Nat, NEW ts \in Nat,
         NEW n \in Nat \ {Unfilled}, f.pool < n,
         NEW e \in Entropy(n)
  PROVE  HistoricalOutcome(f, n, ts, pid, GenerateAt(f, ts, pid, e))
<1> DEFINE g == EnsureCurrentProcess(f, pid)
           c == Draw(g, e)
           d == Draw(c.gen, e)
           o == GenerateAt(f, ts, pid, e)
<1>1. /\ g \in GeneratorStates /\ PoolOK(g) /\ g.pool < n
  <2>1. g \in GeneratorStates /\ PoolOK(g) /\ g.pool \in {f.pool, Unfilled}
    BY EnsureType
  <2> HIDE DEF g
  <2>2. QED  BY <2>1 DEF Unfilled
<1>2. \A h \in GeneratorStates : \A w : Consumes(g, n, w, h) => Consumes(f, n, w, h)
  BY EnsureConsumes
<1>3. Consumes(f, n, {}, f)
  BY CoreAssumption DEF Consumes, GeneratorStates
<1>4. CASE ts > MaxTimestamp
  <2>1. o = Failure("exhausted", f)
    BY <1>4 DEF GenerateAt
  <2> HIDE DEF o
  <2>2. QED  BY <1>3, <2>1 DEF HistoricalOutcome, Failure, o
<1>5. CASE ~(ts > MaxTimestamp)
  <2> HIDE DEF g
  <2>1. /\ c.ok \in BOOLEAN /\ c.gen \in GeneratorStates /\ SamePlace(g, c.gen)
        /\ ~c.ok => Consumes(g, n, {}, c.gen)
    BY <1>1, DrawConsumes
  <2>2. CASE ~c.ok
    <3>1. o = Failure("entropy", c.gen)
      BY <1>5, <2>2 DEF GenerateAt, g
    <3> HIDE DEF c, o
    <3>2. QED  BY <1>2, <2>1, <2>2, <3>1 DEF HistoricalOutcome, Failure, g, o
  <2>3. CASE c.ok
    <3>1. /\ d.ok \in BOOLEAN /\ d.gen \in GeneratorStates /\ SamePlace(g, d.gen)
          /\ ~d.ok => Consumes(g, n, {}, d.gen)
          /\ d.ok => Consumes(g, n, {c.word, d.word}, d.gen) /\ c.word # d.word
      BY <1>1, <2>3, DrawTwiceConsumes
    <3>2. CASE ~d.ok
      <4>1. o = Failure("entropy", d.gen)
        BY <1>5, <2>3, <3>2 DEF GenerateAt, g
      <4> HIDE DEF c, d, o
      <4>2. QED  BY <1>2, <3>1, <3>2, <4>1 DEF HistoricalOutcome, Failure, g, o
    <3>3. CASE d.ok
      <4>1. o = Success(d.gen, <<ts>>, {c.word, d.word})
        BY <1>5, <2>3, <3>3 DEF GenerateAt, g
      <4> HIDE DEF c, d, o
      <4>2. QED  BY <1>2, <3>1, <3>3, <4>1 DEF HistoricalOutcome, Success, g, o
    <3>4. QED  BY <3>1, <3>2, <3>3
  <2>4. QED  BY <2>1, <2>2, <2>3
<1>6. QED  BY <1>4, <1>5

\* The test hook moves the generator where it is told, or not at all.
LEMMA SetStateOutcomes ==
  ASSUME NEW f \in GeneratorStates, PoolOK(f), NEW pid \in Nat,
         NEW ts \in Nat, NEW ctr \in Nat,
         NEW n \in Nat \ {Unfilled}, f.pool < n
  PROVE  LET o == SetState(f, ts, ctr, pid)
         IN  /\ o.gen \in GeneratorStates
             /\ o.position = NoPosition /\ o.words = {}
             /\ Consumes(f, n, {}, o.gen)
             /\ o.gen.pool \in {f.pool, Unfilled}
             /\ \/ o.status = "refused" /\ o.gen = f
                \/ /\ o.status = "done"
                   /\ ts \in Timestamps
                   /\ o.gen.process_id = pid
                   /\ o.gen.initialized
                   /\ o.gen.last_ms = ts /\ o.gen.counter = ctr
<1> DEFINE g == EnsureCurrentProcess(f, pid)
           h == Commit(g, ts, ctr)
           o == SetState(f, ts, ctr, pid)
<1>1. CASE ts > MaxTimestamp \/ ctr > MaxCounter
  <2>1. o = Failure("refused", f)
    BY <1>1 DEF SetState
  <2>2. Consumes(f, n, {}, f)
    BY CoreAssumption DEF Consumes, GeneratorStates
  <2>3. QED  BY <2>1, <2>2 DEF Failure
<1>2. CASE ~(ts > MaxTimestamp \/ ctr > MaxCounter)
  <2>1. o = Done(h)
    BY <1>2 DEF SetState
  <2>2. ts \in Timestamps /\ ctr \in Counters
    BY <1>2, CoreAssumption DEF Timestamps, Counters
  <2>3. /\ g \in GeneratorStates /\ PoolOK(g) /\ g.process_id = pid
        /\ g.pool \in {f.pool, Unfilled}
    BY EnsureType
  <2>4. Consumes(g, n, {}, g)
    BY <2>3, CoreAssumption DEF Consumes, GeneratorStates
  <2>5. /\ h \in GeneratorStates
        /\ h.last_ms = ts /\ h.counter = ctr /\ h.initialized
        /\ h.process_id = g.process_id
        /\ h.pool = g.pool /\ h.entropy_offset = g.entropy_offset
    BY <2>2, <2>3, CommitType
  <2>6. Consumes(g, n, {}, h)
    BY <2>4, <2>5 DEF Consumes, PoolOK
  <2>7. Consumes(f, n, {}, h)
    BY <2>5, <2>6, EnsureConsumes
  <2> HIDE DEF g, h
  <2>8. QED  BY <2>1, <2>2, <2>3, <2>5, <2>7 DEF Done
<1>3. QED  BY <1>1, <1>2

LEMMA ResetOutcomes ==
  ASSUME NEW f \in GeneratorStates, PoolOK(f), NEW pid \in Nat,
         NEW n \in Nat \ {Unfilled}, f.pool < n
  PROVE  LET o == ResetState(f, pid)
         IN  /\ o.gen \in GeneratorStates
             /\ o.status = "done"
             /\ o.position = NoPosition /\ o.words = {}
             /\ Consumes(f, n, {}, o.gen)
             /\ o.gen.pool = Unfilled
             /\ ~o.gen.initialized /\ o.gen.last_ms = 0 /\ o.gen.counter = 0
             /\ o.gen.process_id = pid
<1> DEFINE h == ResetProcessState(f, pid)
<1>1. /\ h \in GeneratorStates
      /\ h.last_ms = 0 /\ h.counter = 0 /\ ~h.initialized
      /\ h.process_id = pid
      /\ h.pool = Unfilled /\ h.entropy_offset = PoolWords
  BY ResetType
<1>2. Consumes(f, n, {}, h)
  BY <1>1, CoreAssumption DEF Consumes, GeneratorStates, PoolOK
<1>3. QED  BY <1>1, <1>2 DEF ResetState, Done

\* A process that starts a sequence draws two different words: the one that
\* seeds the counter, and the tail.
TwoWords(words) == \E v, w : v # w /\ words = {v, w}

LEMMA StartCounterTakesTwo ==
  ASSUME NEW g \in GeneratorStates, PoolOK(g),
         NEW n \in Nat \ {Unfilled}, g.pool < n,
         NEW e \in Entropy(n), NEW ms \in Timestamps
  PROVE  StartCounter(g, ms, e).status = "ok" =>
           TwoWords(StartCounter(g, ms, e).words)
<1> DEFINE c == Draw(g, e)
           d == Draw(c.gen, e)
<1>1. CASE ~c.ok
  BY <1>1 DEF StartCounter, Failure
<1>2. CASE c.ok /\ ~d.ok
  BY <1>2 DEF StartCounter, CommitWithTail, Failure
<1>3. CASE c.ok /\ d.ok
  <2>1. c.word # d.word
    BY <1>3, DrawTwiceConsumes
  <2>2. StartCounter(g, ms, e).words = {c.word} \cup {d.word}
    BY <1>3 DEF StartCounter, CommitWithTail, Success
  <2> HIDE DEF c, d
  <2>3. {c.word} \cup {d.word} = {c.word, d.word}
    OBVIOUS
  <2>4. QED  BY <2>1, <2>2, <2>3 DEF TwoWords
<1>4. QED  BY <1>1, <1>2, <1>3

LEMMA FirstIdTakesTwo ==
  ASSUME NEW f \in GeneratorStates, PoolOK(f), NEW pid \in Nat, NEW now \in Nat,
         NEW n \in Nat \ {Unfilled}, f.pool < n,
         NEW e \in Entropy(n),
         ~EnsureCurrentProcess(f, pid).initialized,
         GenerateForTimestamp(f, now, pid, e).status = "ok"
  PROVE  TwoWords(GenerateForTimestamp(f, now, pid, e).words)
<1> DEFINE g == EnsureCurrentProcess(f, pid)
<1>1. g \in GeneratorStates /\ PoolOK(g) /\ g.pool \in {f.pool, Unfilled} /\ ~g.initialized
  BY EnsureType
<1> HIDE DEF g
<1>2. g.pool < n
  BY <1>1 DEF Unfilled
<1>3. CASE now > MaxTimestamp
  <2>1. MaxTimestamp \in Nat
    BY CoreAssumption
  <2>2. GenerateForTimestamp(f, now, pid, e) = Failure("exhausted", g)
    BY <1>3, <2>1 DEF GenerateForTimestamp, g
  <2>3. QED  BY <2>2 DEF Failure
<1>4. CASE ~(now > MaxTimestamp)
  <2>1. now <= MaxTimestamp /\ now \in Timestamps
    BY <1>4, CoreAssumption DEF Timestamps
  <2>2. GenerateForTimestamp(f, now, pid, e) = StartCounter(g, now, e)
    BY <1>1, <1>4, <2>1 DEF GenerateForTimestamp, g
  <2>3. StartCounter(g, now, e).status = "ok"
    BY <2>2
  <2>4. g \in GeneratorStates /\ PoolOK(g)
    BY <1>1
  <2>5. TwoWords(StartCounter(g, now, e).words)
    BY <1>2, <2>1, <2>3, <2>4, StartCounterTakesTwo
  <2>6. QED  BY <2>2, <2>5
<1>5. QED  BY <1>3, <1>4

\* Looking at the process number twice is looking at it once.
LEMMA EnsureTwice ==
  ASSUME NEW f \in GeneratorStates, PoolOK(f), NEW pid \in Nat
  PROVE  LET g == EnsureCurrentProcess(f, pid)
         IN  /\ EnsureCurrentProcess(g, pid) = g
             /\ \A now, e : GenerateForTimestamp(f, now, pid, e)
                              = GenerateForTimestamp(g, now, pid, e)
             /\ \A ts, e : ~(ts > MaxTimestamp) =>
                              GenerateAt(f, ts, pid, e) = GenerateAt(g, ts, pid, e)
<1> DEFINE g == EnsureCurrentProcess(f, pid)
<1>1. EnsureCurrentProcess(g, pid) = g
  <2>1. g.process_id = pid
    BY EnsureType
  <2> HIDE DEF g
  <2>2. QED  BY <2>1 DEF EnsureCurrentProcess
<1>2. \A now, e : GenerateForTimestamp(f, now, pid, e) = GenerateForTimestamp(g, now, pid, e)
  BY <1>1 DEF GenerateForTimestamp
<1>3. \A ts, e : ~(ts > MaxTimestamp) => GenerateAt(f, ts, pid, e) = GenerateAt(g, ts, pid, e)
  BY <1>1 DEF GenerateAt
<1>4. QED  BY <1>1, <1>2, <1>3
=============================================================================
