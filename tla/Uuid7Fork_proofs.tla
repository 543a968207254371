-------------------------- MODULE Uuid7Fork_proofs ---------------------------
(***************************************************************************)
(* A tree of processes, for every number of processes and every value of   *)
(* the constants.  A fork makes a second copy of a pool and of a place in  *)
(* the sequence; the invariant says that at most one of the copies belongs *)
(* to the process that has it.                                             *)
(***************************************************************************)
EXTENDS Uuid7Fork, Uuid7Core_proofs, FiniteSetTheorems

\* A copy belongs to the process it is stamped with.  Any other is reset before
\* it is used.
Owns(p) == p \in Running /\ gen[p].process_id = pid[p]

\* A process has issued an identifier only if its copy is its own and stands
\* where that identifier is.
PlaceInv ==
  \A p \in Procs :
    latest[p] # NoPosition =>
      /\ Owns(p)
      /\ gen[p].initialized
      /\ latest[p] = <<gen[p].last_ms, gen[p].counter>>

\* Pools are numbered by the refills that have been; an unfilled one has nothing
\* left to read.
PoolInv ==
  \A p \in Procs : PoolOK(gen[p]) /\ gen[p].pool <= fills

\* What every process keeps to, whatever numbers the processes have.
PInv == TypeOK /\ PlaceInv /\ PoolInv

\* A place that a process owns is one it has come to itself.
FirstInv ==
  \A p \in Procs : Owns(p) /\ gen[p].initialized => latest[p] # NoPosition

\* A pool has one owner, and the words that were taken from it lie behind the
\* offset of that owner.
OwnerInv ==
  /\ \A p, q \in Procs :
       Owns(p) /\ Owns(q) /\ p # q /\ gen[p].pool = gen[q].pool =>
         gen[p].pool = Unfilled
  /\ \A w \in spent :
       /\ w[1] <= fills
       /\ \A p \in Procs :
            Owns(p) /\ w[1] = gen[p].pool => w[2] < gen[p].entropy_offset

IInv == PInv /\ FirstInv /\ OwnerInv

(***************************************************************************)
(* What the three action properties ask of a step.                         *)
(***************************************************************************)
WordsAreFresh == answer'.words \cap spent = {}

FirstDrawsTwo ==
  \A p \in Procs :
    latest[p] = NoPosition /\ latest'[p] # NoPosition =>
      Cardinality(answer'.words) = 2

Increases ==
  \A p \in Procs :
    latest[p] # NoPosition /\ issued'[p] > issued[p] => Before(latest[p], latest'[p])

\* What every step does, and what it does when copies have one owner.
StepKeepsTo ==
  /\ PInv' /\ Increases
  /\ IInv => IInv' /\ WordsAreFresh /\ FirstDrawsTwo

LEMMA TwoWordsAreTwo ==
  ASSUME NEW words, TwoWords(words)
  PROVE  Cardinality(words) = 2
<1>1. PICK v, w : v # w /\ words = {v, w}
  BY DEF TwoWords
<1> DEFINE one == {v}
           two == one \cup {w}
<1>2. IsFiniteSet(one) /\ Cardinality(one) = 1
  BY FS_Singleton
<1>3. w \notin one /\ two = words
  BY <1>1
<1> HIDE DEF one
<1>4. Cardinality(two) = Cardinality(one) + 1
  BY <1>2, <1>3, FS_AddElement
<1> HIDE DEF two
<1>5. QED  BY <1>2, <1>3, <1>4

\* The facts that a step of a running process starts from.
LEMMA Types ==
  ASSUME PInv, NEW p \in Running
  PROVE  /\ p \in Procs /\ pid[p] \in Nat /\ pid[p] \in Pids \cup {NoProcess}
         /\ gen[p] \in GeneratorStates /\ PoolOK(gen[p])
         /\ gen[p].pool < fills + 1 /\ fills + 1 \in Nat \ {Unfilled}
         /\ fills \in 0 .. MaxFills
<1>1. p \in Procs
  BY DEF Running
<1>2. pid[p] \in Pids \cup {NoProcess} /\ pid[p] \in Nat
  <2>1. pid[p] \in Pids \cup {NoProcess}
    BY <1>1 DEF PInv, TypeOK
  <2>2. Pids \subseteq Nat /\ NoProcess \in Nat
    BY ForkAssumption DEF NoProcess
  <2>3. QED  BY <2>1, <2>2
<1>3. gen[p] \in GeneratorStates /\ PoolOK(gen[p]) /\ gen[p].pool <= fills
  BY <1>1 DEF PInv, TypeOK, PoolInv
<1>4. fills \in 0 .. MaxFills /\ MaxFills \in Nat
  BY ForkAssumption DEF PInv, TypeOK
<1>5. gen[p].pool \in Nat
  BY <1>3 DEF GeneratorStates
<1>6. QED  BY <1>1, <1>2, <1>3, <1>4, <1>5 DEF Unfilled

LEMMA InitInv == Init => PInv /\ (~Recycled => IInv)
<1> SUFFICES ASSUME Init PROVE PInv /\ IInv
  BY DEF IInv
<1> USE CoreAssumption, ForkAssumption
<1>1. InitialGenerator \in GeneratorStates /\ RootPid \in Pids
  BY DEF InitialGenerator, GeneratorStates, Timestamps, Counters, Unfilled,
         NoProcess, RootPid
<1>2. /\ gen = [p \in Procs |-> InitialGenerator] /\ fills = 0 /\ spent = {}
      /\ latest = [p \in Procs |-> NoPosition] /\ issued \in [Procs -> Nat]
      /\ phase \in [Procs -> {"unborn", "running", "gone"}]
      /\ pid \in [Procs -> Pids \cup {NoProcess}]
  BY <1>1 DEF Init
<1>3. /\ TypeOK /\ PlaceInv
  BY <1>1, <1>2 DEF TypeOK, PlaceInv
<1>4. PoolInv /\ FirstInv /\ OwnerInv
  BY <1>2 DEF PoolInv, PoolOK, FirstInv, OwnerInv, InitialGenerator, Unfilled
<1>5. QED  BY <1>3, <1>4 DEF PInv, IInv

(***************************************************************************)
(* A call returns: either it did nothing, or it left a copy that belongs   *)
(* to the process, with words that were unread in the copy it found after  *)
(* the process number was compared.                                        *)
(***************************************************************************)
LEMMA ReturnPools ==
  ASSUME PInv, NEW p \in Running, fills < MaxFills,
         NEW op, NEW o, Return(p, op, o),
         o.gen \in GeneratorStates,
         \/ o.gen = gen[p] /\ o.words = {}
         \/ /\ o.gen.process_id = pid[p]
            /\ Consumes(EnsureCurrentProcess(gen[p], pid[p]), fills + 1,
                        o.words, o.gen)
  PROVE  /\ gen' \in [Procs -> GeneratorStates]
         /\ fills' \in 0 .. MaxFills
         /\ spent' \in SUBSET ((1 .. MaxFills) \X (0 .. PoolWords - 1))
         /\ PoolInv'
         /\ OwnerInv => OwnerInv' /\ WordsAreFresh
<1> USE CoreAssumption, ForkAssumption
<1> DEFINE g == EnsureCurrentProcess(gen[p], pid[p])
           h == o.gen
<1>1. /\ gen' = [gen EXCEPT ![p] = h]
      /\ fills' = IF h.pool > fills THEN h.pool ELSE fills
      /\ spent' = spent \cup o.words /\ answer'.words = o.words
      /\ phase' = phase /\ pid' = pid
  BY DEF Return, Answer
<1>2. /\ p \in Procs /\ gen \in [Procs -> GeneratorStates]
      /\ \A q \in Procs : PoolOK(gen[q]) /\ gen[q].pool \in 0 .. fills
      /\ fills \in 0 .. MaxFills /\ fills + 1 \in 1 .. MaxFills
      /\ spent \subseteq (1 .. MaxFills) \X (0 .. PoolWords - 1)
  <2>1. \A q \in Procs : gen[q].pool \in Nat
    BY DEF PInv, TypeOK, GeneratorStates
  <2>2. QED  BY <2>1, Types DEF PInv, TypeOK, PoolInv
\* What was found is the process's own, or has nothing left to read.
<1>3. /\ g \in GeneratorStates
      /\ g.pool = Unfilled \/ (g = gen[p] /\ Owns(p))
  <2>1. gen[p] \in GeneratorStates /\ pid[p] \in Nat
    BY Types
  <2>2. CASE gen[p].process_id = pid[p]
    BY <2>1, <2>2 DEF EnsureCurrentProcess, Owns
  <2>3. CASE gen[p].process_id # pid[p]
    BY <2>1, <2>3, ResetType DEF EnsureCurrentProcess
  <2>4. QED  BY <2>2, <2>3
<1> HIDE DEF g, h
\* What is left, and what was taken.
<1>4. /\ PoolOK(h)
      /\ h.pool \in {gen[p].pool, g.pool, fills + 1, Unfilled}
      /\ \A w \in o.words :
           /\ w \in (Nat \ {Unfilled}) \X (0 .. PoolWords - 1)
           /\ \/ w[1] = fills + 1 /\ h.pool = fills + 1
              \/ w[1] = g.pool /\ w[2] >= g.entropy_offset
           /\ w[1] = h.pool => w[2] < h.entropy_offset
  BY <1>2 DEF Consumes, g, h
<1>5. /\ h.pool \in 0 .. fills' /\ fills' \in 0 .. MaxFills /\ fills <= fills'
      /\ g.pool \in 0 .. fills
  BY <1>1, <1>2, <1>3, <1>4 DEF Unfilled
<1>6. gen' \in [Procs -> GeneratorStates] /\ PoolInv'
  <2>1. h \in GeneratorStates
    BY DEF h
  <2>2. gen' \in [Procs -> GeneratorStates]
    BY <1>1, <1>2, <2>1
  <2>3. ASSUME NEW q \in Procs
        PROVE  PoolOK(gen'[q]) /\ gen'[q].pool <= fills'
    BY <1>1, <1>2, <1>4, <1>5
  <2>4. QED  BY <2>2, <2>3 DEF PoolInv
<1>7. ASSUME NEW w \in o.words
      PROVE  /\ w \in (1 .. MaxFills) \X (0 .. PoolWords - 1)
             /\ w[1] <= fills' /\ w[1] # Unfilled
  <2>1. /\ w[1] \in Nat \ {0} /\ w[2] \in 0 .. PoolWords - 1 /\ w = <<w[1], w[2]>>
        /\ (w[1] = fills + 1 /\ h.pool = fills + 1) \/ w[1] = g.pool
    BY <1>4 DEF Unfilled
  <2>2. w[1] <= fills'
    <3>1. CASE w[1] = h.pool
      BY <1>5, <3>1
    <3>2. CASE w[1] = g.pool
      BY <1>2, <1>5, <3>2
    <3>3. QED  BY <2>1, <3>1, <3>2
  <2>3. w[1] \in 1 .. MaxFills
    BY <1>5, <2>1, <2>2
  <2>4. QED  BY <2>1, <2>2, <2>3 DEF Unfilled
<1>8. spent' \in SUBSET ((1 .. MaxFills) \X (0 .. PoolWords - 1))
  BY <1>1, <1>2, <1>7
<1>9. ASSUME OwnerInv
      PROVE  OwnerInv' /\ WordsAreFresh
  <2>1. \A q \in Procs : q # p => gen'[q] = gen[q] /\ (Owns(q)' <=> Owns(q))
    BY <1>1, <1>2 DEF Owns, Running
  <2>2. gen'[p] = h
    BY <1>1, <1>2
  <2>3. /\ \A q \in Procs : gen[q].entropy_offset \in Nat
        /\ h.entropy_offset \in Nat
    BY <1>2 DEF GeneratorStates, h
  \* The pool that p has now is new, or one that only p owned before.
  <2>4. Owns(p)' =>
          \/ h.pool \in {fills + 1, Unfilled}
          \/ /\ Owns(p) /\ h.pool = gen[p].pool
             /\ h.entropy_offset >= gen[p].entropy_offset
    <3>1. CASE h = gen[p]
      BY <1>1, <2>2, <2>3, <3>1 DEF Owns, Running
    <3>2. CASE Consumes(g, fills + 1, o.words, h)
      BY <1>3, <3>2 DEF Consumes
    <3>3. QED  BY <3>1, <3>2 DEF g, h
  <2>5. ASSUME NEW w \in o.words
        PROVE  \/ w[1] = fills + 1 /\ h.pool = fills + 1
               \/ /\ Owns(p) /\ w[1] = gen[p].pool
                  /\ w[2] >= gen[p].entropy_offset
    BY <1>3, <1>4, <1>7
  <2>6. ASSUME NEW q \in Procs, q # p, Owns(p)', Owns(q), h.pool = gen[q].pool
        PROVE  h.pool = Unfilled
    BY <1>2, <1>9, <2>4, <2>6 DEF OwnerInv
  <2>7. ASSUME NEW q \in Procs, NEW r \in Procs, Owns(q)', Owns(r)', q # r,
               gen'[q].pool = gen'[r].pool
        PROVE  gen'[q].pool = Unfilled
    <3>1. CASE q = p \/ r = p
      BY <2>1, <2>2, <2>6, <2>7, <3>1
    <3>2. CASE q # p /\ r # p
      BY <1>9, <2>1, <2>7, <3>2 DEF OwnerInv
    <3>3. QED  BY <3>1, <3>2
  <2>8. ASSUME NEW w \in spent, NEW q \in Procs, Owns(q)', w[1] = gen'[q].pool
        PROVE  w[2] < gen'[q].entropy_offset
    <3>1. /\ w[1] \in 1 .. MaxFills /\ w[1] <= fills /\ w[2] \in Nat
          /\ \A r \in Procs : Owns(r) /\ w[1] = gen[r].pool =>
               w[2] < gen[r].entropy_offset
      BY <1>2, <1>9 DEF OwnerInv
    <3>2. CASE q = p
      <4>1. /\ Owns(p) /\ h.pool = gen[p].pool
            /\ h.entropy_offset >= gen[p].entropy_offset
        BY <1>2, <2>2, <2>4, <2>8, <3>1, <3>2 DEF Unfilled
      <4>2. QED  BY <1>2, <2>2, <2>3, <2>8, <3>1, <3>2, <4>1
    <3>3. CASE q # p
      BY <2>1, <2>8, <3>1, <3>3
    <3>4. QED  BY <3>2, <3>3
  <2>9. ASSUME NEW w \in o.words, NEW q \in Procs, Owns(q)', w[1] = gen'[q].pool
        PROVE  w[2] < gen'[q].entropy_offset
    <3>1. CASE q = p
      BY <1>4, <2>2, <2>9, <3>1
    <3>2. CASE q # p
      <4>1. Owns(q) /\ w[1] = gen[q].pool /\ w[1] # Unfilled
        BY <1>7, <2>1, <2>9, <3>2
      <4>2. w[1] # fills + 1
        BY <1>2, <4>1
      <4>3. Owns(p) /\ gen[p].pool = gen[q].pool
        BY <2>5, <4>1, <4>2
      <4>4. QED  BY <1>2, <1>9, <3>2, <4>1, <4>3 DEF OwnerInv
    <3>3. QED  BY <3>1, <3>2
  <2>10. \A w \in spent' : w[1] <= fills'
    <3>1. \A w \in spent : w[1] <= fills /\ w[1] \in Nat
      BY <1>2, <1>9 DEF OwnerInv
    <3>2. QED  BY <1>1, <1>2, <1>5, <1>7, <3>1
  <2>11. OwnerInv'
    BY <1>1, <2>7, <2>8, <2>9, <2>10 DEF OwnerInv
  <2>12. ASSUME NEW w \in o.words
         PROVE  w \notin spent
    <3>1. \A v \in spent :
            /\ v[1] <= fills /\ v[1] \in Nat /\ v[2] \in Nat
            /\ Owns(p) /\ v[1] = gen[p].pool => v[2] < gen[p].entropy_offset
      BY <1>2, <1>9 DEF OwnerInv
    <3>2. QED  BY <1>2, <2>3, <2>5, <3>1
  <2>13. QED  BY <1>1, <2>11, <2>12 DEF WordsAreFresh
<1>10. QED  BY <1>5, <1>6, <1>8, <1>9

(***************************************************************************)
(* One lemma per kind of step.                                             *)
(***************************************************************************)
\* What comparing the process number leaves: the place of a copy that belongs
\* to p, and no place at all otherwise.
LEMMA Found ==
  ASSUME PInv, NEW p \in Running
  PROVE  LET g == EnsureCurrentProcess(gen[p], pid[p])
         IN  /\ g \in GeneratorStates /\ PoolOK(g) /\ g.pool < fills + 1
             /\ g.process_id = pid[p]
             /\ EnsureCurrentProcess(g, pid[p]) = g
             /\ Owns(p) => g = gen[p]
             /\ ~Owns(p) => ~g.initialized /\ latest[p] = NoPosition
<1> DEFINE g == EnsureCurrentProcess(gen[p], pid[p])
<1>1. /\ gen[p] \in GeneratorStates /\ PoolOK(gen[p]) /\ pid[p] \in Nat
      /\ gen[p].pool < fills + 1 /\ p \in Procs /\ fills \in Nat
  BY Types
<1>2. /\ g \in GeneratorStates /\ PoolOK(g) /\ g.process_id = pid[p]
      /\ g.pool \in {gen[p].pool, Unfilled}
      /\ gen[p].process_id = pid[p] => g = gen[p]
      /\ gen[p].process_id # pid[p] => ~g.initialized
  BY <1>1, EnsureType
<1>3. EnsureCurrentProcess(g, pid[p]) = g
  BY <1>1, EnsureTwice
<1> HIDE DEF g
<1>4. g.pool < fills + 1
  BY <1>1, <1>2 DEF Unfilled
<1>5. ~Owns(p) => latest[p] = NoPosition
  BY <1>1 DEF PInv, PlaceInv
<1>6. QED  BY <1>1, <1>2, <1>3, <1>4, <1>5 DEF Owns, g

LEMMA LiveStep ==
  ASSUME PInv, NEW p \in Running, GenerateLive(p)
  PROVE  StepKeepsTo
<1> USE CoreAssumption, ForkAssumption
<1>1. PICK now \in Readings, e \in Entropy(fills + 1) :
        LET o == GenerateForTimestamp(gen[p], now, pid[p], e)
        IN  /\ Return(p, "live", o)
            /\ IF o.status = "ok"
               THEN /\ latest' = [latest EXCEPT ![p] = o.position]
                    /\ issued' = [issued EXCEPT ![p] = @ + 1]
               ELSE UNCHANGED <<latest, issued>>
  BY DEF GenerateLive
<1> DEFINE g == EnsureCurrentProcess(gen[p], pid[p])
           o == GenerateForTimestamp(gen[p], now, pid[p], e)
           n == fills + 1
<1>2. /\ gen[p] \in GeneratorStates /\ PoolOK(gen[p]) /\ pid[p] \in Nat
      /\ n \in Nat \ {Unfilled} /\ p \in Procs /\ now \in Nat /\ gen[p].pool < n
  BY Types
<1>3. /\ g \in GeneratorStates /\ PoolOK(g) /\ g.pool < n
      /\ EnsureCurrentProcess(g, pid[p]) = g
      /\ Owns(p) => g = gen[p]
      /\ ~Owns(p) => ~g.initialized /\ latest[p] = NoPosition
  BY Found
<1>4. LiveOutcome(g, n, now, pid[p], o)
  <2>1. o = GenerateForTimestamp(g, now, pid[p], e)
    BY <1>2, EnsureTwice
  <2> HIDE DEF g, o, n
  <2>2. LiveOutcome(g, n, now, pid[p], GenerateForTimestamp(g, now, pid[p], e))
    BY <1>2, <1>3, LiveOutcomes DEF n
  <2>3. QED  BY <2>1, <2>2
<1>5. o.status = "ok" /\ ~g.initialized => Cardinality(o.words) = 2
  <2>1. o.status = "ok" /\ ~g.initialized => TwoWords(o.words)
    BY <1>2, FirstIdTakesTwo
  <2>2. QED  BY <2>1, TwoWordsAreTwo
<1> HIDE DEF g, o, n
<1>6. /\ Return(p, "live", o) /\ fills < MaxFills
      /\ latest' = IF o.status = "ok" THEN [latest EXCEPT ![p] = o.position]
                                      ELSE latest
      /\ issued' = IF o.status = "ok" THEN [issued EXCEPT ![p] = @ + 1] ELSE issued
  BY <1>1 DEF GenerateLive, o
<1>7. /\ o.gen \in GeneratorStates /\ o.gen.process_id = pid[p]
      /\ Consumes(g, n, o.words, o.gen)
      /\ \/ /\ o.status = "ok" /\ o.gen.initialized
            /\ o.position = <<o.gen.last_ms, o.gen.counter>>
            /\ g.initialized =>
                 \/ o.gen.last_ms > g.last_ms
                 \/ o.gen.last_ms = g.last_ms /\ o.gen.counter > g.counter
         \/ o.status # "ok" /\ SamePlace(g, o.gen)
  <2>1. /\ o.gen \in GeneratorStates /\ o.gen.process_id = pid[p]
        /\ Consumes(g, n, o.words, o.gen)
    BY <1>4 DEF LiveOutcome
  <2>2. g.last_ms \in Nat /\ g.counter \in Nat
    BY <1>3 DEF GeneratorStates, Timestamps, Counters
  <2>3. QED  BY <1>2, <1>3, <1>4, <2>1, <2>2 DEF LiveOutcome, SamePlace
<1>8. /\ gen' \in [Procs -> GeneratorStates]
      /\ fills' \in 0 .. MaxFills
      /\ spent' \in SUBSET ((1 .. MaxFills) \X (0 .. PoolWords - 1))
      /\ PoolInv'
      /\ OwnerInv => OwnerInv' /\ WordsAreFresh
  BY <1>6, <1>7, ReturnPools DEF g, n
<1>9. /\ gen' = [gen EXCEPT ![p] = o.gen] /\ phase' = phase /\ pid' = pid
      /\ answer'.words = o.words
      /\ gen \in [Procs -> GeneratorStates]
      /\ latest \in [Procs -> {NoPosition} \cup (Timestamps \X Counters)]
      /\ issued \in [Procs -> Nat]
  BY <1>6 DEF Return, Answer, PInv, TypeOK
<1>10. Owns(p)' /\ gen'[p] = o.gen
  BY <1>2, <1>7, <1>9 DEF Owns, Running
<1>11. \A q \in Procs :
         q # p => /\ gen'[q] = gen[q] /\ latest'[q] = latest[q]
                  /\ Owns(q)' <=> Owns(q)
  BY <1>2, <1>6, <1>9 DEF Owns, Running
<1>12. /\ latest'[p] = IF o.status = "ok" THEN o.position ELSE latest[p]
       /\ o.status # "ok" => issued'[p] = issued[p]
       /\ \A q \in Procs : q # p => issued'[q] = issued[q]
       /\ issued' \in [Procs -> Nat]
  BY <1>2, <1>6, <1>9
<1>13. TypeOK'
  <2>1. o.status = "ok" => o.position \in Timestamps \X Counters
    BY <1>7 DEF GeneratorStates
  <2>2. latest' \in [Procs -> {NoPosition} \cup (Timestamps \X Counters)]
    BY <1>6, <1>9, <2>1
  <2>3. QED  BY <1>8, <1>9, <1>12, <2>2 DEF PInv, TypeOK
<1>14. PlaceInv'
  <2>1. latest'[p] # NoPosition =>
          /\ gen'[p].initialized
          /\ latest'[p] = <<gen'[p].last_ms, gen'[p].counter>>
    BY <1>2, <1>3, <1>7, <1>10, <1>12 DEF PInv, PlaceInv, SamePlace
  <2>2. QED  BY <1>10, <1>11, <2>1 DEF PInv, PlaceInv
<1>15. Increases
  <2>1. latest[p] # NoPosition /\ issued'[p] > issued[p] => Before(latest[p], latest'[p])
    <3>1. SUFFICES ASSUME latest[p] # NoPosition, o.status = "ok"
                   PROVE  Before(latest[p], o.position)
      BY <1>2, <1>9, <1>12
    <3>2. latest[p] = <<g.last_ms, g.counter>> /\ g.initialized
      BY <1>2, <1>3, <3>1 DEF PInv, PlaceInv
    <3>3. QED  BY <1>7, <3>1, <3>2 DEF Before
  <2>2. ASSUME NEW q \in Procs, latest[q] # NoPosition, issued'[q] > issued[q]
        PROVE  Before(latest[q], latest'[q])
    <3>1. q = p
      BY <1>9, <1>12, <2>2
    <3>2. QED  BY <2>1, <2>2, <3>1
  <2>3. QED  BY <2>2 DEF Increases
<1>16. IInv => FirstInv' /\ FirstDrawsTwo
  <2>1. SUFFICES ASSUME FirstInv PROVE FirstInv' /\ FirstDrawsTwo
    BY DEF IInv
  <2>2. Owns(p) /\ gen[p].initialized => latest[p] # NoPosition
    BY <1>2, <2>1 DEF FirstInv
  <2>3. o.gen.initialized => latest'[p] # NoPosition
    <3>1. CASE o.status = "ok"
      <4>1. latest'[p] = o.position /\ o.position = <<o.gen.last_ms, o.gen.counter>>
        BY <1>7, <1>12, <3>1
      <4>2. <<o.gen.last_ms, o.gen.counter>> # <<>>
        OBVIOUS
      <4>3. QED  BY <4>1, <4>2 DEF NoPosition
    <3>2. CASE o.status # "ok"
      <4>1. o.gen.initialized <=> g.initialized
        BY <1>7, <3>2 DEF SamePlace
      <4>2. latest'[p] = latest[p]
        BY <1>12, <3>2
      <4>3. QED  BY <1>3, <2>2, <4>1, <4>2
    <3>3. QED  BY <3>1, <3>2
  <2>4. FirstInv'
    BY <1>10, <1>11, <2>1, <2>3 DEF FirstInv
  <2>5. latest[p] = NoPosition /\ latest'[p] # NoPosition => Cardinality(o.words) = 2
    BY <1>3, <1>5, <1>12, <2>2
  <2>6. FirstDrawsTwo
    BY <1>9, <1>11, <2>5 DEF FirstDrawsTwo
  <2>7. QED  BY <2>4, <2>6
<1>17. QED
  BY <1>8, <1>13, <1>14, <1>15, <1>16 DEF StepKeepsTo, PInv, IInv

LEMMA HistoricalStep ==
  ASSUME PInv, NEW p \in Running, GenerateHistorical(p)
  PROVE  StepKeepsTo
<1> USE CoreAssumption, ForkAssumption
<1>1. PICK ts \in Readings, e \in Entropy(fills + 1) :
        Return(p, "historical", GenerateAt(gen[p], ts, pid[p], e))
  BY DEF GenerateHistorical
<1> DEFINE g == EnsureCurrentProcess(gen[p], pid[p])
           o == GenerateAt(gen[p], ts, pid[p], e)
           n == fills + 1
<1>2. /\ gen[p] \in GeneratorStates /\ PoolOK(gen[p]) /\ pid[p] \in Nat
      /\ n \in Nat \ {Unfilled} /\ p \in Procs /\ ts \in Nat /\ gen[p].pool < n
  BY Types
<1>3. /\ g \in GeneratorStates /\ PoolOK(g) /\ g.pool < n
      /\ g.process_id = pid[p]
      /\ EnsureCurrentProcess(g, pid[p]) = g
      /\ Owns(p) => g = gen[p]
      /\ ~Owns(p) => ~g.initialized /\ latest[p] = NoPosition
  BY Found
\* Out of range, nothing happens; in range, the place that was found stays.
<1>4. \/ o.gen = gen[p] /\ o.words = {}
      \/ /\ o.gen.process_id = pid[p] /\ SamePlace(g, o.gen)
         /\ Consumes(g, n, o.words, o.gen)
  <2>1. CASE ts > MaxTimestamp
    BY <2>1 DEF GenerateAt, Failure
  <2>2. CASE ~(ts > MaxTimestamp)
    <3>1. o = GenerateAt(g, ts, pid[p], e)
      BY <1>2, <2>2, EnsureTwice
    <3> HIDE DEF g, o, n
    <3>2. HistoricalOutcome(g, n, ts, pid[p], GenerateAt(g, ts, pid[p], e))
      BY <1>2, <1>3, HistoricalOutcomes DEF n
    <3>3. SamePlace(g, g)
      BY DEF SamePlace
    <3>4. QED  BY <1>3, <3>1, <3>2, <3>3 DEF HistoricalOutcome, SamePlace
  <2>3. QED  BY <2>1, <2>2
<1>5. o.gen \in GeneratorStates
  BY <1>2, HistoricalOutcomes DEF HistoricalOutcome
<1> HIDE DEF g, o, n
<1>6. /\ Return(p, "historical", o) /\ fills < MaxFills
      /\ latest' = latest /\ issued' = issued
  BY <1>1 DEF GenerateHistorical, o
<1>7. /\ gen' \in [Procs -> GeneratorStates]
      /\ fills' \in 0 .. MaxFills
      /\ spent' \in SUBSET ((1 .. MaxFills) \X (0 .. PoolWords - 1))
      /\ PoolInv'
      /\ OwnerInv => OwnerInv' /\ WordsAreFresh
  BY <1>4, <1>5, <1>6, ReturnPools DEF g, n
<1>8. /\ gen' = [gen EXCEPT ![p] = o.gen] /\ phase' = phase /\ pid' = pid
      /\ gen \in [Procs -> GeneratorStates]
  BY <1>6 DEF Return, PInv, TypeOK
<1>9. gen'[p] = o.gen
  BY <1>2, <1>8
<1>10. \A q \in Procs : q # p => gen'[q] = gen[q] /\ (Owns(q)' <=> Owns(q))
  BY <1>8 DEF Owns, Running
<1>11. TypeOK'
  BY <1>6, <1>7, <1>8 DEF PInv, TypeOK
<1>12. Owns(p) => /\ Owns(p)'
                  /\ gen'[p].initialized = gen[p].initialized
                  /\ gen'[p].last_ms = gen[p].last_ms
                  /\ gen'[p].counter = gen[p].counter
  BY <1>3, <1>4, <1>8, <1>9 DEF Owns, Running, SamePlace
<1>13. Owns(p)' /\ gen'[p].initialized => Owns(p)
  BY <1>3, <1>4, <1>8, <1>9 DEF Owns, Running, SamePlace
<1>14. PlaceInv'
  BY <1>2, <1>6, <1>10, <1>12 DEF PInv, PlaceInv
<1>15. FirstInv => FirstInv'
  BY <1>2, <1>6, <1>10, <1>12, <1>13 DEF FirstInv
<1>16. Increases /\ FirstDrawsTwo
  <2>1. issued \in [Procs -> Nat]
    BY DEF PInv, TypeOK
  <2>2. QED  BY <1>6, <2>1 DEF Increases, FirstDrawsTwo
<1>17. QED
  BY <1>7, <1>11, <1>14, <1>15, <1>16 DEF StepKeepsTo, PInv, IInv

\* A fork under a new number leaves the copy with the parent.
LEMMA ForkStep ==
  ASSUME PInv, NEW p \in Running, NEW c \in Procs, Fork(p, c)
  PROVE  /\ PInv' /\ Increases
         /\ ~Recycled /\ IInv => IInv' /\ WordsAreFresh /\ FirstDrawsTwo
<1> USE CoreAssumption, ForkAssumption
<1>1. PICK n \in Pids \ TakenPids :
        /\ Recycled \/ n # gen[p].process_id
        /\ pid' = [pid EXCEPT ![c] = n]
  BY DEF Fork
<1>2. /\ phase[c] = "unborn" /\ phase' = [phase EXCEPT ![c] = "running"]
      /\ gen' = [gen EXCEPT ![c] = gen[p]]
      /\ fills' = fills /\ latest' = latest /\ issued' = issued /\ spent' = spent
      /\ answer'.words = {}
  BY DEF Fork, OsAnswer, Answer, Done
<1>3. p \in Procs /\ p # c /\ TypeOK
  BY <1>2 DEF Running, PInv
<1>4. \A q \in Procs : q # c => /\ gen'[q] = gen[q]
                                /\ Owns(q)' <=> Owns(q)
  BY <1>1, <1>2, <1>3 DEF TypeOK, Owns, Running
<1>5. gen'[c] = gen[p] /\ pid'[c] = n /\ ~Owns(c)
  BY <1>1, <1>2, <1>3 DEF TypeOK, Owns, Running
<1>6. TypeOK'
  <2>1. /\ phase' \in [Procs -> {"unborn", "running", "gone"}]
        /\ pid' \in [Procs -> Pids \cup {NoProcess}]
        /\ gen' \in [Procs -> GeneratorStates]
    BY <1>1, <1>2, <1>3 DEF TypeOK
  <2>2. QED  BY <1>2, <1>3, <2>1 DEF TypeOK
<1>7. PoolInv'
  BY <1>2, <1>3, <1>4, <1>5 DEF PInv, PoolInv
<1>8. latest[c] = NoPosition
  BY <1>5 DEF PInv, PlaceInv
<1>9. PlaceInv'
  BY <1>2, <1>4, <1>8 DEF PInv, PlaceInv
<1>10. Increases /\ FirstDrawsTwo /\ WordsAreFresh
  BY <1>2, <1>3 DEF TypeOK, Increases, FirstDrawsTwo, WordsAreFresh
<1>11. ASSUME ~Recycled, IInv
       PROVE  FirstInv' /\ OwnerInv'
  <2>1. ~Owns(c)'
    BY <1>1, <1>5, <1>11 DEF Owns
  <2>2. FirstInv'
    BY <1>2, <1>4, <1>11, <2>1 DEF IInv, FirstInv
  <2>3. OwnerInv'
    BY <1>2, <1>4, <1>11, <2>1 DEF IInv, OwnerInv
  <2>4. QED  BY <2>2, <2>3
<1>12. QED  BY <1>6, <1>7, <1>9, <1>10, <1>11 DEF PInv, IInv

LEMMA ExitStep ==
  ASSUME PInv, NEW p \in Running, Exit(p)
  PROVE  StepKeepsTo
<1> USE CoreAssumption, ForkAssumption
<1>1. /\ phase' = [phase EXCEPT ![p] = "gone"]
      /\ pid' = [pid EXCEPT ![p] = NoProcess]
      /\ gen' = [gen EXCEPT ![p] = InitialGenerator]
      /\ latest' = [latest EXCEPT ![p] = NoPosition]
      /\ issued' = [issued EXCEPT ![p] = 0]
      /\ fills' = fills /\ spent' = spent /\ answer'.words = {}
  BY DEF Exit, OsAnswer, Answer, Done
<1>2. p \in Procs /\ TypeOK
  BY DEF Running, PInv
<1>3. /\ InitialGenerator \in GeneratorStates
      /\ PoolOK(InitialGenerator) /\ InitialGenerator.pool = 0
  BY DEF InitialGenerator, GeneratorStates, Timestamps, Counters, Unfilled,
         NoProcess, PoolOK
<1>4. \A q \in Procs : q # p => /\ gen'[q] = gen[q] /\ latest'[q] = latest[q]
                                /\ Owns(q)' <=> Owns(q)
  BY <1>1, <1>2 DEF TypeOK, Owns, Running
<1>5. /\ ~Owns(p)' /\ p \notin Running'
      /\ gen'[p] = InitialGenerator /\ latest'[p] = NoPosition
  BY <1>1, <1>2 DEF TypeOK, Owns, Running
<1>6. TypeOK'
  BY <1>1, <1>2, <1>3 DEF TypeOK
<1>7. PoolInv'
  BY <1>1, <1>2, <1>3, <1>4, <1>5 DEF PInv, PoolInv, TypeOK
<1>8. PlaceInv'
  BY <1>4, <1>5 DEF PInv, PlaceInv
<1>9. Increases /\ FirstDrawsTwo /\ WordsAreFresh
  <2>1. \A q \in Procs : ~(issued'[q] > issued[q])
    BY <1>1, <1>2 DEF TypeOK
  <2>2. QED  BY <1>1, <1>4, <1>5, <2>1 DEF Increases, FirstDrawsTwo, WordsAreFresh
<1>10. FirstInv => FirstInv'
  BY <1>4, <1>5 DEF FirstInv
<1>11. OwnerInv => OwnerInv'
  BY <1>1, <1>4, <1>5 DEF OwnerInv
<1>12. QED
  BY <1>6, <1>7, <1>8, <1>9, <1>10, <1>11 DEF StepKeepsTo, PInv, IInv

LEMMA Step ==
  ASSUME PInv, [Next]_vars
  PROVE  /\ PInv' /\ (Increases \/ UNCHANGED vars)
         /\ ~Recycled /\ IInv =>
              IInv' /\ ((WordsAreFresh /\ FirstDrawsTwo) \/ UNCHANGED vars)
<1>1. CASE UNCHANGED vars
  BY <1>1 DEF vars, PInv, IInv, TypeOK, PlaceInv, PoolInv, FirstInv, OwnerInv,
              Owns, Running
<1>2. CASE Next
  <2>1. PICK p \in Running :
          \/ GenerateLive(p) \/ GenerateHistorical(p)
          \/ (\E c \in Procs : Fork(p, c)) \/ Exit(p)
    BY <1>2 DEF Next
  <2>2. CASE GenerateLive(p)
    BY <2>2, LiveStep DEF StepKeepsTo
  <2>3. CASE GenerateHistorical(p)
    BY <2>3, HistoricalStep DEF StepKeepsTo
  <2>4. CASE \E c \in Procs : Fork(p, c)
    BY <2>4, ForkStep
  <2>5. CASE Exit(p)
    BY <2>5, ExitStep DEF StepKeepsTo
  <2>6. QED  BY <2>1, <2>2, <2>3, <2>4, <2>5
<1>3. QED  BY <1>1, <1>2

LEMMA PInvariance == Spec => []PInv
<1>1. PInv /\ [Next]_vars => PInv'
  BY Step
<1>2. QED  BY <1>1, InitInv, PTL DEF Spec

\* The variables have their types, whatever numbers the processes are given.
THEOREM TypeCorrectness == Spec => []TypeOK
<1>1. PInv => TypeOK
  BY DEF PInv
<1>2. QED  BY <1>1, PInvariance, PTL

\* Every identifier that a process gets after its first is greater than the one
\* it got before, none is equal to it, also where a child is given the number
\* its copy is stamped with (ensure_current_process).
THEOREM ProcessesIncrease == Spec => EachProcessIncreases
<1>1. PInv /\ [Next]_vars =>
        [\A p \in Procs :
           latest[p] # NoPosition /\ issued'[p] > issued[p] =>
             Before(latest[p], latest'[p])]_vars
  BY Step DEF Increases
<1>2. QED  BY <1>1, PInvariance, PTL DEF Spec, EachProcessIncreases

\* As long as no child is given the number its copy is stamped with, every
\* pool and every place has one owner.
THEOREM OneOwner == ~Recycled => (Spec => []IInv)
<1> SUFFICES ASSUME ~Recycled PROVE Spec => []IInv
  OBVIOUS
<1>1. Init => IInv
  BY InitInv
<1>2. IInv /\ [Next]_vars => IInv'
  BY Step DEF IInv
<1>3. QED  BY <1>1, <1>2, PTL DEF Spec

\* No word of entropy goes into two identifiers, of one process or of two,
\* although every fork copies the pool (reset_process_state).
THEOREM EntropyIsNotShared == ~Recycled => (Spec => NoSharedEntropy)
<1> SUFFICES ASSUME ~Recycled PROVE Spec => NoSharedEntropy
  OBVIOUS
<1>1. IInv /\ [Next]_vars => [answer'.words \cap spent = {}]_vars
  BY Step DEF IInv, WordsAreFresh
<1>2. Spec => []IInv
  BY OneOwner
<1>3. QED  BY <1>1, <1>2, PTL DEF Spec, NoSharedEntropy

\* The first live identifier of a process starts from a counter drawn there:
\* it takes two words, the seed of the counter and the tail.
THEOREM FirstIdIsFresh == ~Recycled => (Spec => FirstIdStartsAfresh)
<1> SUFFICES ASSUME ~Recycled PROVE Spec => FirstIdStartsAfresh
  OBVIOUS
<1>1. IInv /\ [Next]_vars =>
        [\A p \in Procs :
           latest[p] = NoPosition /\ latest'[p] # NoPosition =>
             Cardinality(answer'.words) = 2]_vars
  BY Step DEF IInv, FirstDrawsTwo
<1>2. Spec => []IInv
  BY OneOwner
<1>3. QED  BY <1>1, <1>2, PTL DEF Spec, FirstIdStartsAfresh
=============================================================================
