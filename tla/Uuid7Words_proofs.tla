------------------------- MODULE Uuid7Words_proofs --------------------------
(***************************************************************************)
(* The words an identifier is made of: where its random ones come from,    *)
(* and where the bits of all of them go.                                   *)
(*                                                                         *)
(* Part 1.  The loops of secure_random_u64 amount to one step of           *)
(* AtomicEntropy, for every pool size and word size, however short the     *)
(* reads are and wherever they fail.                                       *)
(*                                                                         *)
(* Part 2.  Uuid7Layout, for every timestamp, counter and random word: a   *)
(* form is a number cut into pieces, so that reading the pieces together   *)
(* gives the number, and comparing piece by piece compares the numbers.    *)
(***************************************************************************)
EXTENDS Uuid7Entropy, Uuid7Layout, SequenceTheorems, WellFoundedInduction, TLAPS

\* The byte offset of the word k.
ByteAt(k) == k * WordBytes

WordOffsets == {ByteAt(k) : k \in 0 .. PoolWords}

(***************************************************************************)
(* Bytes and words.                                                        *)
(***************************************************************************)
LEMMA WordsAndBytes ==
  /\ PoolBytes \in Nat /\ WordBytes \in 1 .. PoolBytes /\ PoolBytes = ByteAt(PoolWords)
  /\ \A k \in 0 .. PoolWords :
       /\ ByteAt(k) \in 0 .. PoolBytes
       /\ ByteAt(k) \div WordBytes = k
       /\ k < PoolWords => ByteAt(k) + WordBytes = ByteAt(k + 1) /\ ByteAt(k) + WordBytes <= PoolBytes
       /\ ByteAt(k) + WordBytes > PoolBytes => k = PoolWords
  /\ ByteAt(0) = 0
<1>1. WordBytes \in Nat /\ WordBytes > 0 /\ PoolWords \in Nat /\ PoolWords >= 2
  BY EntropyAssumption
<1>2. ASSUME NEW m \in Nat, NEW n \in Nat, m <= n
      PROVE  ByteAt(m) \in Nat /\ ByteAt(m) <= ByteAt(n)
  <2>1. /\ m * WordBytes \in Nat /\ (n - m) * WordBytes \in Nat
        /\ n * WordBytes = m * WordBytes + (n - m) * WordBytes
    BY <1>1, <1>2
  <2>2. QED  BY <2>1 DEF ByteAt
<1>3. ASSUME NEW k \in Nat
      PROVE  ByteAt(k) + WordBytes = ByteAt(k + 1)
  BY <1>1 DEF ByteAt
<1>4. ByteAt(1) = WordBytes /\ ByteAt(0) = 0
  BY <1>1 DEF ByteAt
<1>5. ASSUME NEW k \in Nat
      PROVE  ByteAt(k) \div WordBytes = k
  BY <1>1 DEF ByteAt
<1>6. PoolBytes = ByteAt(PoolWords) /\ PoolBytes \in Nat
  BY <1>1 DEF ByteAt, PoolBytes
<1>7. WordBytes \in 1 .. PoolBytes
  BY <1>1, <1>2, <1>4, <1>6
<1>8. ASSUME NEW k \in 0 .. PoolWords
      PROVE  /\ ByteAt(k) \in 0 .. PoolBytes
             /\ ByteAt(k) \div WordBytes = k
             /\ k < PoolWords => ByteAt(k) + WordBytes = ByteAt(k + 1) /\ ByteAt(k) + WordBytes <= PoolBytes
             /\ ByteAt(k) + WordBytes > PoolBytes => k = PoolWords
  <2>1. ByteAt(k) \in 0 .. PoolBytes
    BY <1>1, <1>2, <1>6
  <2>2. k < PoolWords => ByteAt(k) + WordBytes = ByteAt(k + 1) /\ ByteAt(k + 1) <= PoolBytes
    BY SMTT(20), <1>1, <1>2, <1>3, <1>6
  <2>3. k \in Nat /\ k <= PoolWords
    OBVIOUS
  <2>4. ByteAt(k) + WordBytes > PoolBytes => k = PoolWords
    BY <1>1, <1>6, <2>1, <2>2, <2>3
  <2>5. QED  BY <1>5, <2>1, <2>2, <2>3, <2>4
<1>9. QED  BY <1>4, <1>6, <1>7, <1>8

(***************************************************************************)
(* The invariant.                                                          *)
(***************************************************************************)
Whole(n) == \A b \in 0 .. PoolBytes - 1 : pool[b] = n

\* A pool that no complete refill fills has been read to its end.
LeftInv ==
  /\ left.open \in BOOLEAN
  /\ left.begun \in 0 .. MaxFills /\ left.number \in 0 .. left.begun
  /\ left.offset \in WordOffsets
  /\ left.number = 0 => left.offset = PoolBytes

\* Nothing has been changed since the last call.
AsLeft ==
  /\ fills = left.begun /\ entropy_offset = left.offset /\ urandom_open = left.open
  /\ left.number # 0 => Whole(left.number)

Refilled ==
  /\ fills = left.begun + 1 /\ left.offset = PoolBytes
  /\ entropy_offset = 0 /\ urandom_open = TRUE /\ Whole(fills)

\* A refill is under way only when the last word has been read.
Refilling ==
  /\ fills = left.begun + 1 /\ entropy_offset = left.offset
  /\ left.offset = PoolBytes

Opening ==
  /\ Refilling /\ filled = 0 /\ urandom_open = FALSE /\ left.open = FALSE
  /\ left.number # 0 => Whole(left.number)

\* The bytes that have been read are of this refill.
Reading ==
  /\ Refilling /\ urandom_open = TRUE
  /\ \A b \in 0 .. PoolBytes - 1 : b < filled => pool[b] = fills

StageInv ==
  /\ at = "returned" => AsLeft
  /\ at = "calling" =>
       \/ AsLeft /\ (entropy_offset + WordBytes > PoolBytes => fills < MaxFills)
       \/ Refilled
  /\ at = "opening" => Opening
  /\ at = "reading" => Reading

IInv == TypeOK /\ LeftInv /\ StageInv

(***************************************************************************)
(* AtomicEntropy, on the part of a generator that a read concerns.         *)
(***************************************************************************)
PoolOnly(number, words, open) ==
  [last_ms |-> 0, counter |-> 0, initialized |-> FALSE, process_id |-> 0,
   pool |-> number, entropy_offset |-> words, fd_open |-> open]

Answer(refill, n) == [refill |-> refill, number |-> n, seed |-> 0]

LEMMA AtomicAnswers ==
  ASSUME NEW n, NEW refill \in {"filled", "open_fails", "read_fails"}
  PROVE  Answer(refill, n) \in Atomic!Entropy(n)
BY DEF Answer, Atomic!Entropy, Atomic!RefillResults, Atomic!Counters

\* A record is updated one field at a time: that is as much as the provers see
\* through at once.
PoolRecords ==
  [last_ms : {0}, counter : {0}, initialized : {FALSE}, process_id : {0},
   pool : Nat, entropy_offset : Nat, fd_open : BOOLEAN]

LEMMA PoolRecord ==
  ASSUME NEW number \in Nat, NEW words \in Nat, NEW open \in BOOLEAN
  PROVE  LET g == PoolOnly(number, words, open)
         IN  /\ g \in PoolRecords
             /\ g.pool = number /\ g.entropy_offset = words /\ g.fd_open = open
BY DEF PoolOnly, PoolRecords

LEMMA OneFurther ==
  ASSUME NEW number \in Nat, NEW words \in Nat, NEW open \in BOOLEAN
  PROVE  [PoolOnly(number, words, open) EXCEPT !.entropy_offset = @ + 1] =
           PoolOnly(number, words + 1, open)
<1> DEFINE g == PoolOnly(number, words, open)
           next == words + 1
           a == [g EXCEPT !.entropy_offset = next]
<1>1. g \in PoolRecords /\ g.pool = number /\ g.entropy_offset = words /\ g.fd_open = open
  BY PoolRecord
<1>2. next \in Nat
  OBVIOUS
<1>3. [g EXCEPT !.entropy_offset = @ + 1] = a
  BY <1>1
<1> HIDE DEF g, next
<1>4. a \in PoolRecords /\ a.pool = number /\ a.entropy_offset = next /\ a.fd_open = open
  BY <1>1, <1>2 DEF PoolRecords
<1> HIDE DEF a
<1>5. a = PoolOnly(number, next, open)
  BY <1>4 DEF PoolRecords, PoolOnly
<1>6. QED  BY <1>3, <1>5 DEF g, next

\* A word is left in the pool.
LEMMA DrawTakes ==
  ASSUME NEW n \in Nat, NEW number \in Nat, NEW open \in BOOLEAN,
         NEW k \in 0 .. PoolWords - 1
  PROVE  /\ Atomic!Draw(PoolOnly(number, k, open), Answer("filled", n)) =
              [ok |-> TRUE, gen |-> PoolOnly(number, k + 1, open), word |-> <<number, k>>]
         /\ ~ Atomic!NeedsRefill(PoolOnly(number, k, open))
<1>1. k \in Nat /\ ~ (k + 1 > PoolWords)
  BY EntropyAssumption
<1>2. ~ Atomic!NeedsRefill(PoolOnly(number, k, open))
  BY <1>1 DEF Atomic!NeedsRefill, PoolOnly
<1>3. Atomic!Draw(PoolOnly(number, k, open), Answer("filled", n)) =
        [ok |-> TRUE, gen |-> [PoolOnly(number, k, open) EXCEPT !.entropy_offset = @ + 1],
         word |-> Atomic!Word(PoolOnly(number, k, open))]
  BY <1>2 DEF Atomic!Draw
<1>4. Atomic!Word(PoolOnly(number, k, open)) = <<number, k>>
  BY DEF Atomic!Word, PoolOnly
<1>5. [PoolOnly(number, k, open) EXCEPT !.entropy_offset = @ + 1] = PoolOnly(number, k + 1, open)
  BY <1>1, OneFurther
<1>6. QED  BY <1>2, <1>3, <1>4, <1>5

\* None is left, and the refill succeeds.
LEMMA DrawRefills ==
  ASSUME NEW n \in Nat, NEW number \in Nat, NEW open \in BOOLEAN
  PROVE  /\ Atomic!Draw(PoolOnly(number, PoolWords, open), Answer("filled", n)) =
              [ok |-> TRUE, gen |-> PoolOnly(n, 1, TRUE), word |-> <<n, 0>>]
         /\ Atomic!NeedsRefill(PoolOnly(number, PoolWords, open))
<1> DEFINE g == PoolOnly(number, PoolWords, open)
           e == Answer("filled", n)
<1>1. PoolWords \in Nat /\ PoolWords + 1 > PoolWords
  BY EntropyAssumption
<1>2. Atomic!NeedsRefill(g)
  BY <1>1 DEF Atomic!NeedsRefill, PoolOnly
<1>3. e.refill = "filled" /\ e.number = n
  BY DEF Answer
<1>4. Atomic!Refilled(g, n) = PoolOnly(n, 0, TRUE)
  <2> DEFINE a == [g EXCEPT !.pool = n]
             b == [a EXCEPT !.entropy_offset = 0]
             c == [b EXCEPT !.fd_open = TRUE]
  <2>1. g \in PoolRecords
    BY <1>1, PoolRecord
  <2> HIDE DEF g
  <2>2. a \in PoolRecords /\ a.pool = n
    BY <2>1 DEF PoolRecords
  <2> HIDE DEF a
  <2>3. b \in PoolRecords /\ b.pool = n /\ b.entropy_offset = 0
    BY <2>2 DEF PoolRecords
  <2> HIDE DEF b
  <2>4. c \in PoolRecords /\ c.pool = n /\ c.entropy_offset = 0 /\ c.fd_open = TRUE
    BY <2>3 DEF PoolRecords
  <2> HIDE DEF c
  <2>5. c = PoolOnly(n, 0, TRUE)
    BY <2>4 DEF PoolRecords, PoolOnly
  <2>6. QED  BY <2>5 DEF a, b, c, Atomic!Refilled
<1>5. Atomic!Word(PoolOnly(n, 0, TRUE)) = <<n, 0>>
  BY DEF Atomic!Word, PoolOnly
<1>6. [PoolOnly(n, 0, TRUE) EXCEPT !.entropy_offset = @ + 1] = PoolOnly(n, 1, TRUE)
  <2>1. [PoolOnly(n, 0, TRUE) EXCEPT !.entropy_offset = @ + 1] = PoolOnly(n, 0 + 1, TRUE)
    BY OneFurther
  <2>2. QED  BY <2>1
<1> HIDE DEF g, e
<1>7. Atomic!Draw(g, e) = [ok |-> TRUE, gen |-> PoolOnly(n, 1, TRUE), word |-> <<n, 0>>]
  BY <1>2, <1>3, <1>4, <1>5, <1>6 DEF Atomic!Draw
<1>8. QED  BY <1>2, <1>7 DEF g, e

\* None is left, and the refill fails.
LEMMA DrawFails ==
  ASSUME NEW n \in Nat, NEW number \in Nat, NEW open \in BOOLEAN,
         NEW refill \in {"open_fails", "read_fails"}, refill = "open_fails" => ~ open
  PROVE  LET d == Atomic!Draw(PoolOnly(number, PoolWords, open), Answer(refill, n))
         IN  /\ d.ok = FALSE
             /\ d.gen = PoolOnly(IF refill = "open_fails" THEN number ELSE 0, PoolWords,
                                 refill = "read_fails")
<1> DEFINE g == PoolOnly(number, PoolWords, open)
           e == Answer(refill, n)
<1>1. Atomic!NeedsRefill(g) /\ PoolWords \in Nat
  BY DrawRefills, EntropyAssumption
<1>2. e.refill = refill /\ e.refill # "filled"
  BY DEF Answer
<1>3. g \in PoolRecords /\ g.pool = number /\ g.entropy_offset = PoolWords /\ g.fd_open = open
  BY <1>1, PoolRecord
<1> HIDE DEF g, e
<1>4. /\ Atomic!Draw(g, e).ok = FALSE
      /\ Atomic!Draw(g, e).gen = Atomic!RefillFailed(g, refill)
  BY <1>1, <1>2 DEF Atomic!Draw
<1>5. CASE refill = "open_fails"
  <2>1. Atomic!RefillFailed(g, refill) = g
    BY <1>3, <1>5 DEF Atomic!RefillFailed
  <2>2. g = PoolOnly(number, PoolWords, FALSE)
    BY <1>5 DEF g
  <2>3. (refill = "read_fails") = FALSE
    BY <1>5
  <2>4. QED  BY <1>4, <1>5, <2>1, <2>2, <2>3 DEF g, e
<1>6. CASE refill = "read_fails"
  <2> DEFINE a == [g EXCEPT !.pool = 0]
             b == [a EXCEPT !.fd_open = TRUE]
  <2>1. Atomic!RefillFailed(g, refill) = b
    BY <1>6 DEF Atomic!RefillFailed, Atomic!Unfilled
  <2>2. a \in PoolRecords /\ a.pool = 0 /\ a.entropy_offset = PoolWords
    BY <1>3 DEF PoolRecords
  <2> HIDE DEF a
  <2>3. b \in PoolRecords /\ b.pool = 0 /\ b.entropy_offset = PoolWords /\ b.fd_open = TRUE
    BY <2>2 DEF PoolRecords
  <2> HIDE DEF b
  <2>4. b = PoolOnly(0, PoolWords, TRUE)
    BY <2>3 DEF PoolRecords, PoolOnly
  <2>5. (refill = "read_fails") = TRUE
    BY <1>6
  <2>6. QED  BY <1>4, <1>6, <2>1, <2>4, <2>5 DEF g, e
<1>7. QED  BY <1>5, <1>6

(***************************************************************************)
(* The steps.                                                              *)
(***************************************************************************)
AbsGen == PoolOnly(left.number, left.offset \div WordBytes, left.open)
AbsDrawn == [ok |-> result.ok, word |-> ReturnedWord]

\* A step is one read of AtomicEntropy, or nothing of it can be seen.
Seen == [Atomic!DrawWord]_(Atomic!absVars)

LEMMA Unseen ==
  ASSUME UNCHANGED <<result, left>>
  PROVE  Seen
BY DEF Seen, Atomic!absVars, ReturnedWord

LEMMA Reads ==
  ASSUME NEW refill \in {"filled", "open_fails", "read_fails"},
         LET d == Atomic!Draw(AbsGen, Answer(refill, left.begun + 1))
         IN  /\ AbsGen' = d.gen
             /\ AbsDrawn' = IF d.ok THEN [ok |-> TRUE, word |-> d.word] ELSE Atomic!Nothing,
         left.begun' = IF Atomic!NeedsRefill(AbsGen) THEN left.begun + 1 ELSE left.begun
  PROVE  Seen
<1>1. Answer(refill, left.begun + 1) \in Atomic!Entropy(left.begun + 1)
  BY AtomicAnswers
<1>2. Atomic!DrawWord
  BY <1>1 DEF Atomic!DrawWord, AbsGen, AbsDrawn, PoolOnly
<1>3. QED  BY <1>2 DEF Seen

LEMMA LeftFields ==
  ASSUME NEW number, NEW offset, NEW open, NEW begun
  PROVE  LET l == Left(number, offset, open, begun)
         IN  l.number = number /\ l.offset = offset /\ l.open = open /\ l.begun = begun
BY DEF Left

LEMMA Offsets ==
  /\ WordOffsets \subseteq 0 .. PoolBytes
  /\ 0 \in WordOffsets /\ PoolBytes \in WordOffsets
  /\ PoolBytes \div WordBytes = PoolWords
  /\ PoolWords \in Nat /\ 0 \in 0 .. PoolWords /\ PoolWords \in 0 .. PoolWords
<1>1. PoolWords \in Nat /\ 0 \in 0 .. PoolWords /\ PoolWords \in 0 .. PoolWords
  BY EntropyAssumption
<1>2. ByteAt(0) \in WordOffsets /\ ByteAt(PoolWords) \in WordOffsets
  BY <1>1 DEF WordOffsets
<1>3. \A w \in WordOffsets : w \in 0 .. PoolBytes
  BY WordsAndBytes DEF WordOffsets
<1>4. QED  BY <1>1, <1>2, <1>3, WordsAndBytes

LEMMA Sizes ==
  /\ PoolBytes \in Nat /\ WordBytes \in 1 .. PoolBytes
  /\ MaxFills \in Nat /\ MaxSignals \in Nat
BY WordsAndBytes, EntropyAssumption

LEMMA InitInv == Init => IInv /\ Atomic!Init
<1> SUFFICES ASSUME Init PROVE IInv /\ Atomic!Init
  OBVIOUS
<1>1. /\ left.number = 0 /\ left.offset = PoolBytes /\ left.open = FALSE /\ left.begun = 0
      /\ MaxFills \in Nat /\ MaxSignals \in Nat /\ PoolBytes \in Nat
  <2>1. left = Left(0, PoolBytes, FALSE, 0)
    BY DEF Init
  <2>2. /\ left.number = 0 /\ left.offset = PoolBytes
        /\ left.open = FALSE /\ left.begun = 0
    BY <2>1 DEF Left
  <2>3. QED  BY <2>2, Sizes
<1>2. TypeOK
  <2>1. /\ 0 \in 0 .. PoolBytes /\ PoolBytes \in 0 .. PoolBytes
        /\ 0 \in 0 .. MaxFills /\ MaxSignals \in 0 .. MaxSignals
    BY <1>1
  <2>2. pool \in [0 .. PoolBytes - 1 -> 0 .. MaxFills]
    BY <2>1 DEF Init
  <2>3. QED  BY <2>1, <2>2 DEF Init, TypeOK
<1>3. LeftInv
  <2>1. 0 \in 0 .. MaxFills /\ 0 \in 0 .. 0 /\ FALSE \in BOOLEAN
    BY <1>1
  <2>2. PoolBytes \in WordOffsets
    BY Offsets
  <2>3. QED  BY <1>1, <2>1, <2>2 DEF LeftInv
<1>4. StageInv
  <2>1. at = "returned" /\ fills = 0 /\ entropy_offset = PoolBytes /\ urandom_open = FALSE
    BY DEF Init
  <2>2. AsLeft
    BY <1>1, <2>1 DEF AsLeft
  <2>3. QED  BY <2>1, <2>2 DEF StageInv
<1>5. /\ result.ok = FALSE /\ ReturnedWord = <<0, 0>>
  BY DEF Init, Failed, ReturnedWord
<1>6. Atomic!Init
  BY <1>1, <1>5, Offsets
     DEF Atomic!Init, Atomic!InitialGenerator, Atomic!NoProcess, Atomic!Unfilled,
         Atomic!Nothing
<1>7. QED  BY <1>2, <1>3, <1>4, <1>6 DEF IInv

LEMMA QuietStep ==
  ASSUME IInv, Call \/ BeginRefill \/ Interrupted \/ OpenSucceeds
  PROVE  IInv' /\ Seen
<1>1. /\ fills \in Nat /\ left.begun \in Nat /\ MaxFills \in Nat /\ PoolBytes \in Nat
      /\ WordBytes \in 1 .. PoolBytes
      /\ signals \in 0 .. MaxSignals /\ MaxSignals \in Nat /\ entropy_offset \in Nat
  BY Sizes DEF IInv, TypeOK, LeftInv
<1>2. Seen
  BY Unseen DEF Call, BeginRefill, Interrupted, OpenSucceeds
<1>3. UNCHANGED <<pool, left, entropy_offset>> /\ LeftInv'
  BY DEF Call, BeginRefill, Interrupted, OpenSucceeds, IInv, LeftInv
<1>4. CASE Call
  <2>1. TypeOK'
    BY <1>3, <1>4 DEF Call, IInv, TypeOK
  <2>2. StageInv'
    BY <1>3, <1>4 DEF Call, IInv, StageInv, AsLeft, Whole
  <2>3. QED  BY <1>2, <1>3, <2>1, <2>2 DEF IInv
<1>5. CASE BeginRefill
  <2>1. AsLeft /\ fills < MaxFills /\ left.offset = PoolBytes
    <3>1. AsLeft /\ fills < MaxFills
      BY <1>1, <1>5 DEF BeginRefill, IInv, StageInv, Refilled
    <3>2. PICK k \in 0 .. PoolWords : left.offset = ByteAt(k)
      BY DEF IInv, LeftInv, WordOffsets
    <3>3. k = PoolWords
      BY <1>5, <3>1, <3>2, WordsAndBytes DEF BeginRefill, AsLeft
    <3>4. QED  BY <3>1, <3>2, <3>3, WordsAndBytes
  <2>2. TypeOK'
    BY <1>1, <1>3, <1>5, <2>1 DEF BeginRefill, IInv, TypeOK
  <2>3. StageInv'
    <3>1. CASE urandom_open
      BY <1>1, <1>3, <1>5, <2>1, <3>1
         DEF BeginRefill, IInv, TypeOK, StageInv, AsLeft, Reading, Refilling
    <3>2. CASE ~ urandom_open
      BY <1>1, <1>3, <1>5, <2>1, <3>2
         DEF BeginRefill, IInv, TypeOK, LeftInv, StageInv, AsLeft, Opening, Refilling, Whole
    <3>3. QED  BY <3>1, <3>2
  <2>4. QED  BY <1>2, <1>3, <2>2, <2>3 DEF IInv
<1>6. CASE Interrupted
  <2>1. TypeOK'
    BY <1>1, <1>3, <1>6 DEF Interrupted, IInv, TypeOK
  <2>2. StageInv'
    BY <1>3, <1>6 DEF Interrupted, IInv, StageInv, Opening, Reading, Refilling, Whole
  <2>3. QED  BY <1>2, <1>3, <2>1, <2>2 DEF IInv
<1>7. CASE OpenSucceeds
  <2>1. TypeOK'
    BY <1>3, <1>7 DEF OpenSucceeds, IInv, TypeOK
  <2>2. StageInv'
    BY <1>1, <1>3, <1>7 DEF OpenSucceeds, IInv, StageInv, Opening, Reading, Refilling
  <2>3. QED  BY <1>2, <1>3, <2>1, <2>2 DEF IInv
<1>8. QED  BY <1>4, <1>5, <1>6, <1>7

LEMMA ReadStep ==
  ASSUME IInv, ReadSome \/ RefillDone
  PROVE  IInv' /\ Seen
<1>1. /\ fills \in 0 .. MaxFills /\ left.begun \in Nat /\ MaxFills \in Nat /\ PoolBytes \in Nat
      /\ filled \in 0 .. PoolBytes /\ pool \in [0 .. PoolBytes - 1 -> 0 .. MaxFills]
      /\ WordBytes \in 1 .. PoolBytes
  BY Sizes DEF IInv, TypeOK, LeftInv
<1>2. Seen
  BY Unseen DEF ReadSome, RefillDone
<1>3. UNCHANGED <<left, fills>> /\ LeftInv'
  BY DEF ReadSome, RefillDone, IInv, LeftInv
<1>4. at = "reading" /\ Reading
  BY DEF ReadSome, RefillDone, IInv, StageInv
<1>5. CASE ReadSome
  <2>1. PICK n \in 1 .. PoolBytes - filled : ReadInto(n) /\ filled' = filled + n
    BY <1>5 DEF ReadSome
  <2>2. filled' \in 0 .. PoolBytes
    BY <1>1, <2>1
  <2>3. \A b \in 0 .. PoolBytes - 1 :
          pool'[b] = IF filled <= b /\ b < filled + n THEN fills ELSE pool[b]
    BY <1>1, <2>1 DEF ReadInto
  <2>4. pool' \in [0 .. PoolBytes - 1 -> 0 .. MaxFills]
    BY <1>1, <2>1 DEF ReadInto
  <2>5. TypeOK'
    BY <1>3, <1>5, <2>2, <2>4 DEF ReadSome, IInv, TypeOK
  <2>6. \A b \in 0 .. PoolBytes - 1 : b < filled' => pool'[b] = fills
    BY <1>1, <1>4, <2>1, <2>3 DEF Reading
  <2>7. StageInv'
    BY <1>3, <1>4, <1>5, <2>6 DEF ReadSome, StageInv, Reading, Refilling
  <2>8. QED  BY <1>2, <1>3, <2>5, <2>7 DEF IInv
<1>6. CASE RefillDone
  <2>1. TypeOK'
    BY <1>1, <1>6 DEF RefillDone, IInv, TypeOK
  <2>2. Whole(fills)
    BY <1>1, <1>4, <1>6 DEF RefillDone, Reading, Whole
  <2>3. StageInv'
    BY <1>3, <1>4, <1>6, <2>2 DEF RefillDone, StageInv, Refilled, Reading, Refilling, Whole
  <2>4. QED  BY <1>2, <1>3, <2>1, <2>3 DEF IInv
<1>7. QED  BY <1>5, <1>6

\* A call fails: what the reads left in the pool cannot be read.
LEMMA FailStep ==
  ASSUME IInv, OpenFails \/ ReadFails
  PROVE  IInv' /\ Seen
<1>1. PICK open \in BOOLEAN :
        /\ Fail(open)
        /\ open <=> at = "reading"
        /\ ~ open <=> at = "opening"
  BY DEF OpenFails, ReadFails
<1>2. /\ fills = left.begun + 1 /\ entropy_offset = left.offset /\ left.offset = PoolBytes
      /\ urandom_open = open
      /\ ~ open => left.open = FALSE /\ (left.number # 0 => Whole(left.number))
  BY <1>1 DEF IInv, StageInv, Opening, Reading, Refilling
<1>3. /\ left.number \in Nat /\ left.begun \in Nat /\ left.open \in BOOLEAN
      /\ fills \in 0 .. MaxFills /\ MaxFills \in Nat /\ left.number <= left.begun
  BY EntropyAssumption DEF IInv, LeftInv, TypeOK
<1> DEFINE number == IF open THEN 0 ELSE left.number
<1>4. /\ left'.number = number /\ left'.offset = PoolBytes
      /\ left'.open = open /\ left'.begun = fills
  BY <1>1, <1>2, LeftFields DEF Fail
<1>5. TypeOK'
  BY <1>1 DEF Fail, IInv, TypeOK
<1>6. LeftInv'
  BY <1>2, <1>3, <1>4, Offsets, WordsAndBytes DEF LeftInv, WordOffsets
<1>7. StageInv'
  BY <1>1, <1>2, <1>4 DEF Fail, StageInv, AsLeft, Whole
<1>8. Seen
  <2>1. AbsGen = PoolOnly(left.number, PoolWords, left.open)
    BY <1>2, Offsets DEF AbsGen
  <2>2. AbsGen' = PoolOnly(number, PoolWords, open)
    BY <1>4, Offsets DEF AbsGen, WordOffsets, PoolBytes
  <2>3. AbsDrawn' = Atomic!Nothing
    <3>1. result' = Failed
      BY <1>1 DEF Fail
    <3>2. ReturnedWord' = <<0, 0>> /\ result'.ok = FALSE
      BY <3>1 DEF ReturnedWord, Failed
    <3>3. QED  BY <3>2 DEF AbsDrawn, Atomic!Nothing, Atomic!Unfilled
  <2>4. 0 \in 0 .. PoolWords - 1 /\ left.begun + 1 \in Nat
    BY <1>3, EntropyAssumption
  <2>5. Atomic!NeedsRefill(AbsGen) /\ left'.begun = left.begun + 1
    BY <1>2, <1>3, <1>4, <2>1, <2>4, DrawRefills
  <2>6. CASE open
    <3>1. LET d == Atomic!Draw(PoolOnly(left.number, PoolWords, left.open),
                               Answer("read_fails", left.begun + 1))
          IN  d.ok = FALSE /\ d.gen = PoolOnly(0, PoolWords, TRUE)
      BY ZenonT(30), <1>3, <2>4, DrawFails
    <3>2. QED  BY <2>1, <2>2, <2>3, <2>5, <2>6, <3>1, Reads
  <2>7. CASE ~ open
    <3>1. LET d == Atomic!Draw(PoolOnly(left.number, PoolWords, FALSE),
                               Answer("open_fails", left.begun + 1))
          IN  d.ok = FALSE /\ d.gen = PoolOnly(left.number, PoolWords, FALSE)
      BY <1>3, <2>4, DrawFails
    <3>2. QED  BY <1>2, <2>1, <2>2, <2>3, <2>5, <2>7, <3>1, Reads
  <2>8. QED  BY <2>6, <2>7
<1>9. QED  BY <1>5, <1>6, <1>7, <1>8 DEF IInv

\* A call takes a word: all its bytes are of one refill, the last complete one.
LEMMA TakeStep ==
  ASSUME IInv, TakeWord
  PROVE  IInv' /\ Seen
<1>1. /\ fills \in 0 .. MaxFills /\ left.begun \in 0 .. MaxFills /\ MaxFills \in Nat
      /\ left.number \in Nat /\ left.number <= left.begun /\ left.open \in BOOLEAN
      /\ PoolBytes \in Nat /\ WordBytes \in 1 .. PoolBytes
      /\ pool \in [0 .. PoolBytes - 1 -> 0 .. MaxFills]
  BY Sizes DEF IInv, TypeOK, LeftInv
<1>2. /\ at = "calling" /\ entropy_offset + WordBytes <= PoolBytes
      /\ entropy_offset' = entropy_offset + WordBytes
      /\ AsLeft \/ Refilled
  BY DEF TakeWord, IInv, StageInv
<1>3. PICK k \in 0 .. PoolWords - 1 : entropy_offset = ByteAt(k) /\ (Refilled => k = 0)
  <2>1. CASE Refilled
    BY <2>1, EntropyAssumption, WordsAndBytes DEF Refilled
  <2>2. CASE AsLeft /\ ~ Refilled
    <3>1. PICK k \in 0 .. PoolWords : left.offset = ByteAt(k)
      BY DEF IInv, LeftInv, WordOffsets
    <3>2. k # PoolWords
      BY <1>1, <1>2, <2>2, <3>1, WordsAndBytes DEF AsLeft
    <3>3. k \in 0 .. PoolWords - 1
      BY <3>1, <3>2, Offsets
    <3>4. QED  BY <2>2, <3>1, <3>3 DEF AsLeft
  <2>3. QED  BY <1>2, <2>1, <2>2
<1>4. /\ k \in 0 .. PoolWords /\ k + 1 \in 0 .. PoolWords /\ k < PoolWords
  BY <1>3, Offsets
<1>5. /\ ByteAt(k) \in Nat /\ ByteAt(k) \div WordBytes = k
      /\ ByteAt(k) + WordBytes = ByteAt(k + 1) /\ ByteAt(k) + WordBytes <= PoolBytes
      /\ ByteAt(k + 1) \div WordBytes = k + 1 /\ ByteAt(k + 1) \in WordOffsets
  BY <1>4, WordsAndBytes DEF WordOffsets
\* The refill that the pool is from.
<1> DEFINE n == IF fills > left.begun THEN fills ELSE left.number
<1>6. n \in 1 .. MaxFills /\ Whole(n) /\ n <= fills
  <2>1. CASE AsLeft
    <3>1. left.number # 0
      BY <1>1, <1>2, <2>1 DEF IInv, LeftInv, AsLeft
    <3>2. QED  BY <1>1, <2>1, <3>1 DEF AsLeft
  <2>2. CASE Refilled
    BY <1>1, <2>2 DEF Refilled
  <2>3. QED  BY <1>2, <2>1, <2>2
<1> HIDE DEF n
<1>7. ReturnedWord' = <<n, k>> /\ result'.ok = TRUE
  <2>1. result' = [ok |-> TRUE,
                   bytes |-> {pool[entropy_offset + i] : i \in 0 .. WordBytes - 1},
                   offset |-> entropy_offset]
    BY DEF TakeWord
  <2>2. {pool[entropy_offset + i] : i \in 0 .. WordBytes - 1} = {n}
    <3>1. ASSUME NEW i \in 0 .. WordBytes - 1
          PROVE  pool[entropy_offset + i] = n
      <4>1. entropy_offset + i \in 0 .. PoolBytes - 1
        BY SMTT(20), <1>1, <1>2, <1>3, <1>5
      <4>2. QED  BY <1>6, <4>1 DEF Whole
    <3>2. 0 \in 0 .. WordBytes - 1
      BY <1>1
    <3>3. QED  BY <3>1, <3>2
  <2>3. result'.ok = TRUE /\ result'.bytes = {n} /\ result'.offset = ByteAt(k)
    BY <1>3, <2>1, <2>2
  <2>4. \E m \in 1 .. MaxFills : result'.bytes = {m}
    BY <1>6, <2>3
  <2>5. (CHOOSE m \in 1 .. MaxFills : result'.bytes = {m}) = n
    BY <1>6, <2>3
  <2>6. QED  BY <1>5, <2>3, <2>4, <2>5 DEF ReturnedWord
<1>8. /\ left'.number = n /\ left'.offset = ByteAt(k + 1)
      /\ left'.open = urandom_open /\ left'.begun = fills
  BY <1>2, <1>3, <1>5, LeftFields DEF TakeWord, n
<1>9. /\ UNCHANGED <<signals, urandom_open, filled, pool, fills>>
      /\ at' = "returned" /\ entropy_offset' = ByteAt(k + 1)
  BY <1>2, <1>3, <1>5 DEF TakeWord
<1>10. TypeOK'
  <2>1. ByteAt(k + 1) \in 0 .. PoolBytes
    BY <1>4, WordsAndBytes
  <2>2. QED  BY <1>9, <2>1 DEF IInv, TypeOK
<1>11. LeftInv'
  <2>1. /\ urandom_open \in BOOLEAN /\ n # 0 /\ n \in 0 .. fills
    BY <1>1, <1>6 DEF IInv, TypeOK
  <2>2. WordOffsets' = WordOffsets
    BY DEF WordOffsets
  <2>3. QED  BY <1>1, <1>5, <1>8, <1>9, <2>1, <2>2 DEF LeftInv
<1>12. StageInv'
  BY <1>6, <1>8, <1>9 DEF StageInv, AsLeft, Whole
<1>13. Seen
  <2>1. AbsGen' = PoolOnly(n, k + 1, urandom_open)
    BY <1>5, <1>8 DEF AbsGen
  <2>2. AbsDrawn' = [ok |-> TRUE, word |-> <<n, k>>]
    BY <1>7 DEF AbsDrawn
  <2>3. left.begun + 1 \in Nat
    BY <1>1
  <2>4. CASE AsLeft
    <3>1. AbsGen = PoolOnly(left.number, k, left.open) /\ n = left.number
          /\ left.open = urandom_open /\ left'.begun = left.begun
      BY <1>1, <1>3, <1>5, <1>8, <2>4 DEF AbsGen, AsLeft, n
    <3>2. /\ Atomic!Draw(PoolOnly(left.number, k, left.open), Answer("filled", left.begun + 1)) =
               [ok |-> TRUE, gen |-> PoolOnly(left.number, k + 1, left.open),
                word |-> <<left.number, k>>]
          /\ ~ Atomic!NeedsRefill(PoolOnly(left.number, k, left.open))
      BY <1>1, <1>3, <2>3, DrawTakes
    <3>3. LET d == Atomic!Draw(AbsGen, Answer("filled", left.begun + 1))
          IN  /\ d.ok = TRUE /\ d.gen = PoolOnly(n, k + 1, urandom_open)
              /\ d.word = <<n, k>> /\ ~ Atomic!NeedsRefill(AbsGen)
      BY <3>1, <3>2
    <3>4. QED  BY <2>1, <2>2, <3>1, <3>3, Reads
  <2>5. CASE Refilled
    <3>0. fills = left.begun + 1 /\ left.offset = PoolBytes /\ urandom_open = TRUE /\ k = 0
      BY <1>3, <2>5 DEF Refilled
    <3>1. AbsGen = PoolOnly(left.number, PoolWords, left.open) /\ n = left.begun + 1
          /\ urandom_open = TRUE /\ left'.begun = left.begun + 1 /\ k = 0
      <4>1. AbsGen = PoolOnly(left.number, PoolWords, left.open)
        BY <3>0, Offsets DEF AbsGen
      <4>2. n = left.begun + 1
        BY <1>1, <3>0 DEF n
      <4>3. QED  BY <1>8, <3>0, <4>1, <4>2
    <3>2. /\ Atomic!Draw(PoolOnly(left.number, PoolWords, left.open),
                         Answer("filled", left.begun + 1)) =
               [ok |-> TRUE, gen |-> PoolOnly(left.begun + 1, 1, TRUE),
                word |-> <<left.begun + 1, 0>>]
          /\ Atomic!NeedsRefill(PoolOnly(left.number, PoolWords, left.open))
      BY <1>1, <2>3, DrawRefills
    <3>3. LET d == Atomic!Draw(AbsGen, Answer("filled", left.begun + 1))
          IN  /\ d.ok = TRUE /\ d.gen = PoolOnly(n, k + 1, urandom_open)
              /\ d.word = <<n, k>> /\ Atomic!NeedsRefill(AbsGen)
      <4> DEFINE g == PoolOnly(left.begun + 1, 1, TRUE)
      <4>1. g = PoolOnly(n, k + 1, urandom_open)
        <5>1. k + 1 = 1
          BY <3>0
        <5>2. QED  BY <3>1, <5>1
      <4>2. /\ Atomic!Draw(AbsGen, Answer("filled", left.begun + 1)) =
                 [ok |-> TRUE, gen |-> g, word |-> <<left.begun + 1, 0>>]
            /\ Atomic!NeedsRefill(AbsGen)
        BY <3>1, <3>2
      <4> DEFINE w == <<left.begun + 1, 0>>
      <4>3. w = <<n, k>>
        BY <3>1
      <4> HIDE DEF g, w
      <4>4. QED  BY <4>1, <4>2, <4>3 DEF w
    <3>4. QED  BY <2>1, <2>2, <3>1, <3>3, Reads
  <2>6. QED  BY <1>2, <2>4, <2>5
<1>14. QED  BY <1>10, <1>11, <1>12, <1>13 DEF IInv

LEMMA Step == IInv /\ [Next]_vars => IInv' /\ Seen
<1> SUFFICES ASSUME IInv, [Next]_vars PROVE IInv' /\ Seen
  OBVIOUS
<1>1. CASE UNCHANGED vars
  <2>1. Seen
    BY <1>1, Unseen DEF vars
  <2>2. IInv'
    BY <1>1 DEF vars, IInv, TypeOK, LeftInv, StageInv, AsLeft, Refilled, Opening,
                Reading, Refilling, Whole
  <2>3. QED  BY <2>1, <2>2
<1>2. CASE Next
  BY <1>2, QuietStep, ReadStep, FailStep, TakeStep DEF Next
<1>3. QED  BY <1>1, <1>2

LEMMA Invariance == Spec => []IInv
<1>1. IInv /\ [Next]_vars => IInv'
  BY Step
<1>2. Init => IInv
  BY InitInv
<1>3. QED  BY <1>1, <1>2, PTL DEF Spec

\* The offset and the fill count of a refill stay inside the pool, however the
\* reads are cut up.
THEOREM TypeCorrectness == Spec => []TypeOK
<1>1. IInv => TypeOK
  BY DEF IInv
<1>2. QED  BY <1>1, Invariance, PTL

\* The loops of secure_random_u64 and refill_entropy_pool implement the one step
\* that Uuid7Core has for them: no word is torn between two refills, and a
\* refill that fails leaves nothing to read.
THEOREM Refinement == Spec => OneStep
<1>1. Init => Atomic!Init
  BY InitInv
<1>2. IInv /\ [Next]_vars => [Atomic!DrawWord]_(Atomic!absVars)
  BY Step DEF Seen
<1>3. QED
  BY <1>1, <1>2, Invariance, PTL DEF Spec, OneStep, Atomic!Spec

-----------------------------------------------------------------------------
(***************************************************************************)
(* Part 2, Uuid7Layout.                                                    *)
(***************************************************************************)
(***************************************************************************)
(* Order.  A number is cut into pieces, from its highest bits to its       *)
(* lowest; comparing piece by piece compares the numbers.                  *)
(***************************************************************************)
LEMMA Least ==
  ASSUME NEW T \in SUBSET Nat, T # {}
  PROVE  \E m \in T : \A k \in T : m <= k
<1>1. PICK m \in T : \A k \in T : <<k, m>> \notin OpToRel(<, Nat)
  BY NatLessThanWellFounded, WFMin
<1>2. \A k \in T : <<k, m>> \in Nat \X Nat
  BY <1>1
<1>3. \A k \in T : ~ (k < m)
  BY <1>1, <1>2 DEF OpToRel
<1>4. QED  BY <1>3

\* The bit x of the piece i is the bit pos[<<i, x>>] of the number; whatever
\* else there is in a piece or a number is the same in both.
CutAlike(s, t, n, slots, pos, a, b) ==
  /\ n \in Nat /\ DOMAIN s = 1 .. n
  /\ slots \subseteq (1 .. n) \X Int /\ pos \in [slots -> Int]
  /\ a \in SUBSET Int /\ b \in SUBSET Int
  /\ \A i \in 1 .. n : s[i] \in SUBSET Int /\ t[i] \in SUBSET Int
  /\ \A i \in 1 .. n : \A x \in Int :
       IF <<i, x>> \in slots
       THEN /\ x \in s[i] <=> pos[<<i, x>>] \in a
            /\ x \in t[i] <=> pos[<<i, x>>] \in b
       ELSE x \in s[i] <=> x \in t[i]
  /\ \A k \in (a \ b) \cup (b \ a) :
       \E i \in 1 .. n : \E x \in Int : <<i, x>> \in slots /\ pos[<<i, x>>] = k
  /\ \A i, j \in 1 .. n : \A x, y \in Int :
       <<i, x>> \in slots /\ <<j, y>> \in slots /\ (i < j \/ (i = j /\ x > y)) =>
         pos[<<i, x>>] > pos[<<j, y>>]

LEMMA PiecewiseOrder ==
  ASSUME NEW s, NEW t, NEW n, NEW slots, NEW pos, NEW a, NEW b,
         CutAlike(s, t, n, slots, pos, a, b)
  PROVE  Less(a, b) <=> LessSeq(s, t)
<1> USE DEF CutAlike
<1> DEFINE T == {i \in 1 .. n : s[i] # t[i]}
\* Where the numbers differ, there the pieces do, and conversely.
<1>1. ASSUME NEW k \in (a \ b) \cup (b \ a)
      PROVE  \E i \in T : \E x \in Int :
               /\ <<i, x>> \in slots /\ pos[<<i, x>>] = k
               /\ k \in a \ b => x \in s[i] \ t[i]
               /\ k \in b \ a => x \in t[i] \ s[i]
  <2>1. PICK i \in 1 .. n, x \in Int : <<i, x>> \in slots /\ pos[<<i, x>>] = k
    BY <1>1
  <2>2. /\ x \in s[i] <=> k \in a
        /\ x \in t[i] <=> k \in b
    BY <2>1
  <2>3. s[i] # t[i]
    BY <1>1, <2>2
  <2>4. QED  BY <1>1, <2>1, <2>2, <2>3
<1>2. ASSUME NEW i \in 1 .. n, NEW x \in Int, x \in s[i] <=> x \notin t[i]
      PROVE  /\ <<i, x>> \in slots
             /\ x \in s[i] => pos[<<i, x>>] \in a \ b
             /\ x \in t[i] => pos[<<i, x>>] \in b \ a
  BY <1>2
<1>3. ASSUME Less(a, b)
      PROVE  LessSeq(s, t)
  <2>1. PICK k \in b \ a : \A j \in a \ b : j < k
    BY <1>3 DEF Less
  <2>2. T \in SUBSET Nat /\ T # {}
    BY <1>1, <2>1
  <2>3. PICK i \in T : \A j \in T : i <= j
    BY <2>2, Least
  <2>4. \A j \in 1 .. i - 1 : s[j] = t[j]
    BY <2>3
  <2>5. PICK l \in T, z \in Int : /\ <<l, z>> \in slots /\ pos[<<l, z>>] = k
                                  /\ z \in t[l] \ s[l]
    BY <1>1, <2>1
  <2>6. i <= l
    BY <2>3, <2>5
  <2>7. \E x \in t[i] \ s[i] : \A y \in s[i] \ t[i] : y < x
    <3>1. CASE l = i
      <4>1. ASSUME NEW y \in s[i] \ t[i]
            PROVE  y < z
        <5>1. /\ y \in Int /\ <<i, y>> \in slots /\ pos[<<i, y>>] \in a \ b
          BY <1>2, <2>3, <4>1
        <5>2. pos[<<i, y>>] < k /\ pos[<<i, y>>] \in Int /\ k \in Int
          BY <2>1, <5>1
        <5>3. ~ (y > z) /\ y # z
          BY <2>5, <3>1, <4>1, <5>1, <5>2
        <5>4. QED  BY <5>1, <5>3
      <4>2. QED  BY <2>5, <3>1, <4>1
    <3>2. CASE i < l
      <4>1. PICK x \in Int : x \in s[i] <=> x \notin t[i]
        BY ZenonT(30), <2>3
      <4>2. /\ <<i, x>> \in slots /\ pos[<<i, x>>] > k
            /\ pos[<<i, x>>] \in Int /\ k \in Int
        BY <1>2, <2>3, <2>5, <3>2, <4>1
      <4>3. ASSUME NEW y \in s[i] \ t[i]
            PROVE  FALSE
        <5>1. /\ y \in Int /\ <<i, y>> \in slots /\ pos[<<i, y>>] \in a \ b
          BY <1>2, <2>3, <4>3
        <5>2. pos[<<i, y>>] < k /\ pos[<<i, y>>] > k /\ pos[<<i, y>>] \in Int
          BY <2>1, <2>3, <2>5, <3>2, <5>1
        <5>3. QED  BY <4>2, <5>2
      <4>4. x \in t[i] \ s[i]
        BY <4>1, <4>3
      <4>5. QED  BY <4>3, <4>4
    <3>3. QED  BY <2>3, <2>5, <2>6, <3>1, <3>2
  <2>8. i \in DOMAIN s /\ Less(s[i], t[i])
    BY <2>3, <2>7 DEF Less
  <2>9. QED  BY <2>4, <2>8 DEF LessSeq
<1>4. ASSUME LessSeq(s, t)
      PROVE  Less(a, b)
  <2>1. PICK i \in 1 .. n : Less(s[i], t[i]) /\ \A j \in 1 .. i - 1 : s[j] = t[j]
    BY <1>4 DEF LessSeq
  <2>2. PICK x \in t[i] \ s[i] : \A y \in s[i] \ t[i] : y < x
    BY <2>1 DEF Less
  <2>3. x \in Int /\ <<i, x>> \in slots /\ pos[<<i, x>>] \in b \ a
    BY <1>2, <2>2
  <2>4. ASSUME NEW j \in a \ b
        PROVE  j < pos[<<i, x>>]
    <3>1. PICK l \in T, y \in Int : /\ <<l, y>> \in slots /\ pos[<<l, y>>] = j
                                    /\ y \in s[l] \ t[l]
      BY <1>1, <2>4
    <3>2. l \in 1 .. n /\ ~ (l < i)
      BY <2>1, <3>1
    <3>3. i < l \/ (i = l /\ x > y)
      BY <2>2, <2>3, <3>1, <3>2
    <3>4. QED  BY <2>3, <3>1, <3>2, <3>3
  <2>5. QED  BY <2>3, <2>4 DEF Less
<1>5. QED  BY <1>3, <1>4

(***************************************************************************)
(* Words and their pieces.                                                 *)
(***************************************************************************)
WordPairs == [high : SUBSET (0 .. 63), low : SUBSET (0 .. 63)]

LEMMA WordBits ==
  ASSUME NEW w \in SUBSET Int, NEW k \in Int
  PROVE  /\ \A b : b \in Shl(w, k) <=> b \in 0 .. 63 /\ b - k \in w
         /\ \A b : b \in Shr(w, k) <=> b \in 0 .. 63 /\ b + k \in w
         /\ \A b : b \in Low(w, k) <=> b \in 0 .. k - 1 /\ b \in w
BY DEF Shl, Shr, Low, Bits

\* The number of two words.
LEMMA NumberBits ==
  ASSUME NEW w \in WordPairs
  PROVE  /\ w.high \in SUBSET (0 .. 63) /\ w.low \in SUBSET (0 .. 63)
         /\ IntOfWords(w) \in SUBSET (0 .. 127)
         /\ \A b \in Int : b \in 0 .. 63 =>
              (b \in w.low <=> b \in IntOfWords(w))
         /\ \A b \in Int : b \in 64 .. 127 =>
              (b - 64 \in w.high <=> b \in IntOfWords(w))
<1>1. w.high \in SUBSET (0 .. 63) /\ w.low \in SUBSET (0 .. 63)
  BY DEF WordPairs
<1>2. \A b : b \in IntOfWords(w) <=>
               \/ b \in w.low
               \/ \E x \in w.high : b = x + 64
  BY DEF IntOfWords
<1>3. QED  BY <1>1, <1>2

Piece(int, start, n) == {b \in 0 .. n - 1 : b + start \in int}

LEMMA Pieces ==
  ASSUME NEW int, NEW start, NEW n, NEW b
  PROVE  b \in Piece(int, start, n) <=> b \in 0 .. n - 1 /\ b + start \in int
BY DEF Piece

(***************************************************************************)
(* Sixteen bytes.                                                          *)
(***************************************************************************)
LEMMA WriteBePieces ==
  ASSUME NEW w \in SUBSET (0 .. 63)
  PROVE  /\ WriteBe(w) \in [1 .. 8 -> SUBSET Int]
         /\ \A i \in 1 .. 8 : WriteBe(w)[i] = Piece(w, 64 - 8 * i, 8)
<1>1. ASSUME NEW i \in 1 .. 8
      PROVE  Low(Shr(w, 64 - 8 * i), 8) = Piece(w, 64 - 8 * i, 8)
  <2>1. 64 - 8 * i \in 0 .. 56 /\ w \in SUBSET Int
    OBVIOUS
  <2>2. Shr(w, 64 - 8 * i) \in SUBSET Int
    BY <2>1, WordBits
  <2>3. ASSUME NEW b
        PROVE  b \in Low(Shr(w, 64 - 8 * i), 8) <=>
                 b \in 0 .. 7 /\ b + (64 - 8 * i) \in w
    <3>1. b \in Low(Shr(w, 64 - 8 * i), 8) <=>
            b \in 0 .. 7 /\ b \in Shr(w, 64 - 8 * i)
      BY <2>2, WordBits
    <3>2. b \in Shr(w, 64 - 8 * i) <=> b \in 0 .. 63 /\ b + (64 - 8 * i) \in w
      BY <2>1, WordBits
    <3>3. QED  BY <3>1, <3>2
  <2>4. QED  BY <2>3 DEF Piece
<1>2. \A i \in 1 .. 8 : Piece(w, 64 - 8 * i, 8) \in SUBSET Int
  BY DEF Piece
<1>3. QED  BY <1>1, <1>2 DEF WriteBe

LEMMA LengthOfFunction ==
  ASSUME NEW S, NEW n \in Nat, NEW s \in [1 .. n -> S]
  PROVE  s \in Seq(S) /\ Len(s) = n
OBVIOUS

EightOf(s, S) == s \in [1 .. 8 -> S]

AreEightEach(s, t, both, S) ==
  /\ both \in [1 .. 16 -> S]
  /\ \A i \in 1 .. 16 : both[i] = IF i <= 8 THEN s[i] ELSE t[i - 8]

LEMMA ConcatOfEights ==
  ASSUME NEW S, NEW s, NEW t, EightOf(s, S), EightOf(t, S)
  PROVE  AreEightEach(s, t, s \o t, S)
<1> USE DEF EightOf, AreEightEach
<1>1. s \in Seq(S) /\ Len(s) = 8 /\ t \in Seq(S) /\ Len(t) = 8
  BY LengthOfFunction, 8 \in Nat
<1>2. /\ s \o t \in Seq(S) /\ Len(s \o t) = Len(s) + Len(t)
      /\ \A i \in 1 .. Len(s) + Len(t) :
           (s \o t)[i] = IF i <= Len(s) THEN s[i] ELSE t[i - Len(s)]
  BY <1>1, ConcatProperties
<1>3. s \o t \in [1 .. Len(s \o t) -> S]
  BY <1>2, LenProperties
<1>4. Len(s) + Len(t) = 16
  BY <1>1
<1>5. QED  BY <1>1, <1>2, <1>3, <1>4

LEMMA BytesPieces ==
  ASSUME NEW w \in WordPairs
  PROVE  /\ Bytes(w) \in [1 .. 16 -> SUBSET Int]
         /\ \A i \in 1 .. 16 :
              Bytes(w)[i] = Piece(IntOfWords(w), 128 - 8 * i, 8)
<1> DEFINE h == WriteBe(w.high)
           l == WriteBe(w.low)
           int == IntOfWords(w)
<1>1. /\ h \in [1 .. 8 -> SUBSET Int] /\ l \in [1 .. 8 -> SUBSET Int]
      /\ \A i \in 1 .. 8 : h[i] = Piece(w.high, 64 - 8 * i, 8)
      /\ \A i \in 1 .. 8 : l[i] = Piece(w.low, 64 - 8 * i, 8)
  BY NumberBits, WriteBePieces
<1>2. Bytes(w) = h \o l
  BY DEF Bytes
<1> HIDE DEF h, l, int
<1>3. /\ h \o l \in [1 .. 16 -> SUBSET Int]
      /\ \A i \in 1 .. 16 : (h \o l)[i] = IF i <= 8 THEN h[i] ELSE l[i - 8]
  <2>1. EightOf(h, SUBSET Int) /\ EightOf(l, SUBSET Int)
    BY <1>1 DEF EightOf
  <2>2. AreEightEach(h, l, h \o l, SUBSET Int)
    BY <2>1, ConcatOfEights
  <2>3. QED  BY <2>2 DEF AreEightEach
<1> DEFINE bytes == h \o l
<1>4. /\ bytes \in [1 .. 16 -> SUBSET Int]
      /\ \A i \in 1 .. 16 : bytes[i] = IF i <= 8 THEN h[i] ELSE l[i - 8]
  BY <1>3
<1>5. Bytes(w) = bytes
  BY <1>2
<1> HIDE DEF bytes
<1>6. ASSUME NEW i \in 1 .. 16
      PROVE  bytes[i] = Piece(int, 128 - 8 * i, 8)
  <2>1. CASE i <= 8
    <3>1. bytes[i] = Piece(w.high, 64 - 8 * i, 8)
      BY <1>1, <1>4, <2>1
    <3>2. ASSUME NEW b
          PROVE  b \in Piece(w.high, 64 - 8 * i, 8) <=> b \in Piece(int, 128 - 8 * i, 8)
      <4>1. CASE b \in 0 .. 7
        <5>1. b + (128 - 8 * i) \in 64 .. 127 /\ (b + (128 - 8 * i)) - 64 = b + (64 - 8 * i)
          BY <2>1, <4>1
        <5>2. QED  BY <4>1, <5>1, NumberBits, Pieces DEF int
      <4>2. CASE b \notin 0 .. 7
        BY <4>2, Pieces
      <4>3. QED  BY <4>1, <4>2
    <3>3. QED  BY <3>1, <3>2 DEF Piece
  <2>2. CASE i > 8
    <3>1. bytes[i] = Piece(w.low, 64 - 8 * (i - 8), 8)
      BY <1>1, <1>4, <2>2
    <3>2. ASSUME NEW b
          PROVE  b \in Piece(w.low, 64 - 8 * (i - 8), 8) <=> b \in Piece(int, 128 - 8 * i, 8)
      <4>1. CASE b \in 0 .. 7
        <5>1. b + (128 - 8 * i) \in 0 .. 63 /\ b + (128 - 8 * i) = b + (64 - 8 * (i - 8))
          BY <2>2, <4>1
        <5>2. QED  BY <4>1, <5>1, NumberBits, Pieces DEF int
      <4>2. CASE b \notin 0 .. 7
        BY <4>2, Pieces
      <4>3. QED  BY <4>1, <4>2
    <3>3. QED  BY <3>1, <3>2 DEF Piece
  <2>3. QED  BY <2>1, <2>2
<1>7. QED  BY <1>4, <1>5, <1>6 DEF int

\* Every bit is in one of the bytes.
LEMMA ByteOfBit ==
  ASSUME NEW n \in Nat, NEW b \in 0 .. 8 * n - 1
  PROVE  \E i \in 1 .. n : b - (8 * n - 8 * i) \in 0 .. 7
<1> DEFINE i == n - b \div 8
<1>1. b \div 8 \in 0 .. n - 1 /\ b - 8 * (b \div 8) \in 0 .. 7
  OBVIOUS
<1>2. i \in 1 .. n /\ b - (8 * n - 8 * i) = b - 8 * (b \div 8)
  BY <1>1
<1>3. QED  BY <1>1, <1>2

\* uuid.UUID(bytes=...) reads the number, and its bytes write it.
LEMMA BytesAreTheNumber ==
  ASSUME NEW int \in SUBSET (0 .. 127), NEW bytes,
         \A i \in 1 .. 16 : bytes[i] = Piece(int, 128 - 8 * i, 8)
  PROVE  IntOfBytes(bytes) = int
<1>1. \A b : b \in IntOfBytes(bytes) <=>
               \E i \in 1 .. 16 : \E x \in bytes[i] : b = x + 128 - 8 * i
  BY DEF IntOfBytes
<1>2. ASSUME NEW b \in int
      PROVE  b \in IntOfBytes(bytes)
  <2>1. PICK i \in 1 .. 16 : b - (128 - 8 * i) \in 0 .. 7
    BY ByteOfBit, 16 \in Nat, b \in 0 .. 8 * 16 - 1
  <2>2. b - (128 - 8 * i) \in bytes[i]
    BY <2>1, Pieces
  <2>3. b = (b - (128 - 8 * i)) + 128 - 8 * i
    OBVIOUS
  <2>4. QED  BY <1>1, <2>2, <2>3
<1>3. ASSUME NEW b \in IntOfBytes(bytes)
      PROVE  b \in int
  <2>1. PICK i \in 1 .. 16 : \E x \in bytes[i] : b = x + 128 - 8 * i
    BY <1>1
  <2>2. PICK x \in bytes[i] : b = x + 128 - 8 * i
    BY <2>1
  <2>3. x \in 0 .. 7 /\ x + (128 - 8 * i) \in int
    BY <2>2, Pieces
  <2>4. QED  BY <2>2, <2>3
<1>4. QED  BY <1>2, <1>3

LEMMA BytesOfNumber ==
  ASSUME NEW w \in WordPairs
  PROVE  BytesOfInt(IntOfWords(w)) = Bytes(w)
<1> DEFINE int == IntOfWords(w)
<1>1. int \in SUBSET (0 .. 127)
  BY NumberBits
<1> HIDE DEF int
<1>2. BytesOfInt(int) =
        [i \in 1 .. 16 |-> {b - (128 - 8 * i) : b \in int} \cap (0 .. 7)]
  BY DEF BytesOfInt, Bits
<1>3. ASSUME NEW i \in 1 .. 16
      PROVE  {b - (128 - 8 * i) : b \in int} \cap (0 .. 7) = Piece(int, 128 - 8 * i, 8)
  <2>1. ASSUME NEW c \in 0 .. 7
        PROVE  c \in {b - (128 - 8 * i) : b \in int} <=> c + (128 - 8 * i) \in int
    <3>1. ASSUME NEW b \in int, c = b - (128 - 8 * i)
          PROVE  c + (128 - 8 * i) \in int
      <4>1. c + (128 - 8 * i) = b
        BY <1>1, <3>1
      <4>2. QED  BY <4>1
    <3>2. ASSUME c + (128 - 8 * i) \in int
          PROVE  \E b \in int : c = b - (128 - 8 * i)
      <4>1. c = (c + (128 - 8 * i)) - (128 - 8 * i)
        OBVIOUS
      <4>2. QED  BY <3>2, <4>1
    <3>3. QED  BY <3>1, <3>2
  <2>2. QED  BY <2>1, Pieces
<1>4. QED  BY <1>2, <1>3, BytesPieces DEF int

LEMMA ReadBePieces ==
  ASSUME NEW w \in SUBSET (0 .. 63), NEW bytes,
         \A i \in 1 .. 8 : bytes[i] = Piece(w, 64 - 8 * i, 8)
  PROVE  ReadBe(bytes) = w
<1>1. \A b : b \in ReadBe(bytes) <=>
               \E i \in 1 .. 8 : b \in Shl(bytes[i], 64 - 8 * i)
  BY DEF ReadBe
<1>2. ASSUME NEW i \in 1 .. 8, NEW b
      PROVE  b \in Shl(bytes[i], 64 - 8 * i) <=>
               b \in 0 .. 63 /\ b - (64 - 8 * i) \in bytes[i]
  <2>1. bytes[i] \in SUBSET Int /\ 64 - 8 * i \in Int
    BY DEF Piece
  <2>2. QED  BY <2>1, WordBits
<1>3. ASSUME NEW b \in w
      PROVE  b \in ReadBe(bytes)
  <2>1. PICK i \in 1 .. 8 : b - (8 * 8 - 8 * i) \in 0 .. 7
    BY ByteOfBit, 8 \in Nat, b \in 0 .. 8 * 8 - 1
  <2>2. b - (64 - 8 * i) \in 0 .. 7 /\ (b - (64 - 8 * i)) + (64 - 8 * i) = b
    BY <2>1
  <2>3. b - (64 - 8 * i) \in bytes[i]
    BY <2>2, Pieces
  <2>4. QED  BY <1>1, <1>2, <2>3
<1>4. ASSUME NEW b \in ReadBe(bytes)
      PROVE  b \in w
  <2>1. PICK i \in 1 .. 8 : b \in 0 .. 63 /\ b - (64 - 8 * i) \in bytes[i]
    BY <1>1, <1>2
  <2>2. (b - (64 - 8 * i)) + (64 - 8 * i) \in w
    BY <2>1, Pieces
  <2>3. QED  BY <2>1, <2>2
<1>5. QED  BY <1>3, <1>4

\* read_u64_be undoes write_u64_be, for both words.
LEMMA WordsOfTheirBytes ==
  ASSUME NEW w \in WordPairs
  PROVE  WordsOfBytes(Bytes(w)) = w
<1> DEFINE int == IntOfWords(w)
           bytes == Bytes(w)
<1>1. /\ bytes \in [1 .. 16 -> SUBSET Int]
      /\ \A i \in 1 .. 16 : bytes[i] = Piece(int, 128 - 8 * i, 8)
  BY BytesPieces
<1> HIDE DEF int, bytes
<1>2. \A i \in 1 .. 8 : SubSeq(bytes, 1, 8)[i] = bytes[i]
  <2>1. \A i \in 1 .. 8 : bytes[i] \in SUBSET Int
    BY <1>1
  <2>2. \A i \in 1 .. 8 - 1 + 1 : SubSeq(bytes, 1, 8)[i] = bytes[1 + i - 1]
    BY <2>1, SubSeqProperties, 1 \in Int, 8 \in Int
  <2>3. QED  BY <2>2
<1>3. \A i \in 1 .. 8 : SubSeq(bytes, 9, 16)[i] = bytes[i + 8]
  <2>1. \A i \in 9 .. 16 : bytes[i] \in SUBSET Int
    BY <1>1
  <2>2. \A i \in 1 .. 16 - 9 + 1 : SubSeq(bytes, 9, 16)[i] = bytes[9 + i - 1]
    BY <2>1, SubSeqProperties, 9 \in Int, 16 \in Int
  <2>3. QED  BY <2>2
<1>4. ASSUME NEW i \in 1 .. 8
      PROVE  /\ Piece(int, 128 - 8 * i, 8) = Piece(w.high, 64 - 8 * i, 8)
             /\ Piece(int, 128 - 8 * (i + 8), 8) = Piece(w.low, 64 - 8 * i, 8)
  <2>1. ASSUME NEW b \in 0 .. 7
        PROVE  /\ b + (128 - 8 * i) \in int <=> b + (64 - 8 * i) \in w.high
               /\ b + (128 - 8 * (i + 8)) \in int <=> b + (64 - 8 * i) \in w.low
    <3>1. b + (128 - 8 * i) \in 64 .. 127 /\ (b + (128 - 8 * i)) - 64 = b + (64 - 8 * i)
      OBVIOUS
    <3>2. b + (128 - 8 * (i + 8)) \in 0 .. 63
          /\ b + (128 - 8 * (i + 8)) = b + (64 - 8 * i)
      OBVIOUS
    <3>3. QED  BY <3>1, <3>2, NumberBits DEF int
  <2>2. QED  BY <2>1 DEF Piece
<1>5. /\ \A i \in 1 .. 8 : SubSeq(bytes, 1, 8)[i] = Piece(w.high, 64 - 8 * i, 8)
      /\ \A i \in 1 .. 8 : SubSeq(bytes, 9, 16)[i] = Piece(w.low, 64 - 8 * i, 8)
  BY <1>1, <1>2, <1>3, <1>4
<1>6. /\ ReadBe(SubSeq(bytes, 1, 8)) = w.high
      /\ ReadBe(SubSeq(bytes, 9, 16)) = w.low
  BY ZenonT(30), <1>5, NumberBits, ReadBePieces
<1>7. WordsOfBytes(bytes) = [high |-> w.high, low |-> w.low]
  BY <1>6 DEF WordsOfBytes
<1>8. w = [high |-> w.high, low |-> w.low]
  BY DEF WordPairs
<1>9. QED  BY <1>7, <1>8 DEF bytes

(***************************************************************************)
(* What is made of pieces that cover a number is the number.               *)
(***************************************************************************)
Joined(f, start, n) == UNION {{b + start[i] : b \in f[i]} : i \in 1 .. n}

Covers(start, len, n, int) == \A b \in int : \E i \in 1 .. n : b - start[i] \in 0 .. len[i] - 1

CutFrom(f, start, len, n, int) ==
  /\ int \in SUBSET Int /\ n \in Nat
  /\ start \in [1 .. n -> Int] /\ len \in [1 .. n -> Int]
  /\ \A i \in 1 .. n : f[i] = Piece(int, start[i], len[i])
  /\ Covers(start, len, n, int)

LEMMA PiecesMakeUp ==
  ASSUME NEW f, NEW start, NEW len, NEW n, NEW int, CutFrom(f, start, len, n, int)
  PROVE  Joined(f, start, n) = int
<1> USE DEF CutFrom
<1> DEFINE all == Joined(f, start, n)
<1>1. ASSUME NEW b
      PROVE  b \in all <=> \E i \in 1 .. n : \E x \in f[i] : b = x + start[i]
  BY DEF Joined
<1>2. ASSUME NEW b \in int
      PROVE  b \in all
  <2>1. PICK i \in 1 .. n : b - start[i] \in 0 .. len[i] - 1
    BY DEF Covers
  <2>2. b = (b - start[i]) + start[i] /\ start[i] \in Int
    OBVIOUS
  <2>3. (b - start[i]) + start[i] \in int
    BY <2>2
  <2>4. b - start[i] \in Piece(int, start[i], len[i])
    BY <2>1, <2>3, Pieces
  <2>5. QED  BY <1>1, <2>2, <2>4
<1>3. ASSUME NEW b \in all
      PROVE  b \in int
  <2>1. PICK i \in 1 .. n : \E x \in f[i] : b = x + start[i]
    BY <1>1
  <2>2. QED  BY <2>1, Pieces
<1>4. QED  BY <1>2, <1>3

(***************************************************************************)
(* The integer: five digits, or high << 64 | low.                          *)
(***************************************************************************)
LEMMA DigitsPieces ==
  ASSUME NEW w \in WordPairs
  PROVE  \A i \in 1 .. 5 :
           Digits(w)[i] = Piece(IntOfWords(w), 30 * (i - 1), 30)
<1> DEFINE int == IntOfWords(w)
           low == w.low
           high == w.high
<1>1. /\ low \in SUBSET (0 .. 63) /\ high \in SUBSET (0 .. 63) /\ int \in SUBSET (0 .. 127)
      /\ low \in SUBSET Int /\ high \in SUBSET Int
      /\ \A b \in Int : b \in 0 .. 63 => (b \in low <=> b \in int)
      /\ \A b \in Int : b \in 64 .. 127 => (b - 64 \in high <=> b \in int)
  BY NumberBits
<1>2. Digits(w) =
        << Low(low, 30), Low(Shr(low, 30), 30),
           Low(Shr(low, 60) \cup Shl(high, 4), 30),
           Low(Shr(high, 26), 30), Low(Shr(high, 56), 30) >>
  BY DEF Digits
<1> HIDE DEF int, low, high
<1>3. \A b : /\ b \in Shr(low, 30) <=> b \in 0 .. 63 /\ b + 30 \in low
             /\ b \in Shr(low, 60) <=> b \in 0 .. 63 /\ b + 60 \in low
             /\ b \in Shl(high, 4) <=> b \in 0 .. 63 /\ b - 4 \in high
             /\ b \in Shr(high, 26) <=> b \in 0 .. 63 /\ b + 26 \in high
             /\ b \in Shr(high, 56) <=> b \in 0 .. 63 /\ b + 56 \in high
  BY <1>1, WordBits
<1>4. ASSUME NEW word \in SUBSET Int, NEW b
      PROVE  b \in Low(word, 30) <=> b \in 0 .. 29 /\ b \in word
  BY WordBits
<1>5. Low(low, 30) = Piece(int, 0, 30)
  BY <1>1, <1>4 DEF Piece
<1>6. Low(Shr(low, 30), 30) = Piece(int, 30, 30)
  <2>1. Shr(low, 30) \in SUBSET Int
    BY <1>3
  <2>2. QED  BY <1>1, <1>3, <1>4, <2>1 DEF Piece
<1>7. Low(Shr(low, 60) \cup Shl(high, 4), 30) = Piece(int, 60, 30)
  <2>1. Shr(low, 60) \cup Shl(high, 4) \in SUBSET Int
    BY <1>3
  <2>2. ASSUME NEW b \in 0 .. 29
        PROVE  b + 60 \in low \/ b - 4 \in high <=> b + 60 \in int
    <3>1. CASE b \in 0 .. 3
      <4>1. b - 4 \notin high /\ b + 60 \in 0 .. 63
        BY <1>1, <3>1
      <4>2. QED  BY <1>1, <4>1
    <3>2. CASE b \in 4 .. 29
      <4>1. b + 60 \notin low /\ b + 60 \in 64 .. 127 /\ (b + 60) - 64 = b - 4
        BY <1>1, <3>2
      <4>2. QED  BY <1>1, <4>1
    <3>3. QED  BY <3>1, <3>2
  <2>3. QED  BY <1>3, <1>4, <2>1, <2>2 DEF Piece
<1>8. Low(Shr(high, 26), 30) = Piece(int, 90, 30)
  <2>1. Shr(high, 26) \in SUBSET Int
    BY <1>3
  <2>2. ASSUME NEW b \in 0 .. 29
        PROVE  b + 26 \in high <=> b + 90 \in int
    <3>1. (b + 90) - 64 = b + 26 /\ b + 90 \in 64 .. 127
      OBVIOUS
    <3>2. QED  BY <1>1, <3>1
  <2>3. QED  BY <1>3, <1>4, <2>1, <2>2 DEF Piece
<1>9. Low(Shr(high, 56), 30) = Piece(int, 120, 30)
  <2>1. Shr(high, 56) \in SUBSET Int
    BY <1>3
  <2>2. ASSUME NEW b \in 0 .. 29
        PROVE  b + 56 \in high <=> b + 120 \in int
    <3>1. CASE b \in 0 .. 7
      <4>1. (b + 120) - 64 = b + 56 /\ b + 120 \in 64 .. 127
        BY <3>1
      <4>2. QED  BY <1>1, <4>1
    <3>2. CASE b \in 8 .. 29
      BY <1>1, <3>2
    <3>3. QED  BY <3>1, <3>2
  <2>3. QED  BY <1>3, <1>4, <2>1, <2>2 DEF Piece
<1>10. ASSUME NEW i \in 1 .. 5
       PROVE  Digits(w)[i] = Piece(int, 30 * (i - 1), 30)
  <2>1. i = 1 \/ i = 2 \/ i = 3 \/ i = 4 \/ i = 5
    OBVIOUS
  <2>2. CASE i = 1
    BY <1>2, <1>5, <2>2
  <2>3. CASE i = 2
    BY <1>2, <1>6, <2>3
  <2>4. CASE i = 3
    BY <1>2, <1>7, <2>4
  <2>5. CASE i = 4
    BY <1>2, <1>8, <2>5
  <2>6. CASE i = 5
    BY <1>2, <1>9, <2>6
  <2>7. QED  BY <2>1, <2>2, <2>3, <2>4, <2>5, <2>6
<1>11. QED  BY <1>10 DEF int

LEMMA DigitsAreTheNumber ==
  ASSUME NEW w \in WordPairs
  PROVE  IntThroughDigits(w) = IntOfWords(w)
<1> DEFINE int == IntOfWords(w)
           digits == Digits(w)
           start == [i \in 1 .. 5 |-> 30 * (i - 1)]
           len == [i \in 1 .. 5 |-> 30]
<1>1. int \in SUBSET (0 .. 127)
  BY NumberBits
<1>2. \A i \in 1 .. 5 : digits[i] = Piece(int, start[i], len[i])
  BY DigitsPieces
<1> HIDE DEF int, digits
<1>3. ASSUME NEW b \in int
      PROVE  \E i \in 1 .. 5 : b - start[i] \in 0 .. len[i] - 1
  <2>1. b \div 30 \in 0 .. 4 /\ b - 30 * (b \div 30) \in 0 .. 29
    BY <1>1
  <2>2. (b \div 30) + 1 \in 1 .. 5 /\ 30 * (((b \div 30) + 1) - 1) = 30 * (b \div 30)
    BY <2>1
  <2>3. start[(b \div 30) + 1] = 30 * (b \div 30) /\ len[(b \div 30) + 1] = 30
    BY <2>2
  <2>4. QED  BY <2>1, <2>2, <2>3
<1>4. start \in [1 .. 5 -> Int] /\ len \in [1 .. 5 -> Int] /\ int \in SUBSET Int
  BY <1>1
<1>5. Joined(digits, start, 5) = int
  <2>1. Covers(start, len, 5, int)
    BY <1>3 DEF Covers
  <2> HIDE DEF start, len
  <2>2. CutFrom(digits, start, len, 5, int)
    BY <1>2, <1>4, <2>1 DEF CutFrom
  <2>3. QED  BY <2>2, PiecesMakeUp
<1>6. IntOfDigits(digits) = Joined(digits, start, 5)
  BY DEF IntOfDigits, Joined
<1>7. QED  BY <1>5, <1>6 DEF IntThroughDigits, int, digits

(***************************************************************************)
(* The fields.                                                             *)
(***************************************************************************)
FieldAt == <<96, 80, 64, 56, 48, 0>>
FieldLen == <<32, 16, 16, 8, 8, 48>>

LEMMA FieldsPieces ==
  ASSUME NEW w \in WordPairs
  PROVE  \A i \in 1 .. 6 :
           Fields(w)[i] = Piece(IntOfWords(w), FieldAt[i], FieldLen[i])
<1> DEFINE int == IntOfWords(w)
           low == w.low
           high == w.high
<1>1. /\ low \in SUBSET (0 .. 63) /\ high \in SUBSET (0 .. 63) /\ int \in SUBSET (0 .. 127)
      /\ low \in SUBSET Int /\ high \in SUBSET Int
      /\ \A b \in Int : b \in 0 .. 63 => (b \in low <=> b \in int)
      /\ \A b \in Int : b \in 64 .. 127 => (b - 64 \in high <=> b \in int)
  BY NumberBits
<1>2. Fields(w) =
        << Shr(high, 32), Low(Shr(high, 16), 16), Low(high, 16),
           Low(Shr(low, 56), 8), Low(Shr(low, 48), 8),
           Low(low, 48) >>
  BY DEF Fields
<1> HIDE DEF int, low, high
<1>3. \A b : /\ b \in Shr(high, 32) <=> b \in 0 .. 63 /\ b + 32 \in high
             /\ b \in Shr(high, 16) <=> b \in 0 .. 63 /\ b + 16 \in high
             /\ b \in Shr(low, 56) <=> b \in 0 .. 63 /\ b + 56 \in low
             /\ b \in Shr(low, 48) <=> b \in 0 .. 63 /\ b + 48 \in low
  BY <1>1, WordBits
<1>4. ASSUME NEW word \in SUBSET Int, NEW n \in Int, NEW b
      PROVE  b \in Low(word, n) <=> b \in 0 .. n - 1 /\ b \in word
  BY WordBits
\* Bit b of a shifted high word, and of the number.
<1>5. ASSUME NEW k \in 0 .. 63, NEW b \in 0 .. 63 - k
      PROVE  b + k \in high <=> b + (k + 64) \in int
  <2>1. (b + (k + 64)) - 64 = b + k /\ b + (k + 64) \in 64 .. 127
    OBVIOUS
  <2>2. QED  BY <1>1, <2>1
<1>6. Shr(high, 32) = Piece(int, 96, 32)
  <2>1. \A b : b \in 0 .. 63 /\ b + 32 \in high <=> b \in 0 .. 31 /\ b + 32 \in high
    BY <1>1
  <2>2. \A b \in 0 .. 31 : b + 32 \in high <=> b + 96 \in int
    BY <1>5, 32 \in 0 .. 63
  <2>3. QED  BY <1>3, <2>1, <2>2 DEF Piece
<1>7. Low(Shr(high, 16), 16) = Piece(int, 80, 16)
  <2>1. \A b \in 0 .. 15 : b + 16 \in high <=> b + 80 \in int
    BY <1>5, 16 \in 0 .. 63
  <2>2. Shr(high, 16) \in SUBSET Int
    BY <1>3
  <2>3. QED  BY <1>3, <1>4, <2>1, <2>2 DEF Piece
<1>8. Low(high, 16) = Piece(int, 64, 16)
  <2>1. \A b \in 0 .. 15 : b \in high <=> b + 64 \in int
    BY <1>5, 0 \in 0 .. 63
  <2>2. QED  BY <1>1, <1>4, <2>1 DEF Piece
<1>9. Low(Shr(low, 56), 8) = Piece(int, 56, 8)
  <2>1. Shr(low, 56) \in SUBSET Int
    BY <1>3
  <2>2. QED  BY <1>1, <1>3, <1>4, <2>1 DEF Piece
<1>10. Low(Shr(low, 48), 8) = Piece(int, 48, 8)
  <2>1. Shr(low, 48) \in SUBSET Int
    BY <1>3
  <2>2. QED  BY <1>1, <1>3, <1>4, <2>1 DEF Piece
<1>11. Low(low, 48) = Piece(int, 0, 48)
  BY <1>1, <1>4 DEF Piece
<1>12. ASSUME NEW i \in 1 .. 6
       PROVE  Fields(w)[i] = Piece(int, FieldAt[i], FieldLen[i])
  <2>1. i = 1 \/ i = 2 \/ i = 3 \/ i = 4 \/ i = 5 \/ i = 6
    OBVIOUS
  <2>2. CASE i = 1
    BY <1>2, <1>6, <2>2 DEF FieldAt, FieldLen
  <2>3. CASE i = 2
    BY <1>2, <1>7, <2>3 DEF FieldAt, FieldLen
  <2>4. CASE i = 3
    BY <1>2, <1>8, <2>4 DEF FieldAt, FieldLen
  <2>5. CASE i = 4
    BY <1>2, <1>9, <2>5 DEF FieldAt, FieldLen
  <2>6. CASE i = 5
    BY <1>2, <1>10, <2>6 DEF FieldAt, FieldLen
  <2>7. CASE i = 6
    BY <1>2, <1>11, <2>7 DEF FieldAt, FieldLen
  <2>8. QED  BY <2>1, <2>2, <2>3, <2>4, <2>5, <2>6, <2>7
<1>13. QED  BY <1>12 DEF int

\* Every bit is in one of the fields.
LEMMA FieldOfBit ==
  ASSUME NEW b \in 0 .. 127
  PROVE  \E i \in 1 .. 6 : b - FieldAt[i] \in 0 .. FieldLen[i] - 1
<1>1. CASE b \in 0 .. 47
  <2>1. b - FieldAt[6] \in 0 .. FieldLen[6] - 1
    BY <1>1 DEF FieldAt, FieldLen
  <2>2. QED  BY <2>1
<1>2. CASE b \in 48 .. 55
  <2>1. b - FieldAt[5] \in 0 .. FieldLen[5] - 1
    BY <1>2 DEF FieldAt, FieldLen
  <2>2. QED  BY <2>1
<1>3. CASE b \in 56 .. 63
  <2>1. b - FieldAt[4] \in 0 .. FieldLen[4] - 1
    BY <1>3 DEF FieldAt, FieldLen
  <2>2. QED  BY <2>1
<1>4. CASE b \in 64 .. 79
  <2>1. b - FieldAt[3] \in 0 .. FieldLen[3] - 1
    BY <1>4 DEF FieldAt, FieldLen
  <2>2. QED  BY <2>1
<1>5. CASE b \in 80 .. 95
  <2>1. b - FieldAt[2] \in 0 .. FieldLen[2] - 1
    BY <1>5 DEF FieldAt, FieldLen
  <2>2. QED  BY <2>1
<1>6. CASE b \in 96 .. 127
  <2>1. b - FieldAt[1] \in 0 .. FieldLen[1] - 1
    BY <1>6 DEF FieldAt, FieldLen
  <2>2. QED  BY <2>1
<1>7. QED  BY <1>1, <1>2, <1>3, <1>4, <1>5, <1>6

LEMMA FieldsAreTheNumber ==
  ASSUME NEW w \in WordPairs
  PROVE  IntOfFields(Fields(w)) = IntOfWords(w)
<1> DEFINE int == IntOfWords(w)
           fields == Fields(w)
<1>1. int \in SUBSET (0 .. 127) /\ int \in SUBSET Int
  BY NumberBits
<1>2. \A i \in 1 .. 6 : fields[i] = Piece(int, FieldAt[i], FieldLen[i])
  BY FieldsPieces
<1>3. IntOfFields(fields) = Joined(fields, FieldAt, 6)
  BY DEF IntOfFields, FieldAt, Joined
<1> HIDE DEF int, fields
<1>4. FieldAt \in [1 .. 6 -> Int] /\ FieldLen \in [1 .. 6 -> Int]
  BY DEF FieldAt, FieldLen
<1>5. Covers(FieldAt, FieldLen, 6, int)
  BY <1>1, FieldOfBit DEF Covers
<1>6. CutFrom(fields, FieldAt, FieldLen, 6, int)
  BY <1>1, <1>2, <1>4, <1>5 DEF CutFrom
<1>7. QED  BY <1>3, <1>6, PiecesMakeUp DEF int, fields

(***************************************************************************)
(* The bytes in little-endian order.                                       *)
(***************************************************************************)
LEMMA BytesLeOf ==
  ASSUME NEW S, NEW bytes \in [1 .. 16 -> S]
  PROVE  /\ BytesLe(bytes) \in [1 .. 16 -> S]
         /\ BytesLe(bytes)[1] = bytes[4] /\ BytesLe(bytes)[2] = bytes[3]
         /\ BytesLe(bytes)[3] = bytes[2] /\ BytesLe(bytes)[4] = bytes[1]
         /\ BytesLe(bytes)[5] = bytes[6] /\ BytesLe(bytes)[6] = bytes[5]
         /\ BytesLe(bytes)[7] = bytes[8] /\ BytesLe(bytes)[8] = bytes[7]
         /\ \A i \in 9 .. 16 : BytesLe(bytes)[i] = bytes[i]
<1> DEFINE head == << bytes[4], bytes[3], bytes[2], bytes[1],
                      bytes[6], bytes[5], bytes[8], bytes[7] >>
           tail == SubSeq(bytes, 9, 16)
           le == BytesLe(bytes)
<1>1. /\ bytes[1] \in S /\ bytes[2] \in S /\ bytes[3] \in S /\ bytes[4] \in S
      /\ bytes[5] \in S /\ bytes[6] \in S /\ bytes[7] \in S /\ bytes[8] \in S
  OBVIOUS
<1>2. head \in Seq(S) /\ Len(head) = 8
  BY <1>1
<1>3. head \in [1 .. 8 -> S]
  BY <1>2, LenProperties
<1>4. /\ tail \in Seq(S) /\ Len(tail) = 8
      /\ \A i \in 1 .. 8 : tail[i] = bytes[8 + i]
  <2>1. \A i \in 9 .. 16 : bytes[i] \in S
    OBVIOUS
  <2>2. /\ tail \in Seq(S)
        /\ Len(tail) = IF 9 <= 16 THEN 16 - 9 + 1 ELSE 0
        /\ \A i \in 1 .. 16 - 9 + 1 : tail[i] = bytes[9 + i - 1]
    BY <2>1, SubSeqProperties, 9 \in Int, 16 \in Int
  <2>3. \A i \in 1 .. 8 : 9 + i - 1 = 8 + i
    OBVIOUS
  <2>4. QED  BY <2>2, <2>3
<1>5. tail \in [1 .. 8 -> S]
  BY <1>4, LenProperties
<1>6. le = head \o tail
  BY DEF BytesLe
<1>7. /\ head[1] = bytes[4] /\ head[2] = bytes[3] /\ head[3] = bytes[2] /\ head[4] = bytes[1]
      /\ head[5] = bytes[6] /\ head[6] = bytes[5] /\ head[7] = bytes[8] /\ head[8] = bytes[7]
  OBVIOUS
<1> HIDE DEF head, tail, le
<1>8. /\ le \in [1 .. 16 -> S]
      /\ \A i \in 1 .. 16 : le[i] = IF i <= 8 THEN head[i] ELSE tail[i - 8]
  <2>1. EightOf(head, S) /\ EightOf(tail, S)
    BY <1>3, <1>5 DEF EightOf
  <2>2. AreEightEach(head, tail, le, S)
    BY <1>6, <2>1, ConcatOfEights
  <2>3. QED  BY <2>2 DEF AreEightEach
<1>9. \A i \in 1 .. 8 : le[i] = head[i]
  BY <1>8
<1>10. ASSUME NEW i \in 9 .. 16
       PROVE  le[i] = bytes[i]
  <2>1. i - 8 \in 1 .. 8 /\ 8 + (i - 8) = i /\ i \in 1 .. 16 /\ ~ (i <= 8)
    OBVIOUS
  <2>2. QED  BY <1>4, <1>8, <2>1
<1>11. QED  BY <1>7, <1>8, <1>9, <1>10 DEF le

\* UUID.bytes_le, or bytes_le=, twice is no change.
LEMMA BytesLeTwice ==
  ASSUME NEW S, NEW bytes \in [1 .. 16 -> S]
  PROVE  BytesLe(BytesLe(bytes)) = bytes
<1> DEFINE le == BytesLe(bytes)
           again == BytesLe(le)
<1>1. /\ le \in [1 .. 16 -> S]
      /\ le[1] = bytes[4] /\ le[2] = bytes[3] /\ le[3] = bytes[2] /\ le[4] = bytes[1]
      /\ le[5] = bytes[6] /\ le[6] = bytes[5] /\ le[7] = bytes[8] /\ le[8] = bytes[7]
      /\ \A i \in 9 .. 16 : le[i] = bytes[i]
  BY BytesLeOf
<1> HIDE DEF le
<1>2. /\ again \in [1 .. 16 -> S]
      /\ again[1] = le[4] /\ again[2] = le[3] /\ again[3] = le[2] /\ again[4] = le[1]
      /\ again[5] = le[6] /\ again[6] = le[5] /\ again[7] = le[8] /\ again[8] = le[7]
      /\ \A i \in 9 .. 16 : again[i] = le[i]
  BY <1>1, BytesLeOf
<1> HIDE DEF again
<1>3. /\ again[1] = bytes[1] /\ again[2] = bytes[2] /\ again[3] = bytes[3]
      /\ again[4] = bytes[4] /\ again[5] = bytes[5] /\ again[6] = bytes[6]
      /\ again[7] = bytes[7] /\ again[8] = bytes[8]
      /\ \A i \in 9 .. 16 : again[i] = bytes[i]
  BY <1>1, <1>2
<1>4. ASSUME NEW i \in 1 .. 16
      PROVE  again[i] = bytes[i]
  <2>1. \/ i = 1 \/ i = 2 \/ i = 3 \/ i = 4 \/ i = 5 \/ i = 6 \/ i = 7 \/ i = 8
        \/ i \in 9 .. 16
    OBVIOUS
  <2>2. QED  BY <1>3, <2>1
<1>5. QED  BY <1>2, <1>4 DEF again, le

LEMMA BytesLeAreTheNumber ==
  ASSUME NEW w \in WordPairs
  PROVE  IntOfBytesLe(BytesLe(Bytes(w))) = IntOfWords(w)
<1>1. /\ Bytes(w) \in [1 .. 16 -> SUBSET Int]
      /\ \A i \in 1 .. 16 :
           Bytes(w)[i] = Piece(IntOfWords(w), 128 - 8 * i, 8)
  BY BytesPieces
<1>2. BytesLe(BytesLe(Bytes(w))) = Bytes(w)
  BY <1>1, BytesLeTwice
<1>3. IntOfBytes(Bytes(w)) = IntOfWords(w)
  BY <1>1, NumberBits, BytesAreTheNumber
<1>4. QED  BY <1>2, <1>3 DEF IntOfBytesLe

(***************************************************************************)
(* The text.                                                               *)
(***************************************************************************)
DashPlaces == {9, 14, 19, 24}

\* Of a character of the text that is no dash: which hexadecimal digit it is.
DigitAt(c) == c - (IF c > 24 THEN 4 ELSE IF c > 19 THEN 3
                   ELSE IF c > 14 THEN 2 ELSE IF c > 9 THEN 1 ELSE 0)
PlaceOf(h) == h + (IF h > 20 THEN 4 ELSE IF h > 16 THEN 3
                   ELSE IF h > 12 THEN 2 ELSE IF h > 8 THEN 1 ELSE 0)

LEMMA DigitsAndPlaces ==
  /\ \A h \in 1 .. 32 : PlaceOf(h) \in (1 .. 36) \ DashPlaces /\ DigitAt(PlaceOf(h)) = h
  /\ \A c \in (1 .. 36) \ DashPlaces : DigitAt(c) \in 1 .. 32 /\ PlaceOf(DigitAt(c)) = c
<1>1. ASSUME NEW h \in 1 .. 32
      PROVE  PlaceOf(h) \in (1 .. 36) \ DashPlaces /\ DigitAt(PlaceOf(h)) = h
  BY DEF PlaceOf, DigitAt, DashPlaces
<1>2. ASSUME NEW c \in (1 .. 36) \ DashPlaces
      PROVE  DigitAt(c) \in 1 .. 32 /\ PlaceOf(DigitAt(c)) = c
  BY DEF PlaceOf, DigitAt, DashPlaces
<1>3. QED  BY <1>1, <1>2

LEMMA PlacesOfBytes ==
  /\ \A i \in 1 .. 16 : /\ Places[i] = PlaceOf(2 * i - 1)
                        /\ Places[i] + 1 = PlaceOf(2 * i)
<1> DEFINE P(i) == /\ Places[i] = PlaceOf(2 * i - 1)
                   /\ Places[i] + 1 = PlaceOf(2 * i)
<1>1. P(1) /\ P(2) /\ P(3) /\ P(4)
  BY DEF Places, PlaceOf
<1>2. P(5) /\ P(6) /\ P(7) /\ P(8)
  BY DEF Places, PlaceOf
<1>3. P(9) /\ P(10) /\ P(11) /\ P(12)
  BY DEF Places, PlaceOf
<1>4. P(13) /\ P(14) /\ P(15) /\ P(16)
  BY DEF Places, PlaceOf
<1> HIDE DEF P
<1>5. ASSUME NEW i \in 1 .. 16
      PROVE  P(i)
  <2>1. \/ i = 1 \/ i = 2 \/ i = 3 \/ i = 4 \/ i = 5 \/ i = 6 \/ i = 7 \/ i = 8
        \/ i = 9 \/ i = 10 \/ i = 11 \/ i = 12 \/ i = 13 \/ i = 14 \/ i = 15 \/ i = 16
    OBVIOUS
  <2>2. QED  BY <1>1, <1>2, <1>3, <1>4, <2>1
<1>6. QED  BY <1>5 DEF P

\* The two characters of a byte, and no other byte's.
LEMMA ByteAtPlace ==
  ASSUME NEW h \in 1 .. 32, NEW j \in 1 .. 16,
         PlaceOf(h) \in {Places[j], Places[j] + 1}
  PROVE  /\ PlaceOf(h) = Places[j] => h = 2 * j - 1
         /\ PlaceOf(h) # Places[j] => h = 2 * j
<1>1. 2 * j - 1 \in 1 .. 32 /\ 2 * j \in 1 .. 32
  OBVIOUS
<1>2. /\ Places[j] = PlaceOf(2 * j - 1)
      /\ Places[j] + 1 = PlaceOf(2 * j)
  BY PlacesOfBytes
<1>3. /\ DigitAt(PlaceOf(h)) = h
      /\ DigitAt(PlaceOf(2 * j - 1)) = 2 * j - 1
      /\ DigitAt(PlaceOf(2 * j)) = 2 * j
  BY <1>1, DigitsAndPlaces
<1>4. QED  BY <1>2, <1>3

LEMMA PlaceOfHalves ==
  ASSUME NEW i \in 1 .. 16
  PROVE  /\ \A j \in 1 .. 16 :
              PlaceOf(2 * i - 1) \in {Places[j], Places[j] + 1} <=> j = i
         /\ \A j \in 1 .. 16 :
              PlaceOf(2 * i) \in {Places[j], Places[j] + 1} <=> j = i
         /\ PlaceOf(2 * i - 1) = Places[i] /\ PlaceOf(2 * i) # Places[i]
<1>1. 2 * i - 1 \in 1 .. 32 /\ 2 * i \in 1 .. 32
  OBVIOUS
<1>2. /\ Places[i] = PlaceOf(2 * i - 1)
      /\ Places[i] + 1 = PlaceOf(2 * i)
  BY PlacesOfBytes
<1>3. ASSUME NEW j \in 1 .. 16,
             PlaceOf(2 * i - 1) \in {Places[j], Places[j] + 1}
      PROVE  j = i
  <2>1. 2 * i - 1 = 2 * j - 1 \/ 2 * i - 1 = 2 * j
    BY <1>1, <1>3, ByteAtPlace
  <2>2. QED  BY <2>1
<1>4. ASSUME NEW j \in 1 .. 16,
             PlaceOf(2 * i) \in {Places[j], Places[j] + 1}
      PROVE  j = i
  <2>1. 2 * i = 2 * j - 1 \/ 2 * i = 2 * j
    BY <1>1, <1>4, ByteAtPlace
  <2>2. QED  BY <2>1
<1>5. PlaceOf(2 * i) # Places[i]
  <2>1. PlaceOf(2 * i) \in Int
    BY <1>1, DigitsAndPlaces
  <2>2. QED  BY <1>2, <2>1 DEF PlaceOf
<1>6. QED  BY <1>2, <1>3, <1>4, <1>5

LEMMA HalvesOfByte ==
  ASSUME NEW int, NEW i \in 1 .. 16, NEW byte, byte = Piece(int, 128 - 8 * i, 8)
  PROVE  /\ Shr(byte, 4) = Piece(int, 128 - 4 * (2 * i - 1), 4)
         /\ Low(byte, 4) = Piece(int, 128 - 4 * (2 * i), 4)
<1>1. byte \in SUBSET Int
  BY DEF Piece
<1>2. \A b : /\ b \in Shr(byte, 4) <=> b \in 0 .. 63 /\ b + 4 \in byte
             /\ b \in Low(byte, 4) <=> b \in 0 .. 3 /\ b \in byte
  BY <1>1, WordBits
<1>3. \A b : b \in byte <=> b \in 0 .. 7 /\ b + (128 - 8 * i) \in int
  BY Pieces
<1>4. ASSUME NEW b
      PROVE  b \in Shr(byte, 4) <=> b \in Piece(int, 128 - 4 * (2 * i - 1), 4)
  <2>1. CASE b \in 0 .. 3
    <3>1. b + 4 \in 0 .. 7 /\ b \in 0 .. 63
          /\ (b + 4) + (128 - 8 * i) = b + (128 - 4 * (2 * i - 1))
      BY <2>1
    <3>2. b \in Shr(byte, 4) <=> b + (128 - 4 * (2 * i - 1)) \in int
      BY <1>2, <1>3, <3>1
    <3>3. QED  BY <2>1, <3>2, Pieces
  <2>2. CASE b \in (0 .. 63) \ (0 .. 3)
    <3>1. b + 4 \notin 0 .. 7
      BY <2>2
    <3>2. b \notin Piece(int, 128 - 4 * (2 * i - 1), 4)
      BY <2>2, Pieces
    <3>3. QED  BY <1>2, <1>3, <3>1, <3>2
  <2>3. CASE b \notin 0 .. 63
    <3>1. b \notin 0 .. 3
      BY <2>3
    <3>2. QED  BY <1>2, <2>3, <3>1, Pieces
  <2>4. QED  BY <2>1, <2>2, <2>3
<1>5. ASSUME NEW b
      PROVE  b \in Low(byte, 4) <=> b \in Piece(int, 128 - 4 * (2 * i), 4)
  <2>1. CASE b \in 0 .. 3
    <3>1. b \in 0 .. 7 /\ b + (128 - 8 * i) = b + (128 - 4 * (2 * i))
      BY <2>1
    <3>2. QED  BY <1>2, <1>3, <2>1, <3>1, Pieces
  <2>2. CASE b \notin 0 .. 3
    BY <1>2, <2>2, Pieces
  <2>3. QED  BY <2>1, <2>2
<1>6. QED  BY <1>1, <1>2, <1>4, <1>5 DEF Piece

IsTextOf(text, int) ==
  /\ DOMAIN text = 1 .. 36
  /\ \A c \in DashPlaces : text[c] = Dash
  /\ \A h \in 1 .. 32 : text[PlaceOf(h)] = Piece(int, 128 - 4 * h, 4)

LEMMA TextPieces ==
  ASSUME NEW int, NEW bytes,
         \A i \in 1 .. 16 : bytes[i] = Piece(int, 128 - 8 * i, 8)
  PROVE  IsTextOf(Text(bytes), int)
<1> DEFINE text == Text(bytes)
           In(c, i) == c \in {Places[i], Places[i] + 1}
           Byte(c) == CHOOSE i \in 1 .. 16 : In(c, i)
<1>1. DOMAIN text = 1 .. 36
  BY DEF Text
<1>2. ASSUME NEW c \in 1 .. 36, ~ \E i \in 1 .. 16 : In(c, i)
      PROVE  text[c] = Dash
  BY <1>2 DEF Text
<1>3. ASSUME NEW c \in 1 .. 36, \E i \in 1 .. 16 : In(c, i)
      PROVE  text[c] = IF c = Places[Byte(c)] THEN Shr(bytes[Byte(c)], 4)
                                                   ELSE Low(bytes[Byte(c)], 4)
  BY <1>3 DEF Text
<1> HIDE DEF text
<1>4. ASSUME NEW c \in DashPlaces
      PROVE  text[c] = Dash
  <2>1. c \in 1 .. 36
    BY DEF DashPlaces
  <2>2. ASSUME NEW i \in 1 .. 16
        PROVE  ~ In(c, i)
    <3>1. 2 * i - 1 \in 1 .. 32 /\ 2 * i \in 1 .. 32
      OBVIOUS
    <3>2. PlaceOf(2 * i - 1) \notin DashPlaces /\ PlaceOf(2 * i) \notin DashPlaces
      BY <3>1, DigitsAndPlaces
    <3>3. QED  BY <3>2, PlacesOfBytes
  <2>3. QED  BY <1>2, <2>1, <2>2
<1>5. ASSUME NEW i \in 1 .. 16, NEW c \in 1 .. 36,
             \A j \in 1 .. 16 : In(c, j) <=> j = i
      PROVE  Byte(c) = i /\ \E j \in 1 .. 16 : In(c, j)
  <2>1. \E j \in 1 .. 16 : In(c, j)
    BY <1>5
  <2> HIDE DEF In
  <2>2. Byte(c) \in 1 .. 16 /\ In(c, Byte(c))
    BY <2>1
  <2>3. QED  BY <1>5, <2>1, <2>2
<1>6. ASSUME NEW i \in 1 .. 16
      PROVE  /\ text[PlaceOf(2 * i - 1)] = Piece(int, 128 - 4 * (2 * i - 1), 4)
             /\ text[PlaceOf(2 * i)] = Piece(int, 128 - 4 * (2 * i), 4)
  <2>1. PlaceOf(2 * i - 1) \in 1 .. 36 /\ PlaceOf(2 * i) \in 1 .. 36
    <3>1. 2 * i - 1 \in 1 .. 32 /\ 2 * i \in 1 .. 32
      OBVIOUS
    <3>2. QED  BY <3>1, DigitsAndPlaces
  <2>2. /\ \A j \in 1 .. 16 : In(PlaceOf(2 * i - 1), j) <=> j = i
        /\ \A j \in 1 .. 16 : In(PlaceOf(2 * i), j) <=> j = i
        /\ PlaceOf(2 * i - 1) = Places[i] /\ PlaceOf(2 * i) # Places[i]
    BY PlaceOfHalves
  <2> HIDE DEF In, Byte
  <2>3. /\ Byte(PlaceOf(2 * i - 1)) = i /\ \E j \in 1 .. 16 : In(PlaceOf(2 * i - 1), j)
        /\ Byte(PlaceOf(2 * i)) = i /\ \E j \in 1 .. 16 : In(PlaceOf(2 * i), j)
    BY <1>5, <2>1, <2>2
  <2>4. /\ text[PlaceOf(2 * i - 1)] = Shr(bytes[i], 4)
        /\ text[PlaceOf(2 * i)] = Low(bytes[i], 4)
    BY <1>3, <2>1, <2>2, <2>3
  <2>5. /\ Shr(bytes[i], 4) = Piece(int, 128 - 4 * (2 * i - 1), 4)
        /\ Low(bytes[i], 4) = Piece(int, 128 - 4 * (2 * i), 4)
    BY HalvesOfByte
  <2>6. QED  BY <2>4, <2>5
<1>7. ASSUME NEW h \in 1 .. 32
      PROVE  text[PlaceOf(h)] = Piece(int, 128 - 4 * h, 4)
  <2>1. CASE h % 2 = 1
    <3>1. (h + 1) \div 2 \in 1 .. 16 /\ 2 * ((h + 1) \div 2) - 1 = h
      BY <2>1
    <3>2. QED  BY <1>6, <3>1
  <2>2. CASE h % 2 = 0
    <3>1. h \div 2 \in 1 .. 16 /\ 2 * (h \div 2) = h
      BY <2>2
    <3>2. QED  BY <1>6, <3>1
  <2>3. QED  BY <2>1, <2>2
<1>8. QED  BY <1>1, <1>4, <1>7 DEF IsTextOf, text

\* uuid.UUID drops the dashes.
LEMMA HexOfText ==
  ASSUME NEW int, NEW text, IsTextOf(text, int)
  PROVE  \A h \in 1 .. 32 : HexOf(text)[h] = Piece(int, 128 - 4 * h, 4)
<1>1. ASSUME NEW h \in 1 .. 32
      PROVE  HexOf(text)[h] = Piece(int, 128 - 4 * h, 4)
  <2> DEFINE Is(c) == text[c] # Dash /\ h = DigitAt(c)
             place == CHOOSE c \in 1 .. 36 : Is(c)
  <2>1. HexOf(text)[h] = text[place]
    BY DEF HexOf, DigitAt
  <2>2. text[PlaceOf(h)] # Dash
    <3>1. -1 \notin text[PlaceOf(h)]
      BY DEF IsTextOf, Piece
    <3>2. QED  BY <3>1 DEF Dash
  <2>3. PlaceOf(h) \in 1 .. 36 /\ Is(PlaceOf(h))
    BY <2>2, DigitsAndPlaces
  <2>4. ASSUME NEW c \in 1 .. 36, Is(c)
        PROVE  c = PlaceOf(h)
    <3>1. c \notin DashPlaces
      BY <2>4 DEF IsTextOf
    <3>2. QED  BY <2>4, <3>1, DigitsAndPlaces
  <2> HIDE DEF Is
  <2>5. place \in 1 .. 36 /\ Is(place)
    BY <2>3
  <2>6. place = PlaceOf(h)
    BY <2>4, <2>5
  <2>7. QED  BY <2>1, <2>6 DEF IsTextOf
<1>2. QED  BY <1>1

LEMMA TextIsTheNumber ==
  ASSUME NEW int \in SUBSET (0 .. 127), NEW text, IsTextOf(text, int)
  PROVE  IntOfText(text) = int
<1> DEFINE hex == HexOf(text)
           start == [h \in 1 .. 32 |-> 128 - 4 * h]
           len == [h \in 1 .. 32 |-> 4]
<1>1. \A h \in 1 .. 32 : hex[h] = Piece(int, start[h], len[h])
  BY HexOfText
<1> HIDE DEF hex
<1>2. Covers(start, len, 32, int)
  <2>1. ASSUME NEW b \in int
        PROVE  \E h \in 1 .. 32 : b - start[h] \in 0 .. len[h] - 1
    <3>1. 32 - b \div 4 \in 1 .. 32 /\ b - (128 - 4 * (32 - b \div 4)) \in 0 .. 3
      OBVIOUS
    <3>2. start[32 - b \div 4] = 128 - 4 * (32 - b \div 4) /\ len[32 - b \div 4] = 4
      BY <3>1
    <3>3. QED  BY <3>1, <3>2
  <2>2. QED  BY <2>1 DEF Covers
<1>3. start \in [1 .. 32 -> Int] /\ len \in [1 .. 32 -> Int] /\ int \in SUBSET Int
  OBVIOUS
<1>4. IntOfText(text) = Joined(hex, start, 32)
  <2>1. ASSUME NEW h \in 1 .. 32
        PROVE  {b + 128 - 4 * h : b \in hex[h]} = {b + start[h] : b \in hex[h]}
    <3>1. hex[h] \in SUBSET Int
      BY <1>1 DEF Piece
    <3>2. \A b \in hex[h] : b + 128 - 4 * h = b + start[h]
      BY <3>1
    <3>3. QED  BY <3>2
  <2>2. QED  BY <2>1 DEF IntOfText, Joined, hex
<1> HIDE DEF start, len
<1>5. Joined(hex, start, 32) = int
  <2>1. CutFrom(hex, start, len, 32, int)
    BY <1>1, <1>2, <1>3 DEF CutFrom
  <2>2. QED  BY <2>1, PiecesMakeUp
<1>6. QED  BY <1>4, <1>5

(***************************************************************************)
(* The bits of an identifier.                                              *)
(***************************************************************************)
LiveBit(m, b) ==
  \/ b \in 80 .. 127 /\ b - 80 \in m.ms
  \/ b \in {63, 76, 77, 78}
  \/ b \in 64 .. 75 /\ b - 34 \in m.first
  \/ b \in 32 .. 61 /\ b - 32 \in m.first
  \/ b \in 0 .. 31 /\ b \in m.second

HistoricalBit(m, b) ==
  \/ b \in 80 .. 127 /\ b - 80 \in m.ms
  \/ b \in {63, 76, 77, 78}
  \/ b \in 64 .. 75 /\ b - 64 \in m.first
  \/ b \in 0 .. 61 /\ b \in m.second

Bit(m, b) == IF m.live THEN LiveBit(m, b) ELSE HistoricalBit(m, b)

LEMMA GenerationBits ==
  ASSUME NEW m, IsGeneration(m)
  PROVE  /\ m.live \in BOOLEAN
         /\ m.ms \in SUBSET (0 .. 47)
         /\ m.live => m.first \in SUBSET (0 .. 41)
         /\ ~ m.live => m.first \in SUBSET (0 .. 63)
         /\ m.second \in SUBSET (0 .. 63)
         /\ m.ms \in SUBSET Int /\ m.first \in SUBSET Int /\ m.second \in SUBSET Int
<1>1. /\ m.live \in BOOLEAN
      /\ m.ms \in SUBSET Bits(48)
      /\ m.first \in SUBSET Bits(IF m.live THEN 42 ELSE 64)
      /\ m.second \in SUBSET Bits(64)
  BY DEF IsGeneration
<1>2. Bits(48) = 0 .. 47 /\ Bits(42) = 0 .. 41 /\ Bits(64) = 0 .. 63
  BY DEF Bits
<1>3. /\ m.live => m.first \in SUBSET (0 .. 41)
      /\ ~ m.live => m.first \in SUBSET (0 .. 63)
  BY <1>1, <1>2
<1>4. QED  BY <1>1, <1>2, <1>3

\* The number the RFC gives it.
LEMMA BitsOfNumber ==
  ASSUME NEW m, IsGeneration(m)
  PROVE  \A b : b \in Number(m) <=> Bit(m, b)
<1> USE GenerationBits
<1>1. \A field, k : \A b : b \in At(field, k) <=> \E x \in field : b = x + k
  BY DEF At
<1>2. ASSUME NEW b
      PROVE  b \in At(m.ms, 80) <=> b \in 80 .. 127 /\ b - 80 \in m.ms
  BY <1>1
<1>3. CASE m.live
  <2> DEFINE rand_a == {b - 30 : b \in m.first \ Bits(30)}
  <2>1. Number(m) =
          At(m.ms, 80) \cup {76, 77, 78} \cup At(rand_a, 64) \cup {63} \cup
            (At(m.first \cap Bits(30), 32) \cup (m.second \cap Bits(32)))
    BY <1>3 DEF Number, Rfc9562
  <2>2. ASSUME NEW x
        PROVE  x \in rand_a <=> x \in 0 .. 11 /\ x + 30 \in m.first
    <3>1. x \in rand_a <=> \E b \in m.first \ (0 .. 29) : x = b - 30
      BY DEF Bits
    <3>2. ASSUME NEW b \in m.first \ (0 .. 29), x = b - 30
          PROVE  x \in 0 .. 11 /\ x + 30 \in m.first
      <4>1. b \in 30 .. 41 /\ x + 30 = b
        BY <1>3, <3>2
      <4>2. QED  BY <3>2, <4>1
    <3>3. ASSUME x \in 0 .. 11, x + 30 \in m.first
          PROVE  \E b \in m.first \ (0 .. 29) : x = b - 30
      <4>1. x = (x + 30) - 30 /\ x + 30 \notin 0 .. 29
        BY <3>3
      <4>2. QED  BY <3>3, <4>1
    <3>4. QED  BY <3>1, <3>2, <3>3
  <2> HIDE DEF rand_a
  <2>3. ASSUME NEW b
        PROVE  b \in At(rand_a, 64) <=> b \in 64 .. 75 /\ b - 34 \in m.first
    <3>1. b \in At(rand_a, 64) <=> \E x : /\ x \in 0 .. 11 /\ x + 30 \in m.first
                                                 /\ b = x + 64
      BY <1>1, <2>2
    <3>2. ASSUME NEW x \in 0 .. 11, x + 30 \in m.first, b = x + 64
          PROVE  b \in 64 .. 75 /\ b - 34 \in m.first
      <4>1. b - 34 = x + 30
        BY <3>2
      <4>2. QED  BY <3>2, <4>1
    <3>3. ASSUME b \in 64 .. 75, b - 34 \in m.first
          PROVE  /\ b - 64 \in 0 .. 11 /\ (b - 64) + 30 \in m.first
                 /\ b = (b - 64) + 64
      <4>1. b - 64 \in 0 .. 11 /\ (b - 64) + 30 = b - 34 /\ b = (b - 64) + 64
        BY <3>3
      <4>2. QED  BY <3>3, <4>1
    <3>4. QED  BY <3>1, <3>2, <3>3
  <2>4. ASSUME NEW b
        PROVE  b \in At(m.first \cap Bits(30), 32) <=>
                 b \in 32 .. 61 /\ b - 32 \in m.first
    <3>1. b \in At(m.first \cap Bits(30), 32) <=>
            \E x \in m.first \cap (0 .. 29) : b = x + 32
      BY DEF At, Bits
    <3>2. ASSUME NEW x \in m.first \cap (0 .. 29), b = x + 32
          PROVE  b \in 32 .. 61 /\ b - 32 \in m.first
      <4>1. b - 32 = x
        BY <3>2
      <4>2. QED  BY <3>2, <4>1
    <3>3. ASSUME b \in 32 .. 61, b - 32 \in m.first
          PROVE  b - 32 \in m.first \cap (0 .. 29) /\ b = (b - 32) + 32
      BY <3>3
    <3>4. QED  BY <3>1, <3>2, <3>3
  <2>5. ASSUME NEW b
        PROVE  b \in m.second \cap Bits(32) <=> b \in 0 .. 31 /\ b \in m.second
    BY DEF Bits
  <2>6. ASSUME NEW b
        PROVE  b \in Number(m) <=> LiveBit(m, b)
    <3>1. b \in Number(m) <=>
            \/ b \in At(m.ms, 80) \/ b \in {76, 77, 78}
            \/ b \in At(rand_a, 64) \/ b = 63
            \/ b \in At(m.first \cap Bits(30), 32)
            \/ b \in m.second \cap Bits(32)
      BY <2>1
    <3>2. QED  BY <1>2, <2>3, <2>4, <2>5, <3>1 DEF LiveBit
  <2>7. QED  BY <1>3, <2>6 DEF Bit
<1>4. CASE ~ m.live
  <2>1. Number(m) =
          At(m.ms, 80) \cup {76, 77, 78}
            \cup At(m.first \cap Bits(12), 64) \cup {63}
            \cup (m.second \cap Bits(62))
    BY <1>4 DEF Number, Rfc9562
  <2>2. ASSUME NEW b
        PROVE  b \in At(m.first \cap Bits(12), 64) <=>
                 b \in 64 .. 75 /\ b - 64 \in m.first
    <3>1. b \in At(m.first \cap Bits(12), 64) <=>
            \E x \in m.first \cap (0 .. 11) : b = x + 64
      BY DEF At, Bits
    <3>2. ASSUME NEW x \in m.first \cap (0 .. 11), b = x + 64
          PROVE  b \in 64 .. 75 /\ b - 64 \in m.first
      <4>1. b - 64 = x
        BY <3>2
      <4>2. QED  BY <3>2, <4>1
    <3>3. ASSUME b \in 64 .. 75, b - 64 \in m.first
          PROVE  b - 64 \in m.first \cap (0 .. 11) /\ b = (b - 64) + 64
      BY <3>3
    <3>4. QED  BY <3>1, <3>2, <3>3
  <2>3. ASSUME NEW b
        PROVE  b \in m.second \cap Bits(62) <=> b \in 0 .. 61 /\ b \in m.second
    BY DEF Bits
  <2>4. ASSUME NEW b
        PROVE  b \in Number(m) <=> HistoricalBit(m, b)
    <3>1. b \in Number(m) <=>
            \/ b \in At(m.ms, 80) \/ b \in {76, 77, 78}
            \/ b \in At(m.first \cap Bits(12), 64) \/ b = 63
            \/ b \in m.second \cap Bits(62)
      BY <2>1
    <3>2. QED  BY <1>2, <2>2, <2>3, <3>1 DEF HistoricalBit
  <2>5. QED  BY <1>4, <2>4 DEF Bit
<1>5. QED  BY <1>3, <1>4

\* The words it is generated in.
LEMMA WordsOfGeneration ==
  ASSUME NEW m, IsGeneration(m)
  PROVE  /\ Words(m) \in WordPairs
         /\ IntOfWords(Words(m)) = Number(m)
<1> DEFINE w == Words(m)
<1>1. /\ m.ms \in SUBSET (0 .. 47) /\ m.ms \in SUBSET Int
      /\ m.first \in SUBSET Int /\ m.second \in SUBSET Int
  BY GenerationBits
<1>2. ASSUME NEW b
      PROVE  b \in Shl(m.ms, 16) <=> b \in 16 .. 63 /\ b - 16 \in m.ms
  <2>1. b \in Shl(m.ms, 16) <=> b \in 0 .. 63 /\ b - 16 \in m.ms
    BY <1>1, WordBits
  <2>2. b \in 0 .. 15 => b - 16 \notin m.ms
    BY <1>1
  <2>3. QED  BY <2>1, <2>2
<1>3. CASE m.live
  <2>1. /\ w.high = Shl(m.ms, 16) \cup {12, 13, 14}
                      \cup Low(Shr(m.first, 30), 12)
        /\ w.low = {63} \cup Shl(Low(m.first, 30), 32) \cup Low(m.second, 32)
        /\ w = [high |-> w.high, low |-> w.low]
    BY <1>3 DEF Words, LiveWords, Version, Variant
  <2> HIDE DEF w
  <2>2. /\ m.first \in SUBSET Int /\ m.second \in SUBSET Int
        /\ Shr(m.first, 30) \in SUBSET Int /\ Low(m.first, 30) \in SUBSET Int
    BY <1>1, WordBits
  <2>3. ASSUME NEW b
        PROVE  /\ b \in Low(Shr(m.first, 30), 12) <=>
                    b \in 0 .. 11 /\ b + 30 \in m.first
               /\ b \in Shl(Low(m.first, 30), 32) <=>
                    b \in 32 .. 61 /\ b - 32 \in m.first
               /\ b \in Low(m.second, 32) <=> b \in 0 .. 31 /\ b \in m.second
    <3>1. b \in Shr(m.first, 30) <=> b \in 0 .. 63 /\ b + 30 \in m.first
      BY <2>2, WordBits
    <3>2. b \in Low(Shr(m.first, 30), 12) <=>
            b \in 0 .. 11 /\ b \in Shr(m.first, 30)
      BY <2>2, WordBits
    <3>3. b \in Shl(Low(m.first, 30), 32) <=>
            b \in 0 .. 63 /\ b - 32 \in Low(m.first, 30)
      BY <2>2, WordBits
    <3>4. b - 32 \in Low(m.first, 30) <=> b - 32 \in 0 .. 29 /\ b - 32 \in m.first
      <4>1. \A c : c \in Low(m.first, 30) <=> c \in 0 .. 29 /\ c \in m.first
        BY <2>2, WordBits
      <4>2. QED  BY <4>1
    <3>5. b \in 0 .. 63 => (b - 32 \in 0 .. 29 <=> b \in 32 .. 61)
      OBVIOUS
    <3>6. b \in Low(m.second, 32) <=> b \in 0 .. 31 /\ b \in m.second
      BY <2>2, WordBits
    <3>7. QED  BY <3>1, <3>2, <3>3, <3>4, <3>5, <3>6
  <2>4. ASSUME NEW b
        PROVE  /\ b \in w.high <=> \/ b \in 16 .. 63 /\ b - 16 \in m.ms
                                   \/ b \in {12, 13, 14}
                                   \/ b \in 0 .. 11 /\ b + 30 \in m.first
               /\ b \in w.low <=> \/ b = 63
                                  \/ b \in 32 .. 61 /\ b - 32 \in m.first
                                  \/ b \in 0 .. 31 /\ b \in m.second
    BY <1>2, <2>1, <2>3
  <2>5. w.high \in SUBSET (0 .. 63) /\ w.low \in SUBSET (0 .. 63)
    BY <2>4
  <2>6. w \in WordPairs
    BY <2>1, <2>5 DEF WordPairs
  <2>7. ASSUME NEW b \in 64 .. 127
        PROVE  b \in IntOfWords(w) <=> LiveBit(m, b)
    <3>1. b \in IntOfWords(w) <=> b - 64 \in w.high
      BY <2>6, NumberBits
    <3>2. (b - 64) - 16 = b - 80 /\ (b - 64) + 30 = b - 34
      OBVIOUS
    <3>3. /\ b - 64 \in 16 .. 63 <=> b \in 80 .. 127
          /\ b - 64 \in {12, 13, 14} <=> b \in {76, 77, 78}
          /\ b - 64 \in 0 .. 11 <=> b \in 64 .. 75
      OBVIOUS
    <3>4. QED  BY <2>4, <3>1, <3>2, <3>3 DEF LiveBit
  <2>8. ASSUME NEW b \in 0 .. 63
        PROVE  b \in IntOfWords(w) <=> LiveBit(m, b)
    <3>1. b \in IntOfWords(w) <=> b \in w.low
      BY <2>6, NumberBits
    <3>2. QED  BY <2>4, <3>1 DEF LiveBit
  <2>9. \A b : b \in Number(m) <=> LiveBit(m, b)
    BY <1>3, BitsOfNumber DEF Bit
  <2>10. \A b : LiveBit(m, b) => b \in 0 .. 127
    BY DEF LiveBit
  <2>11. IntOfWords(w) \in SUBSET (0 .. 127)
    BY <2>6, NumberBits
  <2>12. IntOfWords(w) = Number(m)
    BY <2>7, <2>8, <2>9, <2>10, <2>11
  <2>13. QED  BY <2>6, <2>12 DEF w
<1>4. CASE ~ m.live
  <2>1. /\ w.high = Shl(m.ms, 16) \cup {12, 13, 14} \cup Low(m.first, 12)
        /\ w.low = {63} \cup Low(m.second, 62)
        /\ w = [high |-> w.high, low |-> w.low]
    BY <1>4 DEF Words, HistoricalWords, Version, Variant
  <2> HIDE DEF w
  <2>2. ASSUME NEW b
        PROVE  /\ b \in Low(m.first, 12) <=> b \in 0 .. 11 /\ b \in m.first
               /\ b \in Low(m.second, 62) <=> b \in 0 .. 61 /\ b \in m.second
    BY <1>1, WordBits
  <2>4. ASSUME NEW b
        PROVE  /\ b \in w.high <=> \/ b \in 16 .. 63 /\ b - 16 \in m.ms
                                   \/ b \in {12, 13, 14}
                                   \/ b \in 0 .. 11 /\ b \in m.first
               /\ b \in w.low <=> \/ b = 63
                                  \/ b \in 0 .. 61 /\ b \in m.second
    BY <1>2, <2>1, <2>2
  <2>5. w.high \in SUBSET (0 .. 63) /\ w.low \in SUBSET (0 .. 63)
    BY <2>4
  <2>6. w \in WordPairs
    BY <2>1, <2>5 DEF WordPairs
  <2>7. ASSUME NEW b \in 64 .. 127
        PROVE  b \in IntOfWords(w) <=> HistoricalBit(m, b)
    <3>1. b \in IntOfWords(w) <=> b - 64 \in w.high
      BY <2>6, NumberBits
    <3>2. (b - 64) - 16 = b - 80
      OBVIOUS
    <3>3. /\ b - 64 \in 16 .. 63 <=> b \in 80 .. 127
          /\ b - 64 \in {12, 13, 14} <=> b \in {76, 77, 78}
          /\ b - 64 \in 0 .. 11 <=> b \in 64 .. 75
      OBVIOUS
    <3>4. QED  BY <2>4, <3>1, <3>2, <3>3 DEF HistoricalBit
  <2>8. ASSUME NEW b \in 0 .. 63
        PROVE  b \in IntOfWords(w) <=> HistoricalBit(m, b)
    <3>1. b \in IntOfWords(w) <=> b \in w.low
      BY <2>6, NumberBits
    <3>2. QED  BY <2>4, <3>1 DEF HistoricalBit
  <2>9. \A b : b \in Number(m) <=> HistoricalBit(m, b)
    BY <1>4, BitsOfNumber DEF Bit
  <2>10. \A b : HistoricalBit(m, b) => b \in 0 .. 127
    BY DEF HistoricalBit
  <2>11. IntOfWords(w) \in SUBSET (0 .. 127)
    BY <2>6, NumberBits
  <2>12. IntOfWords(w) = Number(m)
    BY <2>7, <2>8, <2>9, <2>10, <2>11
  <2>13. QED  BY <2>6, <2>12 DEF w
<1>5. QED  BY <1>3, <1>4

(***************************************************************************)
(* The time.                                                               *)
(***************************************************************************)
LEMMA TimeBits ==
  ASSUME NEW m, IsGeneration(m)
  PROVE  /\ \A b \in 80 .. 127 : b \in Number(m) <=> b - 80 \in m.ms
         /\ {63, 76, 77, 78} \subseteq Number(m)
         /\ 62 \notin Number(m) /\ 79 \notin Number(m)
         /\ Number(m) \in SUBSET (0 .. 127)
<1>1. m.live \in BOOLEAN
  BY GenerationBits
<1>2. \A b \in 80 .. 127 : Bit(m, b) <=> b - 80 \in m.ms
  BY DEF Bit, LiveBit, HistoricalBit
<1>3. \A b \in {63, 76, 77, 78} : Bit(m, b)
  BY DEF Bit, LiveBit, HistoricalBit
<1>4. ~ Bit(m, 62) /\ ~ Bit(m, 79)
  BY DEF Bit, LiveBit, HistoricalBit
<1>5. \A b : Bit(m, b) => b \in 0 .. 127
  BY DEF Bit, LiveBit, HistoricalBit
<1>6. QED  BY <1>2, <1>3, <1>4, <1>5, BitsOfNumber

LEMMA TimeOfTheWords ==
  ASSUME NEW m, IsGeneration(m)
  PROVE  TimeOfWords(Words(m)) = m.ms
<1> DEFINE high == Words(m).high
<1>1. /\ high \in SUBSET (0 .. 63) /\ high \in SUBSET Int
      /\ \A b \in Int : b \in 64 .. 127 => (b - 64 \in high <=> b \in Number(m))
  BY WordsOfGeneration, NumberBits
<1>2. m.ms \in SUBSET (0 .. 47)
  BY GenerationBits
<1>3. TimeOfWords(Words(m)) = Shr(high, 16)
  BY DEF TimeOfWords
<1> HIDE DEF high
<1>4. \A b : b \in Shr(high, 16) <=> b \in 0 .. 63 /\ b + 16 \in high
  BY <1>1, WordBits
<1>5. ASSUME NEW b \in 0 .. 47
      PROVE  b + 16 \in high <=> b \in m.ms
  <2>1. b + 80 \in 80 .. 127 /\ (b + 80) - 64 = b + 16 /\ (b + 80) - 80 = b
    OBVIOUS
  <2>2. QED  BY <1>1, <2>1, TimeBits
<1>6. ASSUME NEW b \in 48 .. 63
      PROVE  b + 16 \notin high
  BY <1>1
<1>7. QED  BY <1>2, <1>3, <1>4, <1>5, <1>6

LEMMA TimeOfTheNumber ==
  ASSUME NEW m, IsGeneration(m)
  PROVE  TimeOfInt(Number(m)) = m.ms
<1> DEFINE int == Number(m)
<1>1. /\ \A b \in 80 .. 127 : b \in int <=> b - 80 \in m.ms
      /\ {63, 76, 77, 78} \subseteq int /\ 62 \notin int /\ 79 \notin int
      /\ int \in SUBSET (0 .. 127)
  BY TimeBits
<1> HIDE DEF int
<1>2. {62, 63} \cap int = {63} /\ {76, 77, 78, 79} \cap int = {76, 77, 78}
  BY <1>1
<1>3. TimeOfInt(int) = {b - 80 : b \in int \ (0 .. 79)}
  BY <1>2 DEF TimeOfInt
<1>4. ASSUME NEW x \in m.ms
      PROVE  \E b \in int \ (0 .. 79) : x = b - 80
  <2>1. x \in 0 .. 47
    BY GenerationBits
  <2>2. x + 80 \in 80 .. 127 /\ (x + 80) - 80 = x /\ x + 80 \notin 0 .. 79
    BY <2>1
  <2>3. QED  BY <1>1, <2>2
<1>5. ASSUME NEW b \in int \ (0 .. 79)
      PROVE  b - 80 \in m.ms
  <2>1. b \in 80 .. 127
    BY <1>1
  <2>2. QED  BY <1>1, <2>1
<1>6. QED  BY <1>3, <1>4, <1>5 DEF int

\* A later millisecond is a higher number.
LEMMA LaterIsHigher ==
  ASSUME NEW m, NEW p, IsGeneration(m), IsGeneration(p),
         Less(m.ms, p.ms)
  PROVE  Less(Number(m), Number(p))
<1>1. PICK k \in p.ms \ m.ms : \A j \in m.ms \ p.ms : j < k
  BY DEF Less
<1>2. k \in 0 .. 47
  BY GenerationBits
<1>3. k + 80 \in 80 .. 127 /\ (k + 80) - 80 = k
  BY <1>2
<1>4. k + 80 \in Number(p) \ Number(m)
  BY <1>1, <1>3, TimeBits
<1>5. ASSUME NEW j \in Number(m) \ Number(p)
      PROVE  j < k + 80
  <2>1. j \in 0 .. 127
    BY TimeBits
  <2>2. CASE j \in 80 .. 127
    <3>1. j - 80 \in m.ms \ p.ms
      BY <1>5, <2>2, TimeBits
    <3>2. j - 80 < k
      BY <1>1, <3>1
    <3>3. QED  BY <1>2, <2>2, <3>2
  <2>3. CASE j \in 0 .. 79
    BY <1>2, <2>3
  <2>4. QED  BY <2>1, <2>2, <2>3
<1>6. QED  BY <1>4, <1>5 DEF Less

(***************************************************************************)
(* The order.                                                              *)
(***************************************************************************)
\* The bit x of the piece i is the bit at[i] + x of the number, for the first
\* len[i] bits of it; the others are the same in both.
CutInto(s, t, n, start, len, a, b) ==
  /\ n \in Nat /\ start \in [1 .. n -> Int] /\ len \in [1 .. n -> Int]
  /\ a \in SUBSET Int /\ b \in SUBSET Int
  /\ DOMAIN s = 1 .. n
  /\ \A i \in 1 .. n : s[i] \in SUBSET Int /\ t[i] \in SUBSET Int
  /\ \A i \in 1 .. n : \A x \in Int :
       IF x \in 0 .. len[i] - 1
       THEN (x \in s[i] <=> x + start[i] \in a) /\ (x \in t[i] <=> x + start[i] \in b)
       ELSE x \in s[i] <=> x \in t[i]
  /\ Covers(start, len, n, a \cup b)
  /\ \A i, j \in 1 .. n :
       i < j /\ len[i] > 0 /\ len[j] > 0 => start[i] >= start[j] + len[j]

LEMMA PiecesInOrder ==
  ASSUME NEW s, NEW t, NEW n, NEW start, NEW len, NEW a, NEW b,
         CutInto(s, t, n, start, len, a, b)
  PROVE  Less(a, b) <=> LessSeq(s, t)
<1> USE DEF CutInto
<1> DEFINE slots == {p \in (1 .. n) \X Int : p[2] \in 0 .. len[p[1]] - 1}
           pos == [p \in slots |-> p[2] + start[p[1]]]
<1>1. ASSUME NEW i \in 1 .. n, NEW x \in Int
      PROVE  <<i, x>> \in slots <=> x \in 0 .. len[i] - 1
  OBVIOUS
<1>2. ASSUME NEW i \in 1 .. n, NEW x \in Int, <<i, x>> \in slots
      PROVE  pos[<<i, x>>] = x + start[i]
  BY <1>2
<1>3. pos \in [slots -> Int] /\ slots \subseteq (1 .. n) \X Int
  <2>1. \A p \in slots : p[1] \in 1 .. n /\ p[2] \in Int
    OBVIOUS
  <2>2. \A p \in slots : p[2] + start[p[1]] \in Int
    BY <2>1
  <2>3. QED  BY <2>2
<1> HIDE DEF slots, pos
<1>4. ASSUME NEW k \in (a \ b) \cup (b \ a)
      PROVE  \E i \in 1 .. n : \E x \in Int : <<i, x>> \in slots /\ pos[<<i, x>>] = k
  <2>1. PICK i \in 1 .. n : k - start[i] \in 0 .. len[i] - 1
    BY DEF Covers
  <2>2. k \in Int /\ start[i] \in Int
    OBVIOUS
  <2>3. k - start[i] \in Int /\ (k - start[i]) + start[i] = k
    BY <2>2
  <2>4. QED  BY <1>1, <1>2, <2>1, <2>3
<1>5. ASSUME NEW i \in 1 .. n, NEW x \in Int
      PROVE  IF <<i, x>> \in slots
             THEN /\ x \in s[i] <=> pos[<<i, x>>] \in a
                  /\ x \in t[i] <=> pos[<<i, x>>] \in b
             ELSE x \in s[i] <=> x \in t[i]
  BY <1>1, <1>2
<1>6. ASSUME NEW i \in 1 .. n, NEW j \in 1 .. n, NEW x \in Int, NEW y \in Int,
             <<i, x>> \in slots, <<j, y>> \in slots, i < j \/ (i = j /\ x > y)
      PROVE  pos[<<i, x>>] > pos[<<j, y>>]
  <2>1. /\ pos[<<i, x>>] = x + start[i] /\ pos[<<j, y>>] = y + start[j]
        /\ x \in 0 .. len[i] - 1 /\ y \in 0 .. len[j] - 1
        /\ start[i] \in Int /\ start[j] \in Int /\ len[i] \in Int /\ len[j] \in Int
    BY <1>1, <1>2, <1>6
  <2>2. CASE i < j
    <3>1. len[i] > 0 /\ len[j] > 0
      BY <2>1
    <3>2. start[i] >= start[j] + len[j]
      BY <2>2, <3>1
    <3>3. QED  BY <2>1, <3>2
  <2>3. CASE i = j /\ x > y
    BY <2>1, <2>3
  <2>4. QED  BY <1>6, <2>2, <2>3
<1>7. CutAlike(s, t, n, slots, pos, a, b)
  BY <1>3, <1>4, <1>5, <1>6 DEF CutAlike
<1>8. QED  BY <1>7, PiecewiseOrder

LEMMA OrderOfTwo ==
  ASSUME NEW a, NEW b, NEW c, NEW d
  PROVE  LessSeq(<<a, b>>, <<c, d>>) <=>
           Less(a, c) \/ (a = c /\ Less(b, d))
<1> DEFINE s == <<a, b>>
           t == <<c, d>>
           P(i) == Less(s[i], t[i]) /\ \A j \in 1 .. i - 1 : s[j] = t[j]
<1>1. DOMAIN s = {1, 2} /\ s[1] = a /\ s[2] = b /\ t[1] = c /\ t[2] = d
  OBVIOUS
<1>2. LessSeq(s, t) <=> P(1) \/ P(2)
  BY <1>1 DEF LessSeq
<1> HIDE DEF s, t
<1>3. P(1) <=> Less(a, c)
  BY <1>1
<1>4. P(2) <=> Less(b, d) /\ a = c
  BY <1>1
<1>5. QED  BY <1>2, <1>3, <1>4 DEF s, t

InThree(a, b, c, d, e, f) ==
  \/ Less(a, d)
  \/ a = d /\ Less(b, e)
  \/ a = d /\ b = e /\ Less(c, f)

LEMMA OrderOfThree ==
  ASSUME NEW a, NEW b, NEW c, NEW d, NEW e, NEW f
  PROVE  LessSeq(<<a, b, c>>, <<d, e, f>>) <=> InThree(a, b, c, d, e, f)
<1> DEFINE s == <<a, b, c>>
           t == <<d, e, f>>
           P(i) == Less(s[i], t[i]) /\ \A j \in 1 .. i - 1 : s[j] = t[j]
<1>1. /\ DOMAIN s = {1, 2, 3} /\ s[1] = a /\ s[2] = b /\ s[3] = c
      /\ t[1] = d /\ t[2] = e /\ t[3] = f
  OBVIOUS
<1>2. LessSeq(s, t) <=> P(1) \/ P(2) \/ P(3)
  BY <1>1 DEF LessSeq
<1> HIDE DEF s, t
<1>3. P(1) <=> Less(a, d)
  BY <1>1
<1>4. P(2) <=> Less(b, e) /\ a = d
  BY <1>1
<1>5. P(3) <=> Less(c, f) /\ a = d /\ b = e
  <2>1. \A j : j \in 1 .. 3 - 1 <=> j = 1 \/ j = 2
    OBVIOUS
  <2>2. QED  BY <1>1, <2>1
<1>6. QED  BY <1>2, <1>3, <1>4, <1>5 DEF InThree, s, t

FreeLen == <<48, 42, 32>>

\* A live identifier's timestamp, counter and random bits are in its number
\* from high to low, whatever is between them.
LEMMA MadeInOrder ==
  ASSUME NEW m, NEW p, IsGeneration(m), IsGeneration(p), m.live, p.live
  PROVE  Less(Number(m), Number(p)) <=> MadeBefore(m, p)
<1> DEFINE Parts(g) == <<g.ms, g.first, g.second \cap Bits(32)>>
           s == Parts(m)
           t == Parts(p)
           a == Number(m)
           b == Number(p)
           slots == {q \in (1 .. 3) \X Int : q[2] \in 0 .. FreeLen[q[1]] - 1}
           Pos(i, x) == IF i = 1 THEN x + 80
                        ELSE IF i = 3 THEN x
                        ELSE IF x >= 30 THEN x + 34 ELSE x + 32
           pos == [q \in slots |-> Pos(q[1], q[2])]
<1>1. FreeLen[1] = 48 /\ FreeLen[2] = 42 /\ FreeLen[3] = 32
  BY DEF FreeLen
<1>2. ASSUME NEW i \in 1 .. 3, NEW x \in Int
      PROVE  <<i, x>> \in slots <=> x \in 0 .. FreeLen[i] - 1
  OBVIOUS
<1>3. ASSUME NEW i \in 1 .. 3, NEW x \in Int, <<i, x>> \in slots
      PROVE  pos[<<i, x>>] = Pos(i, x)
  BY <1>3
<1>4. pos \in [slots -> Int] /\ slots \subseteq (1 .. 3) \X Int
  <2>1. \A q \in slots : Pos(q[1], q[2]) \in Int
    OBVIOUS
  <2>2. QED  BY <2>1
\* The bits of one identifier.
<1>5. ASSUME NEW g, IsGeneration(g), g.live, NEW i \in 1 .. 3, NEW x \in Int
      PROVE  /\ Parts(g)[i] \in SUBSET Int
             /\ <<i, x>> \in slots => (x \in Parts(g)[i] <=> Pos(i, x) \in Number(g))
             /\ <<i, x>> \notin slots => x \notin Parts(g)[i]
  <2>1. /\ g.ms \in SUBSET (0 .. 47) /\ g.first \in SUBSET (0 .. 41)
        /\ g.second \cap Bits(32) \in SUBSET (0 .. 31)
        /\ \A y \in 0 .. 31 : y \in g.second \cap Bits(32) <=> y \in g.second
    BY <1>5, GenerationBits DEF Bits
  <2>2. Pos(i, x) \in Number(g) <=> LiveBit(g, Pos(i, x))
    BY <1>5, BitsOfNumber DEF Bit
  <2>3. CASE i = 1
    <3>1. Parts(g)[i] = g.ms /\ Pos(i, x) = x + 80
      BY <2>3
    <3>2. <<i, x>> \in slots <=> x \in 0 .. 47
      BY <1>1, <1>2, <2>3
    <3>3. ASSUME x \in 0 .. 47
          PROVE  LiveBit(g, x + 80) <=> x \in g.ms
      <4>1. (x + 80) - 80 = x /\ x + 80 \in 80 .. 127
        BY <3>3
      <4>2. QED  BY <4>1 DEF LiveBit
    <3> HIDE DEF Parts, Pos, slots
    <3>4. QED  BY <2>1, <2>2, <3>1, <3>2, <3>3
  <2>4. CASE i = 2
    <3>1. Parts(g)[i] = g.first /\ Pos(i, x) = IF x >= 30 THEN x + 34 ELSE x + 32
      BY <2>4
    <3>2. <<i, x>> \in slots <=> x \in 0 .. 41
      BY <1>1, <1>2, <2>4
    <3>3. ASSUME x \in 30 .. 41
          PROVE  LiveBit(g, x + 34) <=> x \in g.first
      <4>1. (x + 34) - 34 = x /\ x + 34 \in 64 .. 75
        BY <3>3
      <4>2. QED  BY <4>1 DEF LiveBit
    <3>4. ASSUME x \in 0 .. 29
          PROVE  LiveBit(g, x + 32) <=> x \in g.first
      <4>1. (x + 32) - 32 = x /\ x + 32 \in 32 .. 61
        BY <3>4
      <4>2. QED  BY <4>1 DEF LiveBit
    <3> HIDE DEF Parts, Pos, slots
    <3>5. x \in 0 .. 41 => (Pos(i, x) \in Number(g) <=> x \in g.first)
      <4>1. CASE x \in 0 .. 29
        BY <2>2, <3>1, <3>4, <4>1
      <4>2. CASE x \in 30 .. 41
        BY <2>2, <3>1, <3>3, <4>2
      <4>3. QED  BY <4>1, <4>2
    <3>6. QED  BY <2>1, <3>1, <3>2, <3>5
  <2>5. CASE i = 3
    <3>1. Parts(g)[i] = g.second \cap Bits(32) /\ Pos(i, x) = x
      BY <2>5
    <3>2. <<i, x>> \in slots <=> x \in 0 .. 31
      BY <1>1, <1>2, <2>5
    <3>3. ASSUME x \in 0 .. 31
          PROVE  LiveBit(g, x) <=> x \in g.second
      BY <3>3 DEF LiveBit
    <3> HIDE DEF Parts, Pos, slots
    <3>4. QED  BY <2>1, <2>2, <3>1, <3>2, <3>3
  <2>6. QED  BY <2>3, <2>4, <2>5
<1>6. ASSUME NEW k \in (a \ b) \cup (b \ a)
      PROVE  \E i \in 1 .. 3 : \E x \in Int : <<i, x>> \in slots /\ pos[<<i, x>>] = k
  <2>1. LiveBit(m, k) \/ LiveBit(p, k)
    BY BitsOfNumber DEF Bit
  <2>2. k \notin {63, 76, 77, 78}
    BY TimeBits
  <2>3. k \in 80 .. 127 \/ k \in 64 .. 75 \/ k \in 32 .. 61 \/ k \in 0 .. 31
    BY <2>1, <2>2 DEF LiveBit
  <2>4. CASE k \in 80 .. 127
    <3>1. k - 80 \in 0 .. 47 /\ Pos(1, k - 80) = k
      BY <2>4
    <3>2. <<1, k - 80>> \in slots
      BY <1>1, <1>2, <3>1
    <3>3. pos[<<1, k - 80>>] = k
      BY <1>3, <3>1, <3>2
    <3>4. QED  BY <3>1, <3>2, <3>3
  <2>5. CASE k \in 64 .. 75
    <3>1. k - 34 \in 0 .. 41 /\ Pos(2, k - 34) = k
      BY <2>5
    <3>2. <<2, k - 34>> \in slots
      BY <1>1, <1>2, <3>1
    <3>3. pos[<<2, k - 34>>] = k
      BY <1>3, <3>1, <3>2
    <3>4. QED  BY <3>1, <3>2, <3>3
  <2>6. CASE k \in 32 .. 61
    <3>1. k - 32 \in 0 .. 41 /\ Pos(2, k - 32) = k
      BY <2>6
    <3>2. <<2, k - 32>> \in slots
      BY <1>1, <1>2, <3>1
    <3>3. pos[<<2, k - 32>>] = k
      BY <1>3, <3>1, <3>2
    <3>4. QED  BY <3>1, <3>2, <3>3
  <2>7. CASE k \in 0 .. 31
    <3>1. k \in 0 .. 31 /\ Pos(3, k) = k
      BY <2>7
    <3>2. <<3, k>> \in slots
      BY <1>1, <1>2, <3>1
    <3>3. pos[<<3, k>>] = k
      BY <1>3, <3>1, <3>2
    <3>4. QED  BY <3>1, <3>2, <3>3
  <2>8. QED  BY <2>3, <2>4, <2>5, <2>6, <2>7
<1>7. ASSUME NEW i \in 1 .. 3, NEW j \in 1 .. 3, NEW x \in Int, NEW y \in Int,
             <<i, x>> \in slots, <<j, y>> \in slots, i < j \/ (i = j /\ x > y)
      PROVE  pos[<<i, x>>] > pos[<<j, y>>]
  <2>1. /\ pos[<<i, x>>] = Pos(i, x) /\ pos[<<j, y>>] = Pos(j, y)
        /\ x \in 0 .. FreeLen[i] - 1 /\ y \in 0 .. FreeLen[j] - 1
    BY <1>2, <1>3, <1>7
  <2> HIDE DEF slots, pos
  <2>2. \/ i = 1 /\ j \in {1, 2, 3}
        \/ i = 2 /\ j \in {2, 3}
        \/ i = 3 /\ j = 3
    <3>1. i < j \/ i = j
      BY <1>7
    <3>2. i \in {1, 2, 3} /\ j \in {1, 2, 3}
      OBVIOUS
    <3>3. QED  BY <3>1, <3>2
  <2>3. QED  BY <1>1, <1>7, <2>1, <2>2
<1>8. DOMAIN s = 1 .. 3 /\ a \in SUBSET Int /\ b \in SUBSET Int
  BY TimeBits
<1>9. \A i \in 1 .. 3 : s[i] \in SUBSET Int /\ t[i] \in SUBSET Int
  BY <1>5, 0 \in Int
<1>10. ASSUME NEW i \in 1 .. 3, NEW x \in Int
       PROVE  IF <<i, x>> \in slots
              THEN /\ x \in s[i] <=> pos[<<i, x>>] \in a
                   /\ x \in t[i] <=> pos[<<i, x>>] \in b
              ELSE x \in s[i] <=> x \in t[i]
  <2>1. /\ <<i, x>> \in slots => (x \in s[i] <=> Pos(i, x) \in a)
        /\ <<i, x>> \notin slots => x \notin s[i]
    BY <1>5
  <2>2. /\ <<i, x>> \in slots => (x \in t[i] <=> Pos(i, x) \in b)
        /\ <<i, x>> \notin slots => x \notin t[i]
    BY <1>5
  <2>3. <<i, x>> \in slots => pos[<<i, x>>] = Pos(i, x)
    BY <1>3
  <2> HIDE DEF slots, pos, Pos, s, t, a, b
  <2>4. QED  BY <2>1, <2>2, <2>3
<1>11. LessSeq(s, t) <=> MadeBefore(m, p)
  <2> DEFINE r == m.second \cap Bits(32)
             q == p.second \cap Bits(32)
  <2>1. LessSeq(<<m.ms, m.first, r>>, <<p.ms, p.first, q>>) <=>
          InThree(m.ms, m.first, r, p.ms, p.first, q)
    BY OrderOfThree
  <2>2. InThree(m.ms, m.first, r, p.ms, p.first, q) <=> MadeBefore(m, p)
    BY DEF InThree, MadeBefore
  <2>3. QED  BY <2>1, <2>2
<1> HIDE DEF s, t, a, b, slots, pos
<1>12. CutAlike(s, t, 3, slots, pos, a, b)
  BY <1>4, <1>6, <1>7, <1>8, <1>9, <1>10 DEF CutAlike
<1>13. Less(a, b) <=> LessSeq(s, t)
  BY <1>12, PiecewiseOrder
<1>14. QED  BY <1>11, <1>13 DEF a, b

\* A number cut into whole pieces sorts as the pieces do.
IsCut(start, len, n) ==
  /\ n \in Nat /\ start \in [1 .. n -> Int] /\ len \in [1 .. n -> Int]
  /\ Covers(start, len, n, 0 .. 127)
  /\ \A i, j \in 1 .. n : i < j => start[i] >= start[j] + len[j]

ArePieces(s, int, start, len, n) ==
  /\ DOMAIN s = 1 .. n
  /\ \A i \in 1 .. n : s[i] = Piece(int, start[i], len[i])

LEMMA FormInOrder ==
  ASSUME NEW a \in SUBSET (0 .. 127), NEW b \in SUBSET (0 .. 127),
         NEW n, NEW start, NEW len, IsCut(start, len, n),
         NEW s, ArePieces(s, a, start, len, n), NEW t, ArePieces(t, b, start, len, n)
  PROVE  Less(a, b) <=> LessSeq(s, t)
<1>1. a \in SUBSET Int /\ b \in SUBSET Int
  OBVIOUS
<1> USE DEF IsCut, ArePieces
<1>2. \A i \in 1 .. n : s[i] \in SUBSET Int /\ t[i] \in SUBSET Int
  BY DEF Piece
<1>3. ASSUME NEW i \in 1 .. n, NEW x \in Int
      PROVE  IF x \in 0 .. len[i] - 1
             THEN (x \in s[i] <=> x + start[i] \in a) /\ (x \in t[i] <=> x + start[i] \in b)
             ELSE x \in s[i] <=> x \in t[i]
  BY Pieces
<1>4. Covers(start, len, n, a \cup b)
  BY DEF Covers
<1>5. CutInto(s, t, n, start, len, a, b)
  BY <1>1, <1>2, <1>3, <1>4 DEF CutInto
<1>6. QED  BY <1>5, PiecesInOrder

LEMMA WordsInOrder ==
  ASSUME NEW w \in WordPairs, NEW u \in WordPairs
  PROVE  Less(IntOfWords(w), IntOfWords(u)) <=>
           Less(w.high, u.high) \/ (w.high = u.high /\ Less(w.low, u.low))
<1> DEFINE a == IntOfWords(w)
           b == IntOfWords(u)
           start == [i \in 1 .. 2 |-> IF i = 1 THEN 64 ELSE 0]
           len == [i \in 1 .. 2 |-> 64]
           s == <<w.high, w.low>>
           t == <<u.high, u.low>>
<1>1. ASSUME NEW v \in WordPairs, NEW i \in 1 .. 2
      PROVE  <<v.high, v.low>>[i] = Piece(IntOfWords(v), start[i], len[i])
  <2>1. /\ v.high \in SUBSET (0 .. 63) /\ v.low \in SUBSET (0 .. 63)
        /\ \A x \in Int : x \in 0 .. 63 => (x \in v.low <=> x \in IntOfWords(v))
        /\ \A x \in Int : x \in 64 .. 127 => (x - 64 \in v.high <=> x \in IntOfWords(v))
    BY NumberBits
  <2>2. v.high = Piece(IntOfWords(v), 64, 64)
    <3>1. ASSUME NEW x \in 0 .. 63
          PROVE  x \in v.high <=> x + 64 \in IntOfWords(v)
      <4>1. (x + 64) - 64 = x /\ x + 64 \in 64 .. 127
        OBVIOUS
      <4>2. QED  BY <2>1, <4>1
    <3>2. QED  BY <2>1, <3>1 DEF Piece
  <2>3. v.low = Piece(IntOfWords(v), 0, 64)
    BY <2>1 DEF Piece
  <2>4. i = 1 \/ i = 2
    OBVIOUS
  <2>5. QED  BY <2>2, <2>3, <2>4
<1>2. \A i \in 1 .. 2 : s[i] = Piece(a, start[i], len[i]) /\ t[i] = Piece(b, start[i], len[i])
  BY <1>1
<1>3. Covers(start, len, 2, 0 .. 127)
  <2>1. ASSUME NEW x \in 0 .. 127
        PROVE  \E i \in 1 .. 2 : x - start[i] \in 0 .. len[i] - 1
    <3>1. CASE x \in 0 .. 63
      <4>1. x - start[2] \in 0 .. len[2] - 1
        BY <3>1
      <4>2. QED  BY <4>1
    <3>2. CASE x \in 64 .. 127
      <4>1. x - start[1] \in 0 .. len[1] - 1
        BY <3>2
      <4>2. QED  BY <4>1
    <3>3. QED  BY <3>1, <3>2
  <2>2. QED  BY <2>1 DEF Covers
<1>4. /\ start \in [1 .. 2 -> Int] /\ len \in [1 .. 2 -> Int] /\ DOMAIN s = 1 .. 2
      /\ \A i, j \in 1 .. 2 : i < j => start[i] >= start[j] + len[j]
  OBVIOUS
<1>5. a \in SUBSET (0 .. 127) /\ b \in SUBSET (0 .. 127)
  BY NumberBits
<1>6. LessSeq(s, t) <=>
        Less(w.high, u.high) \/ (w.high = u.high /\ Less(w.low, u.low))
  BY OrderOfTwo
<1>7. DOMAIN t = 1 .. 2
  OBVIOUS
<1> HIDE DEF a, b, start, len, s, t
<1>8. IsCut(start, len, 2) /\ ArePieces(s, a, start, len, 2) /\ ArePieces(t, b, start, len, 2)
  BY <1>2, <1>3, <1>4, <1>7 DEF IsCut, ArePieces
<1>9. QED  BY <1>5, <1>6, <1>8, FormInOrder DEF a, b

LEMMA BytesInOrder ==
  ASSUME NEW w \in WordPairs, NEW u \in WordPairs
  PROVE  Less(IntOfWords(w), IntOfWords(u)) <=>
           LessSeq(Bytes(w), Bytes(u))
<1> DEFINE a == IntOfWords(w)
           b == IntOfWords(u)
           start == [i \in 1 .. 16 |-> 128 - 8 * i]
           len == [i \in 1 .. 16 |-> 8]
           s == Bytes(w)
           t == Bytes(u)
<1>1. DOMAIN s = 1 .. 16 /\ DOMAIN t = 1 .. 16
  BY BytesPieces
<1>2. \A i \in 1 .. 16 : s[i] = Piece(a, start[i], len[i]) /\ t[i] = Piece(b, start[i], len[i])
  BY BytesPieces
<1>3. Covers(start, len, 16, 0 .. 127)
  <2>1. ASSUME NEW x \in 0 .. 127
        PROVE  \E i \in 1 .. 16 : x - start[i] \in 0 .. len[i] - 1
    <3>1. PICK i \in 1 .. 16 : x - (8 * 16 - 8 * i) \in 0 .. 7
      BY ByteOfBit, 16 \in Nat, x \in 0 .. 8 * 16 - 1
    <3>2. x - start[i] \in 0 .. len[i] - 1
      BY <3>1
    <3>3. QED  BY <3>2
  <2>2. QED  BY <2>1 DEF Covers
<1>4. /\ start \in [1 .. 16 -> Int] /\ len \in [1 .. 16 -> Int]
      /\ \A i, j \in 1 .. 16 : i < j => start[i] >= start[j] + len[j]
  OBVIOUS
<1>5. a \in SUBSET (0 .. 127) /\ b \in SUBSET (0 .. 127)
  BY NumberBits
<1> HIDE DEF a, b, start, len, s, t
<1>6. IsCut(start, len, 16) /\ ArePieces(s, a, start, len, 16) /\ ArePieces(t, b, start, len, 16)
  BY <1>1, <1>2, <1>3, <1>4 DEF IsCut, ArePieces
<1>7. QED  BY <1>5, <1>6, FormInOrder DEF a, b, s, t

LEMMA FieldsInOrder ==
  ASSUME NEW w \in WordPairs, NEW u \in WordPairs
  PROVE  Less(IntOfWords(w), IntOfWords(u)) <=>
           LessSeq(Fields(w), Fields(u))
<1> DEFINE a == IntOfWords(w)
           b == IntOfWords(u)
           s == Fields(w)
           t == Fields(u)
<1>1. DOMAIN s = 1 .. 6 /\ DOMAIN t = 1 .. 6
  BY DEF Fields
<1>2. /\ \A i \in 1 .. 6 : s[i] = Piece(a, FieldAt[i], FieldLen[i])
      /\ \A i \in 1 .. 6 : t[i] = Piece(b, FieldAt[i], FieldLen[i])
  BY FieldsPieces
<1>3. Covers(FieldAt, FieldLen, 6, 0 .. 127)
  BY FieldOfBit DEF Covers
<1>4. FieldAt \in [1 .. 6 -> Int] /\ FieldLen \in [1 .. 6 -> Int]
  BY DEF FieldAt, FieldLen
<1>5. ASSUME NEW i \in 1 .. 6, NEW j \in 1 .. 6, i < j
      PROVE  FieldAt[i] >= FieldAt[j] + FieldLen[j]
  <2>1. /\ FieldAt[1] = 96 /\ FieldAt[2] = 80 /\ FieldAt[3] = 64
        /\ FieldAt[4] = 56 /\ FieldAt[5] = 48 /\ FieldAt[6] = 0
        /\ FieldLen[2] = 16 /\ FieldLen[3] = 16 /\ FieldLen[4] = 8
        /\ FieldLen[5] = 8 /\ FieldLen[6] = 48
    BY DEF FieldAt, FieldLen
  <2>2. \/ j = 2 /\ i = 1
        \/ j = 3 /\ i \in {1, 2}
        \/ j = 4 /\ i \in {1, 2, 3}
        \/ j = 5 /\ i \in {1, 2, 3, 4}
        \/ j = 6 /\ i \in {1, 2, 3, 4, 5}
    BY <1>5
  <2>3. QED  BY <2>1, <2>2
<1>6. a \in SUBSET (0 .. 127) /\ b \in SUBSET (0 .. 127)
  BY NumberBits
<1> HIDE DEF a, b, s, t
<1>7. /\ IsCut(FieldAt, FieldLen, 6)
      /\ ArePieces(s, a, FieldAt, FieldLen, 6) /\ ArePieces(t, b, FieldAt, FieldLen, 6)
  BY <1>1, <1>2, <1>3, <1>4, <1>5 DEF IsCut, ArePieces
<1>8. QED  BY <1>6, <1>7, FormInOrder DEF a, b, s, t

LEMMA TextInOrder ==
  ASSUME NEW a \in SUBSET (0 .. 127), NEW b \in SUBSET (0 .. 127), NEW s, NEW t,
         IsTextOf(s, a), IsTextOf(t, b)
  PROVE  Less(a, b) <=> LessSeq(s, t)
<1> DEFINE start == [c \in 1 .. 36 |-> 128 - 4 * DigitAt(c)]
           len == [c \in 1 .. 36 |-> IF c \in DashPlaces THEN 0 ELSE 4]
<1>1. start \in [1 .. 36 -> Int] /\ len \in [1 .. 36 -> Int]
  BY DEF DigitAt
<1>2. ASSUME NEW c \in (1 .. 36) \ DashPlaces
      PROVE  /\ s[c] = Piece(a, start[c], 4) /\ t[c] = Piece(b, start[c], 4)
             /\ len[c] = 4 /\ start[c] = 128 - 4 * DigitAt(c)
  BY DigitsAndPlaces DEF IsTextOf
<1>3. ASSUME NEW c \in DashPlaces
      PROVE  s[c] = {-1} /\ t[c] = {-1} /\ c \in 1 .. 36 /\ len[c] = 0
  BY DEF IsTextOf, Dash, DashPlaces
<1>4. ASSUME NEW c \in 1 .. 36
      PROVE  s[c] \in SUBSET Int /\ t[c] \in SUBSET Int
  <2>1. \A x, y : Piece(x, y, 4) \in SUBSET Int
    BY DEF Piece
  <2>2. CASE c \in DashPlaces
    <3>1. s[c] = {-1} /\ t[c] = {-1}
      BY <1>3, <2>2
    <3>2. QED  BY <3>1
  <2>3. CASE c \notin DashPlaces
    <3>1. s[c] = Piece(a, start[c], 4) /\ t[c] = Piece(b, start[c], 4)
      BY <1>2, <2>3
    <3>2. QED  BY <2>1, <3>1
  <2>4. QED  BY <2>2, <2>3
<1>5. ASSUME NEW c \in 1 .. 36, NEW x \in Int
      PROVE  IF x \in 0 .. len[c] - 1
             THEN (x \in s[c] <=> x + start[c] \in a) /\ (x \in t[c] <=> x + start[c] \in b)
             ELSE x \in s[c] <=> x \in t[c]
  <2> HIDE DEF start, len
  <2>1. CASE c \in DashPlaces
    BY <1>3, <2>1
  <2>2. CASE c \notin DashPlaces
    <3>1. s[c] = Piece(a, start[c], 4) /\ t[c] = Piece(b, start[c], 4) /\ len[c] = 4
      BY <1>2, <2>2
    <3>2. /\ x \in s[c] <=> x \in 0 .. 3 /\ x + start[c] \in a
          /\ x \in t[c] <=> x \in 0 .. 3 /\ x + start[c] \in b
      BY <3>1, Pieces
    <3>3. QED  BY <3>1, <3>2
  <2>3. QED  BY <2>1, <2>2
<1>6. Covers(start, len, 36, a \cup b)
  <2>1. ASSUME NEW x \in 0 .. 127
        PROVE  \E c \in 1 .. 36 : x - start[c] \in 0 .. len[c] - 1
    <3> DEFINE h == 32 - x \div 4
    <3>1. h \in 1 .. 32 /\ x - (128 - 4 * h) \in 0 .. 3
      OBVIOUS
    <3>2. PlaceOf(h) \in (1 .. 36) \ DashPlaces /\ DigitAt(PlaceOf(h)) = h
      BY <3>1, DigitsAndPlaces
    <3> HIDE DEF h
    <3>3. start[PlaceOf(h)] = 128 - 4 * h /\ len[PlaceOf(h)] = 4
      BY <3>2
    <3>4. x - start[PlaceOf(h)] \in 0 .. len[PlaceOf(h)] - 1
      BY <3>1, <3>3
    <3>5. QED  BY <3>2, <3>4
  <2>2. QED  BY <2>1 DEF Covers
<1>7. ASSUME NEW c \in 1 .. 36, NEW d \in 1 .. 36, c < d, len[c] > 0, len[d] > 0
      PROVE  start[c] >= start[d] + len[d]
  <2>1. c \notin DashPlaces /\ d \notin DashPlaces
    BY <1>3, <1>7
  <2>2. start[c] = 128 - 4 * DigitAt(c) /\ start[d] = 128 - 4 * DigitAt(d) /\ len[d] = 4
    BY <1>2, <2>1
  <2>3. DigitAt(c) + 1 <= DigitAt(d) /\ DigitAt(c) \in Int /\ DigitAt(d) \in Int
    BY <1>7, <2>1 DEF DigitAt, DashPlaces
  <2>4. QED  BY <2>2, <2>3
<1>8. DOMAIN s = 1 .. 36 /\ a \in SUBSET Int /\ b \in SUBSET Int
  BY DEF IsTextOf
<1> HIDE DEF start, len
<1>9. CutInto(s, t, 36, start, len, a, b)
  BY <1>1, <1>4, <1>5, <1>6, <1>7, <1>8 DEF CutInto
<1>10. QED  BY <1>9, PiecesInOrder

(***************************************************************************)
(* The invariant: both identifiers are what their generation makes of      *)
(* them, in the form the program has them in.                              *)
(***************************************************************************)
FormOf(f, w) ==
  CASE f = "words" -> w
    [] f = "bytes" -> Bytes(w)
    [] f = "text" -> TextOfWords(w)
    [] f = "bytes_le" -> BytesLe(Bytes(w))
    [] f = "fields" -> Fields(w)
    [] f = "int" -> IntOfWords(w)

LayoutInv ==
  /\ made \in Pairs
  /\ form \in Forms
  /\ held = <<FormOf(form, Words(made[1])), FormOf(form, Words(made[2]))>>

LEMMA Formed ==
  ASSUME NEW w \in WordPairs
  PROVE  /\ FormOf("words", w) = w
         /\ FormOf("bytes", w) = Bytes(w)
         /\ FormOf("text", w) = TextOfWords(w)
         /\ FormOf("bytes_le", w) = BytesLe(Bytes(w))
         /\ FormOf("fields", w) = Fields(w)
         /\ FormOf("int", w) = IntOfWords(w)
BY DEF FormOf

\* Every conversion takes one form of two words to another form of them.
LEMMA Conversions ==
  ASSUME NEW w \in WordPairs
  PROVE  /\ IntThroughDigits(w) = IntOfWords(w)
         /\ Text(Bytes(w)) = TextOfWords(w)
         /\ IntThroughWords(Bytes(w)) = IntOfWords(w)
         /\ IntOfBytes(Bytes(w)) = IntOfWords(w)
         /\ IntOfText(TextOfWords(w)) = IntOfWords(w)
         /\ IntOfBytesLe(BytesLe(Bytes(w))) = IntOfWords(w)
         /\ IntOfFields(Fields(w)) = IntOfWords(w)
         /\ BytesOfInt(IntOfWords(w)) = Bytes(w)
<1>1. IntThroughDigits(w) = IntOfWords(w)
  BY DigitsAreTheNumber
<1>2. Text(Bytes(w)) = TextOfWords(w)
  BY DEF TextOfWords
<1>3. IntThroughWords(Bytes(w)) = IntOfWords(w)
  BY <1>1, WordsOfTheirBytes DEF IntThroughWords
<1>4. IntOfBytes(Bytes(w)) = IntOfWords(w)
  BY BytesPieces, NumberBits, BytesAreTheNumber
<1>5. IntOfText(TextOfWords(w)) = IntOfWords(w)
  <2>1. IsTextOf(Text(Bytes(w)), IntOfWords(w))
    BY BytesPieces, TextPieces
  <2>2. QED  BY <1>2, <2>1, NumberBits, TextIsTheNumber
<1>6. IntOfBytesLe(BytesLe(Bytes(w))) = IntOfWords(w)
  BY BytesLeAreTheNumber
<1>7. IntOfFields(Fields(w)) = IntOfWords(w)
  BY FieldsAreTheNumber
<1>8. BytesOfInt(IntOfWords(w)) = Bytes(w)
  BY BytesOfNumber
<1>9. QED  BY <1>1, <1>2, <1>3, <1>4, <1>5, <1>6, <1>7, <1>8

LEMMA HeldWords ==
  ASSUME made \in Pairs, NEW i \in {1, 2}
  PROVE  /\ IsGeneration(made[i])
         /\ Words(made[i]) \in WordPairs
         /\ IntOfWords(Words(made[i])) = Number(made[i])
<1>1. IsGeneration(made[1]) /\ IsGeneration(made[2])
  BY PairsAssumption
<1>2. IsGeneration(made[i])
  BY <1>1
<1>3. QED  BY <1>2, WordsOfGeneration

LEMMA LayoutBegins ==
  ASSUME LayoutInit
  PROVE  LayoutInv
<1>1. made \in Pairs /\ form = "words"
      /\ held = <<Words(made[1]), Words(made[2])>>
  BY DEF LayoutInit
<1>2. Words(made[1]) \in WordPairs /\ Words(made[2]) \in WordPairs
  BY <1>1, HeldWords
<1>3. QED  BY <1>1, <1>2, Formed DEF LayoutInv, Forms

LEMMA LayoutStep ==
  ASSUME LayoutInv, [LayoutNext]_layoutVars
  PROVE  LayoutInv'
<1> DEFINE w1 == Words(made[1])
           w2 == Words(made[2])
<1>1. /\ made \in Pairs /\ form \in Forms
      /\ held = <<FormOf(form, w1), FormOf(form, w2)>>
  BY DEF LayoutInv
<1>2. w1 \in WordPairs /\ w2 \in WordPairs
  BY <1>1, HeldWords
<1>3. LayoutInv' <=> /\ made' \in Pairs /\ form' \in Forms
                     /\ held' = << FormOf(form', Words(made'[1])),
                                   FormOf(form', Words(made'[2])) >>
  BY DEF LayoutInv, FormOf, Forms, Words, Bytes, TextOfWords,
         BytesLe, Fields, IntOfWords
<1> HIDE DEF w1, w2
\* A step that keeps the identifiers and gives both another form.
<1>4. ASSUME made' = made, form' \in Forms,
             held' = <<FormOf(form', w1), FormOf(form', w2)>>
      PROVE  LayoutInv'
  BY <1>1, <1>3, <1>4 DEF w1, w2
<1>5. /\ "words" \in Forms /\ "bytes" \in Forms /\ "text" \in Forms
      /\ "bytes_le" \in Forms /\ "fields" \in Forms /\ "int" \in Forms
  BY DEF Forms
<1>6. ASSUME NEW f, form = f
      PROVE  held[1] = FormOf(f, w1) /\ held[2] = FormOf(f, w2)
  BY <1>1, <1>6
<1>7. CASE ObjBytes
  <2>1. /\ form = "words" /\ form' = "bytes" /\ made' = made
        /\ held' = <<Bytes(held[1]), Bytes(held[2])>>
    BY <1>7 DEF ObjBytes, Converts
  <2>2. QED  BY <1>2, <1>4, <1>5, <1>6, <2>1, Formed
<1>8. CASE ObjText
  <2>1. /\ form = "words" /\ form' = "text" /\ made' = made
        /\ held' = <<TextOfWords(held[1]), TextOfWords(held[2])>>
    BY <1>8 DEF ObjText, Converts
  <2>2. QED  BY <1>2, <1>4, <1>5, <1>6, <2>1, Formed
<1>9. CASE ObjFields
  <2>1. /\ form = "words" /\ form' = "fields" /\ made' = made
        /\ held' = <<Fields(held[1]), Fields(held[2])>>
    BY <1>9 DEF ObjFields, Converts
  <2>2. QED  BY <1>2, <1>4, <1>5, <1>6, <2>1, Formed
<1>10. CASE ObjInt
  <2>1. /\ form = "words" /\ form' = "int" /\ made' = made
        /\ held' = <<IntThroughDigits(held[1]), IntThroughDigits(held[2])>>
    BY <1>10 DEF ObjInt, Converts
  <2>2. QED  BY <1>2, <1>4, <1>5, <1>6, <2>1, Formed, Conversions
<1>11. CASE ObjIntPortable
  <2>1. /\ form = "words" /\ form' = "int" /\ made' = made
        /\ held' = <<IntOfWords(held[1]), IntOfWords(held[2])>>
    BY <1>11 DEF ObjIntPortable, Converts
  <2>2. QED  BY <1>2, <1>4, <1>5, <1>6, <2>1, Formed
<1>12. CASE BytesText
  <2>1. /\ form = "bytes" /\ form' = "text" /\ made' = made
        /\ held' = <<Text(held[1]), Text(held[2])>>
    BY <1>12 DEF BytesText, Converts
  <2>2. QED  BY <1>2, <1>4, <1>5, <1>6, <2>1, Formed, Conversions
<1>13. CASE BytesBytesLe
  <2>1. /\ form = "bytes" /\ form' = "bytes_le" /\ made' = made
        /\ held' = <<BytesLe(held[1]), BytesLe(held[2])>>
    BY <1>13 DEF BytesBytesLe, Converts
  <2>2. QED  BY <1>2, <1>4, <1>5, <1>6, <2>1, Formed
<1>14. CASE BytesInt
  <2>1. /\ form = "bytes" /\ form' = "int" /\ made' = made
        /\ held' = <<IntThroughWords(held[1]), IntThroughWords(held[2])>>
    BY <1>14 DEF BytesInt, Converts
  <2>2. QED  BY <1>2, <1>4, <1>5, <1>6, <2>1, Formed, Conversions
<1>15. CASE ParseBytes
  <2>1. /\ form = "bytes" /\ form' = "int" /\ made' = made
        /\ held' = <<IntOfBytes(held[1]), IntOfBytes(held[2])>>
    BY <1>15 DEF ParseBytes, Converts
  <2>2. QED  BY <1>2, <1>4, <1>5, <1>6, <2>1, Formed, Conversions
<1>16. CASE ParseText
  <2>1. /\ form = "text" /\ form' = "int" /\ made' = made
        /\ held' = <<IntOfText(held[1]), IntOfText(held[2])>>
    BY <1>16 DEF ParseText, Converts
  <2>2. QED  BY <1>2, <1>4, <1>5, <1>6, <2>1, Formed, Conversions
<1>17. CASE ParseBytesLe
  <2>1. /\ form = "bytes_le" /\ form' = "int" /\ made' = made
        /\ held' = <<IntOfBytesLe(held[1]), IntOfBytesLe(held[2])>>
    BY <1>17 DEF ParseBytesLe, Converts
  <2>2. QED  BY <1>2, <1>4, <1>5, <1>6, <2>1, Formed, Conversions
<1>18. CASE ParseFields
  <2>1. /\ form = "fields" /\ form' = "int" /\ made' = made
        /\ held' = <<IntOfFields(held[1]), IntOfFields(held[2])>>
    BY <1>18 DEF ParseFields, Converts
  <2>2. QED  BY <1>2, <1>4, <1>5, <1>6, <2>1, Formed, Conversions
<1>19. CASE IntBytes
  <2>1. /\ form = "int" /\ form' = "bytes" /\ made' = made
        /\ held' = <<BytesOfInt(held[1]), BytesOfInt(held[2])>>
    BY <1>19 DEF IntBytes, Converts
  <2>2. QED  BY <1>2, <1>4, <1>5, <1>6, <2>1, Formed, Conversions
<1>20. CASE UNCHANGED layoutVars
  <2>1. made' = made /\ form' = form /\ held' = held
    BY <1>20 DEF layoutVars
  <2>2. QED  BY <1>1, <1>4, <2>1
<1>21. QED
  BY <1>7, <1>8, <1>9, <1>10, <1>11, <1>12, <1>13, <1>14, <1>15, <1>16, <1>17, <1>18,
     <1>19, <1>20 DEF LayoutNext

THEOREM LayoutInvariance == LayoutSpec => []LayoutInv
<1>1. LayoutInit => LayoutInv
  BY LayoutBegins
<1>2. LayoutInv /\ [LayoutNext]_layoutVars => LayoutInv'
  BY LayoutStep
<1>3. QED  BY <1>1, <1>2, PTL DEF LayoutSpec

\* README.md: "RFC 9562 UUIDv7 layout".  Whatever a millisecond, a counter and
\* random bits are, and through whichever forms an identifier is converted, it
\* stays the number that they make under the RFC.
THEOREM FormsAgreement == LayoutSpec => []FormsAgree
<1>1. ASSUME LayoutInv
      PROVE  FormsAgree
  <2>1. ASSUME NEW i \in {1, 2}
        PROVE  NumberOf(held[i]) = Number(made[i])
    <3> DEFINE w == Words(made[i])
    <3>1. /\ w \in WordPairs /\ IntOfWords(w) = Number(made[i])
          /\ held[i] = FormOf(form, w) /\ form \in Forms
      BY <1>1, HeldWords DEF LayoutInv
    <3> HIDE DEF w
    <3>2. \/ form = "words" \/ form = "bytes" \/ form = "text" \/ form = "bytes_le"
          \/ form = "fields" \/ form = "int"
      BY <3>1 DEF Forms
    <3>3. CASE form = "words"
      BY <3>1, <3>3, Formed DEF NumberOf
    <3>4. CASE form = "bytes"
      BY <3>1, <3>4, Formed, Conversions DEF NumberOf
    <3>5. CASE form = "text"
      BY <3>1, <3>5, Formed, Conversions DEF NumberOf
    <3>6. CASE form = "bytes_le"
      BY <3>1, <3>6, Formed, Conversions DEF NumberOf
    <3>7. CASE form = "fields"
      BY <3>1, <3>7, Formed, Conversions DEF NumberOf
    <3>8. CASE form = "int"
      BY <3>1, <3>8, Formed DEF NumberOf
    <3>9. QED  BY <3>2, <3>3, <3>4, <3>5, <3>6, <3>7, <3>8
  <2>2. QED  BY <2>1 DEF FormsAgree
<1>2. QED  BY <1>1, LayoutInvariance, PTL

\* docs/api.md: live identifiers sort as they were made, by millisecond, then
\* counter, then random bits, and any two by their millisecond, in every form
\* but the little-endian bytes.
THEOREM OrderKept == LayoutSpec => []OrderIsKept
<1>1. ASSUME LayoutInv
      PROVE  OrderIsKept
  <2>1. ASSUME form # "bytes_le", NEW i \in {1, 2}, NEW j \in {1, 2}
        PROVE  Sorts(held[i], held[j]) <=>
                 Less(Number(made[i]), Number(made[j]))
    <3> DEFINE w == Words(made[i])
               u == Words(made[j])
    <3>1. /\ w \in WordPairs /\ IntOfWords(w) = Number(made[i])
          /\ u \in WordPairs /\ IntOfWords(u) = Number(made[j])
          /\ held[i] = FormOf(form, w) /\ held[j] = FormOf(form, u) /\ form \in Forms
      BY <1>1, HeldWords DEF LayoutInv
    <3> HIDE DEF w, u
    <3>2. form = "words" \/ form = "bytes" \/ form = "text" \/ form = "fields" \/ form = "int"
      BY <2>1, <3>1 DEF Forms
    <3>3. CASE form = "words"
      BY <3>1, <3>3, Formed, WordsInOrder DEF Sorts
    <3>4. CASE form = "bytes"
      BY <3>1, <3>4, Formed, BytesInOrder DEF Sorts
    <3>5. CASE form = "text"
      <4>1. /\ held[i] = Text(Bytes(w)) /\ held[j] = Text(Bytes(u))
        BY <3>1, <3>5, Formed DEF TextOfWords
      <4>2. /\ IsTextOf(held[i], IntOfWords(w))
            /\ IsTextOf(held[j], IntOfWords(u))
        BY <3>1, <4>1, BytesPieces, TextPieces
      <4>3. Sorts(held[i], held[j]) <=> LessSeq(held[i], held[j])
        BY <3>5 DEF Sorts
      <4>4. /\ IntOfWords(w) \in SUBSET (0 .. 127)
            /\ IntOfWords(u) \in SUBSET (0 .. 127)
        BY <3>1, NumberBits
      <4>5. QED  BY <3>1, <4>2, <4>3, <4>4, TextInOrder
    <3>6. CASE form = "fields"
      BY <3>1, <3>6, Formed, FieldsInOrder DEF Sorts
    <3>7. CASE form = "int"
      BY <3>1, <3>7, Formed DEF Sorts
    <3>8. QED  BY <3>2, <3>3, <3>4, <3>5, <3>6, <3>7
  <2>2. IsGeneration(made[1]) /\ IsGeneration(made[2])
    BY <1>1, HeldWords DEF LayoutInv
  <2>3. ASSUME form # "bytes_le", NEW i \in {1, 2}, NEW j \in {1, 2},
               Less(made[i].ms, made[j].ms)
        PROVE  Sorts(held[i], held[j])
    BY <2>1, <2>2, <2>3, LaterIsHigher
  <2>4. ASSUME form # "bytes_le", made[1].live, made[2].live
        PROVE  Sorts(held[1], held[2]) <=> MadeBefore(made[1], made[2])
    BY <2>1, <2>2, <2>4, MadeInOrder
  <2>5. QED  BY <2>3, <2>4 DEF OrderIsKept
<1>2. QED  BY <1>1, LayoutInvariance, PTL

\* The time that UUID7Obj and uuid.UUID report is the millisecond that was
\* given, whatever the other bits are.
THEOREM ExactTime == LayoutSpec => []TimeIsExact
<1>1. ASSUME LayoutInv
      PROVE  TimeIsExact
  <2>1. ASSUME NEW i \in {1, 2}
        PROVE  /\ form = "words" => TimeOfWords(held[i]) = made[i].ms
               /\ form = "int" => TimeOfInt(held[i]) = made[i].ms
    <3> DEFINE w == Words(made[i])
    <3>1. /\ IsGeneration(made[i])
          /\ w \in WordPairs /\ IntOfWords(w) = Number(made[i])
          /\ held[i] = FormOf(form, w)
      BY <1>1, HeldWords DEF LayoutInv
    <3>2. TimeOfWords(w) = made[i].ms
      BY <3>1, TimeOfTheWords
    <3> HIDE DEF w
    <3>3. TimeOfInt(Number(made[i])) = made[i].ms
      BY <3>1, TimeOfTheNumber
    <3>4. QED  BY <3>1, <3>2, <3>3, Formed
  <2>2. QED  BY <2>1 DEF TimeIsExact
<1>2. QED  BY <1>1, LayoutInvariance, PTL
=============================================================================
