---------------------------- MODULE Uuid7Layout -----------------------------
(***************************************************************************)
(* The bits of an identifier: how src/uuid7_gen.c packs them, and the      *)
(* forms the extension and the Python package turn them into.  A number is *)
(* the set of the positions of its one bits, so that words keep the widths *)
(* the code has; a shift to the left drops what leaves a word.             *)
(*                                                                         *)
(* A program here has two identifiers, live or historical, and converts    *)
(* both from one form to another in any order the API offers.              *)
(***************************************************************************)
EXTENDS Integers, Sequences

CONSTANT Pairs    \* of generations, see IsGeneration

Bits(n) == 0 .. n - 1

\* What an identifier is made of: the timestamp; the counter and the random
\* word of a live one, or the two random words of a historical one.
IsGeneration(g) ==
  /\ g.live \in BOOLEAN
  /\ g.ms \subseteq Bits(48)
  /\ g.first \subseteq Bits(IF g.live THEN 42 ELSE 64)
  /\ g.second \subseteq Bits(64)

ASSUME PairsAssumption == \A p \in Pairs : IsGeneration(p[1]) /\ IsGeneration(p[2])

VARIABLES made,   \* how each of the two identifiers was generated
          form,   \* the form the program has them in
          held    \* their values in that form

layoutVars == <<made, form, held>>

(***************************************************************************)
(* uint64_t.                                                               *)
(***************************************************************************)
Shl(w, k) == {b + k : b \in w} \cap Bits(64)
Shr(w, k) == {b - k : b \in w} \cap Bits(64)
Low(w, n) == w \cap Bits(n)

\* Unsigned comparison: the highest bit in which they differ decides.
Less(a, b) == \E k \in b \ a : \A j \in a \ b : j < k

\* Comparison of sequences of such numbers, as of bytes or characters.
LessSeq(s, t) ==
  \E i \in DOMAIN s : Less(s[i], t[i]) /\ \A j \in 1 .. i - 1 : s[j] = t[j]

(***************************************************************************)
(* Generation.                                                             *)
(***************************************************************************)
Version == {12, 13, 14}    \* 0x7000
Variant == {63}            \* 0x8000000000000000

\* Slip: the random word is not cut to its lower half.
LiveWordsUncut(ms, counter, random) ==
  [high |-> Shl(ms, 16) \cup Version \cup Low(Shr(counter, 30), 12),
   low  |-> Variant \cup Shl(Low(counter, 30), 32) \cup random]

LiveWords(ms, counter, random) ==
  [high |-> Shl(ms, 16) \cup Version \cup Low(Shr(counter, 30), 12),
   low  |-> Variant \cup Shl(Low(counter, 30), 32) \cup Low(random, 32)]

\* Slip: the random word is not masked.
HistoricalWordsUnmasked(ms, first, second) ==
  [high |-> Shl(ms, 16) \cup Version \cup Low(first, 16),
   low  |-> Variant \cup Low(second, 62)]

HistoricalWords(ms, first, second) ==
  [high |-> Shl(ms, 16) \cup Version \cup Low(first, 12),
   low  |-> Variant \cup Low(second, 62)]

Words(m) ==
  IF m.live THEN LiveWords(m.ms, m.first, m.second)
            ELSE HistoricalWords(m.ms, m.first, m.second)

(***************************************************************************)
(* Forms.                                                                  *)
(***************************************************************************)
\* write_u64_be and read_u64_be.
WriteBe(w) == [i \in 1 .. 8 |-> Low(Shr(w, 64 - 8 * i), 8)]
ReadBe(bytes) == UNION {Shl(bytes[i], 64 - 8 * i) : i \in 1 .. 8}

Bytes(w) == WriteBe(w.high) \o WriteBe(w.low)
WordsOfBytes(bytes) ==
  [high |-> ReadBe(SubSeq(bytes, 1, 8)), low |-> ReadBe(SubSeq(bytes, 9, 16))]

\* Slip: the digit across the two words takes the high word a bit too far.
DigitsShifted(w) ==
  << Low(w.low, 30), Low(Shr(w.low, 30), 30),
     Low(Shr(w.low, 60) \cup Shl(w.high, 5), 30),
     Low(Shr(w.high, 26), 30), Low(Shr(w.high, 56), 30) >>

\* The five digits of thirty bits of a Python integer.
Digits(w) ==
  << Low(w.low, 30), Low(Shr(w.low, 30), 30),
     Low(Shr(w.low, 60) \cup Shl(w.high, 4), 30),
     Low(Shr(w.high, 26), 30), Low(Shr(w.high, 56), 30) >>

\* What an integer with these digits is.
IntOfDigits(digits) == UNION {{b + 30 * (i - 1) : b \in digits[i]} : i \in 1 .. 5}

\* uuid_words_to_int_portable: (high << 64) | low, on Python integers.
IntOfWords(w) == {b + 64 : b \in w.high} \cup w.low

\* format_uuid7 takes each byte's two halves to these places of the text.
Places == <<1, 3, 5, 7, 10, 12, 15, 17, 20, 22, 25, 27, 29, 31, 33, 35>>
Dash == {-1}
Text(bytes) ==
  [c \in 1 .. 36 |->
     IF \E i \in 1 .. 16 : c \in {Places[i], Places[i] + 1}
     THEN LET i == CHOOSE i \in 1 .. 16 : c \in {Places[i], Places[i] + 1}
          IN  IF c = Places[i] THEN Shr(bytes[i], 4) ELSE Low(bytes[i], 4)
     ELSE Dash]

BytesLe(bytes) ==
  << bytes[4], bytes[3], bytes[2], bytes[1], bytes[6], bytes[5], bytes[8], bytes[7] >>
    \o SubSeq(bytes, 9, 16)

Fields(w) ==
  << Shr(w.high, 32), Low(Shr(w.high, 16), 16), Low(w.high, 16),
     Low(Shr(w.low, 56), 8), Low(Shr(w.low, 48), 8), Low(w.low, 48) >>

\* UUID7Obj.time
TimeOfWords(w) == Shr(w.high, 16)

\* _UUID7.time, which asks uuid.UUID for the version and leaves every other
\* version than 7 to it.
TimeOfInt(int) ==
  IF {62, 63} \cap int = {63} /\ {76, 77, 78, 79} \cap int = {76, 77, 78}
  THEN {b - 80 : b \in int \ (0 .. 79)} ELSE {-1}

(***************************************************************************)
(* What the standard library's uuid.UUID makes of text, fields and bytes   *)
(* in little-endian order, and back to bytes.                              *)
(***************************************************************************)
IntOfBytes(bytes) == UNION {{b + 128 - 8 * i : b \in bytes[i]} : i \in 1 .. 16}
BytesOfInt(int) == [i \in 1 .. 16 |-> {b - (128 - 8 * i) : b \in int} \cap Bits(8)]

HexOf(text) ==
  [h \in 1 .. 32 |-> text[CHOOSE c \in 1 .. 36 :
     text[c] # Dash /\ h = c - (IF c > 24 THEN 4 ELSE IF c > 19 THEN 3
                                ELSE IF c > 14 THEN 2 ELSE IF c > 9 THEN 1 ELSE 0)]]
IntOfText(text) == UNION {{b + 128 - 4 * h : b \in HexOf(text)[h]} : h \in 1 .. 32}

IntOfBytesLe(le) == IntOfBytes(BytesLe(le))    \* the reordering undoes itself

IntOfFields(f) ==
  LET at == <<96, 80, 64, 56, 48, 0>>
  IN  UNION {{b + at[i] : b \in f[i]} : i \in 1 .. 6}

(***************************************************************************)
(* The program.                                                            *)
(***************************************************************************)
Forms == {"words", "bytes", "text", "bytes_le", "fields", "int"}

LayoutInit ==
  /\ made \in Pairs
  /\ form = "words"
  /\ held = <<Words(made[1]), Words(made[2])>>

Converts(from, to, F(_)) ==
  /\ form = from
  /\ form' = to
  /\ held' = <<F(held[1]), F(held[2])>>
  /\ UNCHANGED made

IntThroughDigits(w) == IntOfDigits(Digits(w))
TextOfWords(w) == Text(Bytes(w))
IntThroughWords(bytes) == IntThroughDigits(WordsOfBytes(bytes))

\* UUID7Obj: __bytes__, __str__, bytes_le, fields, __int__.
ObjBytes == Converts("words", "bytes", Bytes)
ObjText == Converts("words", "text", TextOfWords)
ObjFields == Converts("words", "fields", Fields)
ObjInt == Converts("words", "int", IntThroughDigits)
ObjIntPortable == Converts("words", "int", IntOfWords)

\* The sixteen bytes: generate_uuid7, bytes_le, uuid_bytes_to_int.
BytesText == Converts("bytes", "text", Text)
BytesBytesLe == Converts("bytes", "bytes_le", BytesLe)
BytesInt == Converts("bytes", "int", IntThroughWords)

\* uuid.UUID made of any of them, and its bytes.
ParseBytes == Converts("bytes", "int", IntOfBytes)
ParseText == Converts("text", "int", IntOfText)
ParseBytesLe == Converts("bytes_le", "int", IntOfBytesLe)
ParseFields == Converts("fields", "int", IntOfFields)
IntBytes == Converts("int", "bytes", BytesOfInt)

LayoutNext ==
  \/ ObjBytes \/ ObjText \/ ObjFields \/ ObjInt \/ ObjIntPortable
  \/ BytesText \/ BytesBytesLe \/ BytesInt
  \/ ParseBytes \/ ParseText \/ ParseBytesLe \/ ParseFields \/ IntBytes

LayoutSpec == LayoutInit /\ [][LayoutNext]_layoutVars
-----------------------------------------------------------------------------
(***************************************************************************)
(* Correctness.                                                            *)
(***************************************************************************)
\* The 128-bit number RFC 9562 gives an identifier, field by field: unix_ts_ms,
\* ver, rand_a, var, rand_b.
At(field, k) == {b + k : b \in field}
Rfc9562(ms, rand_a, rand_b) ==
  At(ms, 80) \cup {76, 77, 78} \cup At(rand_a, 64) \cup {63} \cup rand_b

\* The counter of a live identifier is the first 42 of its 74 free bits, so
\* that it orders them; the rest, and all of a historical one's, is random.
Number(m) ==
  IF m.live
  THEN Rfc9562(m.ms, {b - 30 : b \in m.first \ Bits(30)},
               At(m.first \cap Bits(30), 32) \cup (m.second \cap Bits(32)))
  ELSE Rfc9562(m.ms, m.first \cap Bits(12), m.second \cap Bits(62))

\* What the standard library makes of each form.
NumberOf(v) ==
  CASE form = "words" -> IntOfWords(v)
    [] form = "bytes" -> IntOfBytes(v)
    [] form = "text" -> IntOfText(v)
    [] form = "bytes_le" -> IntOfBytesLe(v)
    [] form = "fields" -> IntOfFields(v)
    [] form = "int" -> v

\* README.md: "RFC 9562 UUIDv7 layout".  However an identifier is converted,
\* and through whichever form, it stays the number that its timestamp, counter
\* and random bits make under the RFC, whoever reads the form.
FormsAgree == \A i \in {1, 2} : NumberOf(held[i]) = Number(made[i])

\* Live identifiers sort by timestamp, then counter, then random bits.
MadeBefore(a, b) ==
  \/ Less(a.ms, b.ms)
  \/ a.ms = b.ms /\ Less(a.first, b.first)
  \/ a.ms = b.ms /\ a.first = b.first /\ Less(a.second \cap Bits(32), b.second \cap Bits(32))

\* How each form sorts: UUID7Obj compares words, databases bytes or text.
Sorts(v, w) ==
  CASE form = "words" -> Less(v.high, w.high) \/ (v.high = w.high /\ Less(v.low, w.low))
    [] form = "int" -> Less(v, w)
    [] OTHER -> LessSeq(v, w)

\* docs/api.md: live identifiers are strictly increasing, and different
\* timestamps sort by their millisecond.  The order in which identifiers were
\* made is their order in every form that sorts big-endian (bytes_le does not).
OrderIsKept ==
  form # "bytes_le" =>
    /\ \A i, j \in {1, 2} :
         Less(made[i].ms, made[j].ms) => Sorts(held[i], held[j])
    /\ made[1].live /\ made[2].live =>
         (Sorts(held[1], held[2]) <=> MadeBefore(made[1], made[2]))

\* The time that UUID7Obj and uuid.UUID report is the millisecond given to the
\* generator, bit for bit, for historical identifiers as for live ones.
TimeIsExact ==
  \A i \in {1, 2} :
    /\ form = "words" => TimeOfWords(held[i]) = made[i].ms
    /\ form = "int" => TimeOfInt(held[i]) = made[i].ms
=============================================================================
