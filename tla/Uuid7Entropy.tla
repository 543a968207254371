---------------------------- MODULE Uuid7Entropy ----------------------------
(***************************************************************************)
(* secure_random_u64 and refill_entropy_pool, system call by system call.  *)
(* The pool is filled in place: a refill that fails halfway leaves bytes   *)
(* of two refills side by side.  Every byte is known by the number of the  *)
(* refill that wrote it, and by zero before the first.                     *)
(***************************************************************************)
EXTENDS Integers

CONSTANTS PoolWords,   \* words in the pool, 512 in the code
          WordBytes,   \* sizeof(uint64_t)
          MaxFills,    \* bound: how many refills are begun
          MaxSignals   \* bound: how many signals interrupt a system call

ASSUME EntropyAssumption ==
  /\ PoolWords \in Nat /\ PoolWords >= 2
  /\ WordBytes \in Nat \ {0}
  /\ MaxFills \in Nat
  /\ MaxSignals \in Nat

PoolBytes == PoolWords * WordBytes

VARIABLES at,              \* where the call is: returned, calling, opening, reading
          urandom_open,    \* urandom_fd >= 0
          filled,          \* the local of refill_entropy_pool
          pool,            \* entropy_pool, each byte by the refill it came from
          entropy_offset,  \* in bytes
          fills,           \* how many refills have been begun
          signals,         \* how many signals are still to come
          result,          \* the status and the bytes the last call returned
          left             \* what the last call left, as Uuid7Core has it

vars == <<at, urandom_open, filled, pool, entropy_offset, fills, signals,
          result, left>>

Failed == [ok |-> FALSE, bytes |-> {}, offset |-> 0]

Left(number, offset, open, begun) ==
  [number |-> number, offset |-> offset, open |-> open, begun |-> begun]

Init ==
  /\ at = "returned"
  /\ urandom_open = FALSE
  /\ filled = 0
  /\ pool = [b \in 0 .. PoolBytes - 1 |-> 0]
  /\ entropy_offset = PoolBytes
  /\ fills = 0
  /\ signals = MaxSignals
  /\ result = Failed
  /\ left = Left(0, PoolBytes, FALSE, 0)

\* The generator asks for a word.
Call ==
  /\ at = "returned"
  /\ entropy_offset + WordBytes > PoolBytes => fills < MaxFills
  /\ at' = "calling"
  /\ UNCHANGED <<signals, urandom_open, filled, pool, entropy_offset, fills, result, left>>

\* The call returns -1; nothing is left to read.
Fail(open) ==
  /\ at' = "returned"
  /\ result' = Failed
  /\ left' = Left(IF open THEN 0 ELSE left.number, entropy_offset, open, fills)
  /\ UNCHANGED <<signals, urandom_open, filled, pool, entropy_offset, fills>>

\* A word is left: copy it and move on.
TakeWord ==
  /\ at = "calling"
  /\ entropy_offset + WordBytes <= PoolBytes
  /\ result' = [ok |-> TRUE,
                bytes |-> {pool[entropy_offset + i] : i \in 0 .. WordBytes - 1},
                offset |-> entropy_offset]
  /\ entropy_offset' = entropy_offset + WordBytes
  /\ at' = "returned"
  /\ left' = Left(IF fills > left.begun THEN fills ELSE left.number,
                  entropy_offset', urandom_open, fills)
  /\ UNCHANGED <<signals, urandom_open, filled, pool, fills>>

\* Slip: the offset is rewound as the refill begins.
BeginRefillRewound ==
  /\ at = "calling"
  /\ entropy_offset + WordBytes > PoolBytes
  /\ filled' = 0
  /\ entropy_offset' = 0
  /\ fills' = fills + 1
  /\ at' = IF urandom_open THEN "reading" ELSE "opening"
  /\ UNCHANGED <<signals, urandom_open, pool, result, left>>

BeginRefill ==
  /\ at = "calling"
  /\ entropy_offset + WordBytes > PoolBytes
  /\ filled' = 0
  /\ fills' = fills + 1
  /\ at' = IF urandom_open THEN "reading" ELSE "opening"
  /\ UNCHANGED <<signals, urandom_open, pool, entropy_offset, result, left>>

\* EINTR: one signal fewer to come, and the same system call again.
Interrupted ==
  /\ at = "opening" \/ (at = "reading" /\ filled < PoolBytes)
  /\ signals > 0
  /\ signals' = signals - 1
  /\ UNCHANGED <<at, urandom_open, filled, pool, entropy_offset, fills, result, left>>

OpenSucceeds ==
  /\ at = "opening"
  /\ urandom_open' = TRUE
  /\ at' = "reading"
  /\ UNCHANGED <<signals, filled, pool, entropy_offset, fills, result, left>>

OpenFails ==
  /\ at = "opening"
  /\ Fail(FALSE)

ReadInto(n) ==
  pool' = [b \in DOMAIN pool |->
             IF filled <= b /\ b < filled + n THEN fills ELSE pool[b]]

\* Slip: every read asks for a whole pool.
ReadPastTheEnd ==
  /\ at = "reading" /\ filled < PoolBytes
  /\ \E n \in 1 .. PoolBytes : ReadInto(n) /\ filled' = filled + n
  /\ UNCHANGED <<signals, at, urandom_open, entropy_offset, fills, result, left>>

\* Slip: = for +=, the bytes read before are forgotten.
ReadForgetting ==
  /\ at = "reading" /\ filled < PoolBytes
  /\ \E n \in 1 .. PoolBytes - filled : ReadInto(n) /\ filled' = n
  /\ UNCHANGED <<signals, at, urandom_open, entropy_offset, fills, result, left>>

\* read() gives n bytes, often fewer than asked for.
ReadSome ==
  /\ at = "reading"
  /\ \E n \in 1 .. PoolBytes - filled : ReadInto(n) /\ filled' = filled + n
  /\ UNCHANGED <<signals, at, urandom_open, entropy_offset, fills, result, left>>

\* An error, or the end of the file: what was read stays in the pool.
ReadFails ==
  /\ at = "reading" /\ filled < PoolBytes
  /\ Fail(TRUE)

\* Only a complete refill rewinds the offset.
RefillDone ==
  /\ at = "reading" /\ filled = PoolBytes
  /\ entropy_offset' = 0
  /\ at' = "calling"
  /\ UNCHANGED <<signals, urandom_open, filled, pool, fills, result, left>>

Next ==
  \/ Call \/ TakeWord \/ BeginRefill
  \/ Interrupted \/ OpenSucceeds \/ OpenFails
  \/ ReadSome \/ ReadFails \/ RefillDone

(***************************************************************************)
(* Inside a call the code runs on, and every system call it makes comes    *)
(* back some way or other.  Nothing makes a read return all it was asked   *)
(* for, nor makes any system call succeed; the caller need not call.       *)
(***************************************************************************)
Fairness == WF_vars(Next /\ at # "returned")

Spec == Init /\ [][Next]_vars /\ Fairness
-----------------------------------------------------------------------------
TypeOK ==
  /\ at \in {"returned", "calling", "opening", "reading"}
  /\ urandom_open \in BOOLEAN
  /\ filled \in 0 .. PoolBytes
  /\ pool \in [0 .. PoolBytes - 1 -> 0 .. MaxFills]
  /\ entropy_offset \in 0 .. PoolBytes
  /\ fills \in 0 .. MaxFills
  /\ signals \in 0 .. MaxSignals

\* The word a call returned, by the refill its bytes came from; bytes of
\* different refills make no word of the CSPRNG at all.
Torn == -1
ReturnedWord ==
  IF result.ok
  THEN <<IF \E k \in 1 .. MaxFills : result.bytes = {k}
         THEN CHOOSE k \in 1 .. MaxFills : result.bytes = {k}
         ELSE Torn,
         result.offset \div WordBytes>>
  ELSE <<0, 0>>

\* The loops amount to one step: a call returns either a whole word of one
\* complete refill, the next one that was not returned before, or a failure
\* after which nothing is left to read.  Mid-call, the pool and the descriptor
\* are what the last call left.
Atomic ==
  INSTANCE AtomicEntropy WITH
    MaxTimestamp <- 0, MaxCounter <- 0, WordSpan <- 2,
    gen <- [last_ms |-> 0, counter |-> 0, initialized |-> FALSE, process_id |-> 0,
            pool |-> left.number, entropy_offset |-> left.offset \div WordBytes,
            fd_open |-> left.open],
    fills <- left.begun,
    drawn <- [ok |-> result.ok, word |-> ReturnedWord]
OneStep == Atomic!Spec

\* A call returns: short reads get to the end of the pool, and interrupted
\* ones are tried again.
CallReturns == at = "calling" ~> at = "returned"
=============================================================================
