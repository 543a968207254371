-------------------------- MODULE Uuid7Batch_proofs --------------------------
(***************************************************************************)
(* Calls of the extension module that nest and that take turns, for every  *)
(* number of threads, every depth and every batch size.  The invariant     *)
(* says of each call in progress what it holds, at its stage, of the one   *)
(* sequence that all of them share.                                        *)
(***************************************************************************)
EXTENDS Uuid7Batch, Uuid7Core_proofs, SequenceTheorems

NotAfter(a, b) == a = b \/ Before(a, b)

RawOps == {"obj", "str", "bytes"}

\* What a call keeps is positions of live identifiers, or exact timestamps.
Items == Positions \cup {<<ms>> : ms \in Nat}

CallRecords ==
  [op         : Ops,
   wanted     : Nat,
   stage      : {"iterate", "validate", "allocate", "generate", "build"},
   in_python  : BOOLEAN,
   timestamps : Seq(Nat),
   kept       : Seq(Items),
   places     : Seq(Nat),
   drew       : BOOLEAN,
   floor      : {NoPosition} \cup Positions]

\* The innermost call of the thread that holds the GIL.
Top == <<holder, Len(stack[holder])>>

StackInv ==
  /\ stack \in [Threads -> Seq(CallRecords)]
  /\ \A t \in Threads : Len(stack[t]) <= MaxDepth

\* Every call but the one that runs is in Python code.
GilInv ==
  /\ holder \in Threads
  /\ \A c \in CallsInProgress : c # Top => The(c).in_python

\* The generator stands where the last live identifier is.
GenInv ==
  /\ gen \in GeneratorStates /\ PoolOK(gen)
  /\ fills \in Nat /\ gen.pool <= fills
  /\ issued \in Nat
  /\ source \in Sources
  /\ latest \in {NoPosition} \cup Positions
  /\ latest = NoPosition => ~ gen.initialized
  /\ latest # NoPosition => /\ gen.initialized
                            /\ gen.process_id = Pid
                            /\ latest = <<gen.last_ms, gen.counter>>

UsedInv ==
  /\ used \in SUBSET Positions
  /\ \A x \in used : latest # NoPosition /\ NotAfter(x, latest)

\* Before the generator has been called for it, a call has nothing.
Untouched(call) ==
  call.stage \in {"iterate", "validate", "allocate"} =>
    call.kept = <<>> /\ call.places = <<>> /\ ~ call.drew

\* A historical call: the snapshot is taken, then checked, then answered.
HistoricalInv(call) ==
  call.op = "at" =>
    /\ call.stage # "iterate" => call.wanted = Len(call.timestamps)
    /\ call.stage \notin {"iterate", "validate"} =>
         \A i \in 1 .. Len(call.timestamps) : call.timestamps[i] <= MaxTimestamp
    /\ \A i \in 1 .. Len(call.kept) : call.kept[i] = <<call.timestamps[i]>>

\* A live call: what it keeps increases, and lies between the identifier that
\* was the last when it began and the one that is the last now.
LiveInv(call, last) ==
  call.op \in LiveOps =>
    /\ \A i \in 1 .. Len(call.kept) :
         /\ call.kept[i] \in Positions
         /\ last # NoPosition /\ NotAfter(call.kept[i], last)
    /\ \A i \in 1 .. Len(call.kept) - 1 : Before(call.kept[i], call.kept[i + 1])
    /\ call.floor # NoPosition =>
         /\ last # NoPosition /\ NotAfter(call.floor, last)
         /\ call.kept # <<>> => Before(call.floor, call.kept[1])

\* A batch of strings, UUID7Obj or bytes that has begun to generate does not
\* leave C before it ends, and has generated the last identifier there is.
RawInv(call, count) ==
  call.op \in RawOps =>
    /\ \A i \in 1 .. Len(call.places) - 1 :
         call.places[i + 1] = call.places[i] + 1
    /\ call.places # <<>> => /\ ~ call.in_python
                             /\ call.places[Len(call.places)] = count

CallInv(call, last, count) ==
  /\ call \in CallRecords
  /\ Len(call.kept) <= call.wanted
  /\ Untouched(call)
  /\ HistoricalInv(call)
  /\ LiveInv(call, last)
  /\ RawInv(call, count)

CallsInv == \A c \in CallsInProgress : CallInv(The(c), latest, issued)

\* The live identifiers that a call keeps.
Held(call) == IF call.op \in LiveOps THEN ToSet(call.kept) ELSE {}

\* No identifier is in two hands.
ApartInv ==
  /\ \A c \in CallsInProgress : Held(The(c)) \cap used = {}
  /\ \A c, d \in CallsInProgress : c # d => Held(The(c)) \cap Held(The(d)) = {}

IInv == StackInv /\ GilInv /\ GenInv /\ UsedInv /\ CallsInv /\ ApartInv

(***************************************************************************)
(* The stacks.                                                             *)
(***************************************************************************)
Indexed ==
  /\ \A c \in CallsInProgress :
       /\ c[1] \in Threads /\ c[2] \in 1 .. Len(stack[c[1]])
       /\ c = <<c[1], c[2]>> /\ The(c) \in CallRecords
  /\ \A t \in Threads : \A d \in 1 .. Len(stack[t]) : <<t, d>> \in CallsInProgress

LEMMA TheCalls == StackInv => Indexed
<1> SUFFICES ASSUME StackInv PROVE Indexed
  OBVIOUS
<1>1. /\ \A t \in Threads : stack[t] \in Seq(CallRecords) /\ Len(stack[t]) <= MaxDepth
      /\ MaxDepth \in Nat
  BY BatchAssumption DEF StackInv
<1>2. \A t \in Threads : Len(stack[t]) \in Nat
  BY <1>1
<1>3. \A t \in Threads : \A d \in 1 .. Len(stack[t]) : <<t, d>> \in CallsInProgress
  BY <1>1, <1>2 DEF CallsInProgress
<1>4. ASSUME NEW c \in CallsInProgress
      PROVE  /\ c[1] \in Threads /\ c[2] \in 1 .. Len(stack[c[1]])
             /\ c = <<c[1], c[2]>> /\ The(c) \in CallRecords
  <2>1. c \in Threads \X (1 .. MaxDepth) /\ c[2] <= Len(stack[c[1]])
    BY DEF CallsInProgress
  <2>2. c[1] \in Threads /\ c[2] \in 1 .. Len(stack[c[1]]) /\ c = <<c[1], c[2]>>
    BY <1>2, <2>1
  <2>3. stack[c[1]][c[2]] \in CallRecords
    BY <1>1, <2>2
  <2>4. QED  BY <2>2, <2>3 DEF The
<1>5. QED  BY <1>3, <1>4 DEF Indexed

\* The calls of one thread change, those of the others do not: only the
\* changed sequence has to be looked at.
LEMMA OneStack ==
  ASSUME StackInv, NEW t \in Threads, NEW s \in Seq(CallRecords), Len(s) <= MaxDepth,
         stack' = [stack EXCEPT ![t] = s]
  PROVE  /\ StackInv'
         /\ stack'[t] = s
         /\ \A u \in Threads : u # t => stack'[u] = stack[u]
         /\ \A c \in CallsInProgress' :
              IF c[1] = t THEN c[2] \in 1 .. Len(s) /\ The(c)' = s[c[2]]
                          ELSE c \in CallsInProgress /\ The(c)' = The(c)
         /\ \A c \in CallsInProgress : c[1] # t => c \in CallsInProgress'
<1>1. /\ stack'[t] = s /\ StackInv'
      /\ \A u \in Threads : u # t => stack'[u] = stack[u]
  BY DEF StackInv
<1>2. \A c \in CallsInProgress' : c \in Threads \X (1 .. MaxDepth) /\ c[2] <= Len(stack'[c[1]])
  BY DEF CallsInProgress
<1>3. \A c \in CallsInProgress : c \in Threads \X (1 .. MaxDepth) /\ c[2] <= Len(stack[c[1]])
  BY DEF CallsInProgress
<1>4. ASSUME NEW c \in CallsInProgress', c[1] = t
      PROVE  c[2] \in 1 .. Len(s) /\ The(c)' = s[c[2]]
  <2>1. c[2] \in 1 .. MaxDepth /\ c[2] <= Len(s) /\ Len(s) \in Nat
    BY <1>1, <1>2, <1>4
  <2>2. QED  BY <1>1, <1>4, <2>1, BatchAssumption DEF The
<1>5. ASSUME NEW c \in CallsInProgress', c[1] # t
      PROVE  c \in CallsInProgress /\ The(c)' = The(c)
  <2>1. stack'[c[1]] = stack[c[1]] /\ c \in Threads \X (1 .. MaxDepth)
    BY <1>1, <1>2, <1>5
  <2>2. QED  BY <1>2, <2>1 DEF CallsInProgress, The
<1>6. ASSUME NEW c \in CallsInProgress, c[1] # t
      PROVE  c \in CallsInProgress'
  <2>1. stack'[c[1]] = stack[c[1]] /\ c \in Threads \X (1 .. MaxDepth)
    BY <1>1, <1>3, <1>6
  <2>2. QED  BY <1>3, <2>1 DEF CallsInProgress
<1>7. QED  BY <1>1, <1>4, <1>5, <1>6

LEMMA TopCall ==
  ASSUME StackInv, holder \in Threads, stack[holder] # <<>>
  PROVE  /\ Top \in CallsInProgress /\ The(Top) = Call
         /\ Call \in CallRecords
         /\ Len(stack[holder]) \in 1 .. MaxDepth
<1>1. stack[holder] \in Seq(CallRecords) /\ Len(stack[holder]) <= MaxDepth
  BY DEF StackInv
<1>2. Len(stack[holder]) \in 1 .. Len(stack[holder]) /\ Len(stack[holder]) \in Nat
  BY <1>1
<1>3. Top \in CallsInProgress
  BY <1>2, TheCalls DEF Top, Indexed
<1>4. The(Top) = Call
  BY DEF The, Top, Call, Last
<1>5. QED  BY <1>1, <1>2, <1>3, <1>4, TheCalls, BatchAssumption DEF Indexed

LEMMA Replaces ==
  ASSUME StackInv, holder \in Threads, stack[holder] # <<>>,
         NEW call \in CallRecords, Becomes(call)
  PROVE  /\ StackInv'
         /\ CallsInProgress' = CallsInProgress
         /\ Len(stack'[holder]) = Len(stack[holder])
         /\ \A c \in CallsInProgress : The(c)' = IF c = Top THEN call ELSE The(c)
<1> DEFINE old == stack[holder]
           s == Append(Front(old), call)
<1>1. old \in Seq(CallRecords) /\ Len(old) <= MaxDepth /\ Len(old) \in Nat \ {0}
  BY TopCall DEF StackInv
<1>2. stack' = [stack EXCEPT ![holder] = s]
  BY DEF Becomes, StackInv
<1>3. /\ s \in Seq(CallRecords) /\ Len(s) = Len(old)
      /\ \A i \in 1 .. Len(old) : s[i] = IF i = Len(old) THEN call ELSE old[i]
  <2> DEFINE f == SubSeq(old, 1, Len(old) - 1)
  <2>1. /\ f \in Seq(CallRecords) /\ Len(f) = Len(old) - 1
        /\ \A i \in 1 .. Len(old) - 1 : f[i] = old[i]
    BY <1>1
  <2>2. s = Append(f, call)
    BY DEF Front
  <2> HIDE DEF f, s, old
  <2>3. QED  BY <1>1, <2>1, <2>2
<1> HIDE DEF s, old
<1>4. /\ StackInv' /\ stack'[holder] = s
      /\ \A c \in CallsInProgress' :
           IF c[1] = holder THEN c[2] \in 1 .. Len(s) /\ The(c)' = s[c[2]]
                            ELSE c \in CallsInProgress /\ The(c)' = The(c)
      /\ \A c \in CallsInProgress : c[1] # holder => c \in CallsInProgress'
  <2>1. Len(s) <= MaxDepth
    BY <1>1, <1>3
  <2>2. QED  BY ZenonT(30), <1>2, <1>3, <2>1, OneStack
<1>5. \A c \in CallsInProgress :
        /\ c[1] \in Threads /\ c[2] \in 1 .. Len(stack[c[1]])
        /\ c = <<c[1], c[2]>>
  BY TheCalls DEF Indexed
<1>p. Indexed'
  BY <1>4, TheCalls, PTL
<1>6. \A c \in CallsInProgress' :
        /\ c[1] \in Threads /\ c[2] \in 1 .. Len(stack'[c[1]])
        /\ c = <<c[1], c[2]>>
  BY <1>p DEF Indexed
<1>7. /\ \A t \in Threads : \A d \in 1 .. Len(stack[t]) : <<t, d>> \in CallsInProgress
      /\ \A t \in Threads : \A d \in 1 .. Len(stack'[t]) : <<t, d>> \in CallsInProgress'
  BY <1>p, TheCalls DEF Indexed
<1>8. CallsInProgress' \subseteq CallsInProgress
  BY <1>3, <1>4, <1>6, <1>7 DEF old
<1>9. CallsInProgress \subseteq CallsInProgress'
  BY <1>3, <1>4, <1>5, <1>7 DEF old
<1>10. ASSUME NEW c \in CallsInProgress
       PROVE  The(c)' = IF c = Top THEN call ELSE The(c)
  <2>1. CASE c[1] = holder
    <3>1. c[2] \in 1 .. Len(old) /\ The(c)' = s[c[2]] /\ The(c) = old[c[2]]
      BY <1>4, <1>5, <1>9, <2>1 DEF The, old
    <3>2. c = Top <=> c[2] = Len(old)
      BY <1>5, <2>1 DEF Top, old
    <3>3. QED  BY <1>3, <3>1, <3>2
  <2>2. CASE c[1] # holder
    BY <1>4, <1>9, <2>2 DEF Top
  <2>3. QED  BY <2>1, <2>2
<1>11. QED  BY <1>3, <1>4, <1>8, <1>9, <1>10 DEF old

LEMMA Drops ==
  ASSUME StackInv, holder \in Threads, stack[holder] # <<>>, Pops
  PROVE  /\ StackInv'
         /\ CallsInProgress' = CallsInProgress \ {Top}
         /\ \A c \in CallsInProgress' : The(c)' = The(c)
<1> DEFINE old == stack[holder]
           s == SubSeq(old, 1, Len(old) - 1)
<1>1. old \in Seq(CallRecords) /\ Len(old) <= MaxDepth /\ Len(old) \in Nat \ {0}
  BY TopCall DEF StackInv
<1>2. stack' = [stack EXCEPT ![holder] = s]
  BY DEF Pops, StackInv, Front
<1>3. /\ s \in Seq(CallRecords) /\ Len(s) = Len(old) - 1
      /\ \A i \in 1 .. Len(old) - 1 : s[i] = old[i]
  BY <1>1
<1> HIDE DEF s, old
<1>4. /\ StackInv' /\ stack'[holder] = s
      /\ \A u \in Threads : u # holder => stack'[u] = stack[u]
      /\ \A c \in CallsInProgress' :
           IF c[1] = holder THEN c[2] \in 1 .. Len(s) /\ The(c)' = s[c[2]]
                            ELSE c \in CallsInProgress /\ The(c)' = The(c)
      /\ \A c \in CallsInProgress : c[1] # holder => c \in CallsInProgress'
  <2>1. Len(s) <= MaxDepth
    BY <1>1, <1>3, BatchAssumption
  <2>2. QED  BY ZenonT(30), <1>2, <1>3, <2>1, OneStack
<1>5. \A c \in CallsInProgress :
        /\ c[1] \in Threads /\ c[2] \in 1 .. Len(stack[c[1]])
        /\ c = <<c[1], c[2]>>
  BY TheCalls DEF Indexed
<1>p. Indexed'
  BY <1>4, TheCalls, PTL
<1>6. \A c \in CallsInProgress' : c = <<c[1], c[2]>>
  BY <1>p DEF Indexed
<1>7. /\ \A t \in Threads : \A d \in 1 .. Len(stack[t]) : <<t, d>> \in CallsInProgress
      /\ \A t \in Threads : \A d \in 1 .. Len(stack'[t]) : <<t, d>> \in CallsInProgress'
  BY <1>p, TheCalls DEF Indexed
<1>8. ASSUME NEW c \in CallsInProgress'
      PROVE  c \in CallsInProgress \ {Top} /\ The(c)' = The(c)
  <2>1. CASE c[1] = holder
    <3>1. c[2] \in 1 .. Len(old) - 1 /\ The(c)' = s[c[2]]
      BY <1>3, <1>4, <2>1
    <3>2. c \in CallsInProgress
      BY <1>1, <1>6, <1>7, <2>1, <3>1 DEF old
    <3>3. c # Top
      BY <1>1, <3>1 DEF Top, old
    <3>4. QED  BY <1>3, <2>1, <3>1, <3>2, <3>3 DEF The, old
  <2>2. CASE c[1] # holder
    BY <1>4, <2>2 DEF Top
  <2>3. QED  BY <2>1, <2>2
<1>9. ASSUME NEW c \in CallsInProgress, c # Top
      PROVE  c \in CallsInProgress'
  <2>1. CASE c[1] = holder
    <3>1. c[2] \in 1 .. Len(old) /\ c[2] # Len(old)
      BY <1>5, <1>9, <2>1 DEF Top, old
    <3>2. c[2] \in 1 .. Len(stack'[holder])
      BY <1>1, <1>3, <1>4, <3>1
    <3>3. QED  BY <1>5, <1>7, <2>1, <3>2
  <2>2. CASE c[1] # holder
    BY <1>4, <2>2
  <2>3. QED  BY <2>1, <2>2
<1>10. QED  BY <1>4, <1>8, <1>9

LEMMA Adds ==
  ASSUME StackInv, holder \in Threads, Len(stack[holder]) < MaxDepth,
         NEW call \in CallRecords,
         stack' = [stack EXCEPT ![holder] = Append(@, call)], holder' = holder
  PROVE  /\ StackInv'
         /\ Top' \notin CallsInProgress /\ The(Top)' = call
         /\ CallsInProgress' = CallsInProgress \cup {Top'}
         /\ \A c \in CallsInProgress : The(c)' = The(c)
<1> DEFINE old == stack[holder]
           s == Append(old, call)
<1>1. old \in Seq(CallRecords) /\ Len(old) < MaxDepth /\ Len(old) \in Nat
  BY DEF StackInv
<1>2. stack' = [stack EXCEPT ![holder] = s]
  BY DEF StackInv
<1>3. /\ s \in Seq(CallRecords) /\ Len(s) = Len(old) + 1
      /\ \A i \in 1 .. Len(old) : s[i] = old[i]
      /\ s[Len(old) + 1] = call
  BY <1>1
<1> HIDE DEF s, old
<1>4. /\ StackInv' /\ stack'[holder] = s
      /\ \A u \in Threads : u # holder => stack'[u] = stack[u]
      /\ \A c \in CallsInProgress' :
           IF c[1] = holder THEN c[2] \in 1 .. Len(s) /\ The(c)' = s[c[2]]
                            ELSE c \in CallsInProgress /\ The(c)' = The(c)
      /\ \A c \in CallsInProgress : c[1] # holder => c \in CallsInProgress'
  <2>1. Len(s) <= MaxDepth
    BY <1>1, <1>3, BatchAssumption
  <2>2. QED  BY <1>2, <1>3, <2>1, OneStack
<1>5. \A c \in CallsInProgress :
        /\ c[1] \in Threads /\ c[2] \in 1 .. Len(stack[c[1]])
        /\ c = <<c[1], c[2]>>
  BY TheCalls DEF Indexed
<1>p. Indexed'
  BY <1>4, TheCalls, PTL
<1>6. \A c \in CallsInProgress' : c = <<c[1], c[2]>>
  BY <1>p DEF Indexed
<1>7. /\ \A t \in Threads : \A d \in 1 .. Len(stack[t]) : <<t, d>> \in CallsInProgress
      /\ \A t \in Threads : \A d \in 1 .. Len(stack'[t]) : <<t, d>> \in CallsInProgress'
  BY <1>p, TheCalls DEF Indexed
<1>8. Top' = <<holder, Len(old) + 1>>
  BY <1>3, <1>4 DEF Top
<1>9. Top' \in CallsInProgress' /\ Top' \notin CallsInProgress
  <2>1. Len(old) + 1 \in 1 .. Len(stack'[holder])
    BY <1>1, <1>3, <1>4
  <2>2. Top' \in CallsInProgress'
    BY <1>7, <1>8, <2>1
  <2>3. Len(old) + 1 \notin 1 .. Len(old)
    BY <1>1
  <2>4. QED  BY <1>5, <1>8, <2>2, <2>3 DEF old
<1>10. The(Top)' = call
  BY <1>3, <1>4, <1>8 DEF The, Top
<1>11. ASSUME NEW c \in CallsInProgress
       PROVE  c \in CallsInProgress' /\ The(c)' = The(c)
  <2>1. CASE c[1] = holder
    <3>1. c[2] \in 1 .. Len(old) /\ c = <<holder, c[2]>>
      BY <1>5, <2>1 DEF old
    <3>2. c[2] \in 1 .. Len(stack'[holder])
      BY <1>1, <1>3, <1>4, <3>1
    <3>3. c \in CallsInProgress'
      BY <1>7, <3>1, <3>2
    <3>4. QED  BY <1>3, <1>4, <2>1, <3>1, <3>3 DEF The, old
  <2>2. CASE c[1] # holder
    BY <1>4, <2>2
  <2>3. QED  BY <2>1, <2>2
<1>12. ASSUME NEW c \in CallsInProgress', c # Top'
       PROVE  c \in CallsInProgress
  <2>1. CASE c[1] = holder
    <3>1. c[2] \in 1 .. Len(s) /\ c[2] # Len(old) + 1
      BY <1>4, <1>6, <1>8, <1>12, <2>1
    <3>2. c[2] \in 1 .. Len(stack[holder])
      BY <1>1, <1>3, <3>1 DEF old
    <3>3. QED  BY <1>6, <1>7, <2>1, <3>2
  <2>2. CASE c[1] # holder
    BY <1>4, <2>2
  <2>3. QED  BY <2>1, <2>2
<1>13. QED  BY <1>4, <1>9, <1>10, <1>11, <1>12

(***************************************************************************)
(* The order of positions.                                                 *)
(***************************************************************************)
LEMMA PositionsAreOrdered ==
  /\ \A a, b, c \in Positions : Before(a, b) /\ Before(b, c) => Before(a, c)
  /\ \A a \in Positions : ~ Before(a, a)
  /\ NoPosition \notin Positions
<1>1. \A a \in Positions : a[1] \in Nat /\ a[2] \in Nat /\ a = <<a[1], a[2]>>
  BY DEF Positions, Timestamps, Counters
<1>2. NoPosition \notin Positions
  <2>1. ASSUME NEW a, NEW b
        PROVE  <<a, b>> # NoPosition
    BY DEF NoPosition
  <2>2. QED  BY <2>1 DEF Positions
<1>3. QED  BY <1>1, <1>2 DEF Before

\* A call that is in Python code stays within its bounds when another call
\* generates the next identifier.
LEMMA OtherCall ==
  ASSUME NEW call, NEW last \in {NoPosition} \cup Positions, NEW count,
         CallInv(call, last, count), call.in_python,
         NEW next \in Positions, last # NoPosition => Before(last, next),
         NEW more
  PROVE  CallInv(call, next, more)
<1>1. LiveInv(call, next)
  <2>1. ASSUME NEW p \in Positions, last # NoPosition, NotAfter(p, last)
        PROVE  NotAfter(p, next)
    BY <2>1, PositionsAreOrdered DEF NotAfter
  <2>2. /\ next # NoPosition
        /\ call.floor # NoPosition => call.floor \in Positions
    BY PositionsAreOrdered DEF CallInv, CallRecords
  <2>3. QED  BY <2>1, <2>2 DEF CallInv, LiveInv
<1>2. RawInv(call, more)
  BY DEF CallInv, RawInv
<1>3. QED  BY <1>1, <1>2 DEF CallInv

(***************************************************************************)
(* What the kinds of step do to the invariant.                             *)
(***************************************************************************)
\* The running call goes on, with the same identifiers.
LEMMA GoesOn ==
  ASSUME IInv, stack[holder] # <<>>,
         NEW call, CallInv(call, latest, issued), Held(call) = Held(Call),
         Becomes(call), GenInv',
         UNCHANGED <<holder, latest, issued, used>>
  PROVE  IInv'
<1>1. /\ Top \in CallsInProgress /\ The(Top) = Call
      /\ StackInv' /\ CallsInProgress' = CallsInProgress /\ Top' = Top
      /\ \A c \in CallsInProgress : The(c)' = IF c = Top THEN call ELSE The(c)
  BY TopCall, Replaces DEF IInv, GilInv, CallInv, Top
<1>2. GilInv'
  BY <1>1 DEF IInv, GilInv
<1>3. UsedInv'
  BY DEF IInv, UsedInv
<1>4. CallsInv'
  BY <1>1 DEF IInv, CallsInv
<1>5. \A c \in CallsInProgress : Held(The(c)') = Held(The(c))
  BY <1>1
<1>6. ApartInv'
  BY <1>1, <1>5 DEF IInv, ApartInv
<1>7. QED  BY <1>1, <1>2, <1>3, <1>4, <1>6 DEF IInv

\* The running call ends, and what it kept is used, whether dropped or returned.
LEMMA CallEnds ==
  ASSUME IInv, stack[holder] # <<>>, CallInv(Call, latest, issued), Ends, GenInv',
         UNCHANGED <<holder, latest, issued>>
  PROVE  IInv'
<1>0. Pops /\ used' = used \cup Held(Call)
  <2>1. Call.op = "at" \/ Call.op \in LiveOps
    BY DEF CallInv, CallRecords, Ops
  <2>2. QED  BY <2>1 DEF Ends, Held, LiveOps
<1>1. /\ Top \in CallsInProgress /\ The(Top) = Call
      /\ StackInv' /\ CallsInProgress' = CallsInProgress \ {Top}
      /\ \A c \in CallsInProgress' : The(c)' = The(c)
  BY <1>0, TopCall, Drops DEF IInv, GilInv
<1>2. GilInv'
  BY <1>1 DEF IInv, GilInv
<1>3. UsedInv'
  <2>1. \A x \in Held(Call) : x \in Positions /\ latest # NoPosition /\ NotAfter(x, latest)
    <3>1. /\ LiveInv(Call, latest) /\ Call.kept \in Seq(Items)
      BY <1>1 DEF IInv, CallsInv, CallInv, CallRecords
    <3>2. ASSUME NEW x \in ToSet(Call.kept)
          PROVE  \E i \in 1 .. Len(Call.kept) : x = Call.kept[i]
      BY <3>1 DEF ToSet
    <3>3. QED  BY <3>1, <3>2 DEF LiveInv, Held
  <2>2. QED  BY <1>0, <2>1 DEF IInv, UsedInv
<1>4. CallsInv'
  BY <1>1 DEF IInv, CallsInv
<1>5. /\ \A c \in CallsInProgress' : c \in CallsInProgress /\ c # Top /\ Held(The(c)') = Held(The(c))
      /\ \A c \in CallsInProgress' : Held(The(c)) \cap Held(Call) = {}
      /\ \A c \in CallsInProgress : Held(The(c)) \cap used = {}
      /\ \A c, d \in CallsInProgress : c # d => Held(The(c)) \cap Held(The(d)) = {}
  BY <1>1 DEF IInv, ApartInv
<1>6. \A c \in CallsInProgress' : Held(The(c)') \cap used' = {}
  BY <1>0, <1>5
<1>7. ApartInv'
  BY <1>5, <1>6 DEF ApartInv
<1>8. QED  BY <1>1, <1>2, <1>3, <1>4, <1>7 DEF IInv

\* Python code calls the generator.
LEMMA Starts ==
  ASSUME IInv, NEW call, CallInv(call, latest, issued), Held(call) = {},
         Begin(call)
  PROVE  IInv'
<1>1. /\ InPython(holder) /\ Len(stack[holder]) < MaxDepth
      /\ stack' = [stack EXCEPT ![holder] = Append(@, call)]
      /\ UNCHANGED <<gen, fills, holder, source, latest, issued, used>>
  BY DEF Begin
<1>2. /\ StackInv' /\ Top' \notin CallsInProgress /\ The(Top)' = call
      /\ CallsInProgress' = CallsInProgress \cup {Top'}
      /\ \A c \in CallsInProgress : The(c)' = The(c)
  BY <1>1, Adds DEF IInv, GilInv, CallInv
<1>3. \A c \in CallsInProgress : The(c).in_python
  <2>1. stack[holder] # <<>> => Call.in_python
    BY <1>1 DEF InPython, Call
  <2>2. CASE stack[holder] # <<>>
    BY <2>1, <2>2, TopCall DEF IInv, GilInv
  <2>3. CASE stack[holder] = <<>>
    <3>1. Len(stack[holder]) = 0
      BY <2>3
    <3>2. Top \notin CallsInProgress
      <4>1. Top[1] = holder /\ Top[2] = 0
        BY <3>1 DEF Top
      <4>2. \A c \in CallsInProgress : c[2] \in 1 .. Len(stack[c[1]])
        BY TheCalls DEF IInv, Indexed
      <4>3. QED  BY <3>1, <4>1, <4>2
    <3>3. QED  BY <3>2 DEF IInv, GilInv
  <2>4. QED  BY <2>2, <2>3
<1>4. GilInv'
  BY <1>1, <1>2, <1>3 DEF IInv, GilInv
<1>5. GenInv' /\ UsedInv'
  BY <1>1 DEF IInv, GenInv, UsedInv
<1>6. CallsInv'
  <2>1. CallInv(The(Top)', latest', issued')
    BY <1>1, <1>2
  <2>2. \A c \in CallsInProgress : CallInv(The(c)', latest', issued')
    BY <1>1, <1>2 DEF IInv, CallsInv
  <2>3. QED  BY <1>2, <2>1, <2>2 DEF CallsInv
<1>7. ApartInv'
  <2>1. /\ \A c \in CallsInProgress : Held(The(c)') = Held(The(c))
        /\ Held(The(Top)') = {}
    BY <1>2
  <2>2. /\ \A c \in CallsInProgress : Held(The(c)) \cap used = {}
        /\ \A c, d \in CallsInProgress : c # d => Held(The(c)) \cap Held(The(d)) = {}
    BY DEF IInv, ApartInv
  <2>3. QED  BY <1>1, <1>2, <2>1, <2>2 DEF ApartInv
<1>8. QED  BY <1>2, <1>4, <1>5, <1>6, <1>7 DEF IInv

\* The running call has generated the next identifier.
LEMMA Generates ==
  ASSUME IInv, stack[holder] # <<>>,
         NEW call, CallInv(call, latest', issued'),
         NEW next \in Positions, latest # NoPosition => Before(latest, next),
         Held(call) \subseteq Held(Call) \cup {next},
         Becomes(call), GenInv', latest' = next,
         UNCHANGED <<holder, used>>
  PROVE  IInv'
<1>1. /\ Top \in CallsInProgress /\ The(Top) = Call
      /\ StackInv' /\ CallsInProgress' = CallsInProgress /\ Top' = Top
      /\ \A c \in CallsInProgress : The(c)' = IF c = Top THEN call ELSE The(c)
  BY TopCall, Replaces DEF IInv, GilInv, CallInv, Top
<1>2. GilInv'
  BY <1>1 DEF IInv, GilInv
<1>3. latest \in {NoPosition} \cup Positions /\ next # NoPosition
  BY PositionsAreOrdered DEF IInv, GenInv
<1>4. \A x \in Positions : latest # NoPosition /\ NotAfter(x, latest) =>
        x # next /\ NotAfter(x, next)
  BY <1>3, PositionsAreOrdered DEF NotAfter
<1>5. UsedInv' /\ next \notin used
  BY <1>3, <1>4 DEF IInv, UsedInv
<1>6. CallsInv'
  <2>1. ASSUME NEW c \in CallsInProgress, c # Top
        PROVE  CallInv(The(c), latest', issued')
    <3>1. CallInv(The(c), latest, issued) /\ The(c).in_python
      BY <2>1 DEF IInv, CallsInv, GilInv
    <3>2. QED  BY <1>3, <3>1, OtherCall
  <2>2. QED  BY <1>1, <2>1 DEF CallsInv
<1>7. \A c \in CallsInProgress : next \notin Held(The(c))
  <2>1. ASSUME NEW c \in CallsInProgress, NEW x \in Held(The(c))
        PROVE  x # next
    <3>1. LiveInv(The(c), latest) /\ The(c).op \in LiveOps /\ The(c).kept \in Seq(Items)
      BY <2>1 DEF IInv, CallsInv, CallInv, CallRecords, Held
    <3>2. PICK i \in 1 .. Len(The(c).kept) : x = The(c).kept[i]
      BY <2>1, <3>1 DEF ToSet, Held
    <3>3. QED  BY <1>4, <3>1, <3>2 DEF LiveInv
  <2>2. QED  BY <2>1
<1>8. ApartInv'
  <2>1. \A c \in CallsInProgress :
          Held(The(c)') \subseteq IF c = Top THEN Held(The(c)) \cup {next} ELSE Held(The(c))
    BY <1>1
  <2>2. /\ \A c \in CallsInProgress : Held(The(c)) \cap used = {}
        /\ \A c, d \in CallsInProgress : c # d => Held(The(c)) \cap Held(The(d)) = {}
    BY DEF IInv, ApartInv
  <2>3. \A c \in CallsInProgress : Held(The(c)') \cap used' = {}
    BY <1>5, <2>1, <2>2
  <2>4. \A c, d \in CallsInProgress : c # d => Held(The(c)') \cap Held(The(d)') = {}
    BY <1>7, <2>1, <2>2
  <2>5. QED  BY <1>1, <2>3, <2>4 DEF ApartInv
<1>9. QED  BY <1>1, <1>2, <1>5, <1>6, <1>8 DEF IInv

LEMMA GeneratorStays ==
  ASSUME IInv, UNCHANGED <<gen, fills, source, latest, issued>>
  PROVE  GenInv'
BY DEF IInv, GenInv

(***************************************************************************)
(* What the generator answers to a call.                                   *)
(***************************************************************************)
Stands(g) ==
  /\ latest = NoPosition => ~ g.initialized
  /\ latest # NoPosition => /\ g.initialized
                            /\ g.process_id = Pid
                            /\ latest = <<g.last_ms, g.counter>>

LEMMA Generator ==
  ASSUME GenInv
  PROVE  /\ gen \in GeneratorStates /\ PoolOK(gen) /\ Pid \in Nat
         /\ fills + 1 \in Nat \ {Unfilled} /\ gen.pool < fills + 1
         /\ LET g == EnsureCurrentProcess(gen, Pid)
            IN  g \in GeneratorStates /\ g.process_id = Pid /\ Stands(g)
<1>1. /\ gen \in GeneratorStates /\ PoolOK(gen) /\ Pid \in Nat
      /\ fills \in Nat /\ gen.pool <= fills
  BY DEF GenInv, Pid
<1>2. fills + 1 \in Nat \ {Unfilled} /\ gen.pool < fills + 1
  <2>1. gen.pool \in Nat
    BY <1>1 DEF GeneratorStates
  <2>2. QED  BY <1>1, <2>1 DEF Unfilled
<1> DEFINE g == EnsureCurrentProcess(gen, Pid)
<1>3. /\ g \in GeneratorStates /\ g.process_id = Pid
      /\ gen.process_id = Pid => g = gen
      /\ gen.process_id # Pid => ~ g.initialized
  BY <1>1, EnsureType
<1> HIDE DEF g
<1>4. Stands(g)
  BY <1>3 DEF GenInv, Stands
<1>5. QED  BY <1>1, <1>2, <1>3, <1>4 DEF g

LEMMA LiveAnswer ==
  ASSUME GenInv, NEW now \in Nat, NEW e \in Entropy(fills + 1)
  PROVE  LET o == GenerateForTimestamp(gen, now, Pid, e)
         IN  /\ o.gen \in GeneratorStates /\ PoolOK(o.gen) /\ o.gen.pool <= fills + 1
             /\ o.status = "ok" =>
                  /\ o.position \in Positions
                  /\ o.position = <<o.gen.last_ms, o.gen.counter>>
                  /\ o.gen.initialized /\ o.gen.process_id = Pid
                  /\ latest # NoPosition => Before(latest, o.position)
             /\ o.status # "ok" => Stands(o.gen)
<1> DEFINE g == EnsureCurrentProcess(gen, Pid)
           o == GenerateForTimestamp(gen, now, Pid, e)
<1>1. /\ gen.pool < fills + 1 /\ gen.pool \in Nat /\ fills \in Nat
      /\ g \in GeneratorStates /\ g.process_id = Pid /\ Stands(g)
  BY Generator DEF GenInv, GeneratorStates
<1>2. LiveOutcome(gen, fills + 1, now, Pid, o)
  BY Generator, LiveOutcomes
<1> HIDE DEF o
<1>3. o.gen \in GeneratorStates /\ PoolOK(o.gen) /\ o.gen.process_id = Pid
  BY <1>2 DEF LiveOutcome, Consumes
<1>4. o.gen.pool <= fills + 1
  <2>1. o.gen.pool \in {gen.pool, fills + 1, Unfilled}
    BY <1>2 DEF LiveOutcome, Consumes
  <2>2. QED  BY <1>1, <2>1 DEF Unfilled
<1>5. ASSUME o.status = "ok"
      PROVE  /\ o.position \in Positions
             /\ o.position = <<o.gen.last_ms, o.gen.counter>>
             /\ o.gen.initialized
             /\ latest # NoPosition => Before(latest, o.position)
  <2>1. /\ o.position = <<o.gen.last_ms, o.gen.counter>> /\ o.gen.initialized
        /\ g.initialized =>
             \/ o.gen.last_ms > g.last_ms
             \/ o.gen.last_ms = g.last_ms /\ o.gen.counter > g.counter
    <3>1. /\ o.gen.last_ms \in Nat /\ g.last_ms \in Nat
          /\ o.gen.counter \in Nat /\ g.counter \in Nat
      BY <1>1, <1>3 DEF GeneratorStates, Timestamps, Counters
    <3>2. QED  BY <1>2, <1>5, <3>1 DEF LiveOutcome, g
  <2>2. o.gen.last_ms \in Timestamps /\ o.gen.counter \in Counters
    BY <1>3 DEF GeneratorStates
  <2>3. o.position \in Positions
    BY <2>1, <2>2 DEF Positions
  <2>4. ASSUME latest # NoPosition
        PROVE  Before(latest, o.position)
    <3>1. latest = <<g.last_ms, g.counter>> /\ g.initialized
      BY <1>1, <2>4 DEF Stands
    <3>2. QED  BY <2>1, <3>1 DEF Before
  <2>5. QED  BY <2>1, <2>3, <2>4
<1>6. ASSUME o.status # "ok"
      PROVE  Stands(o.gen)
  <2>1. SamePlace(g, o.gen) \/ o.gen = g
    BY <1>2, <1>6 DEF LiveOutcome, g
  <2>2. QED  BY <1>1, <2>1 DEF Stands, SamePlace
<1>7. QED  BY <1>3, <1>4, <1>5, <1>6 DEF o

LEMMA HistoricalAnswer ==
  ASSUME GenInv, NEW ts \in Nat, NEW e \in Entropy(fills + 1)
  PROVE  LET o == GenerateAt(gen, ts, Pid, e)
         IN  /\ o.gen \in GeneratorStates /\ PoolOK(o.gen) /\ o.gen.pool <= fills + 1
             /\ o.status = "ok" => o.position = <<ts>>
             /\ Stands(o.gen)
<1> DEFINE g == EnsureCurrentProcess(gen, Pid)
           o == GenerateAt(gen, ts, Pid, e)
<1>1. /\ gen.pool < fills + 1 /\ gen.pool \in Nat /\ fills \in Nat
      /\ g \in GeneratorStates /\ Stands(g) /\ Stands(gen)
  BY Generator DEF GenInv, GeneratorStates, Stands
<1>2. HistoricalOutcome(gen, fills + 1, ts, Pid, o)
  BY Generator, HistoricalOutcomes
<1> HIDE DEF o
<1>3. o.gen \in GeneratorStates /\ PoolOK(o.gen)
  BY <1>2 DEF HistoricalOutcome, Consumes
<1>4. o.gen.pool <= fills + 1
  <2>1. o.gen.pool \in {gen.pool, fills + 1, Unfilled}
    BY <1>2 DEF HistoricalOutcome, Consumes
  <2>2. QED  BY <1>1, <2>1 DEF Unfilled
<1>5. o.status = "ok" => o.position = <<ts>>
  BY <1>2 DEF HistoricalOutcome
<1>6. Stands(o.gen)
  <2>1. \/ o.gen = gen
        \/ SamePlace(g, o.gen)
    BY <1>2 DEF HistoricalOutcome, g
  <2>2. ASSUME SamePlace(g, o.gen)
        PROVE  Stands(o.gen)
    <3>1. latest = NoPosition => ~ o.gen.initialized
      BY <1>1, <2>2 DEF Stands, SamePlace
    <3>2. QED  BY <1>1, <2>2, <3>1 DEF Stands, SamePlace
  <2>3. QED  BY <1>1, <2>1, <2>2
<1>7. QED  BY <1>3, <1>4, <1>5, <1>6 DEF o

(***************************************************************************)
(* The steps.                                                              *)
(***************************************************************************)
LEMMA InitInv == Init => IInv
<1> SUFFICES ASSUME Init PROVE IInv
  OBVIOUS
<1> USE CoreAssumption, BatchAssumption
<1>1. \A t \in Threads : stack[t] = <<>> /\ Len(stack[t]) = 0
  BY DEF Init
<1>2. StackInv
  <2>1. <<>> \in Seq(CallRecords)
    OBVIOUS
  <2>2. stack \in [Threads -> Seq(CallRecords)]
    BY <2>1 DEF Init
  <2>3. QED  BY <1>1, <2>2 DEF StackInv
<1>3. CallsInProgress = {}
  BY <1>1 DEF CallsInProgress
<1>4. GenInv
  BY DEF Init, GenInv, InitialGenerator, GeneratorStates, PoolOK, Timestamps,
         Counters, Unfilled, NoProcess, NoPosition
<1>5. QED
  BY <1>2, <1>3, <1>4 DEF Init, IInv, GilInv, UsedInv, CallsInv, ApartInv

\* The running call, as the steps find it.
LEMMA Running ==
  ASSUME IInv, stack[holder] # <<>>
  PROVE  CallInv(Call, latest, issued)
<1>1. Top \in CallsInProgress /\ The(Top) = Call
  BY TopCall DEF IInv, GilInv
<1>2. QED  BY <1>1 DEF IInv, CallsInv

LEMMA InCHasCall ==
  ASSUME InC
  PROVE  stack[holder] # <<>> /\ ~ Call.in_python
BY DEF InC, InPython, Call

\* A call that has taken nothing and is not being served is in order.
LEMMA NewCallInv ==
  ASSUME IInv, NEW op \in Ops, NEW n \in Nat,
         NEW stage \in {"iterate", "validate", "allocate"},
         op = "at" => stage = "iterate" /\ n = 0
  PROVE  /\ CallInv(NewCall(op, n, stage), latest, issued)
         /\ Held(NewCall(op, n, stage)) = {}
<1> DEFINE call == NewCall(op, n, stage)
<1>1. latest \in {NoPosition} \cup Positions
  BY DEF IInv, GenInv
<1>2. /\ <<>> \in Seq(Nat) /\ <<>> \in Seq(Items) /\ Len(<<>>) = 0
  OBVIOUS
<1>3. /\ call \in CallRecords
      /\ call.op = op /\ call.wanted = n /\ call.stage = stage
      /\ call.timestamps = <<>> /\ call.kept = <<>> /\ call.places = <<>>
      /\ call.drew = FALSE /\ call.floor = latest
  BY <1>1, <1>2 DEF NewCall, CallRecords
<1> HIDE DEF call
<1>4. Untouched(call) /\ HistoricalInv(call) /\ RawInv(call, issued)
  BY <1>2, <1>3 DEF Untouched, HistoricalInv, RawInv, RawOps, LiveOps
<1>5. LiveInv(call, latest)
  BY <1>2, <1>3 DEF LiveInv, NotAfter
<1>6. ToSet(call.kept) = {}
  BY <1>2, <1>3 DEF ToSet
<1>7. QED  BY <1>2, <1>3, <1>4, <1>5, <1>6 DEF CallInv, Held, call

LEMMA BeginStep ==
  ASSUME IInv, BeginLive \/ BeginHistorical \/ BeginHistoricalOne
  PROVE  IInv'
<1>1. CASE BeginLive
  <2>1. PICK op \in LiveOps, n \in Sizes : Begin(NewCall(op, n, "allocate"))
    BY <1>1 DEF BeginLive
  <2>2. op \in Ops /\ op # "at" /\ n \in Nat
    BY BatchAssumption DEF Ops, LiveOps
  <2>3. /\ CallInv(NewCall(op, n, "allocate"), latest, issued)
        /\ Held(NewCall(op, n, "allocate")) = {}
    BY <2>2, NewCallInv
  <2>4. QED  BY <2>1, <2>3, Starts
<1>2. CASE BeginHistorical
  <2>1. /\ CallInv(NewCall("at", 0, "iterate"), latest, issued)
        /\ Held(NewCall("at", 0, "iterate")) = {}
    BY NewCallInv DEF Ops
  <2>2. QED  BY <1>2, <2>1, Starts DEF BeginHistorical
<1>3. CASE BeginHistoricalOne
  <2>1. PICK ms \in UNION {ToSet(s) : s \in Sources} :
          Begin([NewCall("at", 1, "validate") EXCEPT !.timestamps = <<ms>>])
    BY <1>3 DEF BeginHistoricalOne
  <2>2. ms \in Nat
    <3>1. PICK s \in Sources : ms \in ToSet(s)
      OBVIOUS
    <3>2. s \in Seq(Nat)
      BY BatchAssumption
    <3>3. QED  BY <3>1, <3>2 DEF ToSet
  <2> DEFINE new == NewCall("at", 1, "validate")
             call == [new EXCEPT !.timestamps = <<ms>>]
  <2>3. latest \in {NoPosition} \cup Positions
    BY DEF IInv, GenInv
  <2>4. /\ new \in CallRecords
        /\ new.op = "at" /\ new.wanted = 1 /\ new.stage = "validate"
        /\ new.kept = <<>> /\ new.places = <<>> /\ new.drew = FALSE
    <3>1. <<>> \in Seq(Nat) /\ <<>> \in Seq(Items)
      OBVIOUS
    <3>2. QED  BY <2>3, <3>1 DEF NewCall, CallRecords, Ops
  <2> HIDE DEF new
  <2>5. <<ms>> \in Seq(Nat) /\ Len(<<ms>>) = 1 /\ Len(<<>>) = 0
    BY <2>2
  <2>6. /\ call \in CallRecords
        /\ call.op = "at" /\ call.wanted = 1 /\ call.stage = "validate"
        /\ call.timestamps = <<ms>>
        /\ call.kept = <<>> /\ call.places = <<>> /\ call.drew = FALSE
    BY <2>4, <2>5 DEF CallRecords
  <2> HIDE DEF call
  <2>7. CallInv(call, latest, issued)
    BY <2>5, <2>6 DEF CallInv, Untouched, HistoricalInv, LiveInv, RawInv, RawOps, LiveOps
  <2>8. Held(call) = {}
    BY <2>6 DEF Held, LiveOps
  <2>9. Begin(call)
    BY <2>1 DEF call, new
  <2>10. QED  BY <2>7, <2>8, <2>9, Starts
<1>4. QED  BY <1>1, <1>2, <1>3

\* The holder of the GIL changes while every call is in Python code.
LEMMA SwitchStep ==
  ASSUME IInv, Switch \/ EditSource
  PROVE  IInv'
<1>1. /\ InPython(holder)
      /\ UNCHANGED <<gen, fills, stack, calls, latest, issued, used>>
      /\ holder' \in Threads /\ source' \in Sources
  BY DEF Switch, EditSource, IInv, GilInv, GenInv
<1>2. \A c \in CallsInProgress : The(c).in_python
  <2>1. CASE stack[holder] # <<>>
    <3>1. Call.in_python
      BY <1>1, <2>1 DEF InPython, Call
    <3>2. QED  BY <2>1, <3>1, TopCall DEF IInv, GilInv
  <2>2. CASE stack[holder] = <<>>
    <3>1. Len(stack[holder]) = 0
      BY <2>2
    <3>2. \A c \in CallsInProgress : c[2] \in 1 .. Len(stack[c[1]])
      BY TheCalls DEF IInv, Indexed
    <3>3. Top[1] = holder /\ Top[2] = 0
      BY <3>1 DEF Top
    <3>4. Top \notin CallsInProgress
      BY <3>1, <3>2, <3>3
    <3>5. QED  BY <3>4 DEF IInv, GilInv
  <2>3. QED  BY <2>1, <2>2
<1>3. /\ CallsInProgress' = CallsInProgress
      /\ \A c \in CallsInProgress : The(c)' = The(c)
  BY <1>1 DEF CallsInProgress, The
<1>4. StackInv' /\ GilInv' /\ GenInv' /\ UsedInv'
  BY <1>1, <1>2, <1>3 DEF IInv, StackInv, GilInv, GenInv, UsedInv
<1>5. CallsInv' /\ ApartInv'
  BY <1>1, <1>3 DEF IInv, CallsInv, ApartInv
<1>6. QED  BY <1>4, <1>5 DEF IInv

\* The running call goes into Python code, and comes back.
LEMMA PythonStep ==
  ASSUME IInv, RunPython \/ ReturnToC
  PROVE  IInv'
<1>1. PICK b \in BOOLEAN :
        /\ Becomes([Call EXCEPT !.in_python = b])
        /\ b => InC /\ MayRunPython(Call)
        /\ UNCHANGED <<gen, fills, holder, source, latest, issued, used>>
        /\ stack[holder] # <<>>
        /\ ~ b => Call.in_python
  BY InCHasCall DEF RunPython, ReturnToC
<1> DEFINE call == [Call EXCEPT !.in_python = b]
<1>2. CallInv(Call, latest, issued)
  BY <1>1, Running
<1>3. /\ call \in CallRecords /\ call.in_python = b
      /\ call.op = Call.op /\ call.wanted = Call.wanted /\ call.stage = Call.stage
      /\ call.timestamps = Call.timestamps /\ call.kept = Call.kept
      /\ call.places = Call.places /\ call.drew = Call.drew /\ call.floor = Call.floor
  BY <1>2 DEF CallInv, CallRecords
<1> HIDE DEF call
<1>4. /\ Untouched(call) /\ HistoricalInv(call) /\ LiveInv(call, latest)
      /\ Len(call.kept) <= call.wanted
  BY <1>2, <1>3 DEF CallInv, Untouched, HistoricalInv, LiveInv
<1>5. RawInv(call, issued)
  <2>1. call.op \in RawOps /\ b => call.places = <<>>
    BY <1>1, <1>2, <1>3 DEF CallInv, Untouched, MayRunPython, RawOps
  <2>2. QED  BY <1>1, <1>2, <1>3, <2>1 DEF CallInv, RawInv
<1>6. Held(call) = Held(Call)
  BY <1>3 DEF Held
<1>7. GenInv'
  BY <1>1, GeneratorStays
<1>8. QED
  BY <1>1, <1>3, <1>4, <1>5, <1>6, <1>7, GoesOn DEF CallInv, call

\* The running call comes to its next stage.
LEMMA StageStep ==
  ASSUME IInv, InC, NEW s \in {"allocate", "generate"},
         Becomes([Call EXCEPT !.stage = s]),
         Call.stage = "validate" =>
           \A i \in 1 .. Len(Call.timestamps) : Call.timestamps[i] <= MaxTimestamp,
         Call.stage # "iterate",
         s = "allocate" => Call.stage = "validate",
         UNCHANGED <<gen, fills, holder, source, latest, issued, used>>
  PROVE  IInv'
<1> DEFINE call == [Call EXCEPT !.stage = s]
<1>1. stack[holder] # <<>> /\ CallInv(Call, latest, issued)
  BY InCHasCall, Running
<1>2. /\ call \in CallRecords /\ call.stage = s
      /\ call.op = Call.op /\ call.wanted = Call.wanted /\ call.in_python = Call.in_python
      /\ call.timestamps = Call.timestamps /\ call.kept = Call.kept
      /\ call.places = Call.places /\ call.drew = Call.drew /\ call.floor = Call.floor
  BY <1>1 DEF CallInv, CallRecords
<1> HIDE DEF call
<1>3. /\ LiveInv(call, latest) /\ RawInv(call, issued)
      /\ Len(call.kept) <= call.wanted
  BY <1>1, <1>2 DEF CallInv, LiveInv, RawInv
<1>4. Untouched(call)
  BY <1>1, <1>2 DEF CallInv, Untouched
<1>5. HistoricalInv(call)
  BY <1>1, <1>2 DEF CallInv, HistoricalInv
<1>6. Held(call) = Held(Call)
  BY <1>2 DEF Held
<1>7. GenInv'
  BY GeneratorStays
<1>8. QED
  BY <1>1, <1>2, <1>3, <1>4, <1>5, <1>6, <1>7, GoesOn DEF CallInv, call

\* The tuple of timestamps is taken, one element at a time.
LEMMA IterateStep ==
  ASSUME IInv, Iterate
  PROVE  IInv'
<1>1. /\ stack[holder] # <<>> /\ CallInv(Call, latest, issued)
      /\ Call.stage = "iterate"
      /\ UNCHANGED <<gen, fills, holder, source, latest, issued, used>>
  BY InCHasCall, Running DEF Iterate
<1>2. /\ Call \in CallRecords /\ Call.timestamps \in Seq(Nat)
      /\ Call.kept = <<>> /\ Len(Call.kept) = 0 /\ Call.places = <<>> /\ ~ Call.drew
  BY <1>1 DEF CallInv, CallRecords, Untouched
<1>3. source \in Seq(Nat) /\ GenInv'
  BY <1>1, GeneratorStays, BatchAssumption DEF IInv, GenInv
<1>4. CASE Len(Call.timestamps) < Len(source)
  <2> DEFINE more == Append(Call.timestamps, source[Len(Call.timestamps) + 1])
             call == [Call EXCEPT !.timestamps = more]
  <2>1. more \in Seq(Nat)
    BY <1>2, <1>3, <1>4
  <2>2. Becomes(call)
    BY <1>2, <1>4 DEF Iterate, CallRecords
  <2> HIDE DEF more
  <2>3. /\ call \in CallRecords /\ call.stage = Call.stage
        /\ call.op = Call.op /\ call.wanted = Call.wanted /\ call.in_python = Call.in_python
        /\ call.kept = Call.kept
        /\ call.places = Call.places /\ call.drew = Call.drew /\ call.floor = Call.floor
    BY <1>2, <2>1 DEF CallRecords
  <2> HIDE DEF call
  <2>4. /\ Untouched(call) /\ LiveInv(call, latest) /\ RawInv(call, issued)
        /\ Len(call.kept) <= call.wanted
    BY <1>1, <2>3 DEF CallInv, Untouched, LiveInv, RawInv
  <2>5. HistoricalInv(call)
    BY <1>1, <1>2, <2>3 DEF HistoricalInv
  <2>6. Held(call) = Held(Call)
    BY <2>3 DEF Held
  <2>7. QED
    BY <1>1, <1>3, <2>2, <2>3, <2>4, <2>5, <2>6, GoesOn DEF CallInv
<1>5. CASE ~ (Len(Call.timestamps) < Len(source))
  <2> DEFINE staged == [Call EXCEPT !.stage = "validate"]
             call == [staged EXCEPT !.wanted = Len(Call.timestamps)]
  <2>1. Len(Call.timestamps) \in Nat
    BY <1>2
  <2>2. Becomes(call)
    BY <1>5 DEF Iterate
  <2>3. /\ staged \in CallRecords /\ staged.stage = "validate" /\ staged.op = Call.op
        /\ staged.in_python = Call.in_python /\ staged.timestamps = Call.timestamps
        /\ staged.kept = Call.kept /\ staged.places = Call.places
        /\ staged.drew = Call.drew /\ staged.floor = Call.floor
    BY <1>2 DEF CallRecords
  <2> HIDE DEF staged
  <2>4. /\ call \in CallRecords /\ call.stage = "validate"
        /\ call.wanted = Len(Call.timestamps)
        /\ call.op = Call.op /\ call.in_python = Call.in_python
        /\ call.timestamps = Call.timestamps /\ call.kept = Call.kept
        /\ call.places = Call.places /\ call.drew = Call.drew /\ call.floor = Call.floor
    BY <2>1, <2>3 DEF CallRecords
  <2> HIDE DEF call
  <2>5. /\ Untouched(call) /\ LiveInv(call, latest) /\ RawInv(call, issued)
        /\ HistoricalInv(call) /\ Len(call.kept) <= call.wanted
    BY <1>1, <1>2, <2>1, <2>4 DEF CallInv, Untouched, LiveInv, RawInv, HistoricalInv
  <2>6. Held(call) = Held(Call)
    BY <2>4 DEF Held
  <2>7. QED
    BY <1>1, <1>3, <2>2, <2>4, <2>5, <2>6, GoesOn DEF CallInv
<1>6. QED  BY <1>4, <1>5

LEMMA PlainStageStep ==
  ASSUME IInv, Validate \/ Allocate \/ Build
  PROVE  IInv'
<1>1. CASE Validate
  <2>1. /\ InC /\ stack[holder] # <<>> /\ CallInv(Call, latest, issued)
        /\ Call.stage = "validate" /\ Call.timestamps \in Seq(Nat)
        /\ UNCHANGED <<gen, fills, holder, source, latest, issued>>
    BY <1>1, InCHasCall, Running DEF Validate, Raise, CallInv, CallRecords
  <2>2. CASE \A ms \in ToSet(Call.timestamps) : ms <= MaxTimestamp
    <3>1. \A i \in 1 .. Len(Call.timestamps) : Call.timestamps[i] <= MaxTimestamp
      BY <2>1, <2>2 DEF ToSet
    <3>2. Becomes([Call EXCEPT !.stage = "allocate"]) /\ UNCHANGED used
      BY <1>1, <2>2 DEF Validate
    <3>3. QED  BY <2>1, <3>1, <3>2, StageStep
  <2>3. CASE ~ \A ms \in ToSet(Call.timestamps) : ms <= MaxTimestamp
    <3>1. Ends
      BY <1>1, <2>3 DEF Validate, Raise
    <3>2. GenInv'
      BY <2>1, GeneratorStays
    <3>3. QED  BY <2>1, <3>1, <3>2, CallEnds
  <2>4. QED  BY <2>2, <2>3
<1>2. CASE Allocate \/ Build
  <2>1. /\ InC /\ Call.stage \notin {"iterate", "validate"}
        /\ Becomes([Call EXCEPT !.stage = "generate"])
        /\ UNCHANGED <<gen, fills, holder, source, latest, issued, used>>
    BY <1>2 DEF Allocate, Build
  <2>2. QED  BY <2>1, StageStep
<1>3. QED  BY <1>1, <1>2

\* A call fails, or returns what it kept.
LEMMA EndStep ==
  ASSUME IInv, IteratorRaises \/ AllocationFails \/ Return
  PROVE  IInv'
<1>1. /\ InC /\ Ends
      /\ UNCHANGED <<gen, fills, holder, source, latest, issued>>
  BY DEF IteratorRaises, AllocationFails, Return, Raise
<1>2. stack[holder] # <<>> /\ CallInv(Call, latest, issued) /\ GenInv'
  BY <1>1, InCHasCall, Running, GeneratorStays
<1>3. QED  BY <1>1, <1>2, CallEnds

\* The running call has one more item.
LEMMA KeptFields ==
  ASSUME Call \in CallRecords, NEW o, o.position \in Items, issued \in Nat
  PROVE  LET call == Kept(o)
         IN  /\ call \in CallRecords
             /\ call.op = Call.op /\ call.wanted = Call.wanted
             /\ call.in_python = Call.in_python
             /\ call.timestamps = Call.timestamps /\ call.floor = Call.floor
             /\ call.kept = Append(Call.kept, o.position)
             /\ call.drew = TRUE
             /\ call.places = IF Call.op = "at" THEN Call.places
                                                ELSE Append(Call.places, issued + 1)
             /\ call.stage \in {Call.stage, "build"}
<1> DEFINE kept == Append(Call.kept, o.position)
           places == IF Call.op = "at" THEN Call.places ELSE Append(Call.places, issued + 1)
           stage == IF Call.op \in {"uuid", "str", "at"} THEN "build" ELSE Call.stage
           a == [Call EXCEPT !.kept = kept]
           b == [a EXCEPT !.drew = TRUE]
           c == [b EXCEPT !.places = places]
           d == [c EXCEPT !.stage = stage]
           Rest(r) == /\ r.op = Call.op /\ r.wanted = Call.wanted
                      /\ r.in_python = Call.in_python
                      /\ r.timestamps = Call.timestamps /\ r.floor = Call.floor
<1>1. /\ kept \in Seq(Items) /\ places \in Seq(Nat)
      /\ stage \in {"iterate", "validate", "allocate", "generate", "build"}
  BY DEF CallRecords
<1>2. stage \in {Call.stage, "build"}
  OBVIOUS
<1>3. Kept(o) = d
  BY DEF Kept, CallRecords
<1> HIDE DEF kept, places, stage
<1>4. a \in CallRecords /\ Rest(a) /\ a.kept = kept
  BY <1>1 DEF CallRecords
<1> HIDE DEF a
<1>5. b \in CallRecords /\ Rest(b) /\ b.kept = kept /\ b.drew = TRUE
  BY <1>4 DEF CallRecords
<1> HIDE DEF b
<1>6. c \in CallRecords /\ Rest(c) /\ c.kept = kept /\ c.drew = TRUE /\ c.places = places
  BY <1>1, <1>5 DEF CallRecords
<1> HIDE DEF c
<1>7. d \in CallRecords /\ Rest(d) /\ d.kept = kept /\ d.drew = TRUE
      /\ d.places = places /\ d.stage = stage
  BY <1>1, <1>6 DEF CallRecords
<1> HIDE DEF d
<1>8. QED  BY <1>2, <1>3, <1>7 DEF kept, places

\* The generator after a call, by what the operating system has answered.
LEMMA NextGenerator ==
  ASSUME IInv, NEW g \in GeneratorStates, PoolOK(g), g.pool <= fills + 1,
         gen' = g, fills' = IF g.pool > fills THEN g.pool ELSE fills,
         issued' \in Nat, source' = source,
         latest' \in {NoPosition} \cup Positions, Stands(g)'
  PROVE  GenInv'
<1>1. fills \in Nat /\ g.pool \in Nat
  BY DEF IInv, GenInv, GeneratorStates
<1>2. fills' \in Nat /\ g.pool <= fills'
  BY <1>1
<1>3. Stands(gen)'
  BY DEF Stands
<1>4. QED  BY <1>2, <1>3 DEF IInv, GenInv, Stands

LEMMA LiveGenerateStep ==
  ASSUME IInv, InC, Call.stage = "generate", Len(Call.kept) < Call.wanted,
         Call.op # "at",
         NEW now \in Readings, NEW e \in Entropy(fills + 1),
         NEW o, o = GenerateForTimestamp(gen, now, Pid, e), o.status = "ok",
         Becomes(Kept(o)), gen' = o.gen,
         fills' = IF o.gen.pool > fills THEN o.gen.pool ELSE fills,
         latest' = o.position, issued' = issued + 1,
         UNCHANGED <<holder, source, used>>
  PROVE  IInv'
<1>1. /\ stack[holder] # <<>> /\ CallInv(Call, latest, issued)
      /\ ~ Call.in_python /\ GenInv /\ now \in Nat /\ issued \in Nat
      /\ latest \in {NoPosition} \cup Positions
  BY InCHasCall, Running, BatchAssumption DEF IInv, GenInv
<1>2. /\ o.gen \in GeneratorStates /\ PoolOK(o.gen) /\ o.gen.pool <= fills + 1
      /\ o.position \in Positions
      /\ o.position = <<o.gen.last_ms, o.gen.counter>>
      /\ o.gen.initialized /\ o.gen.process_id = Pid
      /\ latest # NoPosition => Before(latest, o.position)
  BY <1>1, LiveAnswer
<1>3. GenInv'
  <2>1. o.position # NoPosition
    BY <1>2, PositionsAreOrdered
  <2>2. Stands(o.gen)'
    BY <1>2, <2>1 DEF Stands
  <2>3. QED  BY <1>1, <1>2, <2>2, NextGenerator
<1> DEFINE call == Kept(o)
           next == o.position
           kept == Call.kept
           n == Len(kept)
<1>4. /\ Call \in CallRecords /\ kept \in Seq(Items) /\ n \in Nat
      /\ Call.places \in Seq(Nat) /\ Call.wanted \in Nat
      /\ Call.op \in LiveOps /\ next \in Items
      /\ Call.floor \in {NoPosition} \cup Positions
  BY <1>1, <1>2 DEF CallInv, CallRecords, Items, Ops
<1>5. /\ call \in CallRecords
      /\ call.op = Call.op /\ call.wanted = Call.wanted
      /\ call.in_python = Call.in_python
      /\ call.timestamps = Call.timestamps /\ call.floor = Call.floor
      /\ call.kept = Append(kept, next)
      /\ call.drew = TRUE
      /\ call.places = Append(Call.places, issued + 1)
      /\ call.stage \in {"generate", "build"}
  BY <1>1, <1>4, KeptFields
<1> HIDE DEF call
<1>6. /\ Len(call.kept) = n + 1 /\ call.kept # <<>>
      /\ \A i \in 1 .. n : call.kept[i] = kept[i]
      /\ call.kept[n + 1] = next
  <2> HIDE DEF next, n
  <2>1. /\ Len(Append(kept, next)) = Len(kept) + 1
        /\ \A i \in 1 .. Len(kept) : Append(kept, next)[i] = kept[i]
        /\ Append(kept, next)[Len(kept) + 1] = next
    BY <1>4
  <2>2. Len(<<>>) = 0 /\ n + 1 # 0
    BY <1>4
  <2> HIDE DEF kept
  <2>3. QED  BY <1>4, <1>5, <2>1, <2>2 DEF n
<1>7. Untouched(call) /\ HistoricalInv(call) /\ Len(call.kept) <= call.wanted
  <2>1. n + 1 <= Call.wanted
    BY <1>4
  <2>2. QED  BY <1>4, <1>5, <1>6, <2>1 DEF Untouched, HistoricalInv, LiveOps
<1>8. \A x \in Positions : latest # NoPosition /\ NotAfter(x, latest) => Before(x, next)
  BY <1>1, <1>2, PositionsAreOrdered DEF NotAfter
<1>9. LiveInv(call, next)
  <2>1. /\ \A i \in 1 .. n : /\ kept[i] \in Positions
                             /\ latest # NoPosition /\ NotAfter(kept[i], latest)
        /\ \A i \in 1 .. n - 1 : Before(kept[i], kept[i + 1])
        /\ Call.floor # NoPosition =>
             /\ latest # NoPosition /\ NotAfter(Call.floor, latest)
             /\ kept # <<>> => Before(Call.floor, kept[1])
    BY <1>1, <1>4 DEF CallInv, LiveInv
  <2>2. next # NoPosition
    BY <1>2, PositionsAreOrdered
  <2> HIDE DEF next, kept, n
  <2>3. ASSUME NEW i \in 1 .. Len(call.kept)
        PROVE  call.kept[i] \in Positions /\ NotAfter(call.kept[i], next)
    <3>1. CASE i \in 1 .. n
      BY <1>6, <1>8, <2>1, <3>1 DEF NotAfter
    <3>2. CASE i = n + 1
      BY <1>2, <1>6, <3>2 DEF NotAfter, next
    <3>3. QED  BY <1>4, <1>6, <3>1, <3>2
  <2>4. ASSUME NEW i \in 1 .. Len(call.kept) - 1
        PROVE  Before(call.kept[i], call.kept[i + 1])
    <3>1. CASE i \in 1 .. n - 1
      <4>1. i \in 1 .. n /\ i + 1 \in 1 .. n
        BY <1>4, <3>1
      <4>2. QED  BY <1>6, <2>1, <3>1, <4>1
    <3>2. CASE i = n
      <4>1. i \in 1 .. n
        BY <1>4, <1>6, <3>2
      <4>2. Before(kept[i], next)
        BY <1>8, <2>1, <4>1
      <4>3. QED  BY <1>6, <3>2, <4>1, <4>2
    <3>3. QED  BY <1>4, <1>6, <3>1, <3>2
  <2>5. ASSUME Call.floor # NoPosition
        PROVE  NotAfter(Call.floor, next) /\ Before(Call.floor, call.kept[1])
    <3>1. Call.floor \in Positions
      BY <1>4, <2>5
    <3>2. Before(Call.floor, next)
      BY <1>8, <2>1, <2>5, <3>1
    <3>3. CASE n = 0
      BY <1>6, <3>2, <3>3 DEF NotAfter
    <3>4. CASE n # 0
      <4>1. kept # <<>> /\ 1 \in 1 .. n
        BY <1>4, <3>4 DEF n
      <4>2. QED  BY <1>6, <2>1, <2>5, <3>2, <4>1 DEF NotAfter
    <3>5. QED  BY <3>3, <3>4
  <2>6. QED  BY <1>5, <2>2, <2>3, <2>4, <2>5 DEF LiveInv
<1>10. RawInv(call, issued + 1)
  <2> SUFFICES ASSUME Call.op \in RawOps
               PROVE  /\ \A i \in 1 .. Len(call.places) - 1 :
                           call.places[i + 1] = call.places[i] + 1
                      /\ ~ call.in_python
                      /\ call.places[Len(call.places)] = issued + 1
    BY <1>5 DEF RawInv
  <2> DEFINE places == Call.places
             m == Len(places)
  <2>1. /\ \A i \in 1 .. m - 1 : places[i + 1] = places[i] + 1
        /\ places # <<>> => places[m] = issued
    BY <1>1 DEF CallInv, RawInv
  <2>2. /\ m \in Nat /\ Len(call.places) = m + 1
        /\ \A i \in 1 .. m : call.places[i] = places[i]
        /\ call.places[m + 1] = issued + 1
    <3>1. /\ Len(Append(places, issued + 1)) = Len(places) + 1
          /\ \A i \in 1 .. Len(places) : Append(places, issued + 1)[i] = places[i]
          /\ Append(places, issued + 1)[Len(places) + 1] = issued + 1
      BY <1>1, <1>4
    <3>2. m \in Nat
      BY <1>4
    <3> HIDE DEF places
    <3>3. QED  BY <1>5, <3>1, <3>2 DEF places
  <2>3. m > 0 => places # <<>>
    BY <1>4
  <2> HIDE DEF places, m
  <2>4. ASSUME NEW i \in 1 .. Len(call.places) - 1
        PROVE  call.places[i + 1] = call.places[i] + 1
    <3>1. CASE i = m
      BY <2>1, <2>2, <2>3, <3>1
    <3>2. CASE i \in 1 .. m - 1
      <4>1. i \in 1 .. m /\ i + 1 \in 1 .. m
        BY <2>2, <3>2
      <4>2. QED  BY <2>1, <2>2, <3>2, <4>1
    <3>3. QED  BY <2>2, <3>1, <3>2
  <2>5. QED  BY <1>1, <1>5, <2>2, <2>4
<1>11. Held(call) \subseteq Held(Call) \cup {next}
  <2>1. ASSUME NEW x \in ToSet(call.kept)
        PROVE  x \in ToSet(kept) \cup {next}
    <3> HIDE DEF next, n
    <3>1. PICK i \in 1 .. n + 1 : x = call.kept[i]
      BY <1>4, <1>6 DEF ToSet
    <3>2. CASE i \in 1 .. n
      <4>1. x = kept[i] /\ i \in 1 .. Len(kept)
        BY <1>6, <3>1, <3>2 DEF n
      <4>2. QED  BY <1>4, <4>1 DEF ToSet
    <3>3. CASE i = n + 1
      BY <1>6, <3>1, <3>3
    <3>4. QED  BY <1>4, <3>2, <3>3
  <2>2. QED  BY <1>4, <1>5, <2>1 DEF Held
<1>12. CallInv(call, latest', issued')
  BY <1>5, <1>7, <1>9, <1>10 DEF CallInv
<1>13. QED
  BY <1>1, <1>2, <1>3, <1>11, <1>12, Generates DEF call

LEMMA HistoricalGenerateStep ==
  ASSUME IInv, InC, Call.stage = "generate", Len(Call.kept) < Call.wanted,
         Call.op = "at",
         NEW e \in Entropy(fills + 1),
         NEW o, o = GenerateAt(gen, Timestamp, Pid, e), o.status = "ok",
         Becomes(Kept(o)), gen' = o.gen,
         fills' = IF o.gen.pool > fills THEN o.gen.pool ELSE fills,
         UNCHANGED <<holder, source, latest, issued, used>>
  PROVE  IInv'
<1> DEFINE call == Kept(o)
           ts == Timestamp
           kept == Call.kept
           n == Len(kept)
<1>1. /\ stack[holder] # <<>> /\ CallInv(Call, latest, issued)
      /\ ~ Call.in_python /\ GenInv /\ issued \in Nat
      /\ latest \in {NoPosition} \cup Positions
  BY InCHasCall, Running DEF IInv, GenInv
<1>2. /\ Call \in CallRecords /\ kept \in Seq(Items) /\ n \in Nat
      /\ Call.wanted \in Nat /\ Call.timestamps \in Seq(Nat)
  BY <1>1 DEF CallInv, CallRecords
<1>3. ts \in Nat /\ ts = Call.timestamps[n + 1]
  <2>1. n + 1 \in 1 .. Len(Call.timestamps)
    <3>1. Call.wanted = Len(Call.timestamps)
      BY <1>1 DEF CallInv, HistoricalInv
    <3>2. QED  BY <1>2, <3>1
  <2>2. QED  BY <1>2, <2>1 DEF Timestamp
<1>4. /\ o.gen \in GeneratorStates /\ PoolOK(o.gen) /\ o.gen.pool <= fills + 1
      /\ o.position = <<ts>> /\ Stands(o.gen)
  BY <1>1, <1>3, HistoricalAnswer
<1> HIDE DEF ts
<1>5. GenInv'
  <2>1. Stands(o.gen)'
    BY <1>4 DEF Stands
  <2>2. QED  BY <1>1, <1>4, <2>1, NextGenerator
<1>6. /\ call \in CallRecords
      /\ call.op = "at" /\ call.wanted = Call.wanted
      /\ call.timestamps = Call.timestamps /\ call.floor = Call.floor
      /\ call.kept = Append(kept, <<ts>>)
      /\ call.stage \in {"generate", "build"}
  <2>1. o.position \in Items
    BY <1>3, <1>4 DEF Items
  <2>2. QED  BY <1>1, <1>2, <1>4, <2>1, KeptFields
<1> HIDE DEF call
<1>7. /\ Len(call.kept) = n + 1
      /\ \A i \in 1 .. n : call.kept[i] = kept[i]
      /\ call.kept[n + 1] = <<ts>>
  <2>1. <<ts>> \in Items
    BY <1>3 DEF Items
  <2>2. /\ Len(Append(kept, <<ts>>)) = Len(kept) + 1
        /\ \A i \in 1 .. Len(kept) : Append(kept, <<ts>>)[i] = kept[i]
        /\ Append(kept, <<ts>>)[Len(kept) + 1] = <<ts>>
    BY <1>2, <2>1
  <2> HIDE DEF kept
  <2>3. QED  BY <1>6, <2>2 DEF n
<1>8. HistoricalInv(call)
  <2>1. /\ Call.wanted = Len(Call.timestamps)
        /\ \A i \in 1 .. Len(Call.timestamps) : Call.timestamps[i] <= MaxTimestamp
        /\ \A i \in 1 .. n : kept[i] = <<Call.timestamps[i]>>
    BY <1>1 DEF CallInv, HistoricalInv
  <2> HIDE DEF kept, n
  <2>2. ASSUME NEW i \in 1 .. Len(call.kept)
        PROVE  call.kept[i] = <<call.timestamps[i]>>
    BY <1>2, <1>3, <1>6, <1>7, <2>1
  <2>3. QED  BY <1>6, <2>1, <2>2 DEF HistoricalInv
<1>9. Len(call.kept) <= call.wanted
  BY <1>2, <1>6, <1>7
<1>10. CallInv(call, latest, issued)
  BY <1>6, <1>8, <1>9 DEF CallInv, Untouched, LiveInv, RawInv, LiveOps, RawOps
<1>11. Held(call) = Held(Call)
  BY <1>6 DEF Held, LiveOps
<1>12. QED
  BY <1>1, <1>5, <1>10, <1>11, GoesOn DEF call

LEMMA GenerateStep ==
  ASSUME IInv, Generate
  PROVE  IInv'
<1>1. /\ InC /\ stack[holder] # <<>> /\ CallInv(Call, latest, issued) /\ GenInv
      /\ Call.stage = "generate" /\ Len(Call.kept) < Call.wanted
      /\ UNCHANGED <<holder, source, calls>>
  BY InCHasCall, Running DEF Generate, IInv
<1>2. PICK now \in Readings, e \in Entropy(fills + 1) :
        LET o == Outcome(now, e)
        IN  /\ fills' = IF o.gen.pool > fills THEN o.gen.pool ELSE fills
            /\ IF o.status = "ok"
               THEN Becomes(Kept(o)) /\ gen' = o.gen /\ UNCHANGED used
               ELSE Raise(o.gen)
            /\ IF o.status = "ok" /\ Call.op # "at"
               THEN latest' = o.position /\ issued' = issued + 1
               ELSE UNCHANGED <<latest, issued>>
  BY DEF Generate
<1>o. PICK o : o = Outcome(now, e)
  OBVIOUS
<1>3. CASE o.status = "ok" /\ Call.op # "at"
  <2>1. o = GenerateForTimestamp(gen, now, Pid, e)
    BY <1>3, <1>o DEF Outcome
  <2>2. /\ Becomes(Kept(o)) /\ gen' = o.gen /\ UNCHANGED used
        /\ fills' = IF o.gen.pool > fills THEN o.gen.pool ELSE fills
        /\ latest' = o.position /\ issued' = issued + 1
    BY <1>2, <1>3, <1>o
  <2>3. QED  BY <1>1, <1>3, <2>1, <2>2, LiveGenerateStep
<1>4. CASE o.status = "ok" /\ Call.op = "at"
  <2>1. o = GenerateAt(gen, Timestamp, Pid, e)
    BY <1>4, <1>o DEF Outcome
  <2>2. /\ Becomes(Kept(o)) /\ gen' = o.gen /\ UNCHANGED used
        /\ fills' = IF o.gen.pool > fills THEN o.gen.pool ELSE fills
        /\ latest' = latest /\ issued' = issued
    BY <1>2, <1>4, <1>o
  <2>3. QED  BY <1>1, <1>4, <2>1, <2>2, HistoricalGenerateStep
<1>5. CASE o.status # "ok"
  <2>1. /\ Ends /\ gen' = o.gen
        /\ fills' = IF o.gen.pool > fills THEN o.gen.pool ELSE fills
        /\ latest' = latest /\ issued' = issued
    BY <1>2, <1>5, <1>o DEF Raise
  <2>2. /\ o.gen \in GeneratorStates /\ PoolOK(o.gen) /\ o.gen.pool <= fills + 1
        /\ Stands(o.gen)
    <3>1. CASE Call.op # "at"
      <4>1. now \in Nat
        BY BatchAssumption
      <4>2. o = GenerateForTimestamp(gen, now, Pid, e)
        BY <3>1, <1>o DEF Outcome
      <4>3. QED  BY <1>1, <1>5, <4>1, <4>2, LiveAnswer
    <3>2. CASE Call.op = "at"
      <4>1. Timestamp \in Nat
        <5>1. /\ Call.timestamps \in Seq(Nat) /\ Call.wanted = Len(Call.timestamps)
              /\ Len(Call.kept) \in Nat
          BY <1>1, <3>2 DEF CallInv, CallRecords, HistoricalInv
        <5>2. Len(Call.kept) + 1 \in 1 .. Len(Call.timestamps)
          BY <1>1, <5>1
        <5>3. QED  BY <5>1, <5>2 DEF Timestamp
      <4>2. o = GenerateAt(gen, Timestamp, Pid, e)
        BY <3>2, <1>o DEF Outcome
      <4>3. QED  BY <1>1, <4>1, <4>2, HistoricalAnswer
    <3>3. QED  BY <3>1, <3>2
  <2>3. GenInv'
    <3>1. Stands(o.gen)'
      BY <2>1, <2>2 DEF Stands
    <3>2. issued \in Nat /\ latest \in {NoPosition} \cup Positions
      BY <1>1 DEF GenInv
    <3>3. QED  BY <1>1, <2>1, <2>2, <3>1, <3>2, NextGenerator
  <2>4. QED  BY <1>1, <2>1, <2>3, CallEnds
<1>6. QED  BY <1>3, <1>4, <1>5

LEMMA Invariance == Spec => []IInv
<1>1. IInv /\ [Next]_vars => IInv'
  <2> SUFFICES ASSUME IInv, [Next]_vars PROVE IInv'
    OBVIOUS
  <2>1. CASE UNCHANGED vars
    <3>1. /\ CallsInProgress' = CallsInProgress
          /\ \A c \in CallsInProgress : The(c)' = The(c)
          /\ Top' = Top
      BY <2>1 DEF vars, CallsInProgress, The, Top
    <3>2. StackInv' /\ GilInv' /\ GenInv' /\ UsedInv'
      BY <2>1, <3>1 DEF vars, IInv, StackInv, GilInv, GenInv, UsedInv
    <3>3. CallsInv' /\ ApartInv'
      BY <2>1, <3>1 DEF vars, IInv, CallsInv, ApartInv
    <3>4. QED  BY <3>2, <3>3 DEF IInv
  <2>2. CASE Next
    BY <2>2, SwitchStep, BeginStep, PythonStep, IterateStep, PlainStageStep,
       EndStep, GenerateStep
       DEF Next
  <2>3. QED  BY <2>1, <2>2
<1>2. QED  BY InitInv, <1>1, PTL DEF Spec

(***************************************************************************)
(* What callers may rely on.                                               *)
(***************************************************************************)
\* The variables have their types, and a thread that does not hold the GIL is in
\* Python code, however calls nest and threads take turns.
THEOREM TypeCorrectness == Spec => []TypeOK
<1>1. IInv => TypeOK
  <2> SUFFICES ASSUME IInv PROVE TypeOK
    OBVIOUS
  <2>1. /\ gen \in GeneratorStates /\ gen.pool \in 0 .. fills /\ holder \in Threads
        /\ latest \in {NoPosition} \cup Positions /\ used \in SUBSET Positions
    BY DEF IInv, GenInv, GilInv, UsedInv, GeneratorStates
  <2>2. ASSUME NEW c \in CallsInProgress
        PROVE  /\ The(c).op \in Ops /\ Len(The(c).kept) <= The(c).wanted
               /\ (c[1] # holder \/ c[2] < Len(stack[c[1]])) => The(c).in_python
    <3>1. The(c).op \in Ops /\ Len(The(c).kept) <= The(c).wanted
      BY DEF IInv, CallsInv, CallInv, CallRecords
    <3>2. ASSUME c[1] # holder \/ c[2] < Len(stack[c[1]])
          PROVE  c # Top
      <4>1. c[2] \in 1 .. Len(stack[c[1]])
        BY TheCalls DEF IInv, Indexed
      <4>2. Top[1] = holder /\ Top[2] = Len(stack[holder])
        BY DEF Top
      <4>3. QED  BY <3>2, <4>1, <4>2
    <3>3. QED  BY <3>1, <3>2 DEF IInv, GilInv
  <2>3. QED  BY <2>1, <2>2 DEF TypeOK
<1>2. QED  BY Invariance, <1>1, PTL

\* docs/api.md: live identifiers increase strictly within a call, and lie above
\* all that were generated before it began.
THEOREM IncreasingCalls == Spec => []CallsIncrease
<1>1. IInv => CallsIncrease
  <2> SUFFICES ASSUME IInv, NEW c \in CallsInProgress, The(c).op \in LiveOps
               PROVE  LET all == IF The(c).floor = NoPosition
                                 THEN The(c).kept ELSE <<The(c).floor>> \o The(c).kept
                      IN  \A i \in 1 .. Len(all) - 1 : Before(all[i], all[i + 1])
    BY DEF CallsIncrease
  <2> DEFINE kept == The(c).kept
             floor == The(c).floor
             all == IF floor = NoPosition THEN kept ELSE <<floor>> \o kept
  <2>1. /\ kept \in Seq(Items) /\ Len(kept) \in Nat
        /\ \A i \in 1 .. Len(kept) - 1 : Before(kept[i], kept[i + 1])
        /\ floor # NoPosition => floor \in Positions /\ (kept # <<>> => Before(floor, kept[1]))
    BY DEF IInv, CallsInv, CallInv, CallRecords, LiveInv
  <2> HIDE DEF kept, floor
  <2>2. CASE floor = NoPosition
    BY <2>1, <2>2 DEF kept, floor
  <2>3. CASE floor # NoPosition
    <3>1. /\ all = <<floor>> \o kept
          /\ Len(all) = Len(kept) + 1 /\ all[1] = floor
          /\ \A i \in 1 .. Len(kept) : all[i + 1] = kept[i]
      <4>1. <<floor>> \in Seq(Items) /\ Len(<<floor>>) = 1 /\ <<floor>>[1] = floor
        BY <2>1, <2>3 DEF Items
      <4> DEFINE one == <<floor>>
      <4> HIDE DEF one
      <4>2. /\ Len(one \o kept) = Len(one) + Len(kept)
            /\ \A i \in 1 .. Len(one) + Len(kept) :
                 (one \o kept)[i] = IF i <= Len(one) THEN one[i] ELSE kept[i - Len(one)]
        BY <2>1, <4>1, ConcatProperties DEF one
      <4>3. all = one \o kept
        BY <2>3 DEF one
      <4> HIDE DEF all
      <4>4. QED  BY <2>1, <2>3, <4>1, <4>2, <4>3 DEF one, all
    <3> HIDE DEF all
    <3>2. ASSUME NEW i \in 1 .. Len(all) - 1
          PROVE  Before(all[i], all[i + 1])
      <4>1. i \in 1 .. Len(kept)
        BY <2>1, <3>1
      <4>2. CASE i = 1
        <5>1. kept # <<>>
          BY <2>1, <4>1
        <5>2. QED  BY <2>1, <2>3, <3>1, <4>1, <4>2, <5>1
      <4>3. CASE i # 1
        <5>1. i - 1 \in 1 .. Len(kept) - 1 /\ i - 1 \in 1 .. Len(kept) /\ (i - 1) + 1 = i
          BY <2>1, <4>1, <4>3
        <5>2. all[i] = kept[i - 1] /\ all[i + 1] = kept[i]
          <6>1. all[(i - 1) + 1] = kept[i - 1]
            BY <3>1, <5>1
          <6>2. QED  BY <3>1, <4>1, <5>1, <6>1
        <5>3. Before(kept[i - 1], kept[(i - 1) + 1])
          BY <2>1, <5>1
        <5>4. QED  BY <5>1, <5>2, <5>3
      <4>4. QED  BY <4>2, <4>3
    <3>3. QED  BY <3>2 DEF all, kept, floor
  <2>4. QED  BY <2>2, <2>3
<1>2. QED  BY Invariance, <1>1, PTL

\* No live identifier is an item of two calls: neither one that was returned nor
\* one that a failed batch has dropped is generated again, whatever comes between.
THEOREM NobodyElseHasIt == Spec => []GivenOnce
<1>1. IInv => GivenOnce
  <2> SUFFICES ASSUME IInv PROVE GivenOnce
    OBVIOUS
  <2>1. ASSUME NEW c \in CallsInProgress, The(c).op \in LiveOps
        PROVE  ToSet(The(c).kept) \cap used = {}
    BY <2>1 DEF IInv, ApartInv, Held
  <2>2. ASSUME NEW c \in CallsInProgress, NEW d \in CallsInProgress, c # d,
               {The(c).op, The(d).op} \subseteq LiveOps
        PROVE  ToSet(The(c).kept) \cap ToSet(The(d).kept) = {}
    <3>1. Held(The(c)) = ToSet(The(c).kept) /\ Held(The(d)) = ToSet(The(d).kept)
      BY <2>2 DEF Held
    <3>2. QED  BY <2>2, <3>1 DEF IInv, ApartInv
  <2>3. QED  BY <2>1, <2>2 DEF GivenOnce
<1>2. QED  BY Invariance, <1>1, PTL

\* A batch of strings, UUID7Obj or bytes is a contiguous piece of the sequence.
THEOREM Contiguity == Spec => []RawBatchesAreContiguous
<1>1. IInv => RawBatchesAreContiguous
  BY DEF IInv, CallsInv, CallInv, RawInv, RawOps, RawBatchesAreContiguous
<1>2. QED  BY Invariance, <1>1, PTL

\* docs/api.md: no entropy is consumed for a batch with a bad timestamp.
THEOREM ValidationComesFirst == Spec => []ValidatedBeforeEntropy
<1>1. IInv => ValidatedBeforeEntropy
  <2> SUFFICES ASSUME IInv, NEW c \in CallsInProgress,
                      The(c).op = "at", The(c).drew,
                      NEW ms \in ToSet(The(c).timestamps)
               PROVE  ms <= MaxTimestamp
    BY DEF ValidatedBeforeEntropy
  <2>1. CallInv(The(c), latest, issued) /\ The(c).timestamps \in Seq(Nat)
    BY DEF IInv, CallsInv, CallInv, CallRecords
  <2>2. \A i \in 1 .. Len(The(c).timestamps) : The(c).timestamps[i] <= MaxTimestamp
    BY <2>1 DEF CallInv, Untouched, HistoricalInv
  <2>3. QED  BY <2>1, <2>2 DEF ToSet
<1>2. QED  BY Invariance, <1>1, PTL

\* uuid7_at_many answers the snapshot it took, element by element.
THEOREM SnapshotIsAnswered == Spec => []AnswersTheSnapshot
<1>1. IInv => AnswersTheSnapshot
  BY DEF IInv, CallsInv, CallInv, HistoricalInv, AnswersTheSnapshot
<1>2. QED  BY Invariance, <1>1, PTL
=============================================================================
