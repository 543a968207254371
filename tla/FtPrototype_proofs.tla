------------------------- MODULE FtPrototype_proofs --------------------------
(***************************************************************************)
(* The generator under one mutex, for every number of threads and          *)
(* processes: it implements AtomicBatches.  A batch takes its block at the *)
(* moment it unlocks; until then its items are the end of the log, and     *)
(* nobody else's are behind them.                                          *)
(***************************************************************************)
EXTENDS FtPrototype, Uuid7Core_proofs, SequenceTheorems

Positions == Timestamps \X Counters

Calls ==
  [op     : {"none", "live", "historical"},
   wanted : Nat, first : Nat, made : Nat,
   items  : Seq(Positions),
   status : {"ok", "entropy", "exhausted"}]

\* The types of the variables TypeOK says nothing of.
DataOK ==
  /\ serial \in [Procs -> Nat]
  /\ log \in [Procs -> Seq(Positions)]
  /\ call \in [Procs -> [Threads -> Calls]]
  /\ fills \in Nat

PoolInv ==
  \A p \in Procs : PoolOK(gen[p]) /\ gen[p].pool <= fills

Increasing(s) == \A i \in 1 .. Len(s) - 1 : Earlier(s[i], s[i + 1])

\* The log of a process is an increasing sequence that ends where its
\* generator stands; a process that was not born has none.
LogInv ==
  \A p \in Procs :
    /\ serial[p] = Len(log[p])
    /\ Increasing(log[p])
    /\ log[p] # <<>> =>
         /\ ~Unborn(p)
         /\ gen[p].process_id = p
         /\ gen[p].initialized
         /\ log[p][Len(log[p])] = <<gen[p].last_ms, gen[p].counter>>

\* The items of a batch are the end of the log, from its ticket on.
BatchInv ==
  \A p \in Procs, t \in Threads :
    /\ at[p][t] = "detached" => call[p][t].items = <<>>
    /\ at[p][t] = "locked" =>
         /\ call[p][t].first <= Len(log[p])
         /\ call[p][t].items = SubSeq(log[p], call[p][t].first + 1, Len(log[p]))

IInv == TypeOK /\ DataOK /\ PoolInv /\ LogInv /\ BatchInv

(***************************************************************************)
(* Sequences.                                                              *)
(***************************************************************************)
LEMMA AppendIncreasing ==
  ASSUME NEW s \in Seq(Positions), NEW x \in Positions, Increasing(s),
         s # <<>> => Earlier(s[Len(s)], x)
  PROVE  Increasing(Append(s, x))
<1> DEFINE r == Append(s, x)
<1>1. /\ Len(s) \in Nat /\ Len(r) = Len(s) + 1 /\ r[Len(s) + 1] = x
      /\ \A i \in 1 .. Len(s) : r[i] = s[i]
      /\ Len(s) > 0 => s # <<>>
  BY AppendProperties, LenProperties, EmptySeq
<1> HIDE DEF r
<1>2. ASSUME NEW i \in 1 .. Len(r) - 1
      PROVE  Earlier(r[i], r[i + 1])
  <2>1. CASE i = Len(s)
    BY <1>1, <2>1
  <2>2. CASE i < Len(s)
    BY <1>1, <2>2 DEF Increasing
  <2>3. QED  BY <1>1, <2>1, <2>2
<1>3. QED  BY <1>2 DEF Increasing, r

\* What was appended is behind every cut.
LEMMA AppendBehind ==
  ASSUME NEW S, NEW s \in Seq(S), NEW x \in S, NEW k \in 0 .. Len(s)
  PROVE  /\ SubSeq(Append(s, x), 1, k) = SubSeq(s, 1, k)
         /\ SubSeq(Append(s, x), k + 1, Len(s) + 1)
              = Append(SubSeq(s, k + 1, Len(s)), x)
<1> DEFINE r == Append(s, x)
           a == SubSeq(s, 1, k)
           b == SubSeq(s, k + 1, Len(s))
           c == SubSeq(r, 1, k)
           d == SubSeq(r, k + 1, Len(s) + 1)
<1>1. /\ Len(s) \in Nat /\ Len(r) = Len(s) + 1 /\ r[Len(s) + 1] = x
      /\ \A i \in 1 .. Len(s) : r[i] = s[i] /\ s[i] \in S
      /\ r \in Seq(S)
  BY AppendProperties, LenProperties
<1>2. \A i \in 1 .. Len(s) + 1 : r[i] \in S
  BY <1>1
<1> HIDE DEF r
<1>3. a \in Seq(S) /\ Len(a) = k /\ \A i \in 1 .. k : a[i] = s[i]
  <2>1. \A i \in 1 .. k : s[i] \in S
    BY <1>1
  <2>2. QED  BY <1>1, <2>1, SubSeqProperties
<1>4. c \in Seq(S) /\ Len(c) = k /\ \A i \in 1 .. k : c[i] = r[i]
  <2>1. \A i \in 1 .. k : r[i] \in S
    BY <1>1, <1>2
  <2>2. QED  BY <1>1, <2>1, SubSeqProperties
<1>5. /\ b \in Seq(S) /\ Len(b) = Len(s) - k
      /\ \A i \in 1 .. Len(s) - k : b[i] = s[k + i]
  <2>1. \A i \in k + 1 .. Len(s) : s[i] \in S
    BY <1>1
  <2>2. QED  BY <1>1, <2>1, SubSeqProperties
<1>6. /\ d \in Seq(S) /\ Len(d) = Len(s) + 1 - k
      /\ \A i \in 1 .. Len(s) + 1 - k : d[i] = r[k + i]
  <2>1. \A i \in k + 1 .. Len(s) + 1 : r[i] \in S
    BY <1>2
  <2>2. QED  BY <1>1, <2>1, SubSeqProperties
<1> HIDE DEF a, b, c, d
<1>7. a = c
  <2>1. \A i \in 1 .. k : a[i] = c[i]
    BY <1>1, <1>3, <1>4
  <2>2. QED  BY <1>3, <1>4, <2>1, SeqEqual
<1>8. d = Append(b, x)
  <2> DEFINE q == Append(b, x)
  <2>1. /\ q \in Seq(S) /\ Len(q) = Len(b) + 1
        /\ \A i \in 1 .. Len(b) : q[i] = b[i]
        /\ q[Len(b) + 1] = x
    BY <1>5, AppendProperties
  <2> HIDE DEF q
  <2>2. Len(d) = Len(q) /\ Len(d) = Len(s) - k + 1 /\ Len(s) - k \in Nat
    BY <1>1, <1>5, <1>6, <2>1
  <2>3. ASSUME NEW i \in 1 .. Len(d)
        PROVE  d[i] = q[i]
    <3>1. CASE i = Len(s) - k + 1
      BY <1>1, <1>5, <1>6, <2>1, <3>1
    <3>2. CASE i \in 1 .. Len(s) - k
      BY <1>1, <1>5, <1>6, <2>1, <3>2
    <3>3. QED  BY <2>2, <3>1, <3>2
  <2>4. d = q
    BY <1>6, <2>1, <2>2, <2>3, SeqEqual
  <2>5. QED  BY <2>4 DEF q
<1>9. QED  BY <1>7, <1>8 DEF a, b, c, d, r

(***************************************************************************)
(* What the abstract specification sees.                                   *)
(***************************************************************************)
LEMMA InitIInv == Init => IInv
<1> SUFFICES ASSUME Init PROVE IInv
  OBVIOUS
<1> USE CoreAssumption, FtAssumption
<1>1. InitialGenerator \in GeneratorStates /\ PoolOK(InitialGenerator)
  BY DEF InitialGenerator, GeneratorStates, Timestamps, Counters, Unfilled,
         NoProcess, PoolOK
<1>2. /\ gen = [p \in Procs |-> InitialGenerator]
      /\ serial = [p \in Procs |-> 0] /\ mutex = [p \in Procs |-> Free]
      /\ at = [p \in Procs |-> [t \in Threads |-> IF p = Root THEN "python" ELSE "absent"]]
      /\ call = [p \in Procs |-> [t \in Threads |-> NoCall]]
      /\ log = [p \in Procs |-> <<>>] /\ fills = 0
  BY DEF Init
<1>3. \A p \in Procs, t \in Threads : at[p][t] \in {"python", "absent"}
  BY <1>2
<1>4. TypeOK
  <2>1. at \in [Procs -> [Threads -> Places]]
    BY <1>2 DEF Places
  <2>2. \A p \in Procs, t \in Threads : mutex[p] # t
    BY <1>2
  <2>3. QED  BY <1>1, <1>2, <1>3, <2>1, <2>2 DEF TypeOK
<1>5. DataOK
  <2>1. NoCall \in Calls
    BY EmptySeq DEF NoCall, Calls
  <2>2. QED  BY <1>2, <2>1, EmptySeq DEF DataOK
<1>6. PoolInv
  BY <1>1, <1>2 DEF PoolInv, InitialGenerator, Unfilled
<1>7. LogInv
  BY <1>2, EmptySeq DEF LogInv, Increasing
<1>8. BatchInv
  BY <1>2, <1>3 DEF BatchInv
<1>9. QED  BY <1>4, <1>5, <1>6, <1>7, <1>8 DEF IInv

\* Only the batch inside its critical section has items that are not finished.
LogIsFinished ==
  \A p \in Procs :
    /\ (\A t \in Threads : at[p][t] # "locked") => Finished(p) = log[p]
    /\ \A t \in Threads : at[p][t] = "locked" =>
         Finished(p) = SubSeq(log[p], 1, call[p][t].first)

LEMMA FinishedLog == IInv => LogIsFinished
<1> SUFFICES ASSUME IInv, NEW p \in Procs
             PROVE  /\ (\A t \in Threads : at[p][t] # "locked") => Finished(p) = log[p]
                    /\ \A t \in Threads : at[p][t] = "locked" =>
                         Finished(p) = SubSeq(log[p], 1, call[p][t].first)
  BY DEF LogIsFinished
<1>1. (\A t \in Threads : at[p][t] # "locked") => Finished(p) = log[p]
  BY DEF Finished
<1>2. ASSUME NEW t \in Threads, at[p][t] = "locked"
      PROVE  Finished(p) = SubSeq(log[p], 1, call[p][t].first)
  <2>1. mutex[p] = t
    BY <1>2 DEF IInv, TypeOK
  <2>2. Finished(p) = SubSeq(log[p], 1, Len(log[p]) - Len(call[p][t].items))
    BY <1>2, <2>1 DEF Finished
  <2>3. /\ log[p] \in Seq(Positions) /\ call[p][t].first \in Nat
        /\ call[p][t].first <= Len(log[p])
        /\ call[p][t].items = SubSeq(log[p], call[p][t].first + 1, Len(log[p]))
    BY <1>2 DEF IInv, DataOK, BatchInv, Calls
  <2>4. Len(call[p][t].items) = Len(log[p]) - call[p][t].first
    <3>1. /\ Len(log[p]) \in Nat
          /\ \A i \in call[p][t].first + 1 .. Len(log[p]) : log[p][i] \in Positions
      BY <2>3, LenProperties
    <3>2. Len(call[p][t].items) = IF call[p][t].first + 1 <= Len(log[p])
                                  THEN Len(log[p]) - (call[p][t].first + 1) + 1 ELSE 0
      BY <2>3, <3>1, SubSeqProperties
    <3>3. QED
      <4> DEFINE n == Len(log[p])  f == call[p][t].first
                 m == Len(call[p][t].items)
      <4>1. /\ n \in Nat /\ f \in Nat /\ f <= n
            /\ m = IF f + 1 <= n THEN n - (f + 1) + 1 ELSE 0
        BY <2>3, <3>1, <3>2
      <4> HIDE DEF n, f, m
      <4>2. m = n - f
        BY <4>1
      <4>3. QED  BY <4>2 DEF n, f, m
  <2>5. Len(log[p]) \in Nat
    BY <2>3, LenProperties
  <2>6. Len(log[p]) - Len(call[p][t].items) = call[p][t].first
    BY <2>3, <2>4, <2>5
  <2>7. QED  BY <2>2, <2>6
<1>3. QED  BY <1>1, <1>2

LEMMA FinishedLogNext == IInv' => LogIsFinished'
  BY FinishedLog, PTL

AbsLog == [p \in Procs |-> Finished(p)]
AbsCall == [p \in Procs |-> [t \in Threads |-> AbstractCall(p, t)]]

\* A step of one thread that changes nothing the abstract specification sees.
LEMMA Unseen ==
  ASSUME \A p \in Procs : Finished(p)' = Finished(p),
         \A p \in Procs, t \in Threads : AbstractCall(p, t)' = AbstractCall(p, t)
  PROVE  AbsLog' = AbsLog /\ AbsCall' = AbsCall
  BY DEF AbsLog, AbsCall

(***************************************************************************)
(* Steps that generate nothing: one thread goes to another place, and at   *)
(* most its own locals and the mutex of its process change.                *)
(***************************************************************************)
InCriticalSection == {"locked", "forked"}

Quiet(p, t, place) ==
  /\ at[p][t] # "absent" /\ place # "absent" /\ place \in Places
  /\ Goes(p, t, place)
  /\ gen' = gen /\ serial' = serial /\ log' = log /\ fills' = fills
  /\ call' \in [Procs -> [Threads -> Calls]]
  /\ \A q \in Procs : q # p => call'[q] = call[q] /\ mutex'[q] = mutex[q]
  /\ \A u \in Threads : u # t => call'[p][u] = call[p][u]
  /\ mutex' \in [Procs -> Threads \cup {Free}]
  /\ \A u \in Threads : u # t =>
       (mutex'[p] = u <=> at[p][u] \in InCriticalSection)
  /\ mutex'[p] = t <=> place \in InCriticalSection
  /\ place = "detached" => call'[p][t].items = <<>>
  /\ place = "locked" =>
       /\ call'[p][t].first <= Len(log[p])
       /\ call'[p][t].items = SubSeq(log[p], call'[p][t].first + 1, Len(log[p]))

\* The abstract specification sees at most the call of t, unless t was or is
\* in its critical section.
OthersUnseen(p, t) ==
  /\ \A q \in Procs : q # p => Finished(q)' = Finished(q)
  /\ at[p][t] # "locked" /\ at'[p][t] # "locked" => Finished(p)' = Finished(p)
  /\ \A q \in Procs, u \in Threads :
       q # p \/ u # t => AbstractCall(q, u)' = AbstractCall(q, u)

LEMMA QuietStep ==
  ASSUME IInv, NEW p \in Procs, NEW t \in Threads, NEW place, Quiet(p, t, place)
  PROVE  IInv' /\ OthersUnseen(p, t) /\ at'[p][t] = place
<1>q. /\ at[p][t] # "absent" /\ place # "absent" /\ place \in Places
      /\ Goes(p, t, place)
      /\ gen' = gen /\ serial' = serial /\ log' = log /\ fills' = fills
      /\ call' \in [Procs -> [Threads -> Calls]]
      /\ \A q \in Procs : q # p => call'[q] = call[q] /\ mutex'[q] = mutex[q]
      /\ \A u \in Threads : u # t => call'[p][u] = call[p][u]
      /\ mutex' \in [Procs -> Threads \cup {Free}]
      /\ \A u \in Threads : u # t =>
           (mutex'[p] = u <=> at[p][u] \in InCriticalSection)
      /\ mutex'[p] = t <=> place \in InCriticalSection
      /\ place = "detached" => call'[p][t].items = <<>>
      /\ place = "locked" =>
           /\ call'[p][t].first <= Len(log[p])
           /\ call'[p][t].items = SubSeq(log[p], call'[p][t].first + 1, Len(log[p]))
  BY DEF Quiet
<1>1. at \in [Procs -> [Threads -> Places]]
  BY DEF IInv, TypeOK
<1>2. /\ at' = [at EXCEPT ![p][t] = place]
      /\ at' \in [Procs -> [Threads -> Places]]
      /\ at'[p][t] = place
      /\ \A q \in Procs : q # p => at'[q] = at[q]
      /\ \A u \in Threads : u # t => at'[p][u] = at[p][u]
  BY <1>1, <1>q DEF Goes
<1>3. TypeOK'
  <2>1. \A q \in Procs, u \in Threads :
          mutex'[q] = u <=> at'[q][u] \in InCriticalSection
    <3>1. \A q \in Procs, u \in Threads :
            q # p => (mutex'[q] = u <=> at'[q][u] \in InCriticalSection)
      BY <1>2, <1>q DEF IInv, TypeOK, InCriticalSection
    <3>2. \A u \in Threads : mutex'[p] = u <=> at'[p][u] \in InCriticalSection
      BY <1>2, <1>q
    <3>3. QED  BY <3>1, <3>2
  <2>2. gen' \in [Procs -> GeneratorStates]
    BY <1>q DEF IInv, TypeOK
  <2>3. QED  BY <1>q, <1>2, <2>1, <2>2 DEF TypeOK, InCriticalSection
<1>4. DataOK' /\ PoolInv'
  BY <1>q DEF IInv, DataOK, PoolInv
<1>5. LogInv'
  <2>1. \A q \in Procs : ~Unborn(q) => ~Unborn(q)'
    BY <1>q, <1>2 DEF Unborn
  <2>2. QED  BY <1>q, <2>1 DEF IInv, LogInv
<1>6. BatchInv'
  BY <1>q, <1>2 DEF IInv, BatchInv
<1>7. IInv'
  BY <1>3, <1>4, <1>5, <1>6 DEF IInv
<1>8. \A q \in Procs : q # p => Finished(q)' = Finished(q)
  BY <1>q, <1>2 DEF Finished
<1>9. ASSUME at[p][t] # "locked", place # "locked"
      PROVE  Finished(p)' = Finished(p)
  <2>1. LogIsFinished /\ LogIsFinished'
    BY <1>7, FinishedLog, FinishedLogNext
  <2>2. CASE \E u \in Threads : at[p][u] = "locked"
    <3>1. PICK u \in Threads : at[p][u] = "locked"
      BY <2>2
    <3>2. u # t /\ at'[p][u] = "locked" /\ call'[p][u] = call[p][u]
      BY <1>q, <1>2, <1>9, <3>1
    <3>3. Finished(p) = SubSeq(log[p], 1, call[p][u].first)
      BY <2>1, <3>1 DEF LogIsFinished
    <3>4. Finished(p)' = SubSeq(log'[p], 1, call'[p][u].first)
      BY <2>1, <3>2 DEF LogIsFinished
    <3>5. QED  BY <1>q, <3>2, <3>3, <3>4
  <2>3. CASE \A u \in Threads : at[p][u] # "locked"
    <3>1. \A u \in Threads : at'[p][u] # "locked"
      BY <1>2, <1>9, <2>3
    <3>2. QED  BY <1>q, <2>1, <2>3, <3>1 DEF LogIsFinished
  <2>4. QED  BY <2>2, <2>3
<1>10. \A q \in Procs, u \in Threads :
         q # p \/ u # t => AbstractCall(q, u)' = AbstractCall(q, u)
  <2>1. ASSUME NEW q \in Procs, NEW u \in Threads, q # p \/ u # t
        PROVE  AbstractCall(q, u)' = AbstractCall(q, u)
    <3>1. at'[q][u] = at[q][u] /\ call'[q][u] = call[q][u]
      BY <1>q, <1>2, <2>1
    <3>2. QED  BY <3>1 DEF AbstractCall
  <2>2. QED  BY <2>1
<1>11. QED  BY <1>2, <1>7, <1>8, <1>9, <1>10 DEF OthersUnseen

LEMMA BeginStep ==
  ASSUME IInv, NEW p \in Procs, NEW t \in Threads, Begin(p, t)
  PROVE  IInv' /\ Atomic!Begin(p, t)
<1> USE FtAssumption
<1>1. PICK op \in {"live", "historical"}, n \in Sizes :
        call' = [call EXCEPT ![p][t] = [NoCall EXCEPT !.op = op, !.wanted = n]]
  BY DEF Begin
<1>2. /\ at[p][t] = "python" /\ Goes(p, t, "detached")
      /\ UNCHANGED <<gen, serial, mutex, log, fills>>
  BY DEF Begin
<1> DEFINE c == [NoCall EXCEPT !.op = op, !.wanted = n]
<1>3. c \in Calls /\ c.items = <<>>
  BY EmptySeq DEF NoCall, Calls
<1>4. /\ call \in [Procs -> [Threads -> Calls]]
      /\ mutex \in [Procs -> Threads \cup {Free}]
      /\ \A q \in Procs, u \in Threads :
           mutex[q] = u <=> at[q][u] \in InCriticalSection
  BY DEF IInv, TypeOK, DataOK, InCriticalSection
<1> HIDE DEF c
<1>5. /\ call' = [call EXCEPT ![p][t] = c]
      /\ call' \in [Procs -> [Threads -> Calls]] /\ call'[p][t] = c
      /\ \A q \in Procs : q # p => call'[q] = call[q]
      /\ \A u \in Threads : u # t => call'[p][u] = call[p][u]
  BY <1>1, <1>3, <1>4 DEF c
<1>6. mutex' = mutex /\ mutex[p] # t
  BY <1>2, <1>4 DEF InCriticalSection
<1>7. Quiet(p, t, "detached")
  BY <1>2, <1>3, <1>4, <1>5, <1>6 DEF Quiet, Places, InCriticalSection
<1>q. IInv' /\ OthersUnseen(p, t) /\ at'[p][t] = "detached"
  BY <1>7, QuietStep
<1>8. AbstractCall(p, t) = <<"idle">> /\ AbstractCall(p, t)' = <<"called">>
  BY <1>2, <1>q DEF AbstractCall
<1>9. Atomic!Begin(p, t)
  BY <1>2, <1>8, <1>q DEF OthersUnseen, Atomic!Begin, Atomic!Idle, Atomic!Called
<1>10. QED  BY <1>9, <1>q

\* Waiting for the mutex is over: the ticket is the place behind the log.
LEMMA LockStep ==
  ASSUME IInv, NEW p \in Procs, NEW t \in Threads, Lock(p, t)
  PROVE  IInv' /\ AbsLog' = AbsLog /\ AbsCall' = AbsCall
<1> USE FtAssumption
<1>1. /\ at[p][t] = "detached" /\ mutex[p] = Free
      /\ mutex' = [mutex EXCEPT ![p] = t]
      /\ call' = [call EXCEPT ![p][t].first = serial[p]]
      /\ Goes(p, t, "locked")
      /\ gen' = gen /\ serial' = serial /\ log' = log /\ fills' = fills
  BY DEF Lock
<1>2. /\ call \in [Procs -> [Threads -> Calls]]
      /\ mutex \in [Procs -> Threads \cup {Free}]
      /\ \A u \in Threads : at[p][u] \notin InCriticalSection
  BY <1>1 DEF IInv, TypeOK, DataOK, InCriticalSection
<1> DEFINE c == [call[p][t] EXCEPT !.first = serial[p]]
<1>3. /\ serial[p] \in Nat /\ serial[p] = Len(log[p]) /\ log[p] \in Seq(Positions)
  BY DEF IInv, DataOK, LogInv
<1>4. c \in Calls /\ c.items = <<>> /\ c.first = Len(log[p])
  <2>1. call[p][t] \in Calls /\ call[p][t].items = <<>>
    BY <1>1, <1>2 DEF IInv, BatchInv
  <2>2. QED  BY <1>3, <2>1 DEF Calls
<1> HIDE DEF c
<1>5. /\ call' = [call EXCEPT ![p][t] = c]
      /\ call' \in [Procs -> [Threads -> Calls]] /\ call'[p][t] = c
      /\ \A q \in Procs : q # p => call'[q] = call[q]
      /\ \A u \in Threads : u # t => call'[p][u] = call[p][u]
  <2>1. call' = [call EXCEPT ![p][t] = c]
    BY <1>1 DEF c
  <2>2. QED  BY <1>2, <1>4, <2>1
<1>6. SubSeq(log[p], Len(log[p]) + 1, Len(log[p])) = <<>>
  BY <1>3, LenProperties, SubSeqEmpty
<1>7. /\ mutex' \in [Procs -> Threads \cup {Free}] /\ mutex'[p] = t
      /\ \A q \in Procs : q # p => mutex'[q] = mutex[q]
  BY <1>1, <1>2
<1>8. Quiet(p, t, "locked")
  <2>1. /\ call'[p][t].first <= Len(log[p])
        /\ call'[p][t].items = SubSeq(log[p], call'[p][t].first + 1, Len(log[p]))
    <3>1. call'[p][t].first = Len(log[p]) /\ call'[p][t].items = <<>>
      BY <1>4, <1>5
    <3>2. Len(log[p]) <= Len(log[p])
      BY <1>3
    <3>3. QED  BY <1>6, <3>1, <3>2
  <2>2. QED
    BY <1>1, <1>2, <1>5, <1>7, <2>1 DEF Quiet, Places, InCriticalSection
<1>q. IInv' /\ OthersUnseen(p, t) /\ at'[p][t] = "locked"
  BY <1>8, QuietStep
<1>9. Finished(p)' = Finished(p)
  <2>1. Finished(p) = log[p]
    BY <1>2, FinishedLog DEF LogIsFinished, InCriticalSection
  <2>2. Finished(p)' = SubSeq(log[p], 1, Len(log[p]))
    <3>1. Finished(p)' = SubSeq(log'[p], 1, call'[p][t].first)
      BY <1>q, FinishedLogNext DEF LogIsFinished
    <3>2. QED  BY <1>1, <1>4, <1>5, <3>1
  <2>3. QED  BY <1>3, <2>1, <2>2, SubSeqFull
<1>10. AbstractCall(p, t)' = AbstractCall(p, t)
  BY <1>1, <1>q DEF AbstractCall
<1>11. QED  BY <1>9, <1>10, <1>q, Unseen DEF OthersUnseen

\* Places a thread can be in outside a call.
LEMMA OutsideStep ==
  ASSUME IInv, NEW p \in Procs, NEW t \in Threads,
         BeginFork(p, t) \/ Prepare(p, t) \/ ForkFails(p, t)
  PROVE  IInv' /\ AbsLog' = AbsLog /\ AbsCall' = AbsCall
<1> USE FtAssumption
<1> DEFINE outside == {"python", "forking", "forked"}
<1>1. /\ call \in [Procs -> [Threads -> Calls]]
      /\ mutex \in [Procs -> Threads \cup {Free}]
      /\ \A u \in Threads : mutex[p] = u <=> at[p][u] \in InCriticalSection
  BY DEF IInv, TypeOK, DataOK, InCriticalSection
<1>2. /\ at[p][t] \in outside
      /\ \E place \in outside : Quiet(p, t, place)
  <2>1. CASE BeginFork(p, t)
    <3>1. /\ at[p][t] = "python" /\ mutex' = mutex /\ mutex[p] # t
          /\ Quiet(p, t, "forking")
      BY <1>1, <2>1 DEF BeginFork, Quiet, Places, InCriticalSection
    <3>2. QED  BY <3>1
  <2>2. CASE Prepare(p, t)
    <3>1. /\ at[p][t] = "forking" /\ mutex[p] = Free
          /\ mutex' = [mutex EXCEPT ![p] = t]
          /\ Quiet(p, t, "forked")
      BY <1>1, <2>2 DEF Prepare, Quiet, Places, InCriticalSection
    <3>2. QED  BY <3>1
  <2>3. CASE ForkFails(p, t)
    <3>1. /\ at[p][t] = "forked" /\ mutex[p] = t
          /\ mutex' = [mutex EXCEPT ![p] = Free]
      BY <1>1, <2>3 DEF ForkFails, InCriticalSection
    <3>2. Quiet(p, t, "python")
      BY <1>1, <2>3, <3>1 DEF ForkFails, Quiet, Places, InCriticalSection
    <3>3. QED  BY <3>1, <3>2
  <2>4. QED  BY <2>1, <2>2, <2>3
<1>3. PICK place \in outside : Quiet(p, t, place)
  BY <1>2
<1>q. IInv' /\ OthersUnseen(p, t) /\ at'[p][t] = place
  BY <1>3, QuietStep
<1>4. AbstractCall(p, t)' = AbstractCall(p, t)
  BY <1>2, <1>3, <1>q DEF AbstractCall
<1>5. Finished(p)' = Finished(p)
  BY <1>2, <1>3, <1>q DEF OthersUnseen
<1>6. QED  BY <1>4, <1>5, <1>q, Unseen DEF OthersUnseen

\* Unlocking is the moment a batch takes its block.
LEMMA UnlockStep ==
  ASSUME IInv, NEW p \in Procs, NEW t \in Threads, Unlock(p, t)
  PROVE  IInv' /\ Atomic!Take(p, t)
<1> USE FtAssumption
<1>1. /\ at[p][t] = "locked" /\ mutex' = [mutex EXCEPT ![p] = Free]
      /\ Goes(p, t, "attaching")
      /\ gen' = gen /\ serial' = serial /\ log' = log /\ fills' = fills
      /\ call' = call
  BY DEF Unlock
<1>2. /\ call \in [Procs -> [Threads -> Calls]]
      /\ mutex \in [Procs -> Threads \cup {Free}]
      /\ \A u \in Threads : mutex[p] = u <=> at[p][u] \in InCriticalSection
  BY DEF IInv, TypeOK, DataOK, InCriticalSection
<1>3. mutex[p] = t /\ \A u \in Threads : u # t => at[p][u] \notin InCriticalSection
  BY <1>1, <1>2 DEF InCriticalSection
<1>4. Quiet(p, t, "attaching")
  BY <1>1, <1>2, <1>3 DEF Quiet, Places, InCriticalSection
<1>q. IInv' /\ OthersUnseen(p, t) /\ at'[p][t] = "attaching"
  BY <1>4, QuietStep
<1> DEFINE s == log[p]  k == call[p][t].first
<1>5. /\ s \in Seq(Positions) /\ k \in 0 .. Len(s) /\ Len(s) \in Nat
      /\ call[p][t].items = SubSeq(s, k + 1, Len(s))
      /\ Increasing(s)
  <2>1. call[p][t].first \in Nat
    BY <1>2 DEF Calls
  <2>2. Len(log[p]) \in Nat
    BY LenProperties DEF IInv, DataOK
  <2>3. QED  BY <1>1, <2>1, <2>2 DEF IInv, DataOK, LogInv, BatchInv
<1>6. Finished(p) = SubSeq(s, 1, k) /\ Len(SubSeq(s, 1, k)) = k
  <2>1. Finished(p) = SubSeq(s, 1, k)
    BY <1>1, FinishedLog DEF LogIsFinished
  <2>2. \A i \in 1 .. k : s[i] \in Positions
    BY <1>5, LenProperties
  <2> HIDE DEF s, k
  <2>3. Len(SubSeq(s, 1, k)) = k
    BY <1>5, <2>2, SubSeqProperties
  <2>4. QED  BY <2>1, <2>3
<1>7. Finished(p)' = s
  <2>1. \A u \in Threads : at'[p][u] # "locked"
    BY <1>1, <1>3, <1>q DEF IInv, TypeOK, Goes, InCriticalSection
  <2>2. QED  BY <1>1, <1>q, <2>1, FinishedLogNext DEF LogIsFinished
<1>8. SubSeq(s, 1, k) \o SubSeq(s, k + 1, Len(s)) = s
  <2> HIDE DEF s, k
  <2>1. SubSeq(s, 1, k) \o SubSeq(s, k + 1, Len(s)) = SubSeq(s, 1, Len(s))
    <3>1. 1 \in 1 .. Len(s) + 1 /\ k \in 1 - 1 .. Len(s) /\ Len(s) \in k .. Len(s)
      BY <1>5
    <3>2. QED  BY <1>5, <3>1, ConcatAdjacentSubSeq
  <2>2. QED  BY <1>5, <2>1, SubSeqFull
<1>9. /\ AbstractCall(p, t) = <<"called">>
      /\ AbstractCall(p, t)' = <<"block", k, SubSeq(s, k + 1, Len(s))>>
  BY <1>1, <1>5, <1>q DEF AbstractCall
<1>10. /\ \A i \in 1 .. Len(s) : s[i] \in Positions
       /\ \A i \in 1 .. Len(s) - 1 : Earlier(s[i], s[i + 1])
  BY <1>5, LenProperties DEF Increasing
<1>11. /\ AbsLog[p] = SubSeq(s, 1, k) /\ AbsLog'[p] = s
       /\ AbsLog' = [AbsLog EXCEPT ![p] = s]
       /\ AbsCall[p][t] = <<"called">>
       /\ AbsCall' = [AbsCall EXCEPT ![p][t] = <<"block", k, SubSeq(s, k + 1, Len(s))>>]
  BY <1>6, <1>7, <1>9, <1>q DEF AbsLog, AbsCall, OthersUnseen
<1> HIDE DEF s, k
<1> DEFINE new == SubSeq(AbsLog'[p], Len(AbsLog[p]) + 1, Len(AbsLog'[p]))
<1>12. new = SubSeq(s, k + 1, Len(s)) /\ Len(AbsLog[p]) = k
  BY <1>6, <1>11
<1>13. /\ AbsCall[p][t] = <<"called">>
       /\ AbsLog' = [AbsLog EXCEPT ![p] = @ \o new]
       /\ \A i \in 1 .. Len(AbsLog'[p]) : AbsLog'[p][i] \in Positions
       /\ \A i \in 1 .. Len(AbsLog'[p]) - 1 :
            Earlier(AbsLog'[p][i], AbsLog'[p][i + 1])
       /\ AbsCall' = [AbsCall EXCEPT ![p][t] = <<"block", Len(AbsLog[p]), new>>]
  BY <1>8, <1>10, <1>11, <1>12
<1> HIDE DEF new
<1>14. Atomic!Take(p, t)
  BY <1>13 DEF AbsLog, AbsCall, Atomic!Take, Atomic!Called, Atomic!Block, Positions, new
<1>15. QED  BY <1>14, <1>q

LEMMA ReturnStep ==
  ASSUME IInv, NEW p \in Procs, NEW t \in Threads, Return(p, t)
  PROVE  IInv' /\ Atomic!Return(p, t)
<1> USE FtAssumption
<1>1. /\ at[p][t] = "attaching" /\ mutex' = mutex
      /\ call' = [call EXCEPT ![p][t] = NoCall]
      /\ Goes(p, t, "python")
      /\ gen' = gen /\ serial' = serial /\ log' = log /\ fills' = fills
  BY DEF Return
<1>2. /\ call \in [Procs -> [Threads -> Calls]]
      /\ mutex \in [Procs -> Threads \cup {Free}]
      /\ \A u \in Threads : mutex[p] = u <=> at[p][u] \in InCriticalSection
      /\ NoCall \in Calls
  BY EmptySeq DEF IInv, TypeOK, DataOK, InCriticalSection, NoCall, Calls
<1>3. /\ call' \in [Procs -> [Threads -> Calls]]
      /\ \A q \in Procs : q # p => call'[q] = call[q]
      /\ \A u \in Threads : u # t => call'[p][u] = call[p][u]
  BY <1>1, <1>2
<1>4. Quiet(p, t, "python")
  BY <1>1, <1>2, <1>3 DEF Quiet, Places, InCriticalSection
<1>q. IInv' /\ OthersUnseen(p, t) /\ at'[p][t] = "python"
  BY <1>4, QuietStep
<1>5. /\ AbstractCall(p, t) = <<"block", call[p][t].first, call[p][t].items>>
      /\ AbstractCall(p, t)' = <<"idle">>
  BY <1>1, <1>q DEF AbstractCall
<1>6. AbsLog' = AbsLog
  BY <1>1, <1>q DEF AbsLog, OthersUnseen
<1>7. /\ AbsCall[p][t] \notin {<<"idle">>, <<"called">>}
      /\ AbsCall' = [AbsCall EXCEPT ![p][t] = <<"idle">>]
  <2>1. \A a, b : <<"block", a, b>> \notin {<<"idle">>, <<"called">>}
    OBVIOUS
  <2>2. AbsCall[p][t] \notin {<<"idle">>, <<"called">>}
    BY <1>5, <2>1 DEF AbsCall
  <2>3. AbsCall' = [AbsCall EXCEPT ![p][t] = <<"idle">>]
    BY <1>5, <1>q DEF AbsCall, OthersUnseen
  <2>4. QED  BY <2>2, <2>3
<1>8. Atomic!Return(p, t)
  BY <1>6, <1>7 DEF AbsLog, AbsCall, Atomic!Return, Atomic!Idle, Atomic!Called
<1>9. QED  BY <1>8, <1>q

\* A child has its parent's memory with the generator reset, and no log.
LEMMA ForkStep ==
  ASSUME IInv, NEW p \in Procs, NEW t \in Threads, Fork(p, t)
  PROVE  IInv' /\ AbsLog' = AbsLog /\ AbsCall' = AbsCall
<1> USE CoreAssumption, FtAssumption
<1>1. PICK c \in Procs : Copy(p, t, c, 0)
  BY DEF Fork
<1>2. /\ at[p][t] = "forked" /\ Unborn(c)
      /\ mutex' = [mutex EXCEPT ![p] = Free, ![c] = Free]
      /\ at' = [at EXCEPT ![p][t] = "python", ![c][t] = "python"]
      /\ gen' = [gen EXCEPT ![c] = ResetProcessState(gen[p], c)]
      /\ serial' = [serial EXCEPT ![c] = 0]
      /\ call' = call /\ log' = log /\ fills' = fills
  BY <1>1 DEF Copy
<1>3. /\ gen \in [Procs -> GeneratorStates]
      /\ at \in [Procs -> [Threads -> Places]]
      /\ mutex \in [Procs -> Threads \cup {Free}]
      /\ \A q \in Procs, u \in Threads :
           mutex[q] = u <=> at[q][u] \in InCriticalSection
      /\ serial \in [Procs -> Nat]
  BY DEF IInv, TypeOK, DataOK, InCriticalSection
<1>4. p # c /\ \A u \in Threads : at[c][u] = "absent"
  BY <1>2 DEF Unborn
<1>5. /\ at' \in [Procs -> [Threads -> Places]]
      /\ \A q \in Procs, u \in Threads :
           at'[q][u] = IF u = t /\ q \in {p, c} THEN "python" ELSE at[q][u]
  <2> DEFINE b == [at EXCEPT ![p][t] = "python"]
  <2>1. /\ b \in [Procs -> [Threads -> Places]]
        /\ \A q \in Procs, u \in Threads :
             b[q][u] = IF u = t /\ q = p THEN "python" ELSE at[q][u]
    BY <1>3 DEF Places
  <2>2. at' = [b EXCEPT ![c][t] = "python"]
    BY <1>2
  <2> HIDE DEF b
  <2>3. QED  BY <2>1, <2>2 DEF Places
<1>6. /\ mutex' \in [Procs -> Threads \cup {Free}]
      /\ \A q \in Procs : mutex'[q] = IF q \in {p, c} THEN Free ELSE mutex[q]
  BY <1>2, <1>3
<1>7. LET h == ResetProcessState(gen[p], c)
      IN  /\ h \in GeneratorStates /\ PoolOK(h) /\ h.pool = Unfilled
          /\ gen' \in [Procs -> GeneratorStates] /\ gen'[c] = h
          /\ \A q \in Procs : q # c => gen'[q] = gen[q]
  <2> DEFINE h == ResetProcessState(gen[p], c)
  <2>1. h \in GeneratorStates /\ PoolOK(h) /\ h.pool = Unfilled
    BY <1>3, ResetType DEF PoolOK
  <2>2. gen' = [gen EXCEPT ![c] = h]
    BY <1>2
  <2> HIDE DEF h
  <2>3. QED  BY <1>3, <2>1, <2>2 DEF h
<1>8. TypeOK'
  <2>1. \A q \in Procs, u \in Threads :
          mutex'[q] = u <=> at'[q][u] \in InCriticalSection
    <3>1. \A u \in Threads : mutex[p] = u <=> u = t
      BY <1>2, <1>3 DEF InCriticalSection
    <3>2. \A u \in Threads : u # t => at[p][u] \notin InCriticalSection
      BY <1>3, <3>1
    <3>3. QED  BY <1>3, <1>4, <1>5, <1>6, <3>2 DEF InCriticalSection
  <2>2. QED  BY <1>5, <1>6, <1>7, <2>1 DEF TypeOK, InCriticalSection
<1>9. DataOK'
  BY <1>2 DEF IInv, DataOK
<1>10. PoolInv'
  <2>1. PoolOK(gen'[c]) /\ gen'[c].pool = 0
    BY <1>7 DEF Unfilled
  <2>2. \A q \in Procs : q # c => PoolOK(gen'[q]) /\ gen'[q].pool <= fills
    BY <1>7 DEF IInv, PoolInv
  <2>3. fills \in Nat /\ fills' = fills
    BY <1>2 DEF IInv, DataOK
  <2>4. QED  BY <2>1, <2>2, <2>3 DEF PoolInv
<1>11. LogInv'
  <2>1. log[c] = <<>>
    BY <1>2 DEF IInv, LogInv
  <2>2. Len(log[c]) = 0 /\ Increasing(log[c])
    BY <2>1, EmptySeq DEF IInv, LogInv
  <2>3. \A q \in Procs : ~Unborn(q) => ~Unborn(q)'
    BY <1>5 DEF Unborn
  <2>4. ASSUME NEW q \in Procs
        PROVE  /\ serial'[q] = Len(log[q]) /\ Increasing(log[q])
               /\ log[q] # <<>> =>
                    /\ ~Unborn(q)'
                    /\ gen'[q].process_id = q /\ gen'[q].initialized
                    /\ log[q][Len(log[q])] = <<gen'[q].last_ms, gen'[q].counter>>
    <3>1. CASE q = c
      BY <1>2, <1>3, <2>1, <2>2, <3>1
    <3>2. CASE q # c
      <4>1. serial'[q] = serial[q] /\ gen'[q] = gen[q]
        BY <1>2, <1>3, <1>7, <3>2
      <4>2. QED  BY <2>3, <4>1 DEF IInv, LogInv
    <3>3. QED  BY <3>1, <3>2
  <2>5. QED  BY <1>2, <2>4 DEF LogInv
<1>12. BatchInv'
  <2>1. \A q \in Procs, u \in Threads :
          at'[q][u] \in {"detached", "locked"} => at'[q][u] = at[q][u]
    BY <1>5
  <2>2. BatchInv
    BY DEF IInv
  <2>3. ASSUME NEW q \in Procs, NEW u \in Threads
        PROVE  /\ at'[q][u] = "detached" => call[q][u].items = <<>>
               /\ at'[q][u] = "locked" =>
                    /\ call[q][u].first <= Len(log[q])
                    /\ call[q][u].items = SubSeq(log[q], call[q][u].first + 1, Len(log[q]))
    BY <2>1, <2>2 DEF BatchInv
  <2>4. QED  BY <1>2, <2>3 DEF BatchInv
<1>13. IInv'
  BY <1>8, <1>9, <1>10, <1>11, <1>12 DEF IInv
<1>14. \A q \in Procs, u \in Threads : AbstractCall(q, u)' = AbstractCall(q, u)
  BY ZenonT(30), <1>2, <1>4, <1>5 DEF AbstractCall
<1>15. ASSUME NEW q \in Procs
       PROVE  Finished(q)' = Finished(q)
  <2>1. \A u \in Threads : at'[q][u] = "locked" <=> at[q][u] = "locked"
    BY <1>2, <1>4, <1>5
  <2>2. CASE \E u \in Threads : at[q][u] = "locked"
    <3>1. PICK u \in Threads : at[q][u] = "locked"
      BY <2>2
    <3>2. Finished(q) = SubSeq(log[q], 1, call[q][u].first)
      BY <3>1, FinishedLog DEF LogIsFinished
    <3>3. Finished(q)' = SubSeq(log'[q], 1, call'[q][u].first)
      BY <1>13, <2>1, <3>1, FinishedLogNext DEF LogIsFinished
    <3>4. QED  BY <1>2, <3>2, <3>3
  <2>3. CASE ~\E u \in Threads : at[q][u] = "locked"
    BY <1>2, <2>1, <2>3 DEF Finished
  <2>4. QED  BY <2>2, <2>3
<1>16. QED  BY <1>13, <1>14, <1>15, Unseen

(***************************************************************************)
(* One pass of the loop.                                                   *)
(***************************************************************************)
LEMMA PassOutcome ==
  ASSUME IInv, NEW p \in Procs, NEW ms \in Readings, NEW e \in Entropy(fills + 1),
         NEW k \in Calls
  PROVE  LET o == Drawn(k, gen[p], ms, p, e)
         IN  /\ o.gen \in GeneratorStates /\ PoolOK(o.gen)
             /\ o.gen.pool \in {gen[p].pool, fills + 1, Unfilled}
             /\ o.status \in {"ok", "entropy", "exhausted"}
             /\ Counts(k, o) =>
                  /\ o.position \in Positions
                  /\ o.position = <<o.gen.last_ms, o.gen.counter>>
                  /\ o.gen.initialized /\ o.gen.process_id = p
                  /\ log[p] # <<>> => Earlier(log[p][Len(log[p])], o.position)
             /\ ~Counts(k, o) => (log[p] # <<>> => SamePlace(gen[p], o.gen))
<1> USE CoreAssumption, FtAssumption
<1> DEFINE o == Drawn(k, gen[p], ms, p, e)
           g == EnsureCurrentProcess(gen[p], p)
           n == fills + 1
           live == k.op = "live"
<1>1. /\ gen[p] \in GeneratorStates /\ PoolOK(gen[p]) /\ gen[p].pool <= fills
      /\ fills \in Nat
      /\ log[p] # <<>> => /\ gen[p].process_id = p /\ gen[p].initialized
                          /\ log[p][Len(log[p])] = <<gen[p].last_ms, gen[p].counter>>
  BY DEF IInv, TypeOK, PoolInv, DataOK, LogInv
<1>2. /\ n \in Nat \ {Unfilled} /\ gen[p].pool < n /\ p \in Nat /\ ms \in Nat
      /\ gen[p].last_ms \in Nat /\ gen[p].counter \in Nat
  BY SMTT(20), <1>1 DEF GeneratorStates, Timestamps, Counters, Unfilled
<1>3. log[p] # <<>> => g = gen[p]
  BY <1>1 DEF EnsureCurrentProcess
<1>4. CASE live
  <2>1. o = GenerateForTimestamp(gen[p], ms, p, e)
    BY <1>4 DEF Drawn
  <2>2. LiveOutcome(gen[p], n, ms, p, GenerateForTimestamp(gen[p], ms, p, e))
    <3> HIDE DEF n
    <3>1. e \in Entropy(n)
      BY DEF n
    <3>2. QED  BY <1>1, <1>2, <3>1, LiveOutcomes
  <2> HIDE DEF o, n, g
  <2>3. LiveOutcome(gen[p], n, ms, p, o)
    BY <2>1, <2>2
  <2>4. /\ o.gen \in GeneratorStates /\ o.gen.process_id = p
        /\ Consumes(gen[p], n, o.words, o.gen)
        /\ o.status \in {"ok", "entropy", "exhausted"}
    BY <2>3 DEF LiveOutcome
  <2>5. PoolOK(o.gen) /\ o.gen.pool \in {gen[p].pool, n, Unfilled}
    BY <2>4 DEF Consumes
  <2>6. CASE o.status = "ok"
    <3>1. /\ o.position = <<o.gen.last_ms, o.gen.counter>> /\ o.gen.initialized
          /\ g.initialized => \/ o.gen.last_ms > g.last_ms
                              \/ o.gen.last_ms = g.last_ms /\ o.gen.counter = g.counter + 1
                              \/ o.gen.last_ms = g.last_ms + 1
      BY <2>3, <2>6 DEF LiveOutcome, g
    <3>2. o.position \in Positions
      BY <2>4, <3>1 DEF GeneratorStates, Positions
    <3>3. ASSUME log[p] # <<>>
          PROVE  Earlier(log[p][Len(log[p])], o.position)
      <4>1. /\ log[p][Len(log[p])] = <<gen[p].last_ms, gen[p].counter>>
            /\ \/ o.gen.last_ms > gen[p].last_ms
               \/ /\ o.gen.last_ms = gen[p].last_ms
                  /\ o.gen.counter = gen[p].counter + 1
               \/ o.gen.last_ms = gen[p].last_ms + 1
        BY <1>1, <1>3, <3>1, <3>3
      <4>2. QED  BY SMTT(20), <1>2, <3>1, <4>1 DEF Earlier
    <3>4. QED  BY <1>4, <2>4, <2>5, <2>6, <3>1, <3>2, <3>3 DEF o, n, Counts
  <2>7. CASE o.status # "ok"
    <3>1. o.gen = g \/ SamePlace(g, o.gen)
      BY <2>3, <2>7 DEF LiveOutcome, g
    <3>2. log[p] # <<>> => SamePlace(gen[p], o.gen)
      BY <1>3, <3>1 DEF SamePlace
    <3>3. QED  BY <1>4, <2>4, <2>5, <2>7, <3>2 DEF o, n, Counts
  <2>8. QED  BY <2>6, <2>7
<1>5. CASE ~live
  <2>1. o = GenerateAt(gen[p], ms, p, e)
    BY <1>5 DEF Drawn
  <2>2. HistoricalOutcome(gen[p], n, ms, p, GenerateAt(gen[p], ms, p, e))
    <3> HIDE DEF n
    <3>1. e \in Entropy(n)
      BY DEF n
    <3>2. QED  BY <1>1, <1>2, <3>1, HistoricalOutcomes
  <2> HIDE DEF o, n, g
  <2>3. HistoricalOutcome(gen[p], n, ms, p, o)
    BY <2>1, <2>2
  <2>4. /\ o.gen \in GeneratorStates
        /\ Consumes(gen[p], n, o.words, o.gen)
        /\ o.status \in {"ok", "entropy", "exhausted"}
        /\ o.gen = gen[p] \/ SamePlace(g, o.gen)
    BY <2>3 DEF HistoricalOutcome, g
  <2>5. PoolOK(o.gen) /\ o.gen.pool \in {gen[p].pool, n, Unfilled}
    BY <2>4 DEF Consumes
  <2>6. log[p] # <<>> => SamePlace(gen[p], o.gen)
    BY <1>3, <2>4 DEF SamePlace
  <2>7. QED  BY <1>5, <2>4, <2>5, <2>6 DEF o, n, Counts
<1>6. QED  BY <1>4, <1>5

LEMMA GenerateStep ==
  ASSUME IInv, NEW p \in Procs, NEW t \in Threads, Generate(p, t)
  PROVE  IInv' /\ AbsLog' = AbsLog /\ AbsCall' = AbsCall
<1> USE CoreAssumption, FtAssumption
<1>1. PICK ms \in Readings, e \in Entropy(fills + 1) :
        LET k == call[p][t]
            o == Drawn(k, gen[p], ms, p, e)
        IN  /\ gen' = [gen EXCEPT ![p] = o.gen]
            /\ fills' = IF o.gen.pool > fills THEN o.gen.pool ELSE fills
            /\ call' = [call EXCEPT ![p][t] = AfterPass(k, o)]
            /\ serial' = [serial EXCEPT ![p] = IF Counts(k, o) THEN @ + 1 ELSE @]
            /\ log' = [log EXCEPT ![p] = IF Counts(k, o) THEN Append(@, o.position) ELSE @]
  BY DEF Generate
<1> DEFINE k == call[p][t]
           o == Drawn(k, gen[p], ms, p, e)
           counts == Counts(k, o)
           h == o.gen
           s == IF counts THEN Append(log[p], o.position) ELSE log[p]
           items == IF counts THEN Append(k.items, o.position) ELSE k.items
           c == AfterPass(k, o)
<1>2. /\ h \in GeneratorStates /\ PoolOK(h)
      /\ h.pool \in {gen[p].pool, fills + 1, Unfilled}
      /\ o.status \in {"ok", "entropy", "exhausted"}
      /\ counts =>
           /\ o.position \in Positions
           /\ o.position = <<h.last_ms, h.counter>>
           /\ h.initialized /\ h.process_id = p
           /\ log[p] # <<>> => Earlier(log[p][Len(log[p])], o.position)
      /\ ~counts => (log[p] # <<>> => SamePlace(gen[p], h))
  <2>1. k \in Calls
    BY DEF IInv, DataOK
  <2> HIDE DEF k
  <2>2. QED  BY <2>1, PassOutcome
<1>3. /\ at[p][t] = "locked" /\ mutex' = mutex /\ at' = at
      /\ gen' = [gen EXCEPT ![p] = h]
      /\ fills' = IF h.pool > fills THEN h.pool ELSE fills
      /\ call' = [call EXCEPT ![p][t] = c]
      /\ serial' = [serial EXCEPT ![p] = IF counts THEN serial[p] + 1 ELSE serial[p]]
      /\ log' = [log EXCEPT ![p] = s]
  BY <1>1 DEF Generate
<1>4. /\ gen \in [Procs -> GeneratorStates]
      /\ call \in [Procs -> [Threads -> Calls]]
      /\ serial \in [Procs -> Nat] /\ log \in [Procs -> Seq(Positions)]
      /\ fills \in Nat
      /\ k \in Calls /\ log[p] \in Seq(Positions) /\ Len(log[p]) \in Nat
  BY LenProperties DEF IInv, TypeOK, DataOK
<1> HIDE DEF o, counts
<1>5. /\ s \in Seq(Positions) /\ Increasing(s)
      /\ Len(s) = IF counts THEN Len(log[p]) + 1 ELSE Len(log[p])
      /\ counts => s # <<>> /\ s[Len(s)] = <<h.last_ms, h.counter>>
  <2>1. CASE counts
    <3>1. s = Append(log[p], o.position) /\ o.position \in Positions
      BY <1>2, <2>1
    <3> HIDE DEF s
    <3>2. /\ s \in Seq(Positions) /\ s # <<>> /\ Len(s) = Len(log[p]) + 1
          /\ s[Len(log[p]) + 1] = o.position
      BY <1>4, <3>1, AppendProperties
    <3>3. Increasing(s)
      BY <1>2, <1>4, <2>1, <3>1, AppendIncreasing DEF IInv, LogInv
    <3>4. QED  BY <1>2, <2>1, <3>2, <3>3
  <2>2. CASE ~counts
    BY <1>4, <2>2 DEF IInv, LogInv
  <2>3. QED  BY <2>1, <2>2
<1>6. /\ k.first \in Nat /\ k.first <= Len(log[p]) /\ k.first <= Len(s)
      /\ items = SubSeq(s, k.first + 1, Len(s))
      /\ SubSeq(s, 1, k.first) = SubSeq(log[p], 1, k.first)
  <2>1. /\ k.first \in Nat /\ k.first <= Len(log[p])
        /\ k.items = SubSeq(log[p], k.first + 1, Len(log[p]))
    BY <1>3, <1>4 DEF IInv, BatchInv, Calls
  <2>2. CASE counts
    <3>1. k.first \in 0 .. Len(log[p]) /\ o.position \in Positions
      BY <1>2, <1>4, <2>1, <2>2
    <3>2. /\ SubSeq(Append(log[p], o.position), 1, k.first) = SubSeq(log[p], 1, k.first)
          /\ SubSeq(Append(log[p], o.position), k.first + 1, Len(log[p]) + 1)
               = Append(k.items, o.position)
      <4> DEFINE l == log[p]  x == o.position  f == k.first
      <4>1. f \in 0 .. Len(l) /\ x \in Positions /\ l \in Seq(Positions)
        BY <1>4, <3>1
      <4>2. k.items = SubSeq(l, f + 1, Len(l))
        BY <2>1
      <4> HIDE DEF l, x, f
      <4>3. /\ SubSeq(Append(l, x), 1, f) = SubSeq(l, 1, f)
            /\ SubSeq(Append(l, x), f + 1, Len(l) + 1) = Append(k.items, x)
        BY ZenonT(30), <4>1, <4>2, AppendBehind
      <4>4. QED  BY <4>3 DEF l, x, f
    <3>3. /\ s = Append(log[p], o.position) /\ items = Append(k.items, o.position)
          /\ Len(s) = Len(log[p]) + 1
      BY <1>5, <2>2
    <3> HIDE DEF s, items, k
    <3>4. k.first <= Len(s)
      BY <1>4, <2>1, <3>3
    <3>5. /\ items = SubSeq(s, k.first + 1, Len(s))
          /\ SubSeq(s, 1, k.first) = SubSeq(log[p], 1, k.first)
      BY <3>2, <3>3
    <3>6. QED  BY <2>1, <3>4, <3>5
  <2>3. CASE ~counts
    <3>1. s = log[p] /\ items = k.items
      BY <2>3
    <3> HIDE DEF s, items, k
    <3>2. QED  BY <2>1, <3>1
  <2>4. QED  BY <2>2, <2>3
<1>7. c \in Calls /\ c.first = k.first /\ c.items = items
  <2> DEFINE made == IF o.status = "ok" THEN k.made + 1 ELSE k.made
  <2>1. made \in Nat /\ items \in Seq(Positions)
    <3>1. k.made \in Nat /\ k.items \in Seq(Positions)
      BY <1>4 DEF Calls
    <3>2. made \in Nat
      BY <3>1
    <3>3. items \in Seq(Positions)
      BY <1>2, <3>1, AppendProperties
    <3>4. QED  BY <3>2, <3>3
  <2>2. c = [k EXCEPT !.status = o.status, !.made = made, !.items = items]
    BY <1>4 DEF AfterPass, Calls, counts
  <2> HIDE DEF c, made, items, k
  <2>3. QED  BY <1>2, <1>4, <2>1, <2>2 DEF Calls
<1> HIDE DEF c, items, s, h, k
<1>8. /\ call' \in [Procs -> [Threads -> Calls]] /\ call'[p][t] = c
      /\ \A q \in Procs, u \in Threads : q # p \/ u # t => call'[q][u] = call[q][u]
  BY <1>3, <1>4, <1>7
<1>9. /\ gen' \in [Procs -> GeneratorStates] /\ gen'[p] = h
      /\ \A q \in Procs : q # p => gen'[q] = gen[q]
      /\ log' \in [Procs -> Seq(Positions)] /\ log'[p] = s
      /\ \A q \in Procs : q # p => log'[q] = log[q] /\ serial'[q] = serial[q]
      /\ serial' \in [Procs -> Nat]
      /\ serial'[p] = IF counts THEN serial[p] + 1 ELSE serial[p]
  <2>1. /\ gen' \in [Procs -> GeneratorStates] /\ gen'[p] = h
        /\ \A q \in Procs : q # p => gen'[q] = gen[q]
    BY <1>2, <1>3, <1>4
  <2>2. /\ log' \in [Procs -> Seq(Positions)] /\ log'[p] = s
        /\ \A q \in Procs : q # p => log'[q] = log[q]
    BY <1>2, <1>3, <1>4, <1>5
  <2>3. /\ serial' \in [Procs -> Nat]
        /\ \A q \in Procs : q # p => serial'[q] = serial[q]
        /\ serial'[p] = IF counts THEN serial[p] + 1 ELSE serial[p]
    <3> DEFINE n == IF counts THEN serial[p] + 1 ELSE serial[p]
    <3>1. n \in Nat /\ serial \in [Procs -> Nat]
      BY <1>4
    <3> HIDE DEF n
    <3>2. serial' = [serial EXCEPT ![p] = n]
      BY <1>3 DEF n
    <3>3. /\ serial' \in [Procs -> Nat] /\ serial'[p] = n
          /\ \A q \in Procs : q # p => serial'[q] = serial[q]
      BY <3>1, <3>2
    <3>4. QED  BY <3>3 DEF n
  <2>4. QED  BY <2>1, <2>2, <2>3
<1>10. TypeOK'
  BY <1>3, <1>9 DEF IInv, TypeOK
<1>11. PoolInv' /\ fills' \in Nat
  <2>1. /\ \A q \in Procs : PoolOK(gen[q]) /\ gen[q].pool <= fills /\ gen[q].pool \in Nat
        /\ h.pool \in Nat
    BY <1>2, <1>4 DEF IInv, PoolInv, GeneratorStates
  <2>2. fills' \in Nat /\ fills <= fills' /\ h.pool <= fills'
    BY <1>3, <1>4, <2>1
  <2>3. ASSUME NEW q \in Procs
        PROVE  PoolOK(gen'[q]) /\ gen'[q].pool <= fills'
    <3>1. CASE q = p
      BY <1>2, <1>9, <2>2, <3>1
    <3>2. CASE q # p
      BY <1>4, <1>9, <2>1, <2>2, <3>2
    <3>3. QED  BY <3>1, <3>2
  <2>4. QED  BY <2>2, <2>3 DEF PoolInv
<1>12. DataOK'
  BY <1>8, <1>9, <1>11 DEF DataOK
<1>13. LogInv'
  <2>1. /\ serial[p] = Len(log[p]) /\ ~Unborn(p)'
        /\ log[p] # <<>> => /\ gen[p].process_id = p /\ gen[p].initialized
                            /\ log[p][Len(log[p])] = <<gen[p].last_ms, gen[p].counter>>
    BY <1>3 DEF IInv, LogInv, Unborn
  <2>2. /\ serial'[p] = Len(s) /\ Increasing(s)
        /\ s # <<>> => /\ h.process_id = p /\ h.initialized
                       /\ s[Len(s)] = <<h.last_ms, h.counter>>
    <3>1. CASE counts
      BY <1>2, <1>5, <1>9, <2>1, <3>1
    <3>2. CASE ~counts
      <4>1. s = log[p]
        BY <3>2 DEF s
      <4>2. QED  BY <1>2, <1>5, <1>9, <2>1, <3>2, <4>1 DEF SamePlace
    <3>3. QED  BY <3>1, <3>2
  <2>3. \A q \in Procs : Unborn(q)' <=> Unborn(q)
    BY <1>3 DEF Unborn
  <2>4. ASSUME NEW q \in Procs
        PROVE  /\ serial'[q] = Len(log'[q]) /\ Increasing(log'[q])
               /\ log'[q] # <<>> =>
                    /\ ~Unborn(q)'
                    /\ gen'[q].process_id = q /\ gen'[q].initialized
                    /\ log'[q][Len(log'[q])] = <<gen'[q].last_ms, gen'[q].counter>>
    <3>1. CASE q = p
      BY <1>9, <2>1, <2>2, <3>1
    <3>2. CASE q # p
      <4>1. serial'[q] = serial[q] /\ gen'[q] = gen[q] /\ log'[q] = log[q]
        BY <1>9, <3>2
      <4>2. QED  BY <2>3, <4>1 DEF IInv, LogInv
    <3>3. QED  BY <3>1, <3>2
  <2>5. QED  BY <2>4 DEF LogInv
\* Nobody else of the process is in the critical section.
<1>14. \A u \in Threads : u # t => at[p][u] # "locked"
  BY <1>3 DEF IInv, TypeOK
<1>15. BatchInv'
  <2>1. ASSUME NEW q \in Procs, NEW u \in Threads
        PROVE  /\ at'[q][u] = "detached" => call'[q][u].items = <<>>
               /\ at'[q][u] = "locked" =>
                    /\ call'[q][u].first <= Len(log'[q])
                    /\ call'[q][u].items = SubSeq(log'[q], call'[q][u].first + 1, Len(log'[q]))
    <3>1. CASE q = p /\ u = t
      BY ZenonT(30), <1>3, <1>6, <1>7, <1>8, <1>9, <3>1
    <3>2. CASE q = p /\ u # t
      BY <1>3, <1>8, <1>14, <3>2 DEF IInv, BatchInv
    <3>3. CASE q # p
      BY <1>3, <1>8, <1>9, <3>3 DEF IInv, BatchInv
    <3>4. QED  BY <3>1, <3>2, <3>3
  <2>2. QED  BY <2>1 DEF BatchInv
<1>16. IInv'
  BY <1>10, <1>11, <1>12, <1>13, <1>15 DEF IInv
<1>17. \A q \in Procs, u \in Threads : AbstractCall(q, u)' = AbstractCall(q, u)
  <2>1. ASSUME NEW q \in Procs, NEW u \in Threads
        PROVE  AbstractCall(q, u)' = AbstractCall(q, u)
    <3>1. CASE q = p /\ u = t
      BY <1>3, <3>1 DEF AbstractCall
    <3>2. CASE q # p \/ u # t
      BY <1>3, <1>8, <3>2 DEF AbstractCall
    <3>3. QED  BY <3>1, <3>2
  <2>2. QED  BY <2>1
<1>18. ASSUME NEW q \in Procs
       PROVE  Finished(q)' = Finished(q)
  <2>1. CASE q = p
    <3>1. Finished(p) = SubSeq(log[p], 1, call[p][t].first)
      BY <1>3, FinishedLog DEF LogIsFinished
    <3>2. Finished(p)' = SubSeq(log'[p], 1, call'[p][t].first)
      BY <1>3, <1>16, FinishedLogNext DEF LogIsFinished
    <3>3. QED  BY <1>6, <1>7, <1>8, <1>9, <2>1, <3>1, <3>2 DEF k
  <2>2. CASE q # p
    <3>1. /\ call'[q] = call[q] /\ log'[q] = log[q]
          /\ at'[q] = at[q] /\ mutex'[q] = mutex[q]
      BY <1>3, <1>4, <1>9, <2>2
    <3>2. QED  BY <3>1 DEF Finished
  <2>3. QED  BY <2>1, <2>2
<1>19. QED  BY <1>16, <1>17, <1>18, Unseen

(***************************************************************************)
(* The theorems.                                                           *)
(***************************************************************************)
\* Every step is one of AtomicBatches, or none.
LEMMA Step ==
  ASSUME IInv, [Next]_vars
  PROVE  IInv' /\ [Atomic!Next]_(Atomic!absVars)
<1>1. AbsLog' = AbsLog /\ AbsCall' = AbsCall => UNCHANGED Atomic!absVars
  BY DEF AbsLog, AbsCall, Atomic!absVars
<1>2. CASE UNCHANGED vars
  <2>1. /\ gen' = gen /\ serial' = serial /\ mutex' = mutex /\ at' = at
        /\ call' = call /\ log' = log /\ fills' = fills
    BY <1>2 DEF vars
  <2>2. IInv'
    BY <2>1 DEF IInv, TypeOK, DataOK, PoolInv, LogInv, BatchInv, Unborn
  <2>3. AbsLog' = AbsLog /\ AbsCall' = AbsCall
    BY <2>1 DEF AbsLog, AbsCall, Finished, AbstractCall
  <2>4. QED  BY <1>1, <2>2, <2>3
<1>3. CASE Next
  <2>1. PICK p \in Procs, t \in Threads :
          Begin(p, t) \/ BeginFork(p, t) \/ GoesOn(p, t)
    BY <1>3 DEF Next
  <2>2. Atomic!Begin(p, t) \/ Atomic!Take(p, t) \/ Atomic!Return(p, t) =>
          Atomic!Next
    BY DEF Atomic!Next
  <2>3. CASE Begin(p, t)
    BY <2>2, <2>3, BeginStep
  <2>4. CASE Lock(p, t)
    BY <1>1, <2>4, LockStep
  <2>5. CASE Generate(p, t)
    BY <1>1, <2>5, GenerateStep
  <2>6. CASE Unlock(p, t)
    BY <2>2, <2>6, UnlockStep
  <2>7. CASE Return(p, t)
    BY <2>2, <2>7, ReturnStep
  <2>8. CASE Fork(p, t)
    BY <1>1, <2>8, ForkStep
  <2>9. CASE BeginFork(p, t) \/ Prepare(p, t) \/ ForkFails(p, t)
    BY <1>1, <2>9, OutsideStep
  <2>10. QED
    BY <2>1, <2>3, <2>4, <2>5, <2>6, <2>7, <2>8, <2>9 DEF GoesOn
<1>4. QED  BY <1>2, <1>3

LEMMA Invariance == Spec => []IInv
<1>1. IInv /\ [Next]_vars => IInv'
  BY Step
<1>2. QED  BY <1>1, InitIInv, PTL DEF Spec

\* The mutex of a process is owned by the one thread of it that is inside its
\* critical section, and by none when there is no such thread.
THEOREM TypeCorrectness == Spec => []TypeOK
<1>1. IInv => TypeOK
  BY DEF IInv
<1>2. QED  BY <1>1, Invariance, PTL

\* No batch overlaps another one, in any process: what threads get is what
\* they would get if each call happened at one moment, and a child's batches
\* are its own (docs/design/free-threading.md, "Ordering contract").
THEOREM Refinement == Spec => BatchesAreAtomic
<1>1. Init => Atomic!Init
  <2> SUFFICES ASSUME Init PROVE Atomic!Init
    OBVIOUS
  <2>1. \A p \in Procs, t \in Threads : at[p][t] \in {"python", "absent"}
    BY DEF Init
  <2>2. \A p \in Procs : Finished(p) = <<>>
    BY <2>1 DEF Init, Finished
  <2>3. \A p \in Procs, t \in Threads : AbstractCall(p, t) = <<"idle">>
    BY <2>1 DEF AbstractCall
  <2>4. QED  BY <2>2, <2>3 DEF Atomic!Init, Atomic!Idle
<1>2. IInv /\ [Next]_vars => [Atomic!Next]_(Atomic!absVars)
  BY Step
<1>3. QED
  BY <1>1, <1>2, Invariance, PTL DEF Spec, BatchesAreAtomic, Atomic!Spec
=============================================================================
