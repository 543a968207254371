------------------------------ MODULE FtRounds ------------------------------
(***************************************************************************)
(* The rounds in which check.py and measure.py let threads call the        *)
(* prototype: concurrent_records collects records for the ordering oracle  *)
(* check_records, timed_round measures, contention collects samples.  The  *)
(* main thread submits one job per thread to an executor, a barrier lets   *)
(* the calls begin together, and the results are collected in turn.        *)
(* Threads may fail to start, barriers and results may time out, and calls *)
(* may raise.                                                              *)
(*                                                                         *)
(* The calls themselves are what AtomicBatches promises of them: a block   *)
(* of consecutive tickets and values, taken in one step within the call.   *)
(***************************************************************************)
EXTENDS Integers, Sequences, SequencesExt, FiniteSetsExt, TLC

CONSTANTS N,          \* threads of a round
          Calls,      \* calls of each thread
          Kinds,      \* the rounds tried, of AllKinds
          Histories,  \* the records made up to test the oracle
          MaxClock    \* bound: ticks of the clock

AllKinds == {"records", "timed", "contention", "control"}

ASSUME RoundsAssumption ==
  /\ N \in Nat \ {0} /\ Calls \in Nat \ {0} /\ MaxClock \in Nat
  /\ Kinds \subseteq AllKinds

Jobs == 1 .. N
Main == 0

VARIABLES kind,      \* which function runs; "control" only applies the oracle
          main,      \* the main thread: what it does next
          collected, \* how many results it has
          region,    \* its readings of the clock before and after the calls
          threads,   \* how many threads the executor has started
          job,       \* where each job is
          barrier,   \* threading.Barrier: who waits, and its state
          clock,     \* time.perf_counter_ns()
          ticket,    \* the native sequence: blocks handed out so far
          current,   \* of each job: the record of the call in progress
          records    \* of each job: the records of its calls

roundsVars == <<kind, main, collected, region, threads, job, barrier,
          clock, ticket, current, records>>

NoRecord == [ticket |-> 0, values |-> <<>>, start |-> 0, end |-> 0]

RoundsInit ==
  /\ kind \in Kinds
  /\ main = IF kind = "control" THEN "returned" ELSE "submit"
  /\ collected = 0
  /\ region = [start |-> 0, stop |-> 0]
  /\ threads = 0
  /\ job = [j \in Jobs |-> "none"]
  /\ barrier = [waiting |-> {}, state |-> "filling"]
  /\ clock = 0
  /\ ticket = 0
  /\ current = [j \in Jobs |-> NoRecord]
  /\ IF kind = "control" THEN records \in Histories
                         ELSE records = [j \in Jobs |-> <<>>]

Ended == {j \in Jobs : job[j] \in {"finished", "raised"}}
Submitted == {j \in Jobs : job[j] # "none"}
Running == {j \in Jobs : job[j] \in {"waiting", "between", "started", "answered"}}

\* Time passes while the round lasts.
Tick ==
  /\ main \notin {"returned", "raised"}
  /\ clock < MaxClock
  /\ clock' = clock + 1
  /\ UNCHANGED <<kind, main, collected, region, threads, job, barrier, ticket, current, records>>

(***************************************************************************)
(* threading.Barrier.                                                      *)
(***************************************************************************)
\* Slip: the thread that measures is not counted.
PartiesWithoutMain == N

Parties == IF kind = "timed" THEN N + 1 ELSE N

Arrive(p) ==
  barrier' = [waiting |-> barrier.waiting \cup {p},
              state |-> IF barrier.state = "filling"
                           /\ Cardinality(barrier.waiting \cup {p}) = Parties
                        THEN "released" ELSE barrier.state]

\* Slip: barriers without a timeout.
NoTimeout(p) == FALSE

MayTimeOut(p) == p \in barrier.waiting /\ barrier.state = "filling"

BarrierTimesOut ==
  /\ \E p \in {Main} \cup Jobs : MayTimeOut(p)
  /\ barrier' = [barrier EXCEPT !.state = "broken"]
  /\ UNCHANGED <<kind, main, collected, region, threads, job, clock, ticket, current, records>>

(***************************************************************************)
(* The main thread.                                                        *)
(***************************************************************************)
AfterSubmitting == IF kind = "timed" THEN "read_start" ELSE "collect"

\* The next job is queued, and a thread is started for it unless one is idle.
Submit ==
  /\ main = "submit"
  /\ LET j == Cardinality(Submitted) + 1
     IN  /\ job' = [job EXCEPT ![j] = "queued"]
         /\ \/ /\ threads' = Max({threads, Cardinality(Submitted \ Ended) + 1})
               /\ main' = IF j = N THEN AfterSubmitting ELSE main
            \/ /\ main' = "fail"      \* RuntimeError: can't start new thread
               /\ UNCHANGED threads
  /\ UNCHANGED <<kind, collected, region, barrier, clock, ticket, current, records>>

ReadStart ==
  /\ main = "read_start"
  /\ region' = [region EXCEPT !.start = clock]
  /\ main' = "arrive"
  /\ UNCHANGED <<kind, collected, threads, job, barrier, clock, ticket, current, records>>

MainArrives ==
  /\ main = "arrive"
  /\ Arrive(Main)
  /\ main' = "wait"
  /\ UNCHANGED <<kind, collected, region, threads, job, clock, ticket, current, records>>

MainLeaves ==
  /\ main = "wait" /\ barrier.state # "filling"
  /\ main' = IF barrier.state = "released" THEN "collect" ELSE "fail"
  /\ UNCHANGED <<kind, collected, region, threads, job, barrier, clock, ticket, current, records>>

AfterCollecting == IF kind = "timed" THEN "read_stop" ELSE "succeed"

\* The result of the next job, which re-raises what the job has raised.
Collect ==
  /\ main = "collect" /\ job[collected + 1] \in {"finished", "raised"}
  /\ IF job[collected + 1] = "raised"
     THEN main' = "fail" /\ UNCHANGED collected
     ELSE /\ collected' = collected + 1
          /\ main' = IF collected' = N THEN AfterCollecting ELSE main
  /\ UNCHANGED <<kind, region, threads, job, barrier, clock, ticket, current, records>>

ResultTimesOut ==
  /\ main = "collect" /\ job[collected + 1] \notin {"finished", "raised"}
  /\ main' = "fail"
  /\ UNCHANGED <<kind, collected, region, threads, job, barrier, clock, ticket, current, records>>

ReadStop ==
  /\ main = "read_stop"
  /\ region' = [region EXCEPT !.stop = clock]
  /\ main' = "succeed"
  /\ UNCHANGED <<kind, collected, threads, job, barrier, clock, ticket, current, records>>

\* Leaving the with statement waits until the threads have emptied the queue;
\* with no thread there is nobody to wait for.
Shutdown ==
  /\ main \in {"succeed", "fail"}
  /\ threads = 0 \/ Submitted = Ended
  /\ main' = IF main = "succeed" THEN "returned" ELSE "raised"
  /\ UNCHANGED <<kind, collected, region, threads, job, barrier, clock, ticket, current, records>>

MainStep ==
  \/ Submit \/ ReadStart \/ MainArrives \/ MainLeaves
  \/ Collect \/ ReadStop \/ Shutdown

(***************************************************************************)
(* The jobs.                                                               *)
(***************************************************************************)
\* A thread without a job takes it from the queue and comes to the barrier.
JobArrives(j) ==
  /\ job[j] = "queued" /\ Cardinality(Running) < threads
  /\ \A i \in 1 .. j - 1 : job[i] # "queued"
  /\ Arrive(j)
  /\ job' = [job EXCEPT ![j] = "waiting"]
  /\ UNCHANGED <<kind, main, collected, region, threads, clock, ticket, current, records>>

JobLeaves(j) ==
  /\ job[j] = "waiting" /\ barrier.state # "filling"
  /\ job' = [job EXCEPT ![j] = IF barrier.state = "released" THEN "between" ELSE "raised"]
  /\ UNCHANGED <<kind, main, collected, region, threads, barrier, clock, ticket, current, records>>

\* In concurrent_records single calls and batches take turns.
Count(j) == IF kind = "records" /\ Len(records[j]) % 2 = 1 THEN 2 ELSE 1

\* Slip: one call too many.
StartOnceMore(j) ==
  /\ job[j] = "between" /\ Len(records[j]) <= Calls
  /\ current' = [current EXCEPT ![j] = [NoRecord EXCEPT !.start = clock]]
  /\ job' = [job EXCEPT ![j] = "started"]
  /\ UNCHANGED <<kind, main, collected, region, threads, barrier, clock, ticket, records>>

\* Only concurrent_records reads the clock around a call; elsewhere the record
\* tells when the call was, for the properties.
StartCall(j) ==
  /\ job[j] = "between" /\ Len(records[j]) < Calls
  /\ current' = [current EXCEPT ![j] = [NoRecord EXCEPT !.start = clock]]
  /\ job' = [job EXCEPT ![j] = "started"]
  /\ UNCHANGED <<kind, main, collected, region, threads, barrier, clock, ticket, records>>

\* module.generate(count, ..., True)
Generate(j) ==
  /\ job[j] = "started"
  /\ \/ /\ ticket' = ticket + Count(j)
        /\ current' = [current EXCEPT ![j].ticket = ticket,
                                      ![j].values = [i \in 1 .. Count(j) |-> ticket + i]]
        /\ job' = [job EXCEPT ![j] = "answered"]
     \/ /\ ticket' \in ticket .. ticket + Count(j)   \* what it has consumed is lost
        /\ job' = [job EXCEPT ![j] = "raised"]
        /\ UNCHANGED current
  /\ UNCHANGED <<kind, main, collected, region, threads, barrier, clock, records>>

Record(j) ==
  /\ job[j] = "answered"
  /\ records' = [records EXCEPT ![j] = Append(@, [current[j] EXCEPT !.end = clock])]
  /\ current' = [current EXCEPT ![j] = NoRecord]
  /\ job' = [job EXCEPT ![j] = "between"]
  /\ UNCHANGED <<kind, main, collected, region, threads, barrier, clock, ticket>>

Finish(j) ==
  /\ job[j] = "between" /\ Len(records[j]) = Calls
  /\ job' = [job EXCEPT ![j] = "finished"]
  /\ UNCHANGED <<kind, main, collected, region, threads, barrier, clock, ticket, current, records>>

JobStep(j) ==
  JobArrives(j) \/ JobLeaves(j) \/ StartCall(j) \/ Generate(j) \/ Record(j) \/ Finish(j)

RoundsNext == MainStep \/ ResultTimesOut \/ BarrierTimesOut \/ Tick \/ \E j \in Jobs : JobStep(j)

\* The scheduler runs every thread, native calls return, and timeouts expire.
RoundsSpec ==
  /\ RoundsInit /\ [][RoundsNext]_roundsVars
  /\ WF_roundsVars(MainStep) /\ WF_roundsVars(BarrierTimesOut)
  /\ \A j \in Jobs : WF_roundsVars(JobStep(j))
-----------------------------------------------------------------------------
(***************************************************************************)
(* check_records, the ordering oracle.  Its last assertion but one, on the *)
(* layout of the values, is Uuid7Layout's.                                 *)
(***************************************************************************)
AllRecords == FlattenSeq(records)

\* Slip: a call that ends when another starts has ended before it.
EndedBeforeOrAt(r, s) == r.end <= s.start

EndedBefore(r, s) == r.end < s.start

\* The records that the cursor passes: those that had ended before.
Passed(ended, seen, record) ==
  {i \in seen.cursor + 1 .. Len(ended) :
     \A k \in seen.cursor + 1 .. i : EndedBefore(ended[k], record)}

\* Slip: the last value of the call passed last replaces the highest.
CompareLast(ended, seen, record) ==
  LET cursor == Max({seen.cursor} \cup Passed(ended, seen, record))
      completed_max == IF cursor = 0 THEN -1 ELSE Last(ended[cursor].values)
  IN  [cursor |-> cursor, completed_max |-> completed_max,
       ok |-> seen.ok /\ Head(record.values) > completed_max]

\* One turn of the loop over the records by start.
Compare(ended, seen, record) ==
  LET passed == Passed(ended, seen, record)
      completed_max == Max({seen.completed_max} \cup {Last(ended[i].values) : i \in passed})
  IN  [cursor |-> Max({seen.cursor} \cup passed), completed_max |-> completed_max,
       ok |-> seen.ok /\ Head(record.values) > completed_max]

CheckRecords(history) ==
  LET ordered == SortSeq(history, LAMBDA r, s : r.ticket < s.ticket)
      all_values == FlattenSeq([i \in DOMAIN ordered |-> ordered[i].values])
      by_start == SortSeq(history, LAMBDA r, s : r.start < s.start)
      ended == SortSeq(history, LAMBDA r, s : r.end < s.end)
  IN  /\ \A i \in 1 .. Len(ordered) - 1 :
           ordered[i + 1].ticket = ordered[i].ticket + Len(ordered[i].values)
      /\ IsInjective(all_values)
      /\ \A i \in 1 .. Len(all_values) - 1 : all_values[i] < all_values[i + 1]
      /\ FoldLeft(LAMBDA seen, r : Compare(ended, seen, r),
                  [cursor |-> 0, completed_max |-> -1, ok |-> TRUE], by_start).ok
-----------------------------------------------------------------------------
(***************************************************************************)
(* Correctness.                                                            *)
(***************************************************************************)
IsRecord(r) ==
  r.ticket \in Nat /\ r.values \in Seq(Nat) /\ r.start \in Nat /\ r.end \in Nat

\* The types of the variables; a thread runs one job at a time and makes no more
\* calls than it is asked for.
RoundsTypeOK ==
  /\ kind \in Kinds
  /\ main \in {"submit", "read_start", "arrive", "wait", "collect", "read_stop",
               "succeed", "fail", "returned", "raised"}
  /\ collected \in 0 .. N
  /\ region \in [start : 0 .. MaxClock, stop : 0 .. MaxClock]
  /\ job \in [Jobs -> {"none", "queued", "waiting", "between", "started",
                       "answered", "finished", "raised"}]
  /\ Cardinality(Running) <= threads /\ threads <= Cardinality(Submitted)
  /\ barrier.waiting \subseteq {Main} \cup Jobs
  /\ barrier.state \in {"filling", "released", "broken"}
  /\ clock \in 0 .. MaxClock /\ ticket \in Nat
  /\ kind # "control" =>
       \A j \in Jobs :
         /\ Len(records[j]) <= Calls
         /\ IsRecord(current[j]) /\ \A i \in DOMAIN records[j] : IsRecord(records[j][i])

\* What the oracle is to decide, the docstring of check_records: there is one
\* order of the calls in which the tickets follow one another without a gap, all
\* values increase, and no call comes before one that had ended when it started.
Linearizable(history) ==
  \E p \in Permutations(DOMAIN history) :
    LET order == [i \in DOMAIN history |-> history[p[i]]]
        values == FlattenSeq([i \in DOMAIN order |-> order[i].values])
    IN  /\ \A i, j \in DOMAIN order :
             /\ j = i + 1 => order[j].ticket = order[i].ticket + Len(order[i].values)
             /\ i < j => ~ (order[j].end < order[i].start)
        /\ \A i, j \in DOMAIN values : i < j => values[i] < values[j]

\* No false alarm: whatever the threads do, however coarse the clock, the records
\* of a round that succeeds pass the oracle, as long as every call takes its
\* block in one step between its readings of the clock.
OracleAcceptsRounds ==
  kind = "records" /\ main = "returned" => CheckRecords(AllRecords)

\* No blind spot: the sorts, the cursor and the running maximum decide exactly
\* what they stand for, on histories made up for the purpose, as
\* test_ordering_oracle_rejects_corrupted_histories does for four of them.
OracleIsExact ==
  kind = "control" => (CheckRecords(AllRecords) <=> Linearizable(AllRecords))

\* The duration that timed_round returns, divided by the number of all calls, is
\* about all of them: each was made, and none outside the time measured.
DurationCoversCalls ==
  kind = "timed" /\ main = "returned" =>
    \A j \in Jobs :
      /\ Len(records[j]) = Calls
      /\ \A i \in 1 .. Calls :
           region.start <= records[j][i].start /\ records[j][i].end <= region.stop

\* A round ends, in a result or an exception, when threads cannot be started and
\* when jobs raise: nobody waits at the barrier for a thread that never comes.
RoundEnds == <>(main \in {"returned", "raised"})
=============================================================================
