-------------------------- MODULE FtScripts_proofs --------------------------
(***************************************************************************)
(* The scripts of the free-threading measurement.  Part 1: what run.py     *)
(* leaves in its output directory is of one run and of one version of the  *)
(* sources, for any interpreters, any number of runs and any edits between *)
(* them.  Part 2: the rounds of calls that check.py and measure.py make    *)
(* yield records that are whole and in order, for any number of threads    *)
(* and calls, and the loop of check_records decides what it stands for.    *)
(* That runs and rounds end is left to TLC, and so is what the sorts and   *)
(* the flattening in check_records compute.                                *)
(***************************************************************************)
EXTENDS FtEvidence, FtRounds, FiniteSetTheorems, WellFoundedInduction, TLAPS

ProbeRecords ==
  [at : {"none", "rounds", "fork", "read", "join", "leaving", "compare",
         "passed", "failed", "killed"},
   worker : {"none", "holding", "returning", "done"},
   forked : {"none", "born", "armed", "exit_0", "exit_2", "alarm"}]

Gils == {"none", "on", "off"}

RowRecords == [so : Versions, hashed : Versions, gil : Gils, expected : Gils]

Checks == [run : 0 .. MaxRuns, status : {"none", "open", "failed", "skipped", "passed"}]

Summaries ==
  [run : 0 .. MaxRuns, contracts : {"none", "passed", "passed_with_skips"},
   benchmarks : {"none", "completed", "not_run"}]

Directories ==
  [so : [Backends -> Versions], build_json : Versions, checks : Checks,
   rows : [Backends -> RowRecords], summary : Summaries]

(***************************************************************************)
(* The invariant.  Each child that has succeeded has left its part of the  *)
(* evidence, and no later child undoes it.                                 *)
(***************************************************************************)
Built == files.build_json = sources /\ \A b \in Backends : files.so[b] = sources

HasPassed(v) == probes[v].at = "passed" /\ probes[v].forked = "exit_0"

Verified ==
  /\ \A v \in Variants : HasPassed(v)
  /\ files.checks.run = run /\ files.checks.status \in {"skipped", "passed"}
  /\ files.checks.status = "passed" => ~ interpreter.old

Measured(b) == files.rows[b].so = sources /\ files.rows[b].hashed = sources

ChildInv ==
  /\ driver = "build" =>
       child \in {"compile_prototype", "compile_baseline", "metadata", "ok", "error"}
  /\ driver \in {"probe_import"} \cup Backends => child \in {"import", "ok", "error"}

BuildInv ==
  /\ driver = "build" /\ child \in {"compile_baseline", "metadata", "ok"} =>
       files.so["prototype"] = sources
  /\ driver = "build" /\ child \in {"metadata", "ok"} => files.so["baseline"] = sources
  /\ driver = "build" /\ child = "ok" => files.build_json = sources
  /\ driver \notin {"idle", "build"} => Built

\* A probe compares, and passes, only once its child has exited 0.
ProbeSound(q) == q.at \in {"compare", "passed"} => q.forked = "exit_0"

CheckInv ==
  /\ \A p \in Variants : ProbeSound(probes[p])
  /\ driver = "check" => files.checks.run = run
  /\ child \in {"active", "report"} /\ ~ failed => HasPassed("joined")
  /\ child = "report" /\ ~ failed => HasPassed("active")
  /\ driver = "check" /\ child = "ok" => Verified
  /\ driver \in {"probe_import", "write"} \cup Backends => Verified

HonestRow(b) ==
  /\ files.rows[b].gil = files.rows[b].expected
  /\ b = "baseline" => files.rows[b].gil # "off"

RowsInv ==
  /\ \A b \in Backends : HonestRow(b)
  /\ driver \in Backends /\ child = "ok" => Measured(driver)
  /\ driver = "prototype" => Measured("baseline")
  /\ driver = "write" /\ benchmark => \A b \in Backends : Measured(b)

\* A summary of the current run was its last step.
SummaryInv ==
  /\ files.summary.run <= run
  /\ files.summary.run = run /\ run # 0 =>
       /\ driver = "idle" /\ Built /\ Verified
       /\ files.summary.contracts = "passed" => ~ interpreter.old
       /\ files.summary.benchmarks = "completed" => \A b \in Backends : Measured(b)

IInv ==
  /\ TypeOK /\ files \in Directories
  /\ ChildInv /\ BuildInv /\ CheckInv /\ RowsInv /\ SummaryInv

LEMMA Bounds ==
  /\ MaxRuns \in Nat /\ MaxSources \in Nat \ {0} /\ 0 \in Versions
  /\ \A v \in Versions : v \in Nat
BY EvidenceAssumption DEF Versions

LEMMA InitInv == Init => IInv
<1> SUFFICES ASSUME Init PROVE IInv
  OBVIOUS
<1>1. /\ 0 \in Versions /\ 1 \in Versions /\ 0 \in 0 .. MaxRuns
  BY Bounds DEF Versions
<1> DEFINE so == [b \in Backends |-> 0]
           rows == [b \in Backends |-> NoRows]
<1>2. so \in [Backends -> Versions] /\ rows \in [Backends -> RowRecords]
  BY <1>1 DEF NoRows, RowRecords, Gils
<1>3. NoChecks \in Checks /\ NoSummary \in Summaries
  BY <1>1 DEF NoChecks, NoSummary, Checks, Summaries
<1>4. files = [so |-> so, build_json |-> 0, checks |-> NoChecks, rows |-> rows,
               summary |-> NoSummary]
  BY DEF Init
<1>5. \A b \in Backends : rows[b] = NoRows
  OBVIOUS
<1> HIDE DEF so, rows
<1>6. /\ files \in Directories /\ files.so = so /\ files.build_json = 0
      /\ files.rows = rows /\ files.summary = NoSummary
  BY <1>1, <1>2, <1>3, <1>4 DEF Directories
<1>7. NoProbe \in ProbeRecords /\ NoProbe.at = "none" /\ ProbeSound(NoProbe)
  BY DEF NoProbe, ProbeRecords, ProbeSound
<1>8. TypeOK
  <2>1. /\ interpreter \in Interpreters /\ sources = 1 /\ run = 0 /\ benchmark = FALSE
        /\ driver = "idle" /\ child = "none" /\ failed = FALSE
        /\ probes = [p \in Variants |-> NoProbe]
    BY DEF Init
  <2>2. probes \in [Variants -> ProbeRecords]
    BY <1>7, <2>1
  <2>3. 1 \in Versions \ {0} /\ child \notin Variants /\ files.so \in [Backends -> Versions]
    BY <1>1, <1>2, <1>6, <2>1 DEF Variants
  <2>4. QED  BY <1>1, <1>6, <2>1, <2>2, <2>3 DEF TypeOK, ProbeRecords
<1>9. ChildInv /\ BuildInv /\ CheckInv
  BY <1>7 DEF Init, ChildInv, BuildInv, CheckInv, Backends
<1>10. RowsInv
  BY <1>5, <1>6 DEF Init, RowsInv, HonestRow, NoRows, Backends
<1>11. SummaryInv
  BY <1>6 DEF Init, SummaryInv, NoSummary
<1>12. QED  BY <1>6, <1>8, <1>9, <1>10, <1>11 DEF IInv

(***************************************************************************)
(* Probes and the children that they fork.                                 *)
(***************************************************************************)
\* What a probe may become: it stays passed, and passes only soundly.
Follows(q, f) ==
  /\ f \in ProbeRecords
  /\ ProbeSound(f)
  /\ q.at = "passed" /\ q.forked = "exit_0" => f.at = "passed" /\ f.forked = "exit_0"
  /\ q.at # "none" => f.at # "none"

LEMMA ProbesOnly ==
  ASSUME IInv,
         UNCHANGED <<interpreter, sources, run, benchmark, driver, child, failed, files>>,
         NEW p \in Variants, NEW f, Follows(probes[p], f), probes' = [probes EXCEPT ![p] = f]
  PROVE  IInv'
<1>1. probes \in [Variants -> ProbeRecords]
  BY DEF IInv, TypeOK, ProbeRecords
<1>2. /\ probes' \in [Variants -> ProbeRecords]
      /\ \A v \in Variants : probes'[v] = IF v = p THEN f ELSE probes[v]
  BY <1>1 DEF Follows
<1>3. \A v \in Variants : /\ ProbeSound(probes'[v])
                          /\ HasPassed(v) => HasPassed(v)'
                          /\ probes[v].at # "none" => probes'[v].at # "none"
  BY <1>2 DEF IInv, CheckInv, Follows, HasPassed
<1>4. TypeOK'
  BY <1>2, <1>3 DEF IInv, TypeOK, ProbeRecords
<1>5. Verified => Verified'
  BY <1>3 DEF Verified
<1>6. CheckInv'
  BY <1>3, <1>5 DEF IInv, CheckInv, Variants
<1>7. ChildInv' /\ BuildInv' /\ RowsInv' /\ (files \in Directories)'
  BY DEF IInv, ChildInv, BuildInv, RowsInv, Built, HonestRow, Measured, Directories,
         Checks, Summaries, RowRecords, Versions
<1>8. SummaryInv'
  BY <1>5 DEF IInv, SummaryInv, Built, Measured
<1>9. QED  BY <1>4, <1>6, <1>7, <1>8 DEF IInv

LEMMA ProbeStepKeeps ==
  ASSUME IInv, NEW p \in Variants, ProbeStep(p)
  PROVE  IInv'
<1> DEFINE q == probes[p]
<1>1. q \in ProbeRecords /\ ProbeSound(q)
  BY DEF IInv, TypeOK, CheckInv, ProbeRecords
<1>2. ASSUME NEW f, ProbeGoes(p, f), Follows(q, f)
      PROVE  IInv'
  BY <1>2, ProbesOnly DEF ProbeGoes
<1> HIDE DEF q
<1>3. CASE ProbeRounds(p)
  <2>1. q.at = "rounds"
    BY <1>3 DEF ProbeRounds, q
  <2> DEFINE w == IF p = "active" THEN "holding" ELSE "none"
             f == [q EXCEPT !.at = "fork", !.worker = w]
  <2>2. w \in {"none", "holding"}
    OBVIOUS
  <2>3. ProbeGoes(p, f)
    BY <1>3 DEF ProbeRounds, q
  <2> HIDE DEF w
  <2>4. Follows(q, f)
    BY <1>1, <2>1, <2>2 DEF Follows, ProbeRecords, ProbeSound
  <2>5. QED  BY <1>2, <2>3, <2>4
<1>4. CASE WorkerReleases(p) \/ WorkerEnds(p)
  <2>1. PICK w \in {"returning", "done"} : ProbeGoes(p, [q EXCEPT !.worker = w])
    BY <1>4 DEF WorkerReleases, WorkerEnds, q
  <2>2. Follows(q, [q EXCEPT !.worker = w])
    BY <1>1 DEF Follows, ProbeRecords, ProbeSound
  <2>3. QED  BY <1>2, <2>1, <2>2
<1>5. CASE ProbeForks(p)
  <2>1. q.at = "fork" /\ ProbeGoes(p, [q EXCEPT !.at = "read", !.forked = "born"])
    BY <1>5 DEF ProbeForks, q
  <2>2. Follows(q, [q EXCEPT !.at = "read", !.forked = "born"])
    BY <1>1, <2>1 DEF Follows, ProbeRecords, ProbeSound
  <2>3. QED  BY <1>2, <2>1, <2>2
<1>6. CASE Arm(p) \/ ForkedChildEnds(p) \/ Alarm(p)
  <2>1. q.forked \in {"born", "armed", "unarmed"}
    BY <1>6 DEF Arm, ForkedChildEnds, Alarm, q
  <2>2. PICK c \in {"armed", "exit_0", "exit_2", "alarm"} :
          ProbeGoes(p, [q EXCEPT !.forked = c])
    BY <1>6 DEF Arm, ForkedChildEnds, Alarm, q
  <2>3. Follows(q, [q EXCEPT !.forked = c])
    BY <1>1, <2>1 DEF Follows, ProbeRecords, ProbeSound
  <2>4. QED  BY <1>2, <2>2, <2>3
<1>7. CASE ProbeReads(p) \/ ProbeJoins(p) \/ ProbeLeaves(p) \/ ProbeCompares(p) \/ ProbeFails(p)
  <2>1. q.at \notin {"none", "passed"}
    BY <1>7 DEF ProbeReads, ProbeJoins, ProbeLeaves, ProbeCompares, ProbeFails, q
  <2>2. PICK a \in {"join", "compare", "failed", "leaving", "passed"} :
          /\ ProbeGoes(p, [q EXCEPT !.at = a])
          /\ a \in {"compare", "passed"} => q.forked = "exit_0"
    <3>1. CASE ProbeReads(p) \/ ProbeLeaves(p)
      BY <3>1 DEF ProbeReads, ProbeLeaves, q
    <3>2. CASE ProbeFails(p)
      <4> DEFINE a == IF q.worker \in {"none", "done"} THEN "failed" ELSE "leaving"
      <4>1. ProbeGoes(p, [q EXCEPT !.at = a])
        BY <3>2 DEF ProbeFails, q
      <4>2. a \in {"failed", "leaving"}
        OBVIOUS
      <4> HIDE DEF a
      <4>3. QED  BY <4>1, <4>2
    <3>3. CASE ProbeJoins(p)
      BY <3>3 DEF ProbeJoins, q
    <3>4. CASE ProbeCompares(p)
      BY <1>1, <3>4 DEF ProbeCompares, ProbeSound, q
    <3>5. QED  BY <1>7, <3>1, <3>2, <3>3, <3>4
  <2>3. Follows(q, [q EXCEPT !.at = a])
    BY <1>1, <2>1, <2>2 DEF Follows, ProbeRecords, ProbeSound
  <2>4. QED  BY <1>2, <2>2, <2>3
<1>8. QED  BY <1>3, <1>4, <1>5, <1>6, <1>7 DEF ProbeStep

\* A probe that runs out of time is killed; the child it has forked is not.
LEMMA ProbeTimesOutKeeps ==
  ASSUME IInv, NEW v \in Variants, ProbeTimesOut(v)
  PROVE  IInv'
<1> DEFINE q == probes[v]
           f == [q EXCEPT !.at = "killed", !.worker = "none"]
<1>1. q \in ProbeRecords /\ q.at # "passed"
  BY DEF IInv, TypeOK, ProbeRecords, ProbeTimesOut
<1>2. probes' = [probes EXCEPT ![v] = f]
  BY DEF ProbeTimesOut, IInv, TypeOK
<1> HIDE DEF q
<1>3. Follows(q, f)
  BY <1>1 DEF Follows, ProbeRecords, ProbeSound
<1> HIDE DEF f
<1>4. QED  BY <1>2, <1>3, ProbesOnly DEF ProbeTimesOut, q

(***************************************************************************)
(* run.py.                                                                 *)
(***************************************************************************)
Phases == {"idle", "build", "check", "probe_import", "write"} \cup Backends

LEMMA FirstSteps ==
  /\ FirstStep("build") = "compile_prototype" /\ FirstStep("check") = "import"
  /\ \A d \in {"probe_import"} \cup Backends : FirstStep(d) = "import"
  /\ \A d \in {"idle", "write"} : FirstStep(d) = "none"
BY DEF FirstStep, Backends

LEMMA StartKeeps ==
  ASSUME IInv, Start
  PROVE  IInv'
<1>1. /\ run \in Nat /\ run' = run + 1 /\ run' \in 0 .. MaxRuns
      /\ files.summary.run <= run /\ files.summary.run \in Nat
      /\ sources' \in Versions \ {0} /\ driver' = "build" /\ child' = "compile_prototype"
      /\ benchmark' \in BOOLEAN
  BY FirstSteps, Bounds
     DEF Start, IInv, TypeOK, SummaryInv, Directories, Summaries, Versions
<1>2. /\ probes' = [p \in Variants |-> NoProbe] /\ NoProbe \in ProbeRecords
      /\ ProbeSound(NoProbe)
      /\ UNCHANGED <<interpreter, failed, files>>
  BY DEF Start, NoProbe, ProbeRecords, ProbeSound
<1>3. TypeOK'
  BY <1>1, <1>2 DEF IInv, TypeOK, ProbeRecords, Variants
<1>4. ChildInv' /\ BuildInv'
  BY <1>1 DEF ChildInv, BuildInv, Backends
<1>5. CheckInv'
  BY <1>1, <1>2 DEF CheckInv, Backends
<1>6. RowsInv' /\ (files \in Directories)'
  BY <1>1, <1>2 DEF IInv, RowsInv, HonestRow, Backends, Directories, Checks, Summaries,
                    RowRecords, Versions
<1>7. SummaryInv'
  BY <1>1, <1>2 DEF SummaryInv
<1>8. QED  BY <1>3, <1>4, <1>5, <1>6, <1>7 DEF IInv

\* The run ends without a summary.
LEMMA EndsKeeps ==
  ASSUME IInv, Abort \/ TimesOut
  PROVE  IInv'
<1>1. /\ driver \notin {"idle", "write"} /\ driver' = "idle" /\ child' = "none"
      /\ failed' = FALSE /\ benchmark' \in BOOLEAN
      /\ UNCHANGED <<interpreter, sources, run, probes, files>>
  BY FirstSteps DEF Abort, TimesOut, Waits, Bounded, Backends, IInv, TypeOK
<1>2. TypeOK' /\ (files \in Directories)'
  BY <1>1 DEF IInv, TypeOK, Variants, Directories, Checks, Summaries, RowRecords, Versions
<1>3. ChildInv' /\ BuildInv' /\ RowsInv'
  BY <1>1 DEF IInv, ChildInv, BuildInv, RowsInv, HonestRow, Backends
<1>4. CheckInv'
  BY <1>1 DEF IInv, CheckInv, Backends
<1>5. SummaryInv'
  BY <1>1 DEF IInv, SummaryInv
<1>6. QED  BY <1>2, <1>3, <1>4, <1>5 DEF IInv

LEMMA BuildDoneKeeps ==
  ASSUME IInv, BuildDone
  PROVE  IInv'
<1>1. /\ driver = "build" /\ child = "ok" /\ driver' = "check" /\ child' = "import"
      /\ failed' = FALSE /\ benchmark' \in BOOLEAN
      /\ UNCHANGED <<interpreter, sources, run, probes>>
  BY FirstSteps DEF BuildDone, Succeeded, Waits, IInv, TypeOK
<1> DEFINE c == [run |-> run, status |-> "open"]
<1>2. c \in Checks /\ c.run = run
  BY DEF Checks, IInv, TypeOK
<1>3. files' = [files EXCEPT !.checks = c]
  BY DEF BuildDone
<1> HIDE DEF c
<1>4. /\ files' \in Directories /\ files'.checks = c
      /\ files'.so = files.so /\ files'.build_json = files.build_json
      /\ files'.rows = files.rows /\ files'.summary = files.summary
  BY <1>2, <1>3 DEF IInv, Directories
<1>5. Built'
  BY <1>1, <1>4 DEF IInv, BuildInv, Built, Backends
<1>6. TypeOK' /\ (files \in Directories)'
  BY <1>1, <1>4 DEF IInv, TypeOK, Variants, Directories, Checks, Summaries, RowRecords, Versions
<1>7. ChildInv' /\ BuildInv'
  BY <1>1, <1>5 DEF ChildInv, BuildInv, Backends
<1>8. CheckInv'
  BY <1>1, <1>2, <1>4 DEF IInv, CheckInv, Backends
<1>9. RowsInv'
  BY <1>1, <1>4 DEF IInv, RowsInv, HonestRow, Backends
<1>10. SummaryInv'
  BY <1>1, <1>4 DEF IInv, SummaryInv
<1>11. QED  BY <1>6, <1>7, <1>8, <1>9, <1>10 DEF IInv

\* A child has succeeded, and the driver goes on to the next.
LEMMA GoesOnKeeps ==
  ASSUME IInv, CheckDone \/ ImportDone \/ MeasureDone
  PROVE  IInv'
<1>1. PICK d \in {"probe_import", "baseline", "prototype", "write"} :
        /\ Waits(d) /\ child = "ok"
        /\ UNCHANGED <<interpreter, sources, run, probes, files>>
        /\ driver \in {"check", "probe_import"} \cup Backends
        /\ d = "prototype" => driver = "baseline"
        /\ d = "write" => driver = "prototype" \/ ~ benchmark
  BY DEF CheckDone, ImportDone, MeasureDone, Succeeded, Backends
<1>2. /\ driver' = d /\ child' \in {"import", "none"} /\ (child' = "none" <=> d = "write")
      /\ failed' = FALSE /\ benchmark' = benchmark
      /\ UNCHANGED <<interpreter, sources, run, probes, files>>
  BY <1>1, FirstSteps DEF Waits, Backends, IInv, TypeOK
<1>3. Built /\ Verified
  BY <1>1 DEF IInv, BuildInv, CheckInv, Backends
<1>4. Built' /\ Verified'
  BY <1>2, <1>3 DEF Built, Verified, HasPassed
<1>5. TypeOK' /\ (files \in Directories)'
  BY <1>2 DEF IInv, TypeOK, Variants, Backends, Directories, Checks, Summaries, RowRecords,
              Versions
<1>6. ChildInv' /\ BuildInv'
  BY <1>2, <1>4 DEF ChildInv, BuildInv, Backends
<1>7. CheckInv'
  BY <1>2, <1>4 DEF IInv, CheckInv, Backends
<1>8. RowsInv'
  BY <1>1, <1>2 DEF IInv, RowsInv, HonestRow, Measured, Backends
<1>9. SummaryInv'
  BY <1>1, <1>2 DEF IInv, SummaryInv, Backends
<1>10. QED  BY <1>5, <1>6, <1>7, <1>8, <1>9 DEF IInv

LEMMA WriteSummaryKeeps ==
  ASSUME IInv, WriteSummary
  PROVE  IInv'
<1>1. /\ driver = "write" /\ driver' = "idle" /\ child' = "none"
      /\ failed' = FALSE /\ benchmark' \in BOOLEAN
      /\ UNCHANGED <<interpreter, sources, run, probes>>
  BY FirstSteps DEF WriteSummary, Waits, IInv, TypeOK
<1> DEFINE c == IF files.checks.status = "skipped" THEN "passed_with_skips" ELSE "passed"
           m == IF benchmark THEN "completed" ELSE "not_run"
           s == [run |-> run, contracts |-> c, benchmarks |-> m]
<1>2. /\ c \in {"passed", "passed_with_skips"} /\ m \in {"completed", "not_run"}
      /\ c = "passed" => files.checks.status # "skipped"
      /\ m = "completed" => benchmark
  OBVIOUS
<1>3. files' = [files EXCEPT !.summary = s]
  BY DEF WriteSummary
<1> HIDE DEF c, m
<1>4. s \in Summaries /\ s.run = run /\ s.contracts = c /\ s.benchmarks = m
  BY <1>2 DEF Summaries, IInv, TypeOK
<1> HIDE DEF s
<1>5. /\ files' \in Directories /\ files'.summary = s
      /\ files'.so = files.so /\ files'.build_json = files.build_json
      /\ files'.rows = files.rows /\ files'.checks = files.checks
  BY <1>3, <1>4 DEF IInv, Directories
<1>6. Built /\ Verified /\ (benchmark => \A b \in Backends : Measured(b))
  BY <1>1 DEF IInv, BuildInv, CheckInv, RowsInv
<1>7. Built' /\ Verified' /\ (benchmark => \A b \in Backends : Measured(b)')
  BY <1>1, <1>5, <1>6 DEF Built, Verified, HasPassed, Measured
<1>8. TypeOK' /\ (files \in Directories)'
  BY <1>1, <1>5 DEF IInv, TypeOK, Variants, Directories, Checks, Summaries, RowRecords, Versions
<1>9. ChildInv' /\ BuildInv'
  BY <1>1 DEF ChildInv, BuildInv, Backends
<1>10. CheckInv'
  BY <1>1, <1>5 DEF IInv, CheckInv, Backends
<1>11. RowsInv'
  BY <1>1, <1>5 DEF IInv, RowsInv, HonestRow, Backends
<1>12. SummaryInv'
  <2>1. s.contracts = "passed" => ~ interpreter.old
    BY <1>2, <1>4, <1>6 DEF Verified
  <2>2. run \in Nat
    BY Bounds DEF IInv, TypeOK
  <2>3. QED  BY <1>1, <1>2, <1>4, <1>5, <1>7, <2>1, <2>2 DEF SummaryInv
<1>13. QED  BY <1>8, <1>9, <1>10, <1>11, <1>12 DEF IInv

(***************************************************************************)
(* build.py, the import probe, measure.py.                                 *)
(***************************************************************************)
\* A step of a child writes no file and starts no probe.
LEMMA ChildOnly ==
  ASSUME IInv,
         UNCHANGED <<interpreter, sources, run, benchmark, driver, failed, probes, files>>,
         driver \notin {"idle", "write"},
         child' \in {"error"} \cup (IF driver = "check" THEN {"tests"} ELSE {})
                  \cup (IF driver = "probe_import" THEN {"ok"} ELSE {})
  PROVE  IInv'
<1>1. TypeOK' /\ (files \in Directories)'
  BY DEF IInv, TypeOK, Variants, Backends, Directories, Checks, Summaries, RowRecords, Versions
<1>2. ChildInv' /\ BuildInv'
  BY DEF IInv, ChildInv, BuildInv, Built, Backends
<1>3. CheckInv'
  BY DEF IInv, CheckInv, Verified, HasPassed, Backends
<1>4. RowsInv' /\ SummaryInv'
  BY DEF IInv, RowsInv, HonestRow, Measured, SummaryInv, Backends
<1>5. QED  BY <1>1, <1>2, <1>3, <1>4 DEF IInv

LEMMA QuietChildKeeps ==
  ASSUME IInv, ImportPrototype \/ ProbeImport \/ Fail
  PROVE  IInv'
BY ChildOnly DEF ImportPrototype, ProbeImport, Fail, IInv, TypeOK

LEMMA BuildKeeps ==
  ASSUME IInv, CompilePrototype \/ CompileBaseline \/ WriteMetadata
  PROVE  IInv'
<1>1. /\ driver = "build" /\ child' \in {"compile_baseline", "metadata", "ok"}
      /\ UNCHANGED <<interpreter, sources, run, benchmark, driver, failed, probes>>
      /\ files \in Directories /\ sources \in Versions /\ sources \in Nat
      /\ files.so \in [Backends -> Versions] /\ "baseline" \in Backends
      /\ "prototype" \in Backends
  BY Bounds
     DEF CompilePrototype, CompileBaseline, WriteMetadata, IInv, TypeOK, Backends
<1>2. /\ files' \in Directories
      /\ files'.rows = files.rows /\ files'.summary = files.summary
      /\ files'.checks = files.checks
      /\ files'.so["prototype"] = sources
      /\ child' \in {"metadata", "ok"} => files'.so["baseline"] = sources
      /\ child' = "ok" => files'.build_json = sources
  <2>1. CASE CompilePrototype
    <3>1. files' = [files EXCEPT !.so["prototype"] = sources] /\ child' = "compile_baseline"
      BY <2>1 DEF CompilePrototype, Compiles
    <3>2. QED  BY <1>1, <3>1 DEF Directories
  <2>2. CASE CompileBaseline
    <3>1. files' = [files EXCEPT !.so["baseline"] = sources] /\ child' = "metadata"
      BY <2>2 DEF CompileBaseline, Compiles
    <3>2. files.so["prototype"] = sources
      BY <1>1, <2>2 DEF CompileBaseline, IInv, BuildInv
    <3>3. QED  BY <1>1, <3>1, <3>2 DEF Directories
  <2>3. CASE WriteMetadata
    <3>1. files' = [files EXCEPT !.build_json = sources] /\ child' = "ok"
      BY <2>3 DEF WriteMetadata
    <3>2. files.so["prototype"] = sources /\ files.so["baseline"] = sources
      BY <1>1, <2>3 DEF WriteMetadata, IInv, BuildInv
    <3>3. QED  BY <1>1, <3>1, <3>2 DEF Directories
  <2>4. QED  BY <2>1, <2>2, <2>3
<1>3. files'.so \in [Backends -> Versions] /\ files'.build_json \in Versions
  BY <1>2 DEF Directories
<1>4. TypeOK' /\ (files \in Directories)'
  BY <1>1, <1>2, <1>3 DEF IInv, TypeOK, Variants, Backends, Directories, Checks, Summaries,
                         RowRecords, Versions
<1>5. ChildInv' /\ BuildInv'
  BY <1>1, <1>2 DEF ChildInv, BuildInv, Backends
<1>6. CheckInv'
  BY <1>1, <1>2 DEF IInv, CheckInv, Backends
<1>7. RowsInv'
  BY <1>1, <1>2 DEF IInv, RowsInv, HonestRow, Backends
<1>8. SummaryInv'
  BY <1>1, <1>2 DEF IInv, SummaryInv
<1>9. QED  BY <1>4, <1>5, <1>6, <1>7, <1>8 DEF IInv

\* A measurement that is written down is what was measured.
LEMMA Measurement ==
  ASSUME IInv, NEW b \in Backends, NEW expected \in {"on", "off"},
         NEW gil \in {"default", "on", "off"},
         Measures(b, expected, gil),
         files' = [files EXCEPT !.rows[b] = Rows(b, expected, gil)],
         UNCHANGED <<interpreter, sources, run, benchmark, driver, failed, probes>>
  PROVE  /\ files' \in Directories
         /\ files'.so = files.so /\ files'.build_json = files.build_json
         /\ files'.checks = files.checks /\ files'.summary = files.summary
         /\ \A c \in Backends :
              /\ HonestRow(c)'
              /\ Built /\ (c = b \/ Measured(c)) => Measured(c)'
<1> DEFINE r == Rows(b, expected, gil)
<1>1. files \in Directories /\ files.rows \in [Backends -> RowRecords]
  BY DEF IInv, Directories
<1>2. /\ r.so = files.so[b] /\ r.hashed = files.build_json
      /\ r.gil = expected /\ r.expected = expected
      /\ b = "baseline" => r.gil = "on"
      /\ r \in RowRecords
  BY <1>1 DEF Rows, Measures, RowRecords, Directories, Gils
<1> HIDE DEF r
<1>3. files' = [files EXCEPT !.rows = [files.rows EXCEPT ![b] = r]]
  BY <1>1 DEF r
<1> DEFINE rows == [files.rows EXCEPT ![b] = r]
<1>4. /\ rows \in [Backends -> RowRecords]
      /\ \A c \in Backends : rows[c] = IF c = b THEN r ELSE files.rows[c]
  BY <1>1, <1>2
<1> HIDE DEF rows
<1>5. /\ files' \in Directories /\ files'.rows = rows
      /\ files'.so = files.so /\ files'.build_json = files.build_json
      /\ files'.checks = files.checks /\ files'.summary = files.summary
  BY <1>1, <1>3, <1>4 DEF Directories, rows
<1>6. ASSUME NEW c \in Backends
      PROVE  HonestRow(c)' /\ (Built => Measured(b)')
  BY <1>2, <1>4, <1>5 DEF HonestRow, Built, Measured, IInv, RowsInv
<1>7. ASSUME NEW c \in Backends, Built, Measured(c)
      PROVE  Measured(c)'
  BY <1>2, <1>4, <1>5, <1>7 DEF Measured, Built
<1>8. QED  BY <1>5, <1>6, <1>7

LEMMA MeasureKeeps ==
  ASSUME IInv, Measure
  PROVE  IInv'
<1>1. CASE child' = "error"
  BY <1>1, ChildOnly DEF Measure, Backends
<1>2. CASE child' # "error"
  <2>1. PICK expected \in {"on", "off"} :
          /\ Measures(driver, expected, "default")
          /\ files' = [files EXCEPT !.rows[driver] = Rows(driver, expected, "default")]
    BY <1>2 DEF Measure, Expected
  <2>2. /\ driver \in Backends /\ child' = "ok"
        /\ UNCHANGED <<interpreter, sources, run, benchmark, driver, failed, probes>>
    BY <1>2 DEF Measure
  <2>3. /\ files' \in Directories
        /\ files'.so = files.so /\ files'.build_json = files.build_json
        /\ files'.checks = files.checks /\ files'.summary = files.summary
        /\ \A c \in Backends :
             HonestRow(c)' /\ (Built /\ (c = driver \/ Measured(c)) => Measured(c)')
    BY <2>1, <2>2, Measurement
  <2>4. Built /\ Verified
    BY <2>2 DEF IInv, BuildInv, CheckInv, Backends
  <2>5. Built' /\ Verified'
    BY <2>2, <2>3, <2>4 DEF Built, Verified, HasPassed
  <2>6. TypeOK' /\ (files \in Directories)'
    BY <2>2, <2>3 DEF IInv, TypeOK, Variants, Backends, Directories, Checks, Summaries,
                      RowRecords, Versions
  <2>7. ChildInv' /\ BuildInv'
    BY <2>2, <2>5 DEF ChildInv, BuildInv, Backends
  <2>8. CheckInv'
    BY <2>2, <2>5 DEF IInv, CheckInv, Backends
  <2>9. RowsInv'
    BY <2>2, <2>3, <2>4 DEF IInv, RowsInv, Backends
  <2>10. SummaryInv'
    BY <2>2, <2>3 DEF IInv, SummaryInv, Backends
  <2>11. QED  BY <2>6, <2>7, <2>8, <2>9, <2>10 DEF IInv
<1>3. QED  BY <1>1, <1>2

LEMMA MeasureByHandKeeps ==
  ASSUME IInv, MeasureByHand
  PROVE  IInv'
<1>1. PICK b \in Backends, expected \in {"on", "off"}, gil \in {"default", "on", "off"} :
        /\ Measures(b, expected, gil)
        /\ files' = [files EXCEPT !.rows[b] = Rows(b, expected, gil)]
  BY DEF MeasureByHand
<1>2. /\ driver = "idle"
      /\ UNCHANGED <<interpreter, sources, run, benchmark, driver, child, failed, probes>>
  BY DEF MeasureByHand
<1>3. /\ files' \in Directories
      /\ files'.so = files.so /\ files'.build_json = files.build_json
      /\ files'.checks = files.checks /\ files'.summary = files.summary
      /\ \A c \in Backends :
           HonestRow(c)' /\ (Built /\ (c = b \/ Measured(c)) => Measured(c)')
  BY <1>1, <1>2, Measurement
<1>4. (Built => Built') /\ (Verified => Verified')
  BY <1>2, <1>3 DEF Built, Verified, HasPassed
<1>5. TypeOK' /\ (files \in Directories)'
  BY <1>2, <1>3 DEF IInv, TypeOK, Variants, Backends, Directories, Checks, Summaries,
                    RowRecords, Versions
<1>6. ChildInv' /\ BuildInv'
  BY <1>2 DEF IInv, ChildInv, BuildInv, Backends
<1>7. CheckInv'
  BY <1>2 DEF IInv, CheckInv, Backends, TypeOK, Variants
<1>8. RowsInv'
  BY <1>2, <1>3 DEF RowsInv, Backends
<1>9. SummaryInv'
  BY <1>2, <1>3, <1>4 DEF IInv, SummaryInv
<1>10. QED  BY <1>5, <1>6, <1>7, <1>8, <1>9 DEF IInv

(***************************************************************************)
(* check.py.                                                               *)
(***************************************************************************)
LEMMA LaunchIsSound ==
  ASSUME IInv, NEW v \in Variants, Launch(v)
  PROVE  /\ probes' \in [Variants -> ProbeRecords]
         /\ probes'[v].at = "rounds"
         /\ \A w \in Variants : ProbeSound(probes'[w]) /\ (w # v => probes'[w] = probes[w])
<1> DEFINE f == [probes[v] EXCEPT !.at = "rounds"]
<1>1. probes \in [Variants -> ProbeRecords] /\ \A w \in Variants : ProbeSound(probes[w])
  BY DEF IInv, TypeOK, CheckInv, ProbeRecords
<1>2. f \in ProbeRecords /\ f.at = "rounds" /\ ProbeSound(f)
  BY <1>1 DEF ProbeRecords, ProbeSound
<1>3. probes' = [probes EXCEPT ![v] = f]
  BY DEF Launch
<1> HIDE DEF f
<1>4. QED  BY <1>1, <1>2, <1>3

\* A step of check.py that writes no file.
LEMMA CheckKeeps ==
  ASSUME IInv, driver = "check", driver' = driver, child' \in {"joined", "active", "report"},
         failed' \in BOOLEAN,
         UNCHANGED <<interpreter, sources, run, benchmark, files>>,
         probes' \in [Variants -> ProbeRecords],
         \A v \in Variants : ProbeSound(probes'[v]),
         child' \in Variants => probes'[child'].at # "none",
         child' \in {"active", "report"} /\ ~ failed' => HasPassed("joined")',
         child' = "report" /\ ~ failed' => HasPassed("active")'
  PROVE  IInv'
<1>1. TypeOK' /\ (files \in Directories)'
  BY DEF IInv, TypeOK, ProbeRecords, Variants, Backends, Directories, Checks, Summaries,
         RowRecords, Versions
<1>2. ChildInv' /\ BuildInv'
  BY DEF IInv, ChildInv, BuildInv, Built, Backends
<1>3. CheckInv'
  BY DEF IInv, CheckInv, Backends
<1>4. RowsInv' /\ SummaryInv'
  BY DEF IInv, RowsInv, HonestRow, SummaryInv, Backends
<1>5. QED  BY <1>1, <1>2, <1>3, <1>4 DEF IInv

LEMMA RunTestsKeeps ==
  ASSUME IInv, RunTests
  PROVE  IInv'
<1>1. /\ driver = "check" /\ child' = "joined" /\ failed' \in BOOLEAN /\ Launch("joined")
      /\ UNCHANGED <<interpreter, sources, run, benchmark, driver, files>>
  BY DEF RunTests, IInv, TypeOK, ChildInv, Backends
<1>2. "joined" \in Variants
  BY DEF Variants
<1>3. QED  BY <1>1, <1>2, LaunchIsSound, CheckKeeps

LEMMA ProbeEndedKeeps ==
  ASSUME IInv, NEW v \in Variants, ProbeEnded(v)
  PROVE  IInv'
<1>1. /\ child = v /\ driver = "check"
      /\ probes[v].at \in {"passed", "failed", "killed"}
      /\ failed' = (failed \/ Failed(probes[v].at))
      /\ UNCHANGED <<interpreter, sources, run, benchmark, driver, files>>
  BY DEF ProbeEnded, IInv, TypeOK, ChildInv, Variants, Backends
<1>2. failed' \in BOOLEAN /\ (~ failed' => ~ failed /\ HasPassed(v))
  BY <1>1 DEF IInv, TypeOK, CheckInv, Failed, HasPassed, ProbeSound
<1>3. CASE v = "joined"
  <2>1. child' = "active" /\ Launch("active") /\ "active" \in Variants /\ "active" # v
    BY <1>3 DEF ProbeEnded, Variants
  <2>2. HasPassed(v) => HasPassed(v)'
    BY <2>1, LaunchIsSound DEF HasPassed
  <2>3. QED  BY <1>1, <1>2, <1>3, <2>1, <2>2, LaunchIsSound, CheckKeeps
<1>4. CASE v = "active"
  <2>1. child' = "report" /\ UNCHANGED probes
    BY <1>4 DEF ProbeEnded
  <2>2. /\ probes' \in [Variants -> ProbeRecords]
        /\ \A w \in Variants : ProbeSound(probes'[w])
    BY <2>1 DEF IInv, TypeOK, CheckInv, ProbeRecords
  <2>3. ~ failed' => HasPassed("active")' /\ HasPassed("joined")'
    BY <1>1, <1>2, <1>4, <2>1 DEF IInv, CheckInv, HasPassed
  <2>4. child' \notin Variants
    BY <2>1 DEF Variants
  <2>5. QED  BY <1>1, <1>2, <2>1, <2>2, <2>3, <2>4, CheckKeeps
<1>5. QED  BY <1>3, <1>4 DEF Variants

LEMMA ReportKeeps ==
  ASSUME IInv, Report
  PROVE  IInv'
<1>1. /\ driver = "check" /\ child = "report" /\ child' = IF failed THEN "error" ELSE "ok"
      /\ UNCHANGED <<interpreter, sources, run, benchmark, driver, failed, probes>>
  BY DEF Report, IInv, TypeOK, ChildInv, Backends
<1> DEFINE s == IF failed THEN "failed" ELSE IF interpreter.old THEN "skipped" ELSE "passed"
           c == [files.checks EXCEPT !.status = s]
<1>2. files \in Directories /\ files.checks \in Checks /\ files.checks.run = run
  BY <1>1 DEF IInv, CheckInv, Directories
<1>3. files' = [files EXCEPT !.checks = c]
  BY DEF Report
<1>4. /\ s \in {"failed", "skipped", "passed"} /\ (s = "failed" <=> failed)
      /\ s = "passed" => ~ interpreter.old
  BY DEF IInv, TypeOK
<1> HIDE DEF s
<1>5. c \in Checks /\ c.run = run /\ c.status = s
  BY <1>2, <1>4 DEF Checks
<1> HIDE DEF c
<1>6. /\ files' \in Directories /\ files'.checks = c
      /\ files'.so = files.so /\ files'.build_json = files.build_json
      /\ files'.rows = files.rows /\ files'.summary = files.summary
  BY <1>2, <1>3, <1>5 DEF Directories
<1>7. ~ failed => HasPassed("joined") /\ HasPassed("active")
  BY <1>1 DEF IInv, CheckInv
<1>8. ~ failed => Verified'
  BY <1>1, <1>4, <1>5, <1>6, <1>7 DEF Verified, HasPassed, Variants
<1>9. Built'
  BY <1>1, <1>6 DEF IInv, BuildInv, Built, Backends
<1>10. TypeOK' /\ (files \in Directories)'
  BY <1>1, <1>6 DEF IInv, TypeOK, Variants, Backends, Directories, Checks, Summaries,
                    RowRecords, Versions
<1>11. ChildInv' /\ BuildInv'
  BY <1>1, <1>9 DEF ChildInv, BuildInv, Backends
<1>12. CheckInv'
  BY <1>1, <1>5, <1>6, <1>8 DEF IInv, CheckInv, Backends
<1>13. RowsInv' /\ SummaryInv'
  BY <1>1, <1>6 DEF IInv, RowsInv, HonestRow, SummaryInv, Backends
<1>14. QED  BY <1>10, <1>11, <1>12, <1>13 DEF IInv

(***************************************************************************)
(* The theorems.                                                           *)
(***************************************************************************)
LEMMA Step == IInv /\ [Next]_vars => IInv'
<1> SUFFICES ASSUME IInv, [Next]_vars PROVE IInv'
  OBVIOUS
<1>1. CASE UNCHANGED vars
  BY <1>1 DEF vars, IInv, TypeOK, Directories, Checks, Summaries, RowRecords, Versions,
              ChildInv, BuildInv, Built, CheckInv, Verified, HasPassed, RowsInv, HonestRow,
              Measured, SummaryInv
<1>2. CASE Start \/ MeasureByHand \/ DriverStep \/ TimesOut
  BY <1>2, StartKeeps, MeasureByHandKeeps, BuildDoneKeeps, GoesOnKeeps, WriteSummaryKeeps,
     EndsKeeps DEF DriverStep
<1>3. CASE ChildStep
  BY <1>3, BuildKeeps, QuietChildKeeps, MeasureKeeps, RunTestsKeeps, ReportKeeps,
     ProbeEndedKeeps DEF ChildStep
<1>4. CASE \E v \in Variants : ProbeTimesOut(v)
  BY <1>4, ProbeTimesOutKeeps
<1>5. CASE \E p \in Variants : ProbeStep(p)
  BY <1>5, ProbeStepKeeps
<1>6. QED  BY <1>1, <1>2, <1>3, <1>4, <1>5 DEF Next

LEMMA Invariance == Spec => []IInv
<1>1. QED  BY InitInv, Step, PTL DEF Spec

\* A child runs only while run.py waits for it, and the file versions stay in
\* range, for any number of runs and edits.
THEOREM TypeCorrectness == Spec => []TypeOK
<1>1. IInv => TypeOK
  BY DEF IInv
<1>2. QED  BY <1>1, Invariance, PTL

\* The summary that run.py writes last never says more than the rest of the
\* directory: everything in it is of that run and of one version of the sources,
\* both fork probes passed, and no measurement gives a GIL state it did not have.
THEOREM Evidence == Spec => []EvidenceIsWhole
<1>1. IInv => EvidenceIsWhole
  <2> SUFFICES ASSUME IInv PROVE EvidenceIsWhole
    OBVIOUS
  <2>1. \A b \in Backends : HonestRow(b)
    BY DEF IInv, RowsInv
  <2>2. QED
    BY <2>1 DEF IInv, SummaryInv, EvidenceIsWhole, HonestRow, Built, Verified, HasPassed,
                Measured
<1>2. QED  BY <1>1, Invariance, PTL

\* run.py measures only after both fork probes have passed, and a probe passes
\* only when the child it forked has gone: nothing of the run is still there.
THEOREM Alone == Spec => []MeasuredAlone
<1>1. IInv => MeasuredAlone
  BY DEF IInv, CheckInv, Verified, HasPassed, MeasuredAlone, ProbeAlive, ForkedAlive, Gone
<1>2. QED  BY <1>1, Invariance, PTL
-----------------------------------------------------------------------------
(***************************************************************************)
(* Part 2: rounds.                                                         *)
(***************************************************************************)
Mains == {"submit", "read_start", "arrive", "wait", "collect", "read_stop",
          "succeed", "fail", "returned", "raised"}

JobStates == {"none", "queued", "waiting", "between", "started", "answered", "finished", "raised"}

CallRecords == [ticket : Nat, values : Seq(Nat), start : Nat, end : Nat]

RoundTypes ==
  /\ kind \in Kinds /\ main \in Mains /\ collected \in 0 .. N
  /\ region \in [start : 0 .. MaxClock, stop : 0 .. MaxClock]
  /\ threads \in Nat
  /\ job \in [Jobs -> JobStates]
  /\ barrier \in [waiting : SUBSET ({Main} \cup Jobs),
                  state : {"filling", "released", "broken"}]
  /\ clock \in 0 .. MaxClock /\ ticket \in Nat
  /\ current \in [Jobs -> CallRecords]
  /\ kind # "control" => records \in [Jobs -> Seq(CallRecords)]

\* A test of the oracle makes no calls.
ControlInv ==
  kind = "control" =>
    /\ main = "returned" /\ barrier.waiting = {}
    /\ \A j \in Jobs : job[j] = "none"

\* Jobs are submitted in turn, and no thread runs two.
PoolInv ==
  /\ \E k \in 0 .. N : Submitted = 1 .. k /\ (main = "submit" => k < N)
  /\ Cardinality(Running) <= threads /\ threads <= Cardinality(Submitted)

\* Nobody passes the barrier before everybody has come, the thread that
\* measures included.
BarrierInv ==
  /\ kind = "timed" /\ barrier.state = "released" => Main \in barrier.waiting
  /\ Main \in barrier.waiting => main \notin {"submit", "read_start", "arrive"}
  /\ \A j \in Jobs :
       job[j] \in {"between", "started", "answered", "finished"} => barrier.state = "released"
  /\ kind # "control" =>
       \A j \in Jobs : Len(records[j]) > 0 => barrier.state = "released"

\* Whose result has been collected, and who has finished, has made all the calls.
DoneInv ==
  /\ \A i \in 1 .. collected : job[i] = "finished"
  /\ kind # "control" =>
       \A j \in Jobs :
         /\ Len(records[j]) <= Calls
         /\ job[j] \in {"started", "answered"} => Len(records[j]) < Calls
         /\ job[j] = "finished" => Len(records[j]) = Calls

\* The main thread goes on when it has all results.
CollectInv ==
  /\ main \in {"submit", "read_start", "arrive", "wait"} => collected = 0
  /\ main = "collect" => collected < N
  /\ kind # "control" /\ main \in {"read_stop", "succeed", "returned"} => collected = N
  /\ DoneInv

\* No reading of the clock is in the future, and what is measured is between
\* the two of the thread that measures.
ClockInv ==
  /\ region.start <= clock
  /\ \A j \in Jobs : job[j] \in {"started", "answered"} =>
       /\ current[j].start <= clock
       /\ kind = "timed" => region.start <= current[j].start
  /\ kind # "control" =>
       \A j \in Jobs : \A i \in 1 .. Len(records[j]) :
         /\ records[j][i].start <= clock /\ records[j][i].end <= clock
         /\ kind = "timed" => region.start <= records[j][i].start
         /\ kind = "timed" /\ main \in {"succeed", "returned"} =>
              records[j][i].end <= region.stop

\* The calls that have been answered, and the record there is or will be of each.
Recorded(c) == c[2] <= Len(records[c[1]])

Answered ==
  {c \in Jobs \X (Nat \ {0}) :
     Recorded(c) \/ (c[2] = Len(records[c[1]]) + 1 /\ job[c[1]] = "answered")}

RecordOf(c) == IF Recorded(c) THEN records[c[1]][c[2]] ELSE current[c[1]]

EndOfBlock(r) == r.ticket + Len(r.values)

\* The answers are blocks of the native sequence that are apart.
IsBlock(r) ==
  Len(r.values) > 0 /\ \A m \in 1 .. Len(r.values) : r.values[m] = r.ticket + m

Apart(r, s) == EndOfBlock(r) <= s.ticket \/ EndOfBlock(s) <= r.ticket

BlockInv ==
  /\ \A c \in Answered : IsBlock(RecordOf(c)) /\ EndOfBlock(RecordOf(c)) <= ticket
  /\ \A c, d \in Answered : c = d \/ Apart(RecordOf(c), RecordOf(d))

\* The answer to a call that had been recorded when another was started precedes it.
TimeInv ==
  \A c, d \in Answered :
    Recorded(c) /\ RecordOf(c).end < RecordOf(d).start =>
      EndOfBlock(RecordOf(c)) <= RecordOf(d).ticket

\* Where no call has failed, the answers leave no gap.
CoverInv ==
  \/ \E j \in Jobs : job[j] = "raised"
  \/ \A n \in 0 .. ticket - 1 :
       \E c \in Answered : RecordOf(c).ticket <= n /\ n < EndOfBlock(RecordOf(c))

OrderInv == kind # "control" => BlockInv /\ TimeInv /\ CoverInv

RoundsInv ==
  /\ RoundTypes /\ ControlInv /\ PoolInv /\ BarrierInv /\ CollectInv /\ ClockInv /\ OrderInv

\* What check_records relies on: the records are of blocks that are apart and leave
\* no gap, and no call that had ended has a later block than one that started then.
RecordsAreOrdered ==
  kind # "control" /\ main = "returned" =>
    /\ \A n \in 0 .. ticket - 1 :
         \E j \in Jobs : \E i \in 1 .. Calls :
           records[j][i].ticket <= n /\ n < EndOfBlock(records[j][i])
    /\ \A j, k \in Jobs : \A i, l \in 1 .. Calls :
         /\ IsBlock(records[j][i]) /\ EndOfBlock(records[j][i]) <= ticket
         /\ <<j, i>> = <<k, l>> \/ Apart(records[j][i], records[k][l])
         /\ records[j][i].end < records[k][l].start =>
              EndOfBlock(records[j][i]) <= records[k][l].ticket

LEMMA RoundsConstants ==
  /\ N \in Nat /\ N > 0 /\ Calls \in Nat /\ Calls > 0 /\ MaxClock \in Nat
  /\ Kinds \subseteq {"records", "timed", "contention", "control"}
BY RoundsAssumption DEF AllKinds

LEMMA EmptyRecord == NoRecord \in CallRecords
BY DEF NoRecord, CallRecords

LEMMA RoundsBegin ==
  ASSUME RoundsInit
  PROVE  RoundsInv
<1> USE RoundsConstants
<1>1. /\ kind \in Kinds /\ main = IF kind = "control" THEN "returned" ELSE "submit"
      /\ collected = 0 /\ region = [start |-> 0, stop |-> 0] /\ threads = 0
      /\ job = [j \in Jobs |-> "none"]
      /\ barrier = [waiting |-> {}, state |-> "filling"]
      /\ clock = 0 /\ ticket = 0
      /\ current = [j \in Jobs |-> NoRecord]
      /\ kind # "control" => records = [j \in Jobs |-> <<>>]
  BY DEF RoundsInit
<1>2. Submitted = {} /\ Running = {}
  BY <1>1 DEF Submitted, Running
<1>3. RoundTypes
  <2>1. kind \in Kinds /\ main \in Mains /\ collected \in 0 .. N /\ threads \in Nat
    BY <1>1 DEF Mains, RoundsInit
  <2>2. /\ region \in [start : 0 .. MaxClock, stop : 0 .. MaxClock]
        /\ clock \in 0 .. MaxClock /\ ticket \in Nat
    BY <1>1
  <2>3. job \in [Jobs -> JobStates]
    BY <1>1 DEF JobStates
  <2>4. barrier \in [waiting : SUBSET ({Main} \cup Jobs),
                     state : {"filling", "released", "broken"}]
    BY <1>1
  <2>5. current \in [Jobs -> CallRecords]
    BY <1>1, EmptyRecord
  <2>6. kind # "control" => records \in [Jobs -> Seq(CallRecords)]
    <3>1. <<>> \in Seq(CallRecords)
      OBVIOUS
    <3>2. QED  BY <1>1, <3>1
  <2>7. QED  BY <2>1, <2>2, <2>3, <2>4, <2>5, <2>6 DEF RoundTypes
<1>4. ControlInv
  BY <1>1 DEF ControlInv
<1>5. PoolInv
  <2>1. Cardinality({}) = 0
    BY FS_EmptySet
  <2>2. Submitted = 1 .. 0 /\ 0 \in 0 .. N /\ 0 < N
    BY <1>2
  <2>3. QED  BY <1>1, <1>2, <2>1, <2>2 DEF PoolInv
<1>6. BarrierInv
  BY <1>1 DEF BarrierInv
<1>7. CollectInv
  BY <1>1 DEF CollectInv, DoneInv
<1>8. ClockInv
  BY <1>1 DEF ClockInv
<1>9. OrderInv
  <2>1. kind # "control" => Answered = {}
    BY <1>1 DEF Answered, Recorded
  <2>2. 0 .. ticket - 1 = {}
    BY <1>1
  <2>3. QED  BY <2>1, <2>2 DEF OrderInv, BlockInv, TimeInv, CoverInv
<1>10. QED  BY <1>3, <1>4, <1>5, <1>6, <1>7, <1>8, <1>9 DEF RoundsInv

(***************************************************************************)
(* Threads and jobs.                                                       *)
(***************************************************************************)
RunningStates == {"waiting", "between", "started", "answered"}

LEMMA JobSets ==
  ASSUME RoundTypes
  PROVE  /\ Jobs = 1 .. N
         /\ IsFiniteSet(Jobs)
         /\ IsFiniteSet(Submitted) /\ Cardinality(Submitted) \in Nat
         /\ IsFiniteSet(Running) /\ Cardinality(Running) \in Nat
<1>1. Jobs = 1 .. N /\ IsFiniteSet(Jobs)
  BY RoundsConstants, FS_Interval DEF Jobs
<1>2. Submitted \subseteq Jobs /\ Running \subseteq Jobs
  BY DEF Submitted, Running
<1>3. QED  BY <1>1, <1>2, FS_Subset, FS_CardinalityType

\* A job that goes on stays submitted, and a thread that has it needs no other.
LEMMA JobMoves ==
  ASSUME RoundTypes, PoolInv, UNCHANGED <<main, threads>>,
         NEW j \in Jobs, job[j] \in RunningStates,
         NEW s \in JobStates, s # "none", job' = [job EXCEPT ![j] = s]
  PROVE  PoolInv'
<1>1. job \in [Jobs -> JobStates]
  BY DEF RoundTypes
<1>2. Submitted' = Submitted
  BY <1>1 DEF Submitted, RunningStates
<1>3. Running' \subseteq Running
  BY <1>1 DEF Running, RunningStates
<1>4. Cardinality(Running') <= Cardinality(Running)
      /\ Cardinality(Running') \in Nat
  BY <1>3, JobSets, FS_Subset, FS_CardinalityType
<1>5. threads \in Nat
  BY DEF RoundTypes
<1>6. Cardinality(Running)' <= threads'
  BY <1>4, <1>5, JobSets DEF PoolInv
<1>7. QED  BY <1>2, <1>6 DEF PoolInv

(***************************************************************************)
(* The main thread, the clock and the timeouts leave the jobs alone.       *)
(***************************************************************************)
\* What has been answered says the same as long as nothing is called.
LEMMA OrderFrame ==
  ASSUME OrderInv, UNCHANGED <<kind, ticket>>,
         kind # "control" =>
           /\ Answered' = Answered
           /\ \A c \in Answered : RecordOf(c)' = RecordOf(c) /\ (Recorded(c)' <=> Recorded(c)),
         \A j \in Jobs : job[j] = "raised" => job'[j] = "raised"
  PROVE  OrderInv'
<1> SUFFICES ASSUME kind # "control"
             PROVE  BlockInv' /\ TimeInv' /\ CoverInv'
  BY DEF OrderInv
<1>1. BlockInv /\ TimeInv /\ CoverInv
  BY DEF OrderInv
<1>2. Answered' = Answered
  OBVIOUS
<1>3. ASSUME NEW c \in Answered
      PROVE  RecordOf(c)' = RecordOf(c) /\ (Recorded(c)' <=> Recorded(c))
  OBVIOUS
<1>4. BlockInv'
  BY <1>1, <1>2, <1>3 DEF BlockInv
<1>5. TimeInv'
  BY <1>1, <1>2, <1>3 DEF TimeInv
<1>6. CoverInv'
  BY <1>1, <1>2, <1>3 DEF CoverInv
<1>7. QED  BY <1>4, <1>5, <1>6

LEMMA QuietStep ==
  ASSUME RoundsInv, UNCHANGED <<kind, threads, job, ticket, current, records>>,
         main' = "submit" => main = "submit",
         RoundTypes', ControlInv', BarrierInv', CollectInv', ClockInv'
  PROVE  RoundsInv'
<1>1. PoolInv'
  <2>1. Submitted' = Submitted /\ Running' = Running
    BY DEF Submitted, Running
  <2>2. QED  BY <2>1 DEF RoundsInv, PoolInv
<1>2. OrderInv'
  <2>1. Answered' = Answered
    BY DEF Answered, Recorded
  <2>2. ASSUME NEW c \in Answered
        PROVE  RecordOf(c)' = RecordOf(c) /\ (Recorded(c)' <=> Recorded(c))
    BY DEF RecordOf, Recorded
  <2>3. QED  BY <2>1, <2>2, OrderFrame DEF RoundsInv
<1>3. QED  BY <1>1, <1>2 DEF RoundsInv

LEMMA TickKeeps ==
  ASSUME RoundsInv, Tick
  PROVE  RoundsInv'
<1> USE RoundsConstants
<1>1. /\ clock < MaxClock /\ clock' = clock + 1 /\ main # "returned" /\ main # "raised"
      /\ UNCHANGED <<kind, main, collected, region, threads, job, barrier, ticket, current, records>>
  BY DEF Tick
<1>2. clock \in 0 .. MaxClock
  BY DEF RoundsInv, RoundTypes
<1>3. RoundTypes'
  BY <1>1, <1>2 DEF RoundsInv, RoundTypes
<1>4. ControlInv' /\ BarrierInv' /\ CollectInv'
  BY <1>1 DEF RoundsInv, ControlInv, BarrierInv, CollectInv, DoneInv
<1>5. ClockInv'
  <2>1. region.start \in Int /\ region.stop \in Int
    BY DEF RoundsInv, RoundTypes
  <2>2. ASSUME NEW x \in Int, x <= clock
        PROVE  x <= clock'
    BY <1>1, <1>2, <2>2
  <2>3. ASSUME NEW j \in Jobs
        PROVE  current[j].start \in Int
    BY DEF RoundsInv, RoundTypes, CallRecords
  <2>4. ASSUME kind # "control", NEW j \in Jobs, NEW i \in 1 .. Len(records[j])
        PROVE  records[j][i].start \in Int /\ records[j][i].end \in Int
    <3>1. records[j][i] \in CallRecords
      BY <2>4 DEF RoundsInv, RoundTypes
    <3>2. QED  BY <3>1 DEF CallRecords
  <2>5. QED  BY <1>1, <2>1, <2>2, <2>3, <2>4 DEF RoundsInv, ClockInv
<1>6. QED  BY <1>1, <1>3, <1>4, <1>5, QuietStep

LEMMA BarrierTimesOutKeeps ==
  ASSUME RoundsInv, BarrierTimesOut
  PROVE  RoundsInv'
<1>1. /\ barrier.state = "filling" /\ barrier' = [barrier EXCEPT !.state = "broken"]
      /\ UNCHANGED <<kind, main, collected, region, threads, job, clock, ticket, current, records>>
  BY DEF BarrierTimesOut, MayTimeOut
<1>2. barrier.waiting' = barrier.waiting /\ barrier.state' = "broken"
  BY <1>1 DEF RoundsInv, RoundTypes
<1>3. RoundTypes'
  BY <1>1 DEF RoundsInv, RoundTypes
<1>4. ControlInv' /\ CollectInv' /\ ClockInv'
  BY <1>1, <1>2 DEF RoundsInv, ControlInv, CollectInv, DoneInv, ClockInv
<1>5. BarrierInv'
  BY <1>1, <1>2 DEF RoundsInv, BarrierInv
<1>6. QED  BY <1>1, <1>3, <1>4, <1>5, QuietStep

\* Of a round that the main thread is in the middle of.
LEMMA MainSteps ==
  ASSUME RoundsInv, main # "returned"
  PROVE  /\ kind # "control"
         /\ records \in [Jobs -> Seq(CallRecords)]
BY DEF RoundsInv, ControlInv, RoundTypes

LEMMA ReadStartKeeps ==
  ASSUME RoundsInv, ReadStart
  PROVE  RoundsInv'
<1>1. /\ main = "read_start" /\ main' = "arrive"
      /\ region' = [region EXCEPT !.start = clock]
      /\ UNCHANGED <<kind, collected, threads, job, barrier, clock, ticket, current, records>>
  BY DEF ReadStart
<1>2. /\ region'.start = clock /\ region'.stop = region.stop /\ clock \in 0 .. MaxClock
      /\ region' \in [start : 0 .. MaxClock, stop : 0 .. MaxClock]
  BY <1>1 DEF RoundsInv, RoundTypes
<1>3. RoundTypes'
  BY <1>1, <1>2 DEF RoundsInv, RoundTypes, Mains
<1>4. ControlInv' /\ BarrierInv' /\ CollectInv'
  BY <1>1 DEF RoundsInv, ControlInv, BarrierInv, CollectInv, DoneInv
<1>5. ClockInv'
  <2>1. kind = "timed" => barrier.state # "released"
    BY <1>1 DEF RoundsInv, BarrierInv
  <2>2. kind = "timed" => /\ \A j \in Jobs : job[j] \notin {"started", "answered"}
                          /\ \A j \in Jobs : ~ (Len(records[j]) > 0)
    BY <2>1 DEF RoundsInv, BarrierInv
  <2>3. kind = "timed" => \A j \in Jobs : 1 .. Len(records[j]) = {}
    <3>1. ASSUME kind = "timed", NEW j \in Jobs
          PROVE  Len(records[j]) \in Nat
      BY <1>1, <3>1, MainSteps
    <3>2. QED  BY <2>2, <3>1
  <2>4. kind # "control"
    BY <1>1, MainSteps
  <2>5. QED  BY <1>1, <1>2, <2>2, <2>3 DEF RoundsInv, ClockInv
<1>6. QED  BY <1>1, <1>3, <1>4, <1>5, QuietStep

\* When everybody who measures has come, the thread that measures has.
LEMMA MainIsParty ==
  ASSUME NEW W \in SUBSET ({Main} \cup Jobs),
         Cardinality(W) = N + 1
  PROVE  Main \in W
<1> SUFFICES ASSUME Main \notin W
             PROVE  FALSE
  OBVIOUS
<1>1. W \subseteq 1 .. N /\ N \in Nat
  BY RoundsConstants DEF Jobs
<1>2. IsFiniteSet(1 .. N) /\ Cardinality(1 .. N) = N
  BY <1>1, FS_Interval
<1>3. Cardinality(W) <= Cardinality(1 .. N)
  BY <1>1, <1>2, FS_Subset
<1>4. QED  BY <1>1, <1>2, <1>3

\* Somebody comes to the barrier.
LEMMA Arrives ==
  ASSUME RoundTypes, NEW p \in {Main} \cup Jobs,
         Arrive(p)
  PROVE  /\ barrier' \in [waiting : SUBSET ({Main} \cup Jobs),
                          state : {"filling", "released", "broken"}]
         /\ barrier'.waiting = barrier.waiting \cup {p}
         /\ barrier.state = "released" => barrier'.state = "released"
         /\ kind = "timed" /\ barrier'.state = "released" /\ barrier.state # "released" =>
              Main \in barrier'.waiting
<1>1. barrier \in [waiting : SUBSET ({Main} \cup Jobs),
                   state : {"filling", "released", "broken"}]
  BY DEF RoundTypes
<1> DEFINE all == barrier.state = "filling"
                  /\ Cardinality(barrier.waiting \cup {p}) = Parties
<1>2. barrier' = [waiting |-> barrier.waiting \cup {p},
                  state |-> IF all THEN "released" ELSE barrier.state]
  BY DEF Arrive
<1> HIDE DEF all
<1>3. /\ barrier'.waiting = barrier.waiting \cup {p}
      /\ barrier'.state = IF all THEN "released" ELSE barrier.state
  BY <1>2
<1>4. barrier' \in [waiting : SUBSET ({Main} \cup Jobs),
                    state : {"filling", "released", "broken"}]
  BY <1>1, <1>2
<1>5. ASSUME kind = "timed", barrier'.state = "released", barrier.state # "released"
      PROVE  Main \in barrier'.waiting
  <2>1. Cardinality(barrier.waiting \cup {p}) = N + 1
    BY <1>3, <1>5 DEF all, Parties
  <2>2. barrier.waiting \cup {p} \in SUBSET ({Main} \cup Jobs)
    BY <1>1
  <2>3. QED  BY <1>3, <2>1, <2>2, MainIsParty
<1>6. QED  BY <1>3, <1>4, <1>5

LEMMA MainArrivesKeeps ==
  ASSUME RoundsInv, MainArrives
  PROVE  RoundsInv'
<1>1. /\ main = "arrive" /\ main' = "wait" /\ Arrive(Main)
      /\ UNCHANGED <<kind, collected, region, threads, job, clock, ticket, current, records>>
  BY DEF MainArrives
<1>2. /\ barrier' \in [waiting : SUBSET ({Main} \cup Jobs),
                       state : {"filling", "released", "broken"}]
      /\ barrier'.waiting = barrier.waiting \cup {Main}
      /\ barrier.state = "released" => barrier'.state = "released"
  BY <1>1, Arrives DEF RoundsInv
<1>3. kind # "control"
  BY <1>1, MainSteps
<1>4. RoundTypes'
  BY <1>1, <1>2 DEF RoundsInv, RoundTypes, Mains
<1>5. ControlInv'
  BY <1>1, <1>3 DEF ControlInv
<1>6. BarrierInv'
  BY <1>1, <1>2 DEF RoundsInv, BarrierInv
<1>7. CollectInv'
  BY <1>1 DEF RoundsInv, CollectInv, DoneInv
<1>8. ClockInv'
  BY <1>1 DEF RoundsInv, ClockInv
<1>9. QED  BY <1>1, <1>4, <1>5, <1>6, <1>7, <1>8, QuietStep

LEMMA MainLeavesKeeps ==
  ASSUME RoundsInv, MainLeaves
  PROVE  RoundsInv'
<1> USE RoundsConstants
<1>1. /\ main = "wait" /\ main' \in {"collect", "fail"}
      /\ UNCHANGED <<kind, collected, region, threads, job, barrier, clock, ticket, current, records>>
  BY DEF MainLeaves
<1>2. kind # "control" /\ collected = 0
  BY <1>1, MainSteps DEF RoundsInv, CollectInv, DoneInv
<1>3. RoundTypes'
  BY <1>1 DEF RoundsInv, RoundTypes, Mains
<1>4. ControlInv' /\ BarrierInv' /\ ClockInv'
  BY <1>1, <1>2 DEF RoundsInv, ControlInv, BarrierInv, ClockInv
<1>5. CollectInv'
  BY <1>1, <1>2 DEF RoundsInv, CollectInv, DoneInv
<1>6. QED  BY <1>1, <1>3, <1>4, <1>5, QuietStep

LEMMA CollectKeeps ==
  ASSUME RoundsInv, Collect
  PROVE  RoundsInv'
<1> USE RoundsConstants
<1>1. /\ main = "collect"
      /\ UNCHANGED <<kind, region, threads, job, barrier, clock, ticket, current, records>>
      /\ \/ main' = "fail" /\ collected' = collected
         \/ /\ job[collected + 1] = "finished" /\ collected' = collected + 1
            /\ main' = IF collected' = N THEN AfterCollecting ELSE main
  BY DEF Collect
<1>2. kind # "control" /\ collected \in 0 .. N /\ collected < N
  BY <1>1, MainSteps DEF RoundsInv, CollectInv, DoneInv, RoundTypes
<1>3. AfterCollecting \in {"read_stop", "succeed"}
      /\ (kind = "timed" => AfterCollecting = "read_stop")
  BY DEF AfterCollecting
<1>4. main' \in {"fail", "collect", "read_stop", "succeed"}
      /\ (kind = "timed" => main' # "succeed")
  BY <1>1, <1>3
<1>5. RoundTypes'
  <2>1. collected' \in 0 .. N
    BY <1>1, <1>2
  <2>2. QED  BY <1>1, <1>4, <2>1 DEF RoundsInv, RoundTypes, Mains
<1>6. ControlInv'
  BY <1>1, <1>2 DEF ControlInv
<1>7. BarrierInv'
  BY <1>1, <1>4 DEF RoundsInv, BarrierInv
<1>8. CollectInv'
  <2>1. \A i \in 1 .. collected' : job'[i] = "finished"
    <3>1. \A i \in 1 .. collected : job[i] = "finished"
      BY DEF RoundsInv, CollectInv, DoneInv
    <3>2. \A i \in 1 .. collected' : i \in 1 .. collected \/ (i = collected + 1 /\ job[i] = "finished")
      BY <1>1, <1>2
    <3>3. QED  BY <1>1, <3>1, <3>2
  <2>2. main' = "collect" => collected' < N
    BY <1>1, <1>2, <1>3
  <2>3. main' \in {"read_stop", "succeed"} => collected' = N
    BY <1>1, <1>2, <1>3
  <2>4. kind # "control" =>
          \A j \in Jobs :
            /\ Len(records[j]) <= Calls
            /\ job[j] \in {"started", "answered"} => Len(records[j]) < Calls
            /\ job[j] = "finished" => Len(records[j]) = Calls
    BY DEF RoundsInv, CollectInv, DoneInv
  <2>5. QED  BY <1>1, <1>4, <2>1, <2>2, <2>3, <2>4 DEF CollectInv, DoneInv
<1>9. ClockInv'
  BY <1>1, <1>2, <1>4 DEF RoundsInv, ClockInv
<1>10. QED  BY <1>1, <1>4, <1>5, <1>6, <1>7, <1>8, <1>9, QuietStep

LEMMA ResultTimesOutKeeps ==
  ASSUME RoundsInv, ResultTimesOut
  PROVE  RoundsInv'
<1>1. /\ main = "collect" /\ main' = "fail"
      /\ UNCHANGED <<kind, collected, region, threads, job, barrier, clock, ticket, current, records>>
  BY DEF ResultTimesOut
<1>2. kind # "control"
  BY <1>1, MainSteps
<1>3. RoundTypes'
  BY <1>1 DEF RoundsInv, RoundTypes, Mains
<1>4. ControlInv' /\ BarrierInv' /\ CollectInv' /\ ClockInv'
  BY <1>1, <1>2 DEF RoundsInv, ControlInv, BarrierInv, CollectInv, DoneInv, ClockInv
<1>5. QED  BY <1>1, <1>3, <1>4, QuietStep

LEMMA ReadStopKeeps ==
  ASSUME RoundsInv, ReadStop
  PROVE  RoundsInv'
<1>1. /\ main = "read_stop" /\ main' = "succeed"
      /\ region' = [region EXCEPT !.stop = clock]
      /\ UNCHANGED <<kind, collected, threads, job, barrier, clock, ticket, current, records>>
  BY DEF ReadStop
<1>2. /\ region'.start = region.start /\ region'.stop = clock
      /\ region' \in [start : 0 .. MaxClock, stop : 0 .. MaxClock]
  BY <1>1 DEF RoundsInv, RoundTypes
<1>3. kind # "control"
  BY <1>1, MainSteps
<1>4. RoundTypes'
  BY <1>1, <1>2 DEF RoundsInv, RoundTypes, Mains
<1>5. ControlInv' /\ BarrierInv' /\ CollectInv'
  BY <1>1, <1>3 DEF RoundsInv, ControlInv, BarrierInv, CollectInv, DoneInv
<1>6. ClockInv'
  BY <1>1, <1>2, <1>3 DEF RoundsInv, ClockInv
<1>7. QED  BY <1>1, <1>4, <1>5, <1>6, QuietStep

LEMMA ShutdownKeeps ==
  ASSUME RoundsInv, Shutdown
  PROVE  RoundsInv'
<1>1. /\ main \in {"succeed", "fail"}
      /\ main' = IF main = "succeed" THEN "returned" ELSE "raised"
      /\ UNCHANGED <<kind, collected, region, threads, job, barrier, clock, ticket, current, records>>
  BY DEF Shutdown
<1>2. kind # "control"
  BY <1>1, MainSteps
<1>3. RoundTypes'
  BY <1>1 DEF RoundsInv, RoundTypes, Mains
<1>4. ControlInv' /\ BarrierInv'
  BY <1>1, <1>2 DEF RoundsInv, ControlInv, BarrierInv
<1>5. CollectInv'
  BY <1>1, <1>2 DEF RoundsInv, CollectInv, DoneInv
<1>6. ClockInv'
  BY <1>1, <1>2 DEF RoundsInv, ClockInv
<1>7. QED  BY <1>1, <1>3, <1>4, <1>5, <1>6, QuietStep

(***************************************************************************)
(* The jobs.                                                               *)
(***************************************************************************)
\* A job that moves without a call.
LEMMA QuietJob ==
  ASSUME RoundsInv, kind # "control",
         NEW j \in Jobs, job[j] \notin {"answered", "finished", "raised"},
         NEW s \in JobStates \ {"started", "answered"}, job' = [job EXCEPT ![j] = s],
         s = "finished" => Len(records[j]) = Calls,
         main' = main \/ main' \notin {"succeed", "returned"},
         UNCHANGED <<kind, collected, region, clock, ticket, current, records>>
  PROVE  ControlInv' /\ DoneInv' /\ ClockInv' /\ OrderInv'
<1>1. job \in [Jobs -> JobStates] /\ collected \in 0 .. N
  BY DEF RoundsInv, RoundTypes
<1>2. /\ job'[j] = s
      /\ \A i \in Jobs : i # j => job'[i] = job[i]
  BY <1>1
<1>3. ControlInv'
  BY DEF ControlInv
<1>4. DoneInv'
  <2>1. ASSUME NEW i \in 1 .. collected
        PROVE  job'[i] = "finished"
    <3>1. job[i] = "finished"
      BY DEF RoundsInv, CollectInv, DoneInv
    <3>2. i \in Jobs
      BY <1>1, RoundsConstants DEF Jobs
    <3>3. QED  BY <1>2, <3>1, <3>2
  <2>2. ASSUME NEW i \in Jobs
        PROVE  /\ Len(records[i]) <= Calls
               /\ job'[i] \in {"started", "answered"} => Len(records[i]) < Calls
               /\ job'[i] = "finished" => Len(records[i]) = Calls
    BY <1>2 DEF RoundsInv, CollectInv, DoneInv
  <2>3. QED  BY <2>1, <2>2 DEF DoneInv
<1>5. ClockInv'
  <2>1. \A i \in Jobs : job'[i] \in {"started", "answered"} => job[i] = job'[i]
    BY <1>2
  <2>2. QED  BY <2>1 DEF RoundsInv, ClockInv
<1>6. OrderInv'
  <2>1. \A i \in Jobs : job'[i] = "answered" <=> job[i] = "answered"
    BY <1>2
  <2>2. Answered' = Answered
    BY <2>1 DEF Answered, Recorded
  <2>3. ASSUME NEW c \in Answered
        PROVE  RecordOf(c)' = RecordOf(c) /\ (Recorded(c)' <=> Recorded(c))
    BY DEF RecordOf, Recorded
  <2>4. \A i \in Jobs : job[i] = "raised" => job'[i] = "raised"
    BY <1>2
  <2>5. QED  BY <2>2, <2>3, <2>4, OrderFrame DEF RoundsInv
<1>7. QED  BY <1>3, <1>4, <1>5, <1>6

\* The executor starts a thread for the new job at most.
LEMMA Threads ==
  ASSUME RoundTypes, NEW k \in 0 .. N, Submitted = 1 .. k,
         threads <= k
  PROVE  /\ Cardinality(Submitted) = k
         /\ LET t == Max({threads, Cardinality(Submitted \ Ended) + 1})
            IN  t \in Nat /\ threads <= t /\ t <= k + 1
<1> DEFINE c == Cardinality(Submitted \ Ended)
           t == Max({threads, c + 1})
<1>1. IsFiniteSet(1 .. k) /\ Cardinality(1 .. k) = k /\ k \in Nat /\ threads \in Nat
  BY RoundsConstants, FS_Interval DEF RoundTypes
<1>2. Submitted \ Ended \subseteq 1 .. k
  OBVIOUS
<1>3. c \in Nat /\ c <= k
  BY <1>1, <1>2, FS_Subset, FS_CardinalityType
<1> HIDE DEF c
<1>4. t \in {threads, c + 1} /\ \A y \in {threads, c + 1} : t >= y
  <2>1. \E x \in {threads, c + 1} : \A y \in {threads, c + 1} : x >= y
    BY <1>1, <1>3
  <2>2. QED  BY <2>1 DEF Max
<1> HIDE DEF t
<1>5. t \in Nat /\ threads <= t /\ t <= k + 1
  BY <1>1, <1>3, <1>4
<1>6. QED  BY <1>1, <1>5 DEF c, t

LEMMA SubmitKeeps ==
  ASSUME RoundsInv, Submit
  PROVE  RoundsInv'
<1> USE RoundsConstants
<1>1. PICK k \in 0 .. N : Submitted = 1 .. k /\ (main = "submit" => k < N)
  BY DEF RoundsInv, PoolInv
<1>2. /\ main = "submit"
      /\ UNCHANGED <<kind, collected, region, barrier, clock, ticket, current, records>>
  BY DEF Submit
<1>3. k < N /\ k \in Nat /\ threads <= k /\ threads \in Nat
  <2>1. Cardinality(1 .. k) = k
    BY FS_Interval
  <2>2. QED  BY <1>1, <1>2, <2>1 DEF RoundsInv, PoolInv, RoundTypes
<1>4. AfterSubmitting \in {"read_start", "collect"}
  BY DEF AfterSubmitting
<1>5. /\ job' = [job EXCEPT ![k + 1] = "queued"]
      /\ threads' \in Nat /\ threads <= threads' /\ threads' <= k + 1
      /\ main' \in {"submit", "fail", "read_start", "collect"}
      /\ main' = "submit" => k + 1 < N
  <2>1. /\ Cardinality(Submitted) = k
        /\ LET t == Max({threads, Cardinality(Submitted \ Ended) + 1})
           IN  t \in Nat /\ threads <= t /\ t <= k + 1
    BY <1>1, <1>3, Threads DEF RoundsInv
  <2> DEFINE t == Max({threads, Cardinality(Submitted \ Ended) + 1})
  <2>2. /\ job' = [job EXCEPT ![k + 1] = "queued"]
        /\ \/ threads' = t /\ main' = IF k + 1 = N THEN AfterSubmitting ELSE main
           \/ threads' = threads /\ main' = "fail"
    BY <2>1 DEF Submit
  <2> HIDE DEF t
  <2>3. t \in Nat /\ threads <= t /\ t <= k + 1
    BY <2>1 DEF t
  <2>4. QED  BY <1>2, <1>3, <1>4, <2>2, <2>3
<1>6. /\ k + 1 \in Jobs /\ job[k + 1] = "none" /\ kind # "control"
      /\ job \in [Jobs -> JobStates]
  <2>1. k + 1 \in Jobs /\ k + 1 \notin 1 .. k
    BY <1>3 DEF Jobs
  <2>2. QED  BY <1>1, <1>2, <2>1, MainSteps DEF Submitted, RoundsInv, RoundTypes
<1>7. ControlInv' /\ DoneInv' /\ ClockInv' /\ OrderInv'
  BY <1>2, <1>5, <1>6, QuietJob DEF JobStates
<1>8. RoundTypes'
  BY <1>2, <1>5, <1>6 DEF RoundsInv, RoundTypes, Mains, JobStates
<1>9. PoolInv'
  <2>1. Submitted' = 1 .. k + 1
    <3>1. \A i \in Jobs : job'[i] # "none" <=> i = k + 1 \/ job[i] # "none"
      BY <1>5, <1>6
    <3>2. \A i \in Jobs : i \in 1 .. k + 1 <=> i = k + 1 \/ i \in 1 .. k
      BY <1>3 DEF Jobs
    <3>3. 1 .. k + 1 \subseteq Jobs
      BY <1>3 DEF Jobs
    <3>4. \A i \in Jobs : job[i] # "none" <=> i \in 1 .. k
      BY <1>1 DEF Submitted
    <3>5. QED  BY <3>1, <3>2, <3>3, <3>4 DEF Submitted
  <2>2. Cardinality(Submitted') = k + 1
    BY <1>3, <2>1, FS_Interval
  <2>3. Running' = Running
    BY <1>5, <1>6 DEF Running
  <2>4. Cardinality(Running) \in Nat /\ Cardinality(Running) <= threads
    BY JobSets DEF RoundsInv, PoolInv
  <2>5. Cardinality(Running)' <= threads'
    BY <1>3, <1>5, <2>3, <2>4
  <2>6. k + 1 \in 0 .. N
    BY <1>3
  <2>7. QED  BY <1>3, <1>5, <2>1, <2>2, <2>5, <2>6 DEF PoolInv
<1>10. BarrierInv'
  BY <1>2, <1>5, <1>6 DEF RoundsInv, BarrierInv
<1>11. CollectInv'
  <2>1. collected = 0
    BY <1>2 DEF RoundsInv, CollectInv
  <2>2. QED  BY <1>2, <1>5, <1>7, <2>1 DEF CollectInv
<1>12. QED  BY <1>7, <1>8, <1>9, <1>10, <1>11 DEF RoundsInv

\* Of a job that a thread has.
LEMMA JobSteps ==
  ASSUME RoundsInv, NEW j \in Jobs, job[j] # "none"
  PROVE  /\ kind # "control"
         /\ records \in [Jobs -> Seq(CallRecords)]
         /\ records[j] \in Seq(CallRecords) /\ Len(records[j]) \in Nat
         /\ current[j] \in CallRecords
<1>1. kind # "control"
  BY DEF RoundsInv, ControlInv
<1>2. records \in [Jobs -> Seq(CallRecords)] /\ current \in [Jobs -> CallRecords]
  BY <1>1 DEF RoundsInv, RoundTypes
<1>3. QED  BY <1>1, <1>2

LEMMA JobArrivesKeeps ==
  ASSUME RoundsInv, NEW j \in Jobs, JobArrives(j)
  PROVE  RoundsInv'
<1>1. /\ job[j] = "queued" /\ job' = [job EXCEPT ![j] = "waiting"] /\ Arrive(j)
      /\ UNCHANGED <<kind, main, collected, region, threads, clock, ticket, current, records>>
  BY DEF JobArrives
<1>2. Cardinality(Running) < threads
  BY DEF JobArrives
<1>3. kind # "control"
  BY <1>1, JobSteps
<1>4. job \in [Jobs -> JobStates] /\ threads \in Nat
  BY DEF RoundsInv, RoundTypes
<1>5. ControlInv' /\ DoneInv' /\ ClockInv' /\ OrderInv'
  BY <1>1, <1>3, QuietJob DEF JobStates
<1>6. /\ barrier' \in [waiting : SUBSET ({Main} \cup Jobs),
                       state : {"filling", "released", "broken"}]
      /\ barrier'.waiting = barrier.waiting \cup {j}
      /\ barrier.state = "released" => barrier'.state = "released"
      /\ kind = "timed" /\ barrier'.state = "released" /\ barrier.state # "released" =>
           Main \in barrier'.waiting
  BY <1>1, Arrives DEF RoundsInv
<1>7. RoundTypes'
  BY <1>1, <1>4, <1>6 DEF RoundsInv, RoundTypes, JobStates
<1>8. PoolInv'
  <2>1. Submitted' = Submitted
    BY <1>1, <1>4 DEF Submitted
  <2>2. Running' = Running \cup {j} /\ j \notin Running
    BY <1>1, <1>4 DEF Running
  <2>3. IsFiniteSet(Running) /\ Cardinality(Running) \in Nat
    BY JobSets DEF RoundsInv
  <2>4. Cardinality(Running \cup {j}) = Cardinality(Running) + 1
    BY <2>2, <2>3, FS_AddElement
  <2>5. Cardinality(Running)' <= threads'
    BY <1>1, <1>2, <1>4, <2>2, <2>3, <2>4
  <2>6. QED  BY <1>1, <2>1, <2>5 DEF RoundsInv, PoolInv
<1>9. BarrierInv'
  <2>1. Main # j
    BY RoundsConstants DEF Main, Jobs
  <2>2. Main \in barrier'.waiting => Main \in barrier.waiting
    BY <1>6, <2>1
  <2>3. kind = "timed" /\ barrier'.state = "released" => Main \in barrier'.waiting
    BY <1>6 DEF RoundsInv, BarrierInv
  <2>4. \A i \in Jobs :
          job'[i] \in {"between", "started", "answered", "finished"} => job'[i] = job[i]
    BY <1>1, <1>4
  <2>5. \A i \in Jobs :
          job'[i] \in {"between", "started", "answered", "finished"} => barrier'.state = "released"
    BY <1>6, <2>4 DEF RoundsInv, BarrierInv
  <2>6. \A i \in Jobs : Len(records[i]) > 0 => barrier'.state = "released"
    BY <1>3, <1>6 DEF RoundsInv, BarrierInv
  <2>7. QED  BY <1>1, <2>2, <2>3, <2>5, <2>6 DEF RoundsInv, BarrierInv
<1>10. CollectInv'
  BY <1>1, <1>5 DEF RoundsInv, CollectInv
<1>11. QED  BY <1>5, <1>7, <1>8, <1>9, <1>10 DEF RoundsInv

\* A job moves past the barrier, or beyond it, and nothing but the job does.
LEMMA JobGoesOn ==
  ASSUME RoundsInv,
         NEW j \in Jobs, job[j] \in RunningStates,
         NEW s \in JobStates \ {"none"}, job' = [job EXCEPT ![j] = s],
         s \in {"between", "started", "answered", "finished"} => barrier.state = "released",
         UNCHANGED <<kind, main, collected, region, threads, barrier, clock>>,
         ticket' \in Nat, current' \in [Jobs -> CallRecords],
         records' \in [Jobs -> Seq(CallRecords)],
         DoneInv', ClockInv', OrderInv',
         barrier.state # "released" => records' = records
  PROVE  RoundsInv'
<1>1. job \in [Jobs -> JobStates]
  BY DEF RoundsInv, RoundTypes
<1>2. kind # "control"
  BY JobSteps DEF RunningStates
<1>3. RoundTypes'
  BY <1>1 DEF RoundsInv, RoundTypes
<1>4. ControlInv'
  BY <1>2 DEF ControlInv
<1>5. PoolInv'
  BY JobMoves DEF RoundsInv
<1>6. BarrierInv'
  <2>1. \A i \in Jobs :
          job'[i] \in {"between", "started", "answered", "finished"} => barrier.state = "released"
    BY <1>1 DEF RoundsInv, BarrierInv
  <2>2. \A i \in Jobs : Len(records'[i]) > 0 => barrier.state = "released"
    BY <1>2 DEF RoundsInv, BarrierInv
  <2>3. QED  BY <2>1, <2>2 DEF RoundsInv, BarrierInv
<1>7. CollectInv'
  BY DEF RoundsInv, CollectInv
<1>8. QED  BY <1>3, <1>4, <1>5, <1>6, <1>7 DEF RoundsInv

LEMMA JobLeavesKeeps ==
  ASSUME RoundsInv, NEW j \in Jobs, JobLeaves(j)
  PROVE  RoundsInv'
<1> DEFINE s == IF barrier.state = "released" THEN "between" ELSE "raised"
<1>1. /\ job[j] = "waiting" /\ job' = [job EXCEPT ![j] = s]
      /\ UNCHANGED <<kind, main, collected, region, threads, barrier, clock, ticket, current, records>>
  BY DEF JobLeaves
<1>2. s \in JobStates /\ s \in {"between", "raised"} /\ (s = "between" => barrier.state = "released")
  BY DEF JobStates
<1> HIDE DEF s
<1>3. kind # "control" /\ records \in [Jobs -> Seq(CallRecords)]
  BY <1>1, JobSteps
<1>4. DoneInv' /\ ClockInv' /\ OrderInv'
  BY <1>1, <1>2, <1>3, QuietJob
<1>5. ticket' \in Nat /\ current' \in [Jobs -> CallRecords]
  BY <1>1 DEF RoundsInv, RoundTypes
<1>6. QED  BY <1>1, <1>2, <1>3, <1>4, <1>5, JobGoesOn DEF RunningStates

LEMMA FinishKeeps ==
  ASSUME RoundsInv, NEW j \in Jobs, Finish(j)
  PROVE  RoundsInv'
<1>1. /\ job[j] = "between" /\ job' = [job EXCEPT ![j] = "finished"] /\ Len(records[j]) = Calls
      /\ UNCHANGED <<kind, main, collected, region, threads, barrier, clock, ticket, current, records>>
  BY DEF Finish
<1>2. kind # "control" /\ records \in [Jobs -> Seq(CallRecords)]
  BY <1>1, JobSteps
<1>3. "finished" \in JobStates /\ barrier.state = "released"
  BY <1>1 DEF JobStates, RoundsInv, BarrierInv
<1>4. DoneInv' /\ ClockInv' /\ OrderInv'
  BY <1>1, <1>2, <1>3, QuietJob
<1>5. ticket' \in Nat /\ current' \in [Jobs -> CallRecords]
  BY <1>1 DEF RoundsInv, RoundTypes
<1>6. QED  BY <1>1, <1>2, <1>3, <1>4, <1>5, JobGoesOn DEF RunningStates

LEMMA StartCallKeeps ==
  ASSUME RoundsInv, NEW j \in Jobs, StartCall(j)
  PROVE  RoundsInv'
<1>1. /\ job[j] = "between" /\ job' = [job EXCEPT ![j] = "started"] /\ Len(records[j]) < Calls
      /\ current' = [current EXCEPT ![j] = [NoRecord EXCEPT !.start = clock]]
      /\ UNCHANGED <<kind, main, collected, region, threads, barrier, clock, ticket, records>>
  BY DEF StartCall
<1>2. kind # "control" /\ records \in [Jobs -> Seq(CallRecords)]
  BY <1>1, JobSteps
<1>3. "started" \in JobStates /\ barrier.state = "released"
  BY <1>1 DEF JobStates, RoundsInv, BarrierInv
<1>4. /\ job \in [Jobs -> JobStates] /\ current \in [Jobs -> CallRecords]
      /\ clock \in Nat /\ ticket \in Nat /\ collected \in 0 .. N
  BY RoundsConstants DEF RoundsInv, RoundTypes
<1> DEFINE r == [ticket |-> 0, values |-> <<>>, start |-> clock, end |-> 0]
<1>5. /\ [NoRecord EXCEPT !.start = clock] = r
      /\ r \in CallRecords /\ r.start = clock
  <2>1. [NoRecord EXCEPT !.start = clock] = r
    BY DEF NoRecord
  <2>2. <<>> \in Seq(Nat)
    OBVIOUS
  <2>3. r \in CallRecords
    BY <1>4, <2>2 DEF CallRecords
  <2>4. QED  BY <2>1, <2>3
<1> HIDE DEF r
<1>6. current' \in [Jobs -> CallRecords] /\ current'[j] = r
      /\ \A i \in Jobs : i # j => current'[i] = current[i] /\ job'[i] = job[i]
  BY <1>1, <1>4, <1>5
<1>7. DoneInv'
  <2>1. \A i \in 1 .. collected : i \in Jobs
    BY <1>4, RoundsConstants DEF Jobs
  <2>2. QED  BY <1>1, <1>4, <2>1 DEF RoundsInv, CollectInv, DoneInv
<1>8. ClockInv'
  <2>1. region.start <= clock /\ region.start \in Int
    BY DEF RoundsInv, RoundTypes, ClockInv
  <2>2. ASSUME NEW i \in Jobs, job'[i] \in {"started", "answered"}
        PROVE  current'[i].start <= clock /\ (kind = "timed" => region.start <= current'[i].start)
    <3>1. CASE i = j
      BY <1>4, <1>5, <1>6, <2>1, <3>1
    <3>2. CASE i # j
      BY <1>6, <2>2, <3>2 DEF RoundsInv, ClockInv
    <3>3. QED  BY <3>1, <3>2
  <2>3. QED  BY <1>1, <2>1, <2>2 DEF RoundsInv, ClockInv
<1>9. OrderInv'
  <2>1. \A i \in Jobs : job'[i] = "answered" <=> job[i] = "answered"
    BY <1>1, <1>4
  <2>2. Answered' = Answered
    BY <1>1, <2>1 DEF Answered, Recorded
  <2>3. ASSUME NEW c \in Answered
        PROVE  RecordOf(c)' = RecordOf(c) /\ (Recorded(c)' <=> Recorded(c))
    <3>1. c[1] \in Jobs /\ (c[1] = j => Recorded(c))
      BY <1>1 DEF Answered
    <3>2. QED  BY <1>1, <1>6, <3>1 DEF RecordOf, Recorded
  <2>4. \A i \in Jobs : job[i] = "raised" => job'[i] = "raised"
    BY <1>1, <1>4
  <2>5. QED  BY <1>1, <2>2, <2>3, <2>4, OrderFrame DEF RoundsInv
<1>10. QED  BY <1>1, <1>2, <1>3, <1>4, <1>6, <1>7, <1>8, <1>9, JobGoesOn DEF RunningStates

LEMMA AnswerTypes ==
  ASSUME RoundsInv, kind # "control", NEW c \in Answered
  PROVE  /\ c[1] \in Jobs /\ c[2] \in Nat \ {0} /\ c = <<c[1], c[2]>>
         /\ RecordOf(c) \in CallRecords
         /\ EndOfBlock(RecordOf(c)) \in Nat
<1>1. c[1] \in Jobs /\ c[2] \in Nat \ {0} /\ c = <<c[1], c[2]>>
  BY DEF Answered
<1>2. current[c[1]] \in CallRecords /\ records[c[1]] \in Seq(CallRecords)
  BY <1>1 DEF RoundsInv, RoundTypes
<1>3. RecordOf(c) \in CallRecords
  <2>1. CASE Recorded(c)
    BY <1>1, <1>2, <2>1 DEF RecordOf, Recorded
  <2>2. CASE ~ Recorded(c)
    BY <1>2, <2>2 DEF RecordOf
  <2>3. QED  BY <2>1, <2>2
<1>4. QED  BY <1>1, <1>3 DEF CallRecords, EndOfBlock

\* A call that raises may have consumed tickets.
LEMMA GenerateRaisesKeeps ==
  ASSUME RoundsInv, NEW j \in Jobs, job[j] = "started",
         NEW t \in Nat, ticket <= t, ticket' = t,
         job' = [job EXCEPT ![j] = "raised"],
         UNCHANGED <<kind, main, collected, region, threads, barrier, clock, current, records>>
  PROVE  RoundsInv'
<1>1. kind # "control" /\ records \in [Jobs -> Seq(CallRecords)]
  BY JobSteps
<1>2. /\ job \in [Jobs -> JobStates] /\ current \in [Jobs -> CallRecords]
      /\ ticket \in Nat /\ collected \in 0 .. N
  BY DEF RoundsInv, RoundTypes
<1>3. job'[j] = "raised" /\ \A i \in Jobs : i # j => job'[i] = job[i]
  BY <1>2
<1>4. DoneInv'
  <2>1. \A i \in 1 .. collected : i \in Jobs
    BY <1>2, RoundsConstants DEF Jobs
  <2>2. \A i \in 1 .. collected : i # j
    BY DEF RoundsInv, CollectInv, DoneInv
  <2>3. QED  BY <1>3, <2>1, <2>2 DEF RoundsInv, CollectInv, DoneInv
<1>5. ClockInv'
  BY <1>3 DEF RoundsInv, ClockInv
<1>6. OrderInv'
  <2>1. \A i \in Jobs : job'[i] = "answered" <=> job[i] = "answered"
    BY <1>3
  <2>2. Answered' = Answered
    BY <2>1 DEF Answered, Recorded
  <2>3. ASSUME NEW c \in Answered
        PROVE  RecordOf(c)' = RecordOf(c) /\ (Recorded(c)' <=> Recorded(c))
    BY DEF RecordOf, Recorded
  <2>4. BlockInv'
    <3>1. ASSUME NEW c \in Answered
          PROVE  IsBlock(RecordOf(c)) /\ EndOfBlock(RecordOf(c)) <= ticket'
      <4>1. IsBlock(RecordOf(c)) /\ EndOfBlock(RecordOf(c)) <= ticket
        BY <1>1 DEF RoundsInv, OrderInv, BlockInv
      <4>2. EndOfBlock(RecordOf(c)) \in Nat
        BY <1>1, AnswerTypes
      <4>3. QED  BY <1>2, <4>1, <4>2
    <3>2. \A c, d \in Answered : c = d \/ Apart(RecordOf(c), RecordOf(d))
      BY <1>1 DEF RoundsInv, OrderInv, BlockInv
    <3>3. QED  BY <2>2, <2>3, <3>1, <3>2 DEF BlockInv
  <2>5. TimeInv'
    BY <1>1, <2>2, <2>3 DEF RoundsInv, OrderInv, TimeInv
  <2>6. CoverInv'
    BY <1>3 DEF CoverInv
  <2>7. QED  BY <2>4, <2>5, <2>6 DEF OrderInv
<1>7. "raised" \in JobStates
  BY DEF JobStates
<1>8. QED  BY <1>1, <1>2, <1>4, <1>5, <1>6, <1>7, JobGoesOn DEF RunningStates

LEMMA AnswerOf ==
  ASSUME NEW q \in CallRecords, NEW t, NEW v
  PROVE  [[q EXCEPT !.ticket = t] EXCEPT !.values = v] =
           [ticket |-> t, values |-> v, start |-> q.start, end |-> q.end]
<1>1. q = [ticket |-> q.ticket, values |-> q.values, start |-> q.start, end |-> q.end]
  BY DEF CallRecords
<1>2. [q EXCEPT !.ticket = t] = [ticket |-> t, values |-> q.values, start |-> q.start, end |-> q.end]
  BY <1>1
<1>3. [[ticket |-> t, values |-> q.values, start |-> q.start, end |-> q.end] EXCEPT !.values = v]
        = [ticket |-> t, values |-> v, start |-> q.start, end |-> q.end]
  OBVIOUS
<1>4. QED  BY <1>2, <1>3

\* The block that a call takes begins where all others end.
LEMMA GenerateAnswersKeeps ==
  ASSUME RoundsInv, NEW j \in Jobs, job[j] = "started",
         NEW n \in Nat \ {0}, ticket' = ticket + n,
         current' = [current EXCEPT ![j].ticket = ticket,
                                    ![j].values = [i \in 1 .. n |-> ticket + i]],
         job' = [job EXCEPT ![j] = "answered"],
         UNCHANGED <<kind, main, collected, region, threads, barrier, clock, records>>
  PROVE  RoundsInv'
<1>1. /\ kind # "control" /\ records \in [Jobs -> Seq(CallRecords)]
      /\ Len(records[j]) \in Nat /\ current[j] \in CallRecords
  BY JobSteps
<1>2. /\ job \in [Jobs -> JobStates] /\ current \in [Jobs -> CallRecords]
      /\ ticket \in Nat /\ collected \in 0 .. N
  BY DEF RoundsInv, RoundTypes
<1>3. job'[j] = "answered" /\ \A i \in Jobs : i # j => job'[i] = job[i]
  BY <1>2
<1> DEFINE v == [i \in 1 .. n |-> ticket + i]
           r == [ticket |-> ticket, values |-> v, start |-> current[j].start, end |-> current[j].end]
<1>4. v \in Seq(Nat) /\ Len(v) = n /\ \A i \in 1 .. n : v[i] = ticket + i
  <2>1. \A i \in 1 .. n : ticket + i \in Nat
    BY <1>2
  <2>2. QED  BY <2>1
<1>5. current' = [current EXCEPT ![j] = r]
  <2>1. current' = [current EXCEPT ![j] = [[current[j] EXCEPT !.ticket = ticket] EXCEPT !.values = v]]
    BY <1>2
  <2>2. [[current[j] EXCEPT !.ticket = ticket] EXCEPT !.values = v] = r
    BY <1>1, AnswerOf
  <2>3. QED  BY <2>1, <2>2
<1> HIDE DEF v
<1>6. /\ r \in CallRecords /\ r.ticket = ticket /\ r.values = v
      /\ r.start = current[j].start /\ r.end = current[j].end
  BY <1>1, <1>2, <1>4 DEF CallRecords
<1> HIDE DEF r
<1>7. /\ current' \in [Jobs -> CallRecords] /\ current'[j] = r
      /\ \A i \in Jobs : i # j => current'[i] = current[i]
  BY <1>2, <1>5, <1>6
<1>8. DoneInv'
  <2>1. \A i \in 1 .. collected : i \in Jobs
    BY <1>2, RoundsConstants DEF Jobs
  <2>2. \A i \in 1 .. collected : i # j
    BY DEF RoundsInv, CollectInv, DoneInv
  <2>3. QED  BY <1>3, <2>1, <2>2 DEF RoundsInv, CollectInv, DoneInv
<1>9. ClockInv'
  <2>1. ASSUME NEW i \in Jobs, job'[i] \in {"started", "answered"}
        PROVE  current'[i].start <= clock /\ (kind = "timed" => region.start <= current'[i].start)
    <3>1. current'[i].start = current[i].start /\ job[i] \in {"started", "answered"}
      BY <1>3, <1>6, <1>7, <2>1
    <3>2. QED  BY <3>1 DEF RoundsInv, ClockInv
  <2>2. QED  BY <2>1 DEF RoundsInv, ClockInv
<1> PICK m \in Nat \ {0} : m = Len(records[j]) + 1
  BY <1>1
<1> DEFINE new == <<j, m>>
<1>10. /\ new \notin Answered /\ Answered' = Answered \cup {new}
       /\ RecordOf(new)' = r /\ ~ Recorded(new)'
  <2>1. new \in Jobs \X (Nat \ {0}) /\ new[1] = j /\ new[2] = Len(records[j]) + 1
    OBVIOUS
  <2>2. ~ Recorded(new) /\ ~ Recorded(new)'
    BY <1>1, <2>1 DEF Recorded
  <2>3. new \notin Answered
    BY <2>1, <2>2 DEF Answered
  <2>4. ASSUME NEW c \in Jobs \X (Nat \ {0})
        PROVE  c \in Answered' <=> c \in Answered \/ c = new
    <3>1. c = new <=> c[1] = j /\ c[2] = Len(records[j]) + 1
      BY <2>1
    <3>2. Recorded(c)' <=> Recorded(c)
      BY DEF Recorded
    <3>3. CASE c[1] = j
      BY <1>3, <3>1, <3>2, <3>3 DEF Answered
    <3>4. CASE c[1] # j
      BY <1>3, <3>1, <3>2, <3>4 DEF Answered
    <3>5. QED  BY <3>3, <3>4
  <2>5. Answered' \subseteq Jobs \X (Nat \ {0}) /\ Answered \subseteq Jobs \X (Nat \ {0})
    BY DEF Answered
  <2>6. Answered' = Answered \cup {new}
    BY <2>1, <2>4, <2>5
  <2>7. RecordOf(new)' = r
    BY <1>7, <2>1, <2>2 DEF RecordOf
  <2>8. QED  BY <2>2, <2>3, <2>6, <2>7
<1>11. ASSUME NEW c \in Answered
       PROVE  RecordOf(c)' = RecordOf(c) /\ (Recorded(c)' <=> Recorded(c))
  <2>1. c[1] \in Jobs /\ (c[1] = j => Recorded(c))
    BY DEF Answered
  <2>2. QED  BY <1>7, <2>1 DEF RecordOf, Recorded
<1> HIDE DEF new
<1>12. IsBlock(r) /\ EndOfBlock(r) = ticket'
  BY <1>4, <1>6 DEF IsBlock, EndOfBlock
<1>13. ASSUME NEW c \in Answered
       PROVE  /\ IsBlock(RecordOf(c)) /\ EndOfBlock(RecordOf(c)) <= r.ticket
              /\ EndOfBlock(RecordOf(c)) \in Nat
  BY <1>1, <1>6, AnswerTypes DEF RoundsInv, OrderInv, BlockInv
<1>14. BlockInv'
  <2>1. ASSUME NEW c \in Answered'
        PROVE  IsBlock(RecordOf(c)') /\ EndOfBlock(RecordOf(c)') <= ticket'
    <3>1. CASE c = new
      BY <1>2, <1>10, <1>12, <3>1
    <3>2. CASE c \in Answered
      BY <1>2, <1>6, <1>11, <1>13, <3>2
    <3>3. QED  BY <1>10, <3>1, <3>2
  <2>2. ASSUME NEW c \in Answered', NEW d \in Answered'
        PROVE  c = d \/ Apart(RecordOf(c)', RecordOf(d)')
    <3>1. CASE c \in Answered /\ d \in Answered
      BY <1>1, <1>11, <3>1 DEF RoundsInv, OrderInv, BlockInv
    <3>2. CASE c \in Answered /\ d = new
      BY <1>10, <1>11, <1>13, <3>2 DEF Apart
    <3>3. CASE c = new /\ d \in Answered
      BY <1>10, <1>11, <1>13, <3>3 DEF Apart
    <3>4. QED  BY <1>10, <3>1, <3>2, <3>3
  <2>3. QED  BY <2>1, <2>2 DEF BlockInv
<1>15. TimeInv'
  <2>1. ASSUME NEW c \in Answered', NEW d \in Answered', Recorded(c)',
               RecordOf(c)'.end < RecordOf(d)'.start
        PROVE  EndOfBlock(RecordOf(c)') <= RecordOf(d)'.ticket
    <3>1. c \in Answered /\ Recorded(c)
      BY <1>10, <1>11, <2>1
    <3>2. CASE d \in Answered
      BY <1>1, <1>11, <2>1, <3>1, <3>2 DEF RoundsInv, OrderInv, TimeInv
    <3>3. CASE d = new
      BY <1>10, <1>11, <1>13, <3>1, <3>3
    <3>4. QED  BY <1>10, <3>2, <3>3
  <2>2. QED  BY <2>1 DEF TimeInv
<1>16. CoverInv'
  <2>1. CASE \E i \in Jobs : job[i] = "raised"
    <3>1. \E i \in Jobs : job'[i] = "raised"
      BY <1>3, <2>1
    <3>2. QED  BY <3>1 DEF CoverInv
  <2>2. CASE ~ \E i \in Jobs : job[i] = "raised"
    <3>1. ASSUME NEW x \in 0 .. ticket' - 1
          PROVE  \E c \in Answered' : RecordOf(c)'.ticket <= x /\ x < EndOfBlock(RecordOf(c)')
      <4>1. CASE x < ticket
        <5>1. x \in 0 .. ticket - 1
          BY <1>2, <4>1
        <5>2. PICK c \in Answered : RecordOf(c).ticket <= x /\ x < EndOfBlock(RecordOf(c))
          BY <1>1, <2>2, <5>1 DEF RoundsInv, OrderInv, CoverInv
        <5>3. QED  BY <1>10, <1>11, <5>2
      <4>2. CASE ~ x < ticket
        <5>1. r.ticket <= x /\ x < EndOfBlock(r)
          BY <1>2, <1>6, <1>12, <4>2
        <5>2. QED  BY <1>10, <5>1
      <4>3. QED  BY <4>1, <4>2
    <3>2. QED  BY <3>1 DEF CoverInv
  <2>3. QED  BY <2>1, <2>2
<1>17. OrderInv'
  BY <1>14, <1>15, <1>16 DEF OrderInv
<1>18. "answered" \in JobStates /\ barrier.state = "released" /\ ticket' \in Nat
  BY <1>2 DEF JobStates, RoundsInv, BarrierInv
<1>19. QED  BY <1>1, <1>7, <1>8, <1>9, <1>17, <1>18, JobGoesOn DEF RunningStates

LEMMA GenerateKeeps ==
  ASSUME RoundsInv, NEW j \in Jobs, Generate(j)
  PROVE  RoundsInv'
<1> DEFINE n == Count(j)
<1>1. n \in Nat \ {0}
  BY DEF Count
<1>2. ticket \in Nat
  BY DEF RoundsInv, RoundTypes
<1>3. /\ job[j] = "started"
      /\ UNCHANGED <<kind, main, collected, region, threads, barrier, clock, records>>
      /\ \/ /\ ticket' = ticket + n
            /\ current' = [current EXCEPT ![j].ticket = ticket,
                                          ![j].values = [i \in 1 .. n |-> ticket + i]]
            /\ job' = [job EXCEPT ![j] = "answered"]
         \/ /\ ticket' \in ticket .. ticket + n
            /\ job' = [job EXCEPT ![j] = "raised"]
            /\ UNCHANGED current
  BY DEF Generate
<1> HIDE DEF n
<1>4. CASE /\ ticket' = ticket + n
           /\ current' = [current EXCEPT ![j].ticket = ticket,
                                         ![j].values = [i \in 1 .. n |-> ticket + i]]
           /\ job' = [job EXCEPT ![j] = "answered"]
  BY <1>1, <1>3, <1>4, GenerateAnswersKeeps
<1>5. CASE /\ ticket' \in ticket .. ticket + n
           /\ job' = [job EXCEPT ![j] = "raised"]
           /\ UNCHANGED current
  <2>1. ticket' \in Nat /\ ticket <= ticket'
    BY <1>1, <1>2, <1>5
  <2>2. QED  BY <1>3, <1>5, <2>1, GenerateRaisesKeeps
<1>6. QED  BY <1>3, <1>4, <1>5

\* No call has started in the future.
LEMMA StartedBefore ==
  ASSUME RoundsInv, kind # "control", NEW c \in Answered
  PROVE  RecordOf(c).start <= clock
<1>1. c[1] \in Jobs /\ c[2] \in Nat \ {0}
  BY DEF Answered
<1>2. Len(records[c[1]]) \in Nat
  BY <1>1 DEF RoundsInv, RoundTypes
<1>3. CASE Recorded(c)
  <2>1. c[2] \in 1 .. Len(records[c[1]]) /\ RecordOf(c) = records[c[1]][c[2]]
    BY <1>1, <1>2, <1>3 DEF Recorded, RecordOf
  <2>2. QED  BY <1>1, <2>1 DEF RoundsInv, ClockInv
<1>4. CASE ~ Recorded(c)
  <2>1. job[c[1]] = "answered" /\ RecordOf(c) = current[c[1]]
    BY <1>4 DEF Answered, RecordOf
  <2>2. QED  BY <1>1, <2>1 DEF RoundsInv, ClockInv
<1>5. QED  BY <1>3, <1>4

\* Once the main thread has all results, no job has anything to do.
LEMMA AllFinished ==
  ASSUME RoundsInv, kind # "control",
         main \in {"read_stop", "succeed", "returned"}, NEW j \in Jobs
  PROVE  job[j] = "finished" /\ Len(records[j]) = Calls
<1>1. collected = N /\ j \in 1 .. collected
  BY DEF RoundsInv, CollectInv, Jobs
<1>2. QED  BY <1>1 DEF RoundsInv, CollectInv, DoneInv

LEMMA RecordKeeps ==
  ASSUME RoundsInv, NEW j \in Jobs, Record(j)
  PROVE  RoundsInv'
<1> DEFINE r == [current[j] EXCEPT !.end = clock]
           L == Len(records[j])
<1>1. /\ job[j] = "answered" /\ job' = [job EXCEPT ![j] = "between"]
      /\ records' = [records EXCEPT ![j] = Append(records[j], r)]
      /\ current' = [current EXCEPT ![j] = NoRecord]
      /\ UNCHANGED <<kind, main, collected, region, threads, barrier, clock, ticket>>
  BY DEF Record
<1>2. /\ kind # "control" /\ records \in [Jobs -> Seq(CallRecords)]
      /\ records[j] \in Seq(CallRecords) /\ L \in Nat /\ current[j] \in CallRecords
  BY <1>1, JobSteps
<1>3. /\ job \in [Jobs -> JobStates] /\ current \in [Jobs -> CallRecords]
      /\ clock \in Nat /\ ticket \in Nat /\ collected \in 0 .. N
  BY RoundsConstants DEF RoundsInv, RoundTypes
<1>4. job'[j] = "between" /\ \A i \in Jobs : i # j => job'[i] = job[i]
  BY <1>1, <1>3
<1>5. /\ r \in CallRecords /\ r.ticket = current[j].ticket /\ r.values = current[j].values
      /\ r.start = current[j].start /\ r.end = clock
  BY <1>2, <1>3 DEF CallRecords
<1> HIDE DEF r
<1>6. /\ records' \in [Jobs -> Seq(CallRecords)]
      /\ Len(records'[j]) = L + 1 /\ records'[j][L + 1] = r
      /\ \A i \in 1 .. L : records'[j][i] = records[j][i]
      /\ \A i \in Jobs : i # j => records'[i] = records[i]
  <2>1. Append(records[j], r) \in Seq(CallRecords)
    BY <1>2, <1>5
  <2>2. records'[j] = Append(records[j], r)
    BY <1>1, <1>2
  <2>3. \A i \in Jobs : i # j => records'[i] = records[i]
    BY <1>1, <1>2
  <2>4. /\ Len(Append(records[j], r)) = L + 1 /\ Append(records[j], r)[L + 1] = r
        /\ \A i \in 1 .. L : Append(records[j], r)[i] = records[j][i]
    BY <1>2, <1>5
  <2>5. records' \in [Jobs -> Seq(CallRecords)]
    BY <1>1, <1>2, <2>1
  <2>6. QED  BY <2>2, <2>3, <2>4, <2>5
<1>7. /\ current' \in [Jobs -> CallRecords]
      /\ \A i \in Jobs : i # j => current'[i] = current[i]
  BY <1>1, <1>3, EmptyRecord
<1>8. L < Calls /\ barrier.state = "released"
  BY <1>1, <1>2 DEF RoundsInv, CollectInv, DoneInv, BarrierInv
<1>9. main \notin {"read_stop", "succeed", "returned"}
  BY <1>1, <1>2, AllFinished
<1>10. DoneInv'
  <2>1. ASSUME NEW i \in 1 .. collected
        PROVE  job'[i] = "finished"
    <3>1. i \in Jobs /\ job[i] = "finished"
      BY <1>3, RoundsConstants DEF Jobs, RoundsInv, CollectInv, DoneInv
    <3>2. QED  BY <1>1, <1>4, <3>1
  <2>2. ASSUME NEW i \in Jobs
        PROVE  /\ Len(records'[i]) <= Calls
               /\ job'[i] \in {"started", "answered"} => Len(records'[i]) < Calls
               /\ job'[i] = "finished" => Len(records'[i]) = Calls
    <3>1. CASE i = j
      BY <1>2, <1>4, <1>6, <1>8, RoundsConstants, <3>1
    <3>2. CASE i # j
      BY <1>2, <1>4, <1>6, <3>2 DEF RoundsInv, CollectInv, DoneInv
    <3>3. QED  BY <3>1, <3>2
  <2>3. QED  BY <1>1, <2>1, <2>2 DEF DoneInv
<1>11. ClockInv'
  <2>1. ASSUME NEW i \in Jobs, job'[i] \in {"started", "answered"}
        PROVE  current'[i].start <= clock /\ (kind = "timed" => region.start <= current'[i].start)
    <3>1. i # j /\ job[i] \in {"started", "answered"} /\ current'[i] = current[i]
      BY <1>4, <1>7, <2>1
    <3>2. QED  BY <3>1 DEF RoundsInv, ClockInv
  <2>2. ASSUME NEW i \in Jobs, NEW l \in 1 .. Len(records'[i])
        PROVE  /\ records'[i][l].start <= clock /\ records'[i][l].end <= clock
               /\ kind = "timed" => region.start <= records'[i][l].start
    <3>1. CASE i = j /\ l = L + 1
      <4>1. r.start <= clock /\ r.end <= clock /\ (kind = "timed" => region.start <= r.start)
        BY <1>1, <1>3, <1>5 DEF RoundsInv, ClockInv
      <4>2. QED  BY <1>6, <3>1, <4>1
    <3>2. CASE ~ (i = j /\ l = L + 1)
      <4>1. l \in 1 .. Len(records[i]) /\ records'[i][l] = records[i][l]
        BY <1>2, <1>6, <3>2
      <4>2. QED  BY <1>2, <4>1 DEF RoundsInv, ClockInv
    <3>3. QED  BY <3>1, <3>2
  <2>3. (region.start <= clock)'
    BY <1>1 DEF RoundsInv, ClockInv
  <2>4. QED  BY <1>1, <1>9, <2>1, <2>2, <2>3 DEF ClockInv
<1>12. Answered' = Answered
  <2>1. ASSUME NEW c \in Jobs \X (Nat \ {0})
        PROVE  c \in Answered' <=> c \in Answered
    <3>1. CASE c[1] = j
      BY <1>1, <1>2, <1>4, <1>6, <3>1 DEF Answered, Recorded
    <3>2. CASE c[1] # j
      <4>1. c[1] \in Jobs
        OBVIOUS
      <4>2. QED  BY <1>4, <1>6, <3>2, <4>1 DEF Answered, Recorded
    <3>3. QED  BY <3>1, <3>2
  <2>2. Answered' \subseteq Jobs \X (Nat \ {0}) /\ Answered \subseteq Jobs \X (Nat \ {0})
    BY DEF Answered
  <2>3. QED  BY <2>1, <2>2
<1>13. ASSUME NEW c \in Answered
       PROVE  /\ RecordOf(c)'.ticket = RecordOf(c).ticket
              /\ RecordOf(c)'.values = RecordOf(c).values
              /\ RecordOf(c)'.start = RecordOf(c).start
              /\ \/ RecordOf(c)'.end = RecordOf(c).end /\ (Recorded(c)' <=> Recorded(c))
                 \/ RecordOf(c)'.end = clock
  <2>1. c[1] \in Jobs /\ c[2] \in Nat \ {0}
    BY DEF Answered
  <2>2. CASE c[1] = j /\ c[2] = L + 1
    <3>1. RecordOf(c)' = r
      BY <1>2, <1>6, <2>2 DEF RecordOf, Recorded
    <3>2. RecordOf(c) = current[j]
      BY <1>2, <2>2 DEF RecordOf, Recorded
    <3>3. QED  BY <1>5, <3>1, <3>2
  <2>3. CASE c[1] = j /\ c[2] # L + 1
    <3>1. c[2] \in 1 .. L /\ Recorded(c) /\ Recorded(c)'
      BY <1>2, <1>6, <2>1, <2>3 DEF Answered, Recorded
    <3>2. RecordOf(c)' = RecordOf(c)
      BY <1>6, <2>3, <3>1 DEF RecordOf
    <3>3. QED  BY <3>1, <3>2
  <2>4. CASE c[1] # j
    <3>1. RecordOf(c)' = RecordOf(c) /\ (Recorded(c)' <=> Recorded(c))
      BY <1>6, <1>7, <2>1, <2>4 DEF RecordOf, Recorded
    <3>2. QED  BY <3>1
  <2>5. QED  BY <2>2, <2>3, <2>4
<1>14. OrderInv'
  <2>1. ASSUME NEW c \in Answered
        PROVE  /\ EndOfBlock(RecordOf(c)') = EndOfBlock(RecordOf(c))
               /\ IsBlock(RecordOf(c)') <=> IsBlock(RecordOf(c))
    BY <1>13 DEF EndOfBlock, IsBlock
  <2>2. BlockInv /\ TimeInv /\ CoverInv
    BY <1>2 DEF RoundsInv, OrderInv
  <2>3. BlockInv'
    <3>1. ASSUME NEW c \in Answered, NEW d \in Answered
          PROVE  Apart(RecordOf(c)', RecordOf(d)') <=> Apart(RecordOf(c), RecordOf(d))
      BY <1>13, <2>1 DEF Apart
    <3>2. QED  BY <1>1, <1>12, <2>1, <2>2, <3>1 DEF BlockInv
  <2>4. TimeInv'
    <3>1. ASSUME NEW c \in Answered, NEW d \in Answered, Recorded(c)',
                 RecordOf(c)'.end < RecordOf(d)'.start
          PROVE  EndOfBlock(RecordOf(c)') <= RecordOf(d)'.ticket
      <4>1. RecordOf(d)'.start = RecordOf(d).start /\ RecordOf(d).start <= clock
            /\ RecordOf(d).start \in Nat
        BY <1>2, <1>13, StartedBefore, AnswerTypes DEF CallRecords
      <4>2. RecordOf(c)'.end # clock
        BY <1>3, <3>1, <4>1
      <4>3. Recorded(c) /\ RecordOf(c).end < RecordOf(d).start
        BY <1>13, <3>1, <4>2
      <4>4. EndOfBlock(RecordOf(c)) <= RecordOf(d).ticket
        BY <2>2, <4>3 DEF TimeInv
      <4>5. QED  BY <1>13, <2>1, <4>4
    <3>2. QED  BY <1>12, <3>1 DEF TimeInv
  <2>5. CoverInv'
    <3>1. CASE \E i \in Jobs : job[i] = "raised"
      <4>1. \E i \in Jobs : job'[i] = "raised"
        BY <1>1, <1>4, <3>1
      <4>2. QED  BY <4>1 DEF CoverInv
    <3>2. CASE ~ \E i \in Jobs : job[i] = "raised"
      <4>1. ASSUME NEW x \in 0 .. ticket - 1
            PROVE  \E c \in Answered : RecordOf(c)'.ticket <= x /\ x < EndOfBlock(RecordOf(c)')
        <5>1. PICK c \in Answered : RecordOf(c).ticket <= x /\ x < EndOfBlock(RecordOf(c))
          BY <2>2, <3>2 DEF CoverInv
        <5>2. QED  BY <1>13, <2>1, <5>1
      <4>2. QED  BY <1>1, <1>12, <4>1 DEF CoverInv
    <3>3. QED  BY <3>1, <3>2
  <2>6. QED  BY <2>3, <2>4, <2>5 DEF OrderInv
<1>15. "between" \in JobStates /\ ticket' \in Nat
  BY <1>1, <1>3 DEF JobStates
<1>16. QED
  BY <1>1, <1>6, <1>7, <1>8, <1>10, <1>11, <1>14, <1>15, JobGoesOn DEF RunningStates

LEMMA RoundsStep ==
  ASSUME RoundsInv, [RoundsNext]_roundsVars
  PROVE  RoundsInv'
<1>1. CASE MainStep
  BY <1>1, SubmitKeeps, ReadStartKeeps, MainArrivesKeeps, MainLeavesKeeps, CollectKeeps,
     ReadStopKeeps, ShutdownKeeps DEF MainStep
<1>2. CASE ResultTimesOut
  BY <1>2, ResultTimesOutKeeps
<1>3. CASE BarrierTimesOut
  BY <1>3, BarrierTimesOutKeeps
<1>4. CASE Tick
  BY <1>4, TickKeeps
<1>5. CASE \E j \in Jobs : JobStep(j)
  <2>1. PICK j \in Jobs : JobStep(j)
    BY <1>5
  <2>2. CASE JobArrives(j)
    BY <2>2, JobArrivesKeeps
  <2>3. CASE JobLeaves(j)
    BY <2>3, JobLeavesKeeps
  <2>4. CASE StartCall(j)
    BY <2>4, StartCallKeeps
  <2>5. CASE Generate(j)
    BY <2>5, GenerateKeeps
  <2>6. CASE Record(j)
    BY <2>6, RecordKeeps
  <2>7. CASE Finish(j)
    BY <2>7, FinishKeeps
  <2>8. QED  BY <2>1, <2>2, <2>3, <2>4, <2>5, <2>6, <2>7 DEF JobStep
<1>6. CASE UNCHANGED roundsVars
  <2>1. UNCHANGED <<kind, main, collected, region, threads, job, barrier,
                    clock, ticket, current, records>>
    BY <1>6 DEF roundsVars
  <2>2. RoundTypes' /\ ControlInv' /\ BarrierInv'
    BY <2>1 DEF RoundsInv, RoundTypes, ControlInv, BarrierInv
  <2>3. CollectInv' /\ ClockInv'
    BY <2>1 DEF RoundsInv, CollectInv, DoneInv, ClockInv
  <2>4. QED  BY <2>1, <2>2, <2>3, QuietStep
<1>7. QED  BY <1>1, <1>2, <1>3, <1>4, <1>5, <1>6 DEF RoundsNext

\* The inductive invariant of the rounds.
THEOREM RoundsInvariance == RoundsSpec => []RoundsInv
<1>1. RoundsInit => RoundsInv
  BY RoundsBegin
<1>2. RoundsInv /\ [RoundsNext]_roundsVars => RoundsInv'
  BY RoundsStep
<1>3. QED  BY <1>1, <1>2, PTL DEF RoundsSpec

\* The types of the variables; a thread runs one job at a time and makes no more
\* calls than it is asked for.
THEOREM RoundsTypes == RoundsSpec => []RoundsTypeOK
<1>1. ASSUME RoundsInv
      PROVE  RoundsTypeOK
  <2>1. /\ kind \in Kinds /\ main \in Mains /\ collected \in 0 .. N
        /\ region \in [start : 0 .. MaxClock, stop : 0 .. MaxClock]
        /\ job \in [Jobs -> JobStates]
        /\ barrier.waiting \subseteq {Main} \cup Jobs
        /\ barrier.state \in {"filling", "released", "broken"}
        /\ clock \in 0 .. MaxClock /\ ticket \in Nat
    BY <1>1 DEF RoundsInv, RoundTypes
  <2>2. /\ Cardinality(Running) <= threads
        /\ threads <= Cardinality(Submitted)
    BY <1>1 DEF RoundsInv, PoolInv
  <2>3. ASSUME kind # "control", NEW j \in Jobs
        PROVE  /\ Len(records[j]) <= Calls
               /\ IsRecord(current[j])
               /\ \A i \in DOMAIN records[j] : IsRecord(records[j][i])
    <3>1. \A q \in CallRecords : IsRecord(q)
      BY DEF CallRecords, IsRecord
    <3>2. current[j] \in CallRecords /\ records[j] \in Seq(CallRecords)
      BY <1>1, <2>3 DEF RoundsInv, RoundTypes
    <3>3. \A i \in DOMAIN records[j] : records[j][i] \in CallRecords
      BY <3>2
    <3>4. Len(records[j]) <= Calls
      BY <1>1, <2>3 DEF RoundsInv, CollectInv, DoneInv
    <3>5. QED  BY <3>1, <3>2, <3>3, <3>4
  <2>4. QED  BY <2>1, <2>2, <2>3 DEF RoundsTypeOK, Mains, JobStates
<1>2. QED  BY <1>1, RoundsInvariance, PTL

\* The duration that timed_round returns is about every call of every thread, and
\* about nothing outside the readings of the clock before and after them.
THEOREM WholeRound == RoundsSpec => []DurationCoversCalls
<1>1. ASSUME RoundsInv
      PROVE  DurationCoversCalls
  <2>1. SUFFICES ASSUME kind = "timed", main = "returned", NEW j \in Jobs
                 PROVE  /\ Len(records[j]) = Calls
                        /\ \A i \in 1 .. Calls :
                             region.start <= records[j][i].start /\ records[j][i].end <= region.stop
    BY DEF DurationCoversCalls
  <2>2. Len(records[j]) = Calls
    BY <1>1, <2>1, AllFinished
  <2>3. QED  BY <1>1, <2>1, <2>2 DEF RoundsInv, ClockInv
<1>2. QED  BY <1>1, RoundsInvariance, PTL

\* The records of a round that succeeds are of blocks of the native sequence that
\* are apart and leave no gap, in the order of time as far as the readings of the
\* clock tell it: what check_records looks for is there, for every number of
\* threads and calls and however coarse the clock.
THEOREM RoundsOrder == RoundsSpec => []RecordsAreOrdered
<1>1. ASSUME RoundsInv
      PROVE  RecordsAreOrdered
  <2> SUFFICES ASSUME kind # "control", main = "returned"
               PROVE  /\ \A n \in 0 .. ticket - 1 :
                           \E j \in Jobs : \E i \in 1 .. Calls :
                             records[j][i].ticket <= n /\ n < EndOfBlock(records[j][i])
                      /\ \A j, k \in Jobs : \A i, l \in 1 .. Calls :
                           /\ IsBlock(records[j][i]) /\ EndOfBlock(records[j][i]) <= ticket
                           /\ <<j, i>> = <<k, l>> \/ Apart(records[j][i], records[k][l])
                           /\ records[j][i].end < records[k][l].start =>
                                EndOfBlock(records[j][i]) <= records[k][l].ticket
    BY DEF RecordsAreOrdered
  <2>1. BlockInv /\ TimeInv /\ CoverInv
    BY <1>1 DEF RoundsInv, OrderInv
  <2>2. \A j \in Jobs : job[j] = "finished" /\ Len(records[j]) = Calls
    BY <1>1, AllFinished
  <2>3. ASSUME NEW j \in Jobs, NEW i \in 1 .. Calls
        PROVE  /\ <<j, i>> \in Answered /\ Recorded(<<j, i>>)
               /\ RecordOf(<<j, i>>) = records[j][i]
    <3>1. <<j, i>> \in Jobs \X (Nat \ {0}) /\ <<j, i>>[1] = j /\ <<j, i>>[2] = i
      BY RoundsConstants, <1>1
    <3>2. Recorded(<<j, i>>)
      BY <2>2, <3>1, RoundsConstants, <1>1 DEF Recorded
    <3>3. QED  BY <3>1, <3>2 DEF Answered, RecordOf
  <2>4. ASSUME NEW n \in 0 .. ticket - 1
        PROVE  \E j \in Jobs : \E i \in 1 .. Calls :
                 records[j][i].ticket <= n /\ n < EndOfBlock(records[j][i])
    <3>1. PICK c \in Answered : RecordOf(c).ticket <= n /\ n < EndOfBlock(RecordOf(c))
      BY <2>1, <2>2 DEF CoverInv
    <3>2. c[1] \in Jobs /\ c[2] \in 1 .. Calls /\ Recorded(c)
      <4>1. c[1] \in Jobs /\ c[2] \in Nat \ {0}
        BY DEF Answered
      <4>2. Recorded(c)
        BY <2>2, <4>1 DEF Answered
      <4>3. QED  BY <2>2, <4>1, <4>2, RoundsConstants, <1>1 DEF Recorded
    <3>3. RecordOf(c) = records[c[1]][c[2]]
      BY <3>2 DEF RecordOf
    <3>4. QED  BY <3>1, <3>2, <3>3
  <2>5. ASSUME NEW j \in Jobs, NEW k \in Jobs,
               NEW i \in 1 .. Calls, NEW l \in 1 .. Calls
        PROVE  /\ IsBlock(records[j][i]) /\ EndOfBlock(records[j][i]) <= ticket
               /\ <<j, i>> = <<k, l>> \/ Apart(records[j][i], records[k][l])
               /\ records[j][i].end < records[k][l].start =>
                    EndOfBlock(records[j][i]) <= records[k][l].ticket
    <3>1. /\ <<j, i>> \in Answered /\ Recorded(<<j, i>>) /\ RecordOf(<<j, i>>) = records[j][i]
          /\ <<k, l>> \in Answered /\ RecordOf(<<k, l>>) = records[k][l]
      BY <2>3
    <3>2. IsBlock(records[j][i]) /\ EndOfBlock(records[j][i]) <= ticket
      BY <2>1, <3>1 DEF BlockInv
    <3>3. <<j, i>> = <<k, l>> \/ Apart(records[j][i], records[k][l])
      BY <2>1, <3>1 DEF BlockInv
    <3>4. records[j][i].end < records[k][l].start =>
            EndOfBlock(records[j][i]) <= records[k][l].ticket
      BY <2>1, <3>1 DEF TimeInv
    <3>5. QED  BY <3>2, <3>3, <3>4
  <2>6. QED  BY <2>4, <2>5
<1>2. QED  BY <1>1, RoundsInvariance, PTL

(***************************************************************************)
(* The loop of check_records.  The cursor passes the calls that had ended  *)
(* when the next one started, and the highest of their last values is what *)
(* that one is compared with; so each is compared with all it must follow. *)
(***************************************************************************)
Answers == {r \in CallRecords : Len(r.values) > 0}

IsByEnd(ended) ==
  /\ ended \in Seq(Answers)
  /\ \A i, k \in 1 .. Len(ended) : i < k => ended[i].end <= ended[k].end

IsByStart(by_start) ==
  /\ by_start \in Seq(Answers)
  /\ \A i, k \in 1 .. Len(by_start) : i < k => by_start[i].start <= by_start[k].start

\* What the loop has seen after each of its turns.
AreTurns(ended, by_start, turn) ==
  /\ turn[0] = [cursor |-> 0, completed_max |-> -1, ok |-> TRUE]
  /\ \A t \in 1 .. Len(by_start) : turn[t] = Compare(ended, turn[t - 1], by_start[t])

HadEnded(ended, record) == {i \in 1 .. Len(ended) : EndedBefore(ended[i], record)}

FollowsAll(ended, record) ==
  \A i \in HadEnded(ended, record) : Last(ended[i].values) < Head(record.values)

IsHighest(ended, cursor, max) ==
  /\ max \in Int /\ max >= -1
  /\ \A i \in 1 .. cursor : Last(ended[i].values) <= max
  /\ max = -1 \/ \E i \in 1 .. cursor : max = Last(ended[i].values)

LoopInv(ended, by_start, t, seen) ==
  /\ seen.cursor \in 0 .. Len(ended)
  /\ IF t = 0 THEN seen.cursor = 0 ELSE 1 .. seen.cursor = HadEnded(ended, by_start[t])
  /\ IsHighest(ended, seen.cursor, seen.completed_max)
  /\ seen.ok <=> \A u \in 1 .. t : FollowsAll(ended, by_start[u])

LEMMA LeastOf ==
  ASSUME NEW T \in SUBSET Nat, T # {}
  PROVE  \E m \in T : \A k \in T : m <= k
<1>1. PICK m \in T : \A k \in T : <<k, m>> \notin OpToRel(<, Nat)
  BY NatLessThanWellFounded, WFMin
<1>2. \A k \in T : <<k, m>> \in Nat \X Nat
  BY <1>1
<1>3. \A k \in T : ~ (k < m)
  BY <1>1, <1>2 DEF OpToRel
<1>4. QED  BY <1>3

\* A number and finitely many others have a largest among them.
HasLargest(b, v, n) ==
  \E m \in {b} \cup {v[i] : i \in 1 .. n} : \A x \in {b} \cup {v[i] : i \in 1 .. n} : m >= x

LEMMA LargestOf ==
  ASSUME NEW n \in Nat, NEW b \in Int, NEW v, \A i \in 1 .. n : v[i] \in Int
  PROVE  HasLargest(b, v, n)
<1> DEFINE T == {k \in 0 .. n : ~ HasLargest(b, v, k)}
<1> SUFFICES ASSUME T # {}
             PROVE  FALSE
  OBVIOUS
<1>0. T \in SUBSET Nat
  OBVIOUS
<1>1. PICK k \in T : \A l \in T : k <= l
  BY <1>0, LeastOf
<1>2. HasLargest(b, v, 0)
  BY DEF HasLargest
<1>3. k > 0 /\ k - 1 \in 0 .. n /\ k \in 1 .. n
  BY <1>1, <1>2
<1>4. HasLargest(b, v, k - 1)
  BY <1>1, <1>3
<1>5. PICK m \in {b} \cup {v[i] : i \in 1 .. k - 1} :
        \A x \in {b} \cup {v[i] : i \in 1 .. k - 1} : m >= x
  BY <1>4 DEF HasLargest
<1>6. m \in Int /\ v[k] \in Int
  BY <1>3, <1>5
<1>7. \A i \in 1 .. k : i = k \/ i \in 1 .. k - 1
  BY <1>3
<1>8. CASE m >= v[k]
  <2>1. \A x \in {b} \cup {v[i] : i \in 1 .. k} : m >= x
    BY <1>5, <1>7, <1>8
  <2>2. m \in {b} \cup {v[i] : i \in 1 .. k}
    BY <1>3, <1>5
  <2>3. QED  BY <1>1, <2>1, <2>2 DEF HasLargest
<1>9. CASE v[k] > m
  <2>1. \A x \in {b} \cup {v[i] : i \in 1 .. k - 1} : v[k] >= x
    BY <1>3, <1>5, <1>6, <1>9
  <2>2. \A x \in {b} \cup {v[i] : i \in 1 .. k} : v[k] >= x
    BY <1>6, <1>7, <2>1
  <2>3. v[k] \in {b} \cup {v[i] : i \in 1 .. k}
    BY <1>3
  <2>4. QED  BY <1>1, <2>2, <2>3 DEF HasLargest
<1>10. QED  BY <1>6, <1>8, <1>9

\* Max of a number and of the values v[i] at some places.
AreIntegers(v, P) == \A i \in P : v[i] \in Int

IsMaxOf(m, b, v, P) ==
  /\ m \in Int /\ m \in {b} \cup {v[i] : i \in P}
  /\ m >= b /\ \A i \in P : m >= v[i]

LEMMA MaxOf ==
  ASSUME NEW n \in Nat, NEW b \in Int, NEW P \in SUBSET (1 .. n), NEW v, AreIntegers(v, P)
  PROVE  IsMaxOf(Max({b} \cup {v[i] : i \in P}), b, v, P)
<1> DEFINE w == [i \in 1 .. n |-> IF i \in P THEN v[i] ELSE b]
           S == {b} \cup {v[i] : i \in P}
<1>1. \A i \in 1 .. n : w[i] \in Int
  BY DEF AreIntegers
<1>2. HasLargest(b, w, n)
  BY <1>1, LargestOf
<1>3. {b} \cup {w[i] : i \in 1 .. n} = S
  OBVIOUS
<1> HIDE DEF w
<1>4. \E m \in S : \A x \in S : m >= x
  BY <1>2, <1>3 DEF HasLargest
<1>5. Max(S) \in S /\ \A x \in S : Max(S) >= x
  BY <1>4 DEF Max
<1>6. Max(S) \in Int
  BY <1>5 DEF AreIntegers
<1>7. QED  BY <1>5, <1>6 DEF IsMaxOf

LEMMA AnswerValues ==
  ASSUME NEW r \in Answers
  PROVE  /\ r.start \in Nat /\ r.end \in Nat
         /\ Head(r.values) \in Nat /\ Last(r.values) \in Nat
BY DEF Answers, CallRecords, Last

\* The calls that the cursor passes in a turn are those that have ended since.
LEMMA PassedHadEnded ==
  ASSUME NEW ended, IsByEnd(ended), NEW seen, seen.cursor \in 0 .. Len(ended),
         NEW record \in Answers
  PROVE  Passed(ended, seen, record) = {i \in HadEnded(ended, record) : i > seen.cursor}
<1>1. Len(ended) \in Nat /\ \A i \in 1 .. Len(ended) : ended[i].end \in Nat
  <2>1. ended \in Seq(Answers)
    BY DEF IsByEnd
  <2>2. QED  BY <2>1, AnswerValues
<1>2. record.start \in Nat
  BY AnswerValues
<1>3. ASSUME NEW i \in seen.cursor + 1 .. Len(ended), ended[i].end < record.start,
             NEW k \in seen.cursor + 1 .. i
      PROVE  ended[k].end < record.start
  <2>1. k \in 1 .. Len(ended) /\ i \in 1 .. Len(ended) /\ k <= i
    BY <1>1, <1>3
  <2>2. ended[k].end <= ended[i].end
    BY <1>1, <2>1 DEF IsByEnd
  <2>3. QED  BY <1>1, <1>2, <1>3, <2>1, <2>2
<1>4. \A i \in seen.cursor + 1 .. Len(ended) : i \in seen.cursor + 1 .. i
  BY <1>1
<1>5. \A i : i \in seen.cursor + 1 .. Len(ended) <=> i \in 1 .. Len(ended) /\ i > seen.cursor
  BY <1>1
<1>6. QED  BY <1>3, <1>4, <1>5 DEF Passed, HadEnded, EndedBefore

\* One turn of the loop.
LEMMA OneTurn ==
  ASSUME NEW ended, IsByEnd(ended), NEW by_start, IsByStart(by_start),
         NEW t \in 1 .. Len(by_start), NEW seen, LoopInv(ended, by_start, t - 1, seen)
  PROVE  LoopInv(ended, by_start, t, Compare(ended, seen, by_start[t]))
<1> DEFINE r == by_start[t]
           had == HadEnded(ended, r)
           passed == Passed(ended, seen, r)
           last == [i \in 1 .. Len(ended) |-> Last(ended[i].values)]
           cursor == Max({seen.cursor} \cup passed)
           highest == Max({seen.completed_max} \cup {Last(ended[i].values) : i \in passed})
<1>1. /\ ended \in Seq(Answers) /\ by_start \in Seq(Answers)
      /\ Len(ended) \in Nat /\ Len(by_start) \in Nat
  BY DEF IsByEnd, IsByStart
<1>2. /\ r \in Answers /\ r.start \in Nat /\ Head(r.values) \in Nat
      /\ \A i \in 1 .. Len(ended) : ended[i].end \in Nat /\ last[i] \in Nat
  BY <1>1, AnswerValues
<1>3. /\ seen.cursor \in 0 .. Len(ended)
      /\ IF t - 1 = 0 THEN seen.cursor = 0
                      ELSE 1 .. seen.cursor = HadEnded(ended, by_start[t - 1])
      /\ IsHighest(ended, seen.cursor, seen.completed_max)
      /\ seen.ok <=> \A u \in 1 .. t - 1 : FollowsAll(ended, by_start[u])
  BY DEF LoopInv
<1>4. Compare(ended, seen, r) =
        [cursor |-> cursor, completed_max |-> highest,
         ok |-> seen.ok /\ Head(r.values) > highest]
  BY DEF Compare
<1>5. passed = {i \in had : i > seen.cursor} /\ passed \in SUBSET (1 .. Len(ended))
      /\ had \subseteq 1 .. Len(ended)
  BY <1>2, <1>3, PassedHadEnded DEF HadEnded
<1>6. 1 .. seen.cursor \subseteq had
  <2>1. CASE t = 1
    BY <1>3, <2>1
  <2>2. CASE t # 1
    <3>1. t - 1 \in 1 .. Len(by_start) /\ t - 1 < t
      BY <1>1, <2>2
    <3>2. by_start[t - 1].start <= r.start /\ by_start[t - 1].start \in Nat
      <4>1. by_start[t - 1] \in Answers
        BY <1>1, <3>1
      <4>2. by_start[t - 1].start <= by_start[t].start
        BY <3>1 DEF IsByStart
      <4>3. QED  BY <4>1, <4>2, AnswerValues
    <3>3. HadEnded(ended, by_start[t - 1]) \subseteq had
      BY <1>2, <3>2 DEF HadEnded, EndedBefore
    <3>4. QED  BY <1>3, <3>1, <3>3
  <2>3. QED  BY <2>1, <2>2
<1>7. \A i \in had : \A k \in 1 .. i : k \in had
  <2>1. ASSUME NEW i \in had, NEW k \in 1 .. i
        PROVE  k \in had
    <3>1. i \in 1 .. Len(ended) /\ k \in 1 .. Len(ended) /\ ended[i].end < r.start
      BY <1>1, <1>5 DEF HadEnded, EndedBefore
    <3>2. k = i \/ ended[k].end <= ended[i].end
      BY <1>1, <3>1 DEF IsByEnd
    <3>3. ended[k].end < r.start
      BY <1>2, <3>1, <3>2
    <3>4. QED  BY <3>1, <3>3 DEF HadEnded, EndedBefore
  <2>2. QED  BY <2>1
<1> HIDE DEF passed, had, r
<1>8. /\ cursor \in {seen.cursor} \cup passed /\ cursor >= seen.cursor
      /\ \A i \in passed : cursor >= i
  <2> DEFINE v == [i \in 1 .. Len(ended) |-> i]
  <2>0. \A i \in passed : i \in 1 .. Len(ended)
    BY <1>5
  <2>1. \A i \in passed : v[i] = i /\ v[i] \in Int
    BY <1>1, <2>0
  <2>2. seen.cursor \in Int
    BY <1>1, <1>3
  <2>3. {v[i] : i \in passed} = passed
    BY <2>1
  <2>4. AreIntegers(v, passed)
    BY <2>1 DEF AreIntegers
  <2> HIDE DEF v
  <2>5. IsMaxOf(Max({seen.cursor} \cup {v[i] : i \in passed}), seen.cursor, v, passed)
    BY <1>1, <1>5, <2>2, <2>4, MaxOf
  <2>6. QED  BY <2>1, <2>3, <2>5 DEF IsMaxOf
<1>9. cursor \in 0 .. Len(ended) /\ 1 .. cursor = had
  <2>1. cursor \in 0 .. Len(ended)
    <3>1. cursor = seen.cursor \/ cursor \in 1 .. Len(ended)
      BY <1>5, <1>8
    <3>2. QED  BY <1>1, <1>3, <3>1
  <2>2. ASSUME NEW i \in 1 .. cursor
        PROVE  i \in had
    BY <1>3, <1>5, <1>6, <1>7, <1>8, <2>2
  <2>3. ASSUME NEW i \in had
        PROVE  i \in 1 .. cursor
    <3>1. CASE i > seen.cursor
      BY <1>5, <1>8, <2>1, <3>1
    <3>2. CASE ~ i > seen.cursor
      BY <1>1, <1>3, <1>5, <1>8, <2>1, <3>2
    <3>3. QED  BY <3>1, <3>2
  <2>4. QED  BY <2>1, <2>2, <2>3
<1>10. /\ highest \in Int
       /\ highest \in {seen.completed_max} \cup {Last(ended[i].values) : i \in passed}
       /\ highest >= seen.completed_max
       /\ \A i \in passed : highest >= Last(ended[i].values)
  <2>0. \A i \in passed : i \in 1 .. Len(ended)
    BY <1>5
  <2>1. \A i \in passed : last[i] = Last(ended[i].values) /\ last[i] \in Int
    BY <1>2, <2>0
  <2>2. seen.completed_max \in Int
    BY <1>3 DEF IsHighest
  <2>3. {last[i] : i \in passed} = {Last(ended[i].values) : i \in passed}
    BY <2>1
  <2>4. AreIntegers(last, passed)
    BY <2>1 DEF AreIntegers
  <2> HIDE DEF last
  <2>5. IsMaxOf(Max({seen.completed_max} \cup {last[i] : i \in passed}),
                seen.completed_max, last, passed)
    BY <1>1, <1>5, <2>2, <2>4, MaxOf
  <2>6. QED  BY <2>1, <2>3, <2>5 DEF IsMaxOf
<1>11. IsHighest(ended, cursor, highest)
  <2>1. seen.completed_max \in Int /\ seen.completed_max >= -1
    BY <1>3 DEF IsHighest
  <2>2. ASSUME NEW i \in 1 .. cursor
        PROVE  Last(ended[i].values) <= highest
    <3>1. i \in had /\ i \in Int /\ Last(ended[i].values) \in Nat
      BY <1>2, <1>5, <1>9
    <3>2. CASE i > seen.cursor
      BY <1>5, <1>10, <3>1, <3>2
    <3>3. CASE ~ i > seen.cursor
      <4>1. i \in 1 .. seen.cursor
        BY <1>3, <3>3
      <4>2. Last(ended[i].values) <= seen.completed_max
        BY <1>3, <4>1 DEF IsHighest
      <4>3. QED  BY <1>10, <2>1, <3>1, <4>2
    <3>4. QED  BY <3>2, <3>3
  <2>3. highest = -1 \/ \E i \in 1 .. cursor : highest = Last(ended[i].values)
    <3>1. CASE highest = seen.completed_max
      <4>1. 1 .. seen.cursor \subseteq 1 .. cursor
        BY <1>6, <1>9
      <4>2. QED  BY <1>3, <3>1, <4>1 DEF IsHighest
    <3>2. CASE \E i \in passed : highest = Last(ended[i].values)
      BY <1>5, <1>9, <3>2
    <3>3. QED  BY <1>10, <3>1, <3>2
  <2>4. highest >= -1
    BY <1>10, <2>1
  <2>5. QED  BY <1>10, <2>2, <2>3, <2>4 DEF IsHighest
<1>12. Head(r.values) > highest <=> FollowsAll(ended, r)
  <2>1. ASSUME Head(r.values) > highest, NEW i \in had
        PROVE  Last(ended[i].values) < Head(r.values)
    <3>1. Last(ended[i].values) <= highest /\ Last(ended[i].values) \in Nat
      BY <1>2, <1>5, <1>9, <1>11 DEF IsHighest
    <3>2. QED  BY <1>2, <1>10, <2>1, <3>1
  <2>2. ASSUME \A i \in had : Last(ended[i].values) < Head(r.values)
        PROVE  Head(r.values) > highest
    <3>1. CASE highest = -1
      BY <1>2, <3>1
    <3>2. CASE \E i \in 1 .. cursor : highest = Last(ended[i].values)
      <4>1. PICK i \in 1 .. cursor : highest = Last(ended[i].values)
        BY <3>2
      <4>2. Last(ended[i].values) < Head(r.values)
        BY <1>9, <2>2
      <4>3. QED  BY <1>2, <1>10, <4>1, <4>2
    <3>3. QED  BY <1>11, <3>1, <3>2 DEF IsHighest
  <2>3. QED  BY <2>1, <2>2 DEF FollowsAll, had
<1>13. (seen.ok /\ Head(r.values) > highest) <=> \A u \in 1 .. t : FollowsAll(ended, by_start[u])
  <2>1. \A u \in 1 .. t : u = t \/ u \in 1 .. t - 1
    BY <1>1
  <2>2. t \in 1 .. t /\ 1 .. t - 1 \subseteq 1 .. t
    BY <1>1
  <2>3. QED  BY <1>3, <1>12, <2>1, <2>2 DEF r
<1> HIDE DEF cursor, highest
<1> DEFINE next == Compare(ended, seen, r)
<1>14. next.cursor = cursor /\ next.completed_max = highest
       /\ next.ok = (seen.ok /\ Head(r.values) > highest)
  BY <1>4
<1> HIDE DEF next
<1>15. LoopInv(ended, by_start, t, next)
  <2>1. t # 0 /\ had = HadEnded(ended, by_start[t])
    BY <1>1 DEF had, r
  <2>2. next.ok <=> \A u \in 1 .. t : FollowsAll(ended, by_start[u])
    BY <1>13, <1>14
  <2>3. next.cursor \in 0 .. Len(ended) /\ 1 .. next.cursor = HadEnded(ended, by_start[t])
    BY <1>9, <1>14, <2>1
  <2>4. IsHighest(ended, next.cursor, next.completed_max)
    BY <1>11, <1>14
  <2>5. QED  BY <2>1, <2>2, <2>3, <2>4 DEF LoopInv
<1>16. QED  BY <1>15 DEF next, r

\* check_records's loop decides exactly whether each call's first value is above the
\* last value of every call that had ended when it started, however many records
\* there are and whatever times they share.
THEOREM OracleLoop ==
  ASSUME NEW ended, IsByEnd(ended), NEW by_start, IsByStart(by_start),
         NEW turn, AreTurns(ended, by_start, turn)
  PROVE  turn[Len(by_start)].ok <=>
           \A i \in 1 .. Len(ended), u \in 1 .. Len(by_start) :
             EndedBefore(ended[i], by_start[u]) =>
               Last(ended[i].values) < Head(by_start[u].values)
<1> DEFINE n == Len(by_start)
           T == {t \in 0 .. n : ~ LoopInv(ended, by_start, t, turn[t])}
<1>1. n \in Nat /\ Len(ended) \in Nat
  BY DEF IsByStart, IsByEnd
<1>2. LoopInv(ended, by_start, 0, turn[0])
  <2>1. turn[0].cursor = 0 /\ turn[0].completed_max = -1 /\ turn[0].ok = TRUE
    BY DEF AreTurns
  <2>2. QED  BY <1>1, <2>1 DEF LoopInv, IsHighest
<1>3. T = {}
  <2> SUFFICES ASSUME T # {}
               PROVE  FALSE
    OBVIOUS
  <2>1. T \in SUBSET Nat
    BY <1>1
  <2>2. PICK t \in T : \A k \in T : t <= k
    BY <2>1, LeastOf
  <2>3. t \in 1 .. n /\ t - 1 \in 0 .. n
    BY <1>1, <1>2, <2>2
  <2>4. LoopInv(ended, by_start, t - 1, turn[t - 1])
    BY <1>1, <2>2, <2>3
  <2>5. turn[t] = Compare(ended, turn[t - 1], by_start[t])
    BY <2>3 DEF AreTurns
  <2>6. LoopInv(ended, by_start, t, turn[t])
    BY <2>3, <2>4, <2>5, OneTurn
  <2>7. QED  BY <2>2, <2>6
<1>4. LoopInv(ended, by_start, n, turn[n])
  BY <1>1, <1>3
<1>5. turn[n].ok <=> \A u \in 1 .. n : FollowsAll(ended, by_start[u])
  BY <1>4 DEF LoopInv
<1>6. QED  BY <1>5 DEF FollowsAll, HadEnded

\* What check_records is given: the records of all calls; by ticket, each once.
RoundRecords == {records[j][i] : j \in Jobs, i \in 1 .. Calls}

IsByTicket(ordered) ==
  /\ ordered \in Seq(RoundRecords)
  /\ \A i, k \in 1 .. Len(ordered) :
       i < k => ordered[i].ticket <= ordered[k].ticket /\ ordered[i] # ordered[k]
  /\ \A r \in RoundRecords : \E i \in 1 .. Len(ordered) : ordered[i] = r

\* The values of a record increase, and those of the next one follow without a gap.
GapFree(ordered) ==
  /\ \A r \in RoundRecords : \A m \in 1 .. Len(r.values) - 1 : r.values[m] < r.values[m + 1]
  /\ \A i \in 1 .. Len(ordered) - 1 :
       /\ ordered[i + 1].ticket = ordered[i].ticket + Len(ordered[i].values)
       /\ Last(ordered[i].values) < Head(ordered[i + 1].values)

LoopAccepts(ended, by_start) ==
  \A turn : AreTurns(ended, by_start, turn) => turn[Len(by_start)].ok

\* No assertion of check_records fails on the records of a round that succeeds,
\* once they are sorted.
NoFalseAlarm ==
  kind # "control" /\ main = "returned" =>
    /\ RoundRecords \subseteq Answers
    /\ \A ordered : IsByTicket(ordered) => GapFree(ordered)
    /\ \A ended, by_start \in Seq(RoundRecords) :
         IsByEnd(ended) /\ IsByStart(by_start) => LoopAccepts(ended, by_start)

\* First and last value of a block.
LEMMA BlockValues ==
  ASSUME NEW r \in CallRecords, IsBlock(r)
  PROVE  /\ r \in Answers /\ r.ticket \in Nat /\ EndOfBlock(r) \in Nat
         /\ Len(r.values) \in Nat /\ r.ticket < EndOfBlock(r)
         /\ Head(r.values) = r.ticket + 1 /\ Last(r.values) = EndOfBlock(r)
         /\ \A m \in 1 .. Len(r.values) - 1 : r.values[m] < r.values[m + 1]
<1>1. r.values \in Seq(Nat) /\ r.ticket \in Nat /\ Len(r.values) \in Nat /\ Len(r.values) > 0
  BY DEF CallRecords, IsBlock
<1>2. 1 \in 1 .. Len(r.values) /\ Len(r.values) \in 1 .. Len(r.values)
  BY <1>1
<1>3. Head(r.values) = r.values[1] /\ Last(r.values) = r.values[Len(r.values)]
  BY <1>1 DEF Last
<1>4. \A m \in 1 .. Len(r.values) - 1 :
        m \in 1 .. Len(r.values) /\ m + 1 \in 1 .. Len(r.values) /\ m \in Int
  BY <1>1
<1>5. \A m \in 1 .. Len(r.values) - 1 : r.values[m] < r.values[m + 1]
  BY <1>1, <1>4 DEF IsBlock
<1>6. /\ EndOfBlock(r) \in Nat /\ r.ticket < EndOfBlock(r)
      /\ Head(r.values) = r.ticket + 1 /\ Last(r.values) = EndOfBlock(r)
  BY <1>1, <1>2, <1>3 DEF IsBlock, EndOfBlock
<1>7. r \in Answers
  BY <1>1 DEF Answers
<1>8. QED  BY <1>1, <1>5, <1>6, <1>7

\* The records of a round that succeeds have what the assertions of check_records ask
\* for, for every number of threads and calls and however coarse the clock: sorted by
\* ticket they leave no gap and their values increase, and sorted by start and by
\* end, with equal times in any order, they bring its loop to a good end.
THEOREM OracleAccepts == RoundsSpec => []NoFalseAlarm
<1>1. ASSUME RoundsInv, RecordsAreOrdered
      PROVE  NoFalseAlarm
  <2> SUFFICES ASSUME kind # "control", main = "returned"
               PROVE  /\ RoundRecords \subseteq Answers
                      /\ \A ordered : IsByTicket(ordered) => GapFree(ordered)
                      /\ \A ended, by_start \in Seq(RoundRecords) :
                           IsByEnd(ended) /\ IsByStart(by_start) => LoopAccepts(ended, by_start)
    BY DEF NoFalseAlarm
  <2>1. /\ \A n \in 0 .. ticket - 1 :
             \E r \in RoundRecords : r.ticket <= n /\ n < EndOfBlock(r)
        /\ \A r, s \in RoundRecords :
             /\ IsBlock(r) /\ EndOfBlock(r) <= ticket
             /\ r = s \/ Apart(r, s)
             /\ r.end < s.start => EndOfBlock(r) <= s.ticket
    <3>1. /\ \A n \in 0 .. ticket - 1 :
               \E j \in Jobs : \E i \in 1 .. Calls :
                 records[j][i].ticket <= n /\ n < EndOfBlock(records[j][i])
          /\ \A j, k \in Jobs : \A i, l \in 1 .. Calls :
               /\ IsBlock(records[j][i]) /\ EndOfBlock(records[j][i]) <= ticket
               /\ <<j, i>> = <<k, l>> \/ Apart(records[j][i], records[k][l])
               /\ records[j][i].end < records[k][l].start =>
                    EndOfBlock(records[j][i]) <= records[k][l].ticket
      BY <1>1 DEF RecordsAreOrdered
    <3>2. ASSUME NEW n \in 0 .. ticket - 1
          PROVE  \E r \in RoundRecords : r.ticket <= n /\ n < EndOfBlock(r)
      <4>1. PICK j \in Jobs, i \in 1 .. Calls :
              records[j][i].ticket <= n /\ n < EndOfBlock(records[j][i])
        BY <3>1
      <4>2. records[j][i] \in RoundRecords
        BY DEF RoundRecords
      <4>3. QED  BY <4>1, <4>2
    <3>3. ASSUME NEW r \in RoundRecords, NEW s \in RoundRecords
          PROVE  /\ IsBlock(r) /\ EndOfBlock(r) <= ticket
                 /\ r = s \/ Apart(r, s)
                 /\ r.end < s.start => EndOfBlock(r) <= s.ticket
      <4>1. PICK j \in Jobs, i \in 1 .. Calls : r = records[j][i]
        BY DEF RoundRecords
      <4>2. PICK k \in Jobs, l \in 1 .. Calls : s = records[k][l]
        BY DEF RoundRecords
      <4>3. <<j, i>> = <<k, l>> => r = s
        BY <4>1, <4>2
      <4>4. QED  BY <3>1, <4>1, <4>2, <4>3
    <3>4. QED  BY <3>2, <3>3
  <2>2. RoundRecords \subseteq CallRecords
    <3>1. ASSUME NEW j \in Jobs, NEW i \in 1 .. Calls
          PROVE  records[j][i] \in CallRecords
      <4>1. records[j] \in Seq(CallRecords)
        BY <1>1 DEF RoundsInv, RoundTypes
      <4>2. Len(records[j]) = Calls
        BY <1>1, AllFinished
      <4>3. QED  BY <4>1, <4>2
    <3>2. QED  BY <3>1 DEF RoundRecords
  <2>3. \A r \in RoundRecords :
          /\ r \in Answers /\ r.ticket \in Nat /\ EndOfBlock(r) \in Nat
          /\ Len(r.values) \in Nat /\ r.ticket < EndOfBlock(r)
          /\ Head(r.values) = r.ticket + 1 /\ Last(r.values) = EndOfBlock(r)
          /\ \A m \in 1 .. Len(r.values) - 1 : r.values[m] < r.values[m + 1]
    BY <2>1, <2>2, BlockValues
  <2>4. ticket \in Nat
    BY <1>1 DEF RoundsInv, RoundTypes
  <2>5. ASSUME NEW ordered, IsByTicket(ordered)
        PROVE  GapFree(ordered)
    <3>1. ordered \in Seq(RoundRecords) /\ Len(ordered) \in Nat
      BY <2>5 DEF IsByTicket
    <3>2. ASSUME NEW i \in 1 .. Len(ordered) - 1
          PROVE  ordered[i + 1].ticket = EndOfBlock(ordered[i])
      <4>1. /\ i \in 1 .. Len(ordered) /\ i + 1 \in 1 .. Len(ordered) /\ i < i + 1
            /\ ordered[i] \in RoundRecords /\ ordered[i + 1] \in RoundRecords
        BY <3>1
      <4>2. ordered[i].ticket <= ordered[i + 1].ticket /\ ordered[i] # ordered[i + 1]
        BY <2>5, <4>1 DEF IsByTicket
      <4> DEFINE n == EndOfBlock(ordered[i])
                 q == ordered[i + 1]
      <4>3. /\ n \in Nat /\ q.ticket \in Nat /\ EndOfBlock(q) \in Nat
            /\ q.ticket < EndOfBlock(q) /\ ordered[i].ticket \in Nat /\ ordered[i].ticket < n
        BY <2>3, <4>1
      <4>4. n <= q.ticket
        <5>1. Apart(ordered[i], q)
          BY <2>1, <4>1, <4>2
        <5>2. QED  BY <4>2, <4>3, <5>1 DEF Apart
      <4>5. SUFFICES ASSUME n < q.ticket
                     PROVE  FALSE
        BY <4>3, <4>4
      <4>6. n \in 0 .. ticket - 1
        <5>1. EndOfBlock(q) <= ticket
          BY <2>1, <4>1
        <5>2. QED  BY <2>4, <4>3, <4>5, <5>1
      <4>7. PICK s \in RoundRecords : s.ticket <= n /\ n < EndOfBlock(s)
        BY <2>1, <4>6
      <4>8. s.ticket \in Nat /\ EndOfBlock(s) \in Nat
        BY <2>3
      <4>9. PICK k \in 1 .. Len(ordered) : ordered[k] = s
        BY <2>5 DEF IsByTicket
      <4>10. CASE k <= i
        <5>1. k = i \/ s.ticket <= ordered[i].ticket
          <6>1. k = i \/ k < i
            BY <3>1, <4>1, <4>10
          <6>2. k < i => ordered[k].ticket <= ordered[i].ticket
            BY <2>5, <4>1 DEF IsByTicket
          <6>3. QED  BY <4>9, <6>1, <6>2
        <5>2. s = ordered[i] \/ Apart(s, ordered[i])
          BY <2>1, <4>1
        <5>3. QED  BY <4>3, <4>7, <4>8, <4>9, <5>1, <5>2 DEF Apart
      <4>11. CASE k > i
        <5>1. k = i + 1 \/ i + 1 < k
          BY <3>1, <4>1, <4>11
        <5>2. q.ticket <= s.ticket
          <6>1. i + 1 < k => q.ticket <= ordered[k].ticket
            BY <2>5, <4>1 DEF IsByTicket
          <6>2. QED  BY <4>3, <4>9, <5>1, <6>1
        <5>3. QED  BY <4>3, <4>5, <4>7, <4>8, <5>2
      <4>12. QED  BY <3>1, <4>1, <4>10, <4>11
    <3>3. ASSUME NEW i \in 1 .. Len(ordered) - 1
          PROVE  /\ ordered[i + 1].ticket = ordered[i].ticket + Len(ordered[i].values)
                 /\ Last(ordered[i].values) < Head(ordered[i + 1].values)
      <4>1. ordered[i] \in RoundRecords /\ ordered[i + 1] \in RoundRecords
        BY <3>1
      <4>2. ordered[i + 1].ticket = EndOfBlock(ordered[i])
        BY <3>2
      <4>3. Last(ordered[i].values) < Head(ordered[i + 1].values)
        BY <2>3, <4>1, <4>2
      <4>4. QED  BY <4>2, <4>3 DEF EndOfBlock
    <3>4. QED  BY <2>3, <3>3 DEF GapFree
  <2>6. ASSUME NEW ended \in Seq(RoundRecords), NEW by_start \in Seq(RoundRecords),
               IsByEnd(ended), IsByStart(by_start), NEW turn, AreTurns(ended, by_start, turn)
        PROVE  turn[Len(by_start)].ok
    <3>1. ASSUME NEW i \in 1 .. Len(ended), NEW u \in 1 .. Len(by_start),
                 EndedBefore(ended[i], by_start[u])
          PROVE  Last(ended[i].values) < Head(by_start[u].values)
      <4>1. ended[i] \in RoundRecords /\ by_start[u] \in RoundRecords
        OBVIOUS
      <4>2. EndOfBlock(ended[i]) <= by_start[u].ticket
        BY <2>1, <3>1, <4>1 DEF EndedBefore
      <4>3. QED  BY <2>3, <4>1, <4>2
    <3>2. QED
      <4>1. turn[Len(by_start)].ok <=>
              \A i \in 1 .. Len(ended), u \in 1 .. Len(by_start) :
                EndedBefore(ended[i], by_start[u]) =>
                  Last(ended[i].values) < Head(by_start[u].values)
        BY <2>6, OracleLoop
      <4>2. QED  BY <3>1, <4>1
  <2>7. ASSUME NEW ended \in Seq(RoundRecords), NEW by_start \in Seq(RoundRecords),
               IsByEnd(ended) /\ IsByStart(by_start)
        PROVE  LoopAccepts(ended, by_start)
    BY <2>6, <2>7 DEF LoopAccepts
  <2>8. RoundRecords \subseteq Answers
    BY <2>3
  <2>9. QED  BY <2>5, <2>7, <2>8
<1>2. QED  BY <1>1, RoundsInvariance, RoundsOrder, PTL
=============================================================================
