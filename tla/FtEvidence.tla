----------------------------- MODULE FtEvidence -----------------------------
(***************************************************************************)
(* run.py and the processes under it: build.py compiles the prototype and  *)
(* the unchanged baseline, check.py runs the contracts, each fork contract *)
(* in a probe of its own that forks, a last process imports the baseline,  *)
(* measure.py measures both.  Every child has a timeout, which kills that  *)
(* process and no other.                                                   *)
(*                                                                         *)
(* Anything that is being tried out may hang: a step of a child, of a      *)
(* probe or of a forked child has no fairness.  What bounds it has:        *)
(* timeouts, alarms and the driver.                                        *)
(*                                                                         *)
(* Runs follow one another in one output directory, on an idle host as the *)
(* README asks: nothing that an earlier run started is still there.        *)
(* Between them sources are edited and measurements repeated by hand, with *)
(* the GIL forced on or off.                                               *)
(***************************************************************************)
EXTENDS Integers

CONSTANTS Interpreters,  \* those that invoke the scripts
          MaxRuns,       \* bound: runs of the driver
          MaxSources     \* bound: versions of the sources

ASSUME EvidenceAssumption ==
  /\ Interpreters \subseteq [free : BOOLEAN, old : BOOLEAN]
  /\ MaxRuns \in Nat /\ MaxSources \in Nat \ {0}

Backends == {"baseline", "prototype"}
Variants == {"joined", "active"}

VARIABLES
  interpreter,  \* free-threaded or not, and too old for the public subinterpreters
  sources,      \* version of the sources
  run,          \* the runs begun so far; the last one is the current one
  benchmark,    \* whether it is to measure
  driver,       \* run.py: the child it waits for
  child,        \* where that child is
  failed,       \* check.py: a contract has failed
  probes,       \* of each fork probe of the run: where it, its worker and its
                \* child are
  files         \* the output directory

vars == <<interpreter, sources, run, benchmark, driver, child, failed, probes, files>>

\* Files: version 0 of a file is none at all.
NoChecks == [run |-> 0, status |-> "none"]
NoRows == [so |-> 0, hashed |-> 0, gil |-> "none", expected |-> "none"]
NoProbe == [at |-> "none", worker |-> "none", forked |-> "none"]
NoSummary == [run |-> 0, contracts |-> "none", benchmarks |-> "none"]

Init ==
  /\ interpreter \in Interpreters
  /\ sources = 1
  /\ run = 0
  /\ benchmark = FALSE
  /\ driver = "idle"
  /\ child = "none"
  /\ failed = FALSE
  /\ probes = [p \in Variants |-> NoProbe]
  /\ files = [so |-> [b \in Backends |-> 0], build_json |-> 0, checks |-> NoChecks,
              rows |-> [b \in Backends |-> NoRows], summary |-> NoSummary]

\* sys._is_gil_enabled() once the module is imported: the baseline does not
\* declare that it works without the GIL, so importing it switches the GIL on,
\* unless it is forced off.
GilAfterImport(backend, gil) ==
  CASE ~ interpreter.free -> "on"
    [] interpreter.free /\ gil # "default" -> gil
    [] OTHER -> IF backend = "baseline" THEN "on" ELSE "off"

Expected == IF interpreter.free THEN "off" ELSE "on"

(***************************************************************************)
(* run.py                                                                  *)
(***************************************************************************)
FirstStep(d) ==
  CASE d = "build" -> "compile_prototype"
    [] d = "check" -> "import"
    [] d = "probe_import" -> "import"
    [] d \in Backends -> "import"
    [] OTHER -> "none"

ProbeAlive(p) == probes[p].at \notin {"none", "passed", "failed", "killed"}
Gone(forked) == forked \in {"none", "exit_0", "exit_2", "alarm"}
ForkedAlive(p) == ~ Gone(probes[p].forked)

\* What the processes that end knew is forgotten.
Waits(d) ==
  /\ driver' = d
  /\ child' = FirstStep(d)
  /\ failed' = FALSE
  /\ benchmark' = (benchmark /\ d # "idle")

\* PYTHON_GIL, -X gil and -O are refused before anything is done.
Start ==
  /\ driver = "idle" /\ run < MaxRuns
  /\ \A p \in Variants : ~ ProbeAlive(p) /\ ~ ForkedAlive(p)
  /\ run' = run + 1
  /\ sources' \in sources .. MaxSources
  /\ benchmark' \in BOOLEAN
  /\ driver' = "build" /\ child' = FirstStep("build")
  /\ probes' = [p \in Variants |-> NoProbe]
  /\ UNCHANGED <<interpreter, failed, files>>

\* Slip: the exit status of a child is not looked at.
SucceededAnyway == child \in {"ok", "error"}

Succeeded == child = "ok"

BuildDone ==
  /\ driver = "build" /\ Succeeded
  /\ Waits("check")
  /\ files' = [files EXCEPT !.checks = [run |-> run, status |-> "open"]]
  /\ UNCHANGED <<interpreter, sources, run, probes>>

CheckDone ==
  /\ driver = "check" /\ Succeeded
  /\ Waits("probe_import")
  /\ UNCHANGED <<interpreter, sources, run, probes, files>>

ImportDone ==
  /\ driver = "probe_import" /\ Succeeded
  /\ Waits(IF benchmark THEN "baseline" ELSE "write")
  /\ UNCHANGED <<interpreter, sources, run, probes, files>>

MeasureDone ==
  /\ driver \in Backends /\ Succeeded
  /\ Waits(IF driver = "baseline" THEN "prototype" ELSE "write")
  /\ UNCHANGED <<interpreter, sources, run, probes, files>>

WriteSummary ==
  /\ driver = "write"
  /\ files' = [files EXCEPT !.summary =
       [run |-> run,
        contracts |-> IF files.checks.status = "skipped" THEN "passed_with_skips" ELSE "passed",
        benchmarks |-> IF benchmark THEN "completed" ELSE "not_run"]]
  /\ Waits("idle")
  /\ UNCHANGED <<interpreter, sources, run, probes>>

\* check=True: any failure of a child ends the run.
Abort ==
  /\ child = "error" /\ ~ Succeeded
  /\ Waits("idle")
  /\ UNCHANGED <<interpreter, sources, run, probes, files>>

\* Slip: no timeout for check.py, which has timeouts itself.
BoundedButCheck(d) == d \in {"build", "probe_import"} \cup Backends

Bounded(d) == d \in {"build", "check", "probe_import"} \cup Backends

\* Slip: the child is left to itself.
TimesOutOnly ==
  /\ Bounded(driver) /\ child \notin {"ok", "error"}
  /\ driver' = "idle"
  /\ UNCHANGED <<interpreter, sources, run, benchmark, child, failed, probes, files>>

\* subprocess.run kills the child, and only the child, and raises.
TimesOut ==
  /\ Bounded(driver) /\ child \notin {"ok", "error"}
  /\ Waits("idle")
  /\ UNCHANGED <<interpreter, sources, run, probes, files>>

DriverStep ==
  \/ BuildDone \/ CheckDone \/ ImportDone \/ MeasureDone
  \/ WriteSummary \/ Abort

(***************************************************************************)
(* build.py, the import probe, measure.py                                  *)
(***************************************************************************)
Fail ==
  /\ child \notin {"none", "ok", "error", "joined", "active"}
  /\ child' = "error"
  /\ UNCHANGED <<interpreter, sources, run, benchmark, driver, failed, probes, files>>

Compiles(backend) == files' = [files EXCEPT !.so[backend] = sources]

CompilePrototype ==
  /\ driver = "build" /\ child = "compile_prototype"
  /\ Compiles("prototype")
  /\ child' = "compile_baseline"
  /\ UNCHANGED <<interpreter, sources, run, benchmark, driver, failed, probes>>

CompileBaseline ==
  /\ driver = "build" /\ child = "compile_baseline"
  /\ Compiles("baseline")
  /\ child' = "metadata"
  /\ UNCHANGED <<interpreter, sources, run, benchmark, driver, failed, probes>>

WriteMetadata ==
  /\ driver = "build" /\ child = "metadata"
  /\ files' = [files EXCEPT !.build_json = sources]
  /\ child' = "ok"
  /\ UNCHANGED <<interpreter, sources, run, benchmark, driver, failed, probes>>

ProbeImport ==
  /\ driver = "probe_import" /\ child = "import"
  /\ child' = IF GilAfterImport("baseline", "default") = "on" THEN "ok" ELSE "error"
  /\ UNCHANGED <<interpreter, sources, run, benchmark, driver, failed, probes, files>>

Measures(backend, expected, gil) ==
  /\ GilAfterImport(backend, gil) = expected
  /\ backend = "baseline" => GilAfterImport(backend, gil) = "on"

Rows(backend, expected, gil) ==
  [so |-> files.so[backend], hashed |-> files.build_json,
   gil |-> GilAfterImport(backend, gil), expected |-> expected]

Measure ==
  /\ driver \in Backends /\ child = "import"
  /\ LET expected == IF driver = "baseline" THEN "on" ELSE Expected
     IN  IF Measures(driver, expected, "default")
         THEN /\ child' = "ok"
              /\ files' = [files EXCEPT !.rows[driver] = Rows(driver, expected, "default")]
         ELSE child' = "error" /\ UNCHANGED files
  /\ UNCHANGED <<interpreter, sources, run, benchmark, driver, failed, probes>>

\* Tried after the last run.  A build with the GIL does not start without it.
MeasureByHand ==
  /\ driver = "idle" /\ run = MaxRuns
  /\ \E b \in Backends, expected \in {"on", "off"}, gil \in {"default", "on", "off"} :
       /\ files.so[b] # 0 /\ files.build_json # 0
       /\ interpreter.free \/ gil # "off"
       /\ Measures(b, expected, gil)
       /\ files' = [files EXCEPT !.rows[b] = Rows(b, expected, gil)]
  /\ UNCHANGED <<interpreter, sources, run, benchmark, driver, child, failed, probes>>

(***************************************************************************)
(* check.py                                                                *)
(***************************************************************************)
Launch(v) == probes' = [probes EXCEPT ![v].at = "rounds"]

ImportPrototype ==
  /\ driver = "check" /\ child = "import"
  /\ child' = IF GilAfterImport("prototype", "default") = Expected THEN "tests" ELSE "error"
  /\ UNCHANGED <<interpreter, sources, run, benchmark, driver, failed, probes, files>>

\* The contracts that run in check.py itself; unittest goes on after a failure.
RunTests ==
  /\ child = "tests"
  /\ failed' \in BOOLEAN
  /\ child' = "joined"
  /\ Launch("joined")
  /\ UNCHANGED <<interpreter, sources, run, benchmark, driver, files>>

\* Slip: a probe that ran out of time is not held against the contracts.
FailedInTime(at) == at = "failed"

Failed(at) == at \in {"failed", "killed"}

\* run_fork: the exit status of the probe, or TimeoutExpired.
ProbeEnded(v) ==
  /\ child = v /\ probes[v].at \in {"passed", "failed", "killed"}
  /\ failed' = (failed \/ Failed(probes[v].at))
  /\ IF v = "joined"
     THEN child' = "active" /\ Launch("active")
     ELSE child' = "report" /\ UNCHANGED probes
  /\ UNCHANGED <<interpreter, sources, run, benchmark, driver, files>>

ProbeTimesOut(v) ==
  /\ child = v /\ probes[v].at \notin {"passed", "failed", "killed"}
  /\ probes' = [probes EXCEPT ![v].at = "killed",
                              ![v].worker = "none"]
  /\ UNCHANGED <<interpreter, sources, run, benchmark, driver, child, failed, files>>

Report ==
  /\ child = "report"
  /\ files' = [files EXCEPT !.checks.status =
       IF failed THEN "failed" ELSE IF interpreter.old THEN "skipped" ELSE "passed"]
  /\ child' = IF failed THEN "error" ELSE "ok"
  /\ UNCHANGED <<interpreter, sources, run, benchmark, driver, failed, probes>>

(***************************************************************************)
(* fork_probe, the process p, and the child that it forks                  *)
(***************************************************************************)
ProbeGoes(p, f) ==
  /\ probes' = [probes EXCEPT ![p] = f]
  /\ UNCHANGED <<interpreter, sources, run, benchmark, driver, child, failed, files>>

\* After the rounds the active probe has a thread hold the native mutex.
ProbeRounds(p) ==
  /\ probes[p].at = "rounds"
  /\ ProbeGoes(p, [probes[p] EXCEPT !.at = "fork",
                     !.worker = IF p = "active" THEN "holding" ELSE "none"])

WorkerReleases(p) ==
  /\ probes[p].worker = "holding"
  /\ ProbeGoes(p, [probes[p] EXCEPT !.worker = "returning"])

WorkerEnds(p) ==
  /\ probes[p].worker = "returning"
  /\ ProbeGoes(p, [probes[p] EXCEPT !.worker = "done"])

\* The fork handler of the prototype takes the mutex first.
ProbeForks(p) ==
  /\ probes[p].at = "fork" /\ probes[p].worker # "holding"
  /\ ProbeGoes(p, [probes[p] EXCEPT !.at = "read", !.forked = "born"])

\* Slip: no alarm.
ArmNot(p) ==
  /\ probes[p].forked = "born"
  /\ ProbeGoes(p, [probes[p] EXCEPT !.forked = "unarmed"])

Arm(p) ==
  /\ probes[p].forked = "born"
  /\ ProbeGoes(p, [probes[p] EXCEPT !.forked = "armed"])

\* It exits 0 when its sequence is its own, and 2 on any exception.
ForkedChildEnds(p) ==
  /\ probes[p].forked \in {"armed", "unarmed"}
  /\ \E status \in {"exit_0", "exit_2"} :
       ProbeGoes(p, [probes[p] EXCEPT !.forked = status])

Alarm(p) ==
  /\ probes[p].forked = "armed"
  /\ ProbeGoes(p, [probes[p] EXCEPT !.forked = "alarm"])

\* The pipe ends when no process can write to it any more.
ProbeReads(p) ==
  /\ probes[p].at = "read" /\ ~ ForkedAlive(p)
  /\ ProbeGoes(p, [probes[p] EXCEPT !.at = "join"])

\* A worker that has not come back fails the probe, which waits for it at exit;
\* then the status of the child is looked at.
ProbeJoins(p) ==
  /\ probes[p].at = "join"
  /\ \/ /\ probes[p].worker \in {"none", "done"}
        /\ ProbeGoes(p, [probes[p] EXCEPT !.at =
             IF probes[p].forked = "exit_0" THEN "compare" ELSE "failed"])
     \/ /\ probes[p].worker \notin {"none", "done"}
        /\ ProbeGoes(p, [probes[p] EXCEPT !.at = "leaving"])

ProbeLeaves(p) ==
  /\ probes[p].at = "leaving" /\ probes[p].worker = "done"
  /\ ProbeGoes(p, [probes[p] EXCEPT !.at = "failed"])

\* The parent generates on, and its identifiers are compared with the child's.
ProbeCompares(p) ==
  /\ probes[p].at = "compare"
  /\ \E verdict \in {"passed", "failed"} : ProbeGoes(p, [probes[p] EXCEPT !.at = verdict])

\* An exception in the rounds, while the worker gets ready or from os.fork.  A
\* worker that was started is waited for at exit.
ProbeFails(p) ==
  /\ probes[p].at \in {"rounds", "fork"}
  /\ ProbeGoes(p, [probes[p] EXCEPT !.at =
       IF probes[p].worker \in {"none", "done"} THEN "failed" ELSE "leaving"])

ProbeStep(p) ==
  \/ ProbeRounds(p) \/ WorkerReleases(p) \/ WorkerEnds(p) \/ ProbeForks(p)
  \/ Arm(p) \/ ForkedChildEnds(p) \/ Alarm(p)
  \/ ProbeReads(p) \/ ProbeJoins(p) \/ ProbeLeaves(p) \/ ProbeCompares(p) \/ ProbeFails(p)

ChildStep ==
  \/ CompilePrototype \/ CompileBaseline \/ WriteMetadata \/ ProbeImport \/ Measure
  \/ ImportPrototype \/ RunTests \/ Report \/ Fail
  \/ \E v \in Variants : ProbeEnded(v)

Next ==
  \/ Start \/ MeasureByHand
  \/ DriverStep \/ TimesOut \/ ChildStep
  \/ \E v \in Variants : ProbeTimesOut(v)
  \/ \E p \in Variants : ProbeStep(p)

Spec ==
  /\ Init /\ [][Next]_vars
  /\ WF_vars(DriverStep) /\ WF_vars(TimesOut)
  /\ \A v \in Variants : WF_vars(ProbeTimesOut(v)) /\ WF_vars(ProbeEnded(v))
  /\ \A p \in Variants :
       /\ WF_vars(Arm(p)) /\ WF_vars(Alarm(p))
       /\ WF_vars(ProbeReads(p)) /\ WF_vars(ProbeJoins(p)) /\ WF_vars(ProbeLeaves(p))
-----------------------------------------------------------------------------
(***************************************************************************)
(* Correctness.                                                            *)
(***************************************************************************)
Versions == 0 .. MaxSources

\* The types of the variables; a process runs only while its parent waits for it,
\* and a probe only from when check.py of its run has come to it.
TypeOK ==
  /\ interpreter \in Interpreters
  /\ sources \in Versions \ {0} /\ run \in 0 .. MaxRuns
  /\ benchmark \in BOOLEAN /\ failed \in BOOLEAN
  /\ driver \in {"idle", "build", "check", "probe_import", "write"} \cup Backends
  /\ child = "none" <=> driver \in {"idle", "write"}
  /\ driver = "check" =>
       child \in {"import", "tests", "report", "ok", "error"} \cup Variants
  /\ probes \in [Variants ->
       [at : {"none", "rounds", "fork", "read", "join", "leaving", "compare",
              "passed", "failed", "killed"},
        worker : {"none", "holding", "returning", "done"},
        forked : {"none", "born", "armed", "exit_0", "exit_2", "alarm"}]]
  /\ child \in Variants => probes[child].at # "none"
  /\ files.so \in [Backends -> Versions] /\ files.build_json \in Versions

\* What is written in the output directory is so.  No measurement gives a GIL
\* state other than it had, none is of the unsafe baseline without the GIL.  A
\* summary says that both fork probes and their children succeeded in its run,
\* and that all contracts were executed if it says "passed" (README: a missing
\* API is "a skip, never a full pass").  As long as no later run has begun,
\* everything else in the directory is of that run and of one version of the
\* sources, the one in build.json.
EvidenceIsWhole ==
  LET s == files.summary
  IN  /\ \A b \in Backends :
           /\ files.rows[b].gil = files.rows[b].expected
           /\ b = "baseline" => files.rows[b].gil # "off"
      /\ s.run = run /\ run # 0 =>
           /\ \A v \in Variants :
                probes[v].at = "passed" /\ probes[v].forked = "exit_0"
           /\ s.contracts = "passed" => ~ interpreter.old
           /\ files.checks.run = run /\ files.checks.status # "failed"
           /\ files.build_json = sources
           /\ \A b \in Backends :
                /\ files.so[b] = sources
                /\ s.benchmarks = "completed" =>
                     files.rows[b].so = sources /\ files.rows[b].hashed = sources

\* README: measure "on an otherwise idle host".  While run.py measures, no probe
\* of the run and no child that one has forked is still there.
MeasuredAlone ==
  driver \in Backends =>
    \A v \in Variants : ~ ProbeAlive(v) /\ ~ ForkedAlive(v)

\* README: "Child processes have explicit timeouts; any failure aborts the
\* driver."  Whatever hangs, every run comes to its end.
RunEnds == driver # "idle" ~> driver = "idle"

\* check.py: "A timed-out parent probe must not leave a deadlocked child behind."
\* A forked child ends, even when the probe, or check.py, has been killed.
ForkedChildrenEnd == \A p \in Variants : ForkedAlive(p) ~> ~ ForkedAlive(p)

\* run.py: "Every dangerous check is subprocess-bounded."  check.py: "Dangerous
\* fork probes run in timeout-bounded subprocesses."  Every probe ends.
ProbesAreBounded == \A p \in Variants : ProbeAlive(p) ~> ~ ProbeAlive(p)
=============================================================================
