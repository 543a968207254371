# Formal models of uuidv7 / fastuuid7

TLA+ models of the native UUIDv7 generator and of the code around it, checked
with TLC on small instances; the safety of the generator core, of its entropy
pool, of forked processes, of batches, of the free-threading prototype, of the
migration and of the evidence scripts is proved with TLAPS for every value of the
constants. Paths below are relative to the repository root
(`src/` in `PROJECT.json`); `CORE` stands for
`uuidv7/uuidv7_impl/src/uuid7_gen.c`, `EXT` for `uuidv7/uuidv7_impl/uuid7_gen.c`, `PRO` for
`tools/experiments/free_threading/prototype.c`; `run.py`, `build.py`, `check.py`
and `measure.py` are in the same directory as `PRO`.

## 1. Inventory

### Native generator core (`CORE`, `include/uuid7_gen.h`) - modelled

* **State**: file statics `last_ms`, `counter`, `initialized`, `process_id`,
  `entropy_pool[4096]`, `entropy_offset`, `urandom_fd`.
* **Operations**: `generate_uuid7_bytes`/`_words` (live, at the clock),
  `generate_uuid7_bytes_for_timestamp` (live, for tests),
  `generate_uuid7_at_words`/`_bytes` (historical, exact timestamp, no counter),
  `reset_uuid7_state`, `set_uuid7_state_for_tests`.
* **Interaction**: all of them compare `getpid()` with `process_id` first (the
  historical one after its range check), draw words from the common pool, and
  the pool refills itself from `/dev/urandom`. Only live calls and the two test
  hooks touch `last_ms`, `counter`, `initialized`.
* **Hard behaviours**: a clock that repeats or goes backwards; a 42-bit counter
  that wraps and carries into the next millisecond, so that the state runs
  ahead of the clock; a 48-bit timestamp that runs out; a clock before 1970 that
  becomes a huge `uint64_t`; a refill that fails at the first or the second word
  of a call; short reads and `EINTR`; a fork that duplicates counter and pool.
* **Correct means**: every live identifier is above the one before; a failed or
  historical call leaves no trace in the live sequence; no entropy word is used twice, within a
  process or across a fork; exhaustion is reported at the last position, not
  before and not after; the timestamp stays near the clock.

### CPython extension (`EXT`, `include/uuid7_int.h`) - modelled but for configuration

* **State**: the configured `uuid7_type` and `uuid7_safe_uuid`; results under
  construction. Each call holds the GIL, except where building Python objects
  may run finalizers and where `uuid7_at_many` runs the caller's iterator.
* **Operations**: scalar and batch forms of `uuid7`, `uuid7_obj`,
  `generate_uuid7`, `..._bytes`, `..._int`; `uuid7_at_many`; configuration; test
  hooks; comparison, hashing, field decoding and conversion of `UUID7Obj`.
* **Hard behaviours**: partial failure of a batch; re-entry between two items of
  a batch; the order snapshot, validation, generation in `uuid7_at_many`.
* **Correct means**: a batch is increasing even when something calls the
  generator in its middle; no identifier is generated twice, those that a failed
  batch has dropped included; batches during which no
  Python code runs are contiguous; a rejected timestamp costs no entropy and the
  list that comes back answers the timestamps as they were read; bytes, digits of
  int, fields and comparison agree with each other and with what `uuid.UUID` makes
  of them, and none of them changes the order or the time of an identifier.

### Python packages (`uuidv7/__init__.py`, `fastuuid7/__init__.py`, `uuidv7/uuidv7/__init__.py`) - modelled in part

`uuid7_at` rejects a value, or runs Python code to read it, before it calls the
extension: modelled. The time of the `_UUID7` class: modelled. Re-exports and
the installation of the class into the extension at import have no state of
their own.

### Free-threading prototype (`PRO`) - modelled but for its test hooks

* **State**: the core's statics, `generator_lock`, `serial` (the next ticket); of
  a thread whether it is attached to the interpreter.
* **Operations**: `generate`, the three `pthread_atfork` handlers, and for tests
  `reset`, `set_state`, `entropy_fault`, `snapshot`, `hold_lock`.
* **Hard behaviours**: a mutex and an interpreter to wait for, in one order; a
  fork while another thread holds the mutex or waits for it; calls that return
  in another order than they took their tickets; a call that fails after it has
  taken part of its block.
* **Correct means**: each batch is one block of the sequence taken at one moment
  of its call, in parent and child; every call returns and every fork ends.

### Historical migration example (`examples/historical_migration/migrate.py`) - modelled

* **State**: `customers.uuid`, `orders.uuid`, `orders.customer_uuid`, `id_map` in
  one SQLite database; one write transaction at a time.
* **Operations**: `initialize`, `migrate_batch`, `verify`, `main`.
* **Hard behaviours**: death or failure between two statements; competing runs;
  rows whose timestamp no UUIDv7 can carry; assignments persisted beforehand.
* **Correct means**: whole families (a customer and all its orders) become
  migrated at once and for good, and in the end all of them are.

### Scripts of the prototype (`run.py`, `build.py`, `check.py`, `measure.py`) - modelled in part

* **State**: the child the driver waits for, each with a timeout; the threads,
  barrier and executor of a round; the records of its calls; fork probes, their
  worker threads and forked children; the files of an output directory.
* **Operations**: a run of the driver with its children; `concurrent_records`,
  `timed_round`, `contention`; the ordering oracle `check_records`;
  `run_fork` and `fork_probe`; a measurement by hand.
* **Hard behaviours**: threads that cannot be started while others wait for them;
  a coarse clock that makes calls look simultaneous; code under test that hangs
  anywhere; a timeout that kills a process and leaves its children; files of an
  earlier run, or of other sources, in the output directory.
* **Correct means**: the oracle accepts every correct history and no other; a
  measured duration is about all of the calls; a round and a run always end; no
  forked child stays; a summary claims nothing that has not been done.

### Not modelled

* The other examples, the benchmarks and the workload harness: straight-line
  programs that call the API, time it, compute statistics and print.
* Packaging, CI workflows, release checks and type stubs: configuration and
  declarations, with no state the library depends on.
* `tp_hash`, `version`, `variant`, `hex`, `urn`, pickling and immutability of the
  UUID classes: constants, or one expression on forms that `Uuid7Layout` has.
* A configuration of the class while a batch runs (`EXT`): the package
  configures it once, at import.
* The test hooks of `PRO`: `reset`, `set_state` and `entropy_fault` begin the
  sequence anew between tests, so no property spans them; `snapshot` reads;
  `hold_lock` appears in `FtEvidence`, where it stands in the way of a fork.
* In the scripts: the statistics and the platform information of `measure.py`,
  and the contracts of `check.py` one by one, which are a step with any verdict.

## 2. Modules

| Module | What it is |
| --- | --- |
| `Uuid7Core` | the functions of `CORE` as operators from a generator record to an outcome |
| `MonotonicIds` | what a caller is promised: identifiers, which it counts, increase within an epoch, each one above all before it |
| `Uuid7Gen` | one process that calls every entry point; shown to implement `MonotonicIds` |
| `Uuid7Core_proofs` | lemmas about the operators of `Uuid7Core`, which four other proof modules use |
| `Uuid7Gen_proofs`, `Uuid7Fork_proofs`, `Uuid7Batch_proofs`, `FtPrototype_proofs`, `Migration_proofs` | of each of these modules the inductive invariant and the theorems (section 4) |
| `Uuid7Words_proofs` | the same of `Uuid7Entropy` and of `Uuid7Layout`: where the random words come from, and where the bits of all words go |
| `FtScripts_proofs` | the same of `FtEvidence` and of `FtRounds`: what the scripts of the measurement leave behind, and what their threads do |
| `Uuid7Fork` | a tree of processes, each with its copy of the generator |
| `AtomicEntropy` | `Uuid7Core`'s draw of one word as a specification of its own |
| `Uuid7Entropy` | the draw system call by system call; shown to implement `AtomicEntropy` |
| `Uuid7Batch` | threads that call the extension under the GIL, with Python code running between the steps of a call |
| `Uuid7Layout` | packing, conversions, comparison and time of identifiers, bit by bit |
| `AtomicBatches` | each batch takes its block at one moment between call and return |
| `FtPrototype` | threads under the prototype's mutex, and fork; shown to implement `AtomicBatches` |
| `FtRounds` | rounds of threads in `check.py` and `measure.py`, and the ordering oracle |
| `FtEvidence` | runs of `run.py`: children, fork probes, forked children, timeouts, output files |
| `Backfill` | what the migration promises of the database, commit by commit |
| `Migration` | runs of `migrate.py` statement by statement; shown to implement `Backfill` |
| `MC...` | values of the constants for TLC |

### How state and actions correspond to the code

* A generator record has one field per file static, under its own name.
  `pool` stands for the content of `entropy_pool`: every successful refill gives
  it a number, 0 is a pool without a complete refill (zeroed, or partly
  overwritten). A word is `<<pool number, offset>>`, so that a word read twice
  is told from two words. `entropy_offset` counts words.
* What a refill would answer is chosen before the call (`Entropy`). A pool has
  at least two words and a call draws at most two, so one refill per call is
  all that can happen and one choice is enough.
* The counter a sequence starts from is `seed`, any value: the code masks 64
  random bits to 42. The 32-bit tail and the layout of the sixteen bytes are
  `Uuid7Layout`'s; in the other modules ordering is decided by timestamp and
  counter, and `OrderIsKept` is what justifies that.
* Every C function runs under the GIL without releasing it, so one call is one
  action in `Uuid7Gen` and `Uuid7Fork`. `Uuid7Entropy` opens the one part of a
  call that leaves the process, the system calls, and shows that the loops
  amount to a single step.
* `Uuid7Gen` keeps the caller's memory beside the state (`latest`, `issued`,
  `spent`, `highest`, `carries`, `answer`). No action's guard reads them; the
  properties do. `issued` counts the live identifiers of the epoch: with `latest`
  alone, an identifier issued a second time would leave everything as it is,
  which every action property and every refinement allows. `Uuid7Fork` counts
  per process for the same reason. `answer.asked` is the reading of the clock as
  it is before any conversion (`CurrentTimeMs` casts it to 64 bits, a negative
  one included), so that exhaustion is judged by the time itself.
* `Uuid7Fork` copies the whole record at a fork and runs nothing in the child
  (the extension registers no fork handler). `Exit` frees the number of the
  process. A fork made by a thread that does not hold the GIL, in the middle of
  a call, is outside this model.
* `Uuid7Batch` keeps, for each thread, the stack of its calls; a call is its
  locals and the stage it has reached. The GIL changes hands only while the
  innermost call of its holder is in Python code. That is the caller's iterator
  (`EXT:673`), the allocation of a list that the collector tracks, and the
  building of a `uuid.UUID`: before Python 3.12 an allocation may run finalizers,
  and the limited-API build calls the configured class. Strings, `bytes` and
  `UUID7Obj` are not tracked by the collector, so nothing runs between the items
  of their batches. Scalar calls are batches of one. `uuid7_at` of the package
  (`BeginHistoricalOne`) reads its argument in Python first, where anything may
  run, and goes on to the extension only with a value in range. Python code can call in
  again, edit the list that `uuid7_at_many` reads, or switch threads. `kept`,
  `places`, `floor` and `used` are what the properties look at; of these only the
  length of `kept` steers a call. `used` has the positions of all live calls that
  have ended (`Ends`), by returning them or, in `Raise`, by dropping them.
* `FtPrototype` has one place per thread: in Python, detached and waiting, in the
  critical section, waiting to attach, in the prepare handler, about to copy. A
  forking thread keeps the GIL, or has stopped the world, until the fork is over
  (`CanAttach`). `generate` with a `return_gate_fd` only stays longer between
  unlocking and attaching. The refinement shows a batch's items in the log when
  the mutex is released. The child has the one thread that forked.
* `Uuid7Layout` writes a word as the set of the positions of its one bits, so
  that shifts, masks and comparisons are operations on small sets at the widths
  the code has (64-bit words, 48-bit time, 42-bit counter, digits of 30 bits). Its
  program has two identifiers and converts both from form to form as the API
  offers; `uuid.UUID` is external, by its documented meaning.
* `FtRounds` has a place for the main thread and for each job. The executor
  starts a thread for a new job when none is idle, jobs are taken in the order of
  submission, a barrier breaks for all when one wait times out. A call is the step
  that `AtomicBatches` promises, or raises after it has taken nothing, part of its
  block or, when there is no memory for the result, all of it. In the kind
  `control` no thread runs and the oracle is applied to records made up for it.
  `check_records` itself is `CheckRecords`, sort by sort and with its cursor; the
  assertion on the layout of values is `Uuid7Layout`'s subject.
* `FtEvidence` has the place of the driver, of the child it waits for and, for each
  of the two fork probes, of probe, worker thread and forked child. A file is the
  run or the version of the sources it stems from. `TimesOut` is what
  `subprocess.run` does: it kills the child it started, not that one's children.
  A probe may fail up to and including its `os.fork` (`ProbeFails`); if its worker
  has been started by then, the interpreter waits for the worker at exit.
  `Fail` is any error of a child.
* In `Migration`, SQLite is what the code relies on: one writer, durable atomic
  commits, rollback when a run raises or dies, foreign keys checked after every
  statement. An identifier is the row whose timestamp it carries and a random
  part; identifiers generated in a transaction that rolled back are forgotten.
  `Mishap` is a failing statement or the death of the process. `Correct` is a
  person who repairs a timestamp between two batches (the example asks for
  source writes to be paused during one). `Limited` are runs with
  `--max-batches 1`. `todo` is the set of the statements a transaction has left,
  and `Execute` takes the first of them in the order of the code (`Precedes`:
  mappings, customers by id, orders by customer and id). `verify` inside a batch
  is one step (`Verified`), because nobody else can commit in between. The one at
  the end of `main` runs outside any transaction and is modelled read by read:
  `CheckRelationships`, the two tables (`ReadRows`, which fill `seen`), and
  `id_map` compared with `seen` (`Report`). A batch that another run commits
  between these reads makes it raise, and ends a run that had nothing left to do.
  Each of the other reads holds in every committed state by itself.

Definitions named *Slip* in the modules are the mistakes the properties are
measured against: a plausible wrong version of the definition that follows.

## 3. Runs

| Run | Shows | Bounds and why they are enough |
| --- | --- | --- |
| `uuid7_gen` | each identifier above the one before, isolation of failed and historical calls, gapless counters, fresh entropy, clock tracking, exhaustion | 4 milliseconds, 3 counter values, pools of 3 words: the counter wraps several times before the end, the end is reached, and a call may start with two, one or no words left. 3 refills, one reset. Clock from -1 (before 1970) to 2, requests up to one past the last millisecond |
| `fork` | no entropy or counter continued in two processes | 3 processes: siblings, and a grandchild of a parent that never called. 3 refills of 3 words |
| `fork_recycled` | the violation below | the same with recycled numbers |
| `entropy` | the loops amount to one step, every call returns | 3 words of 2 bytes: every split of a read, word and pool boundaries; 4 refills, 2 signals |
| `batch` | increase, no item generated twice, whether returned or dropped by a failed call, contiguity, validation before entropy, answers to the snapshot | 2 threads, batches of 2, 3 calls, one of them within another; 2 milliseconds and 2 counters, so that batches carry and run into exhaustion; pools of 2 words, so that a refill may fail at any item; two contents of the list, one with a timestamp out of range |
| `ft_prototype` | each batch one block at one moment, all threads get on | 2 processes of 2 threads, batches of 2, three calls or forks: a call holds the mutex, a second waits, a fork waits as well; calls in parent and child side by side; failures as above |
| `layout` | every form stays the RFC's number, keeps order and time | all identifiers with one free bit set, for each of the 154 bits of a live and 176 of a historical one, beside empty and full ones; for each bit, the identifier with it beside the one with all bits below it. Every operation is a union, shift or mask of bits, so a bit that is misplaced, dropped or added shows in one of these; order is decided by one bit |
| `rounds` | no false alarm and no blind spot of the oracle, durations, rounds end | 2 threads of 2 calls, a clock of 3 readings, so that calls overlap, follow or seem simultaneous; a thread that cannot be started, first or second; calls that fail. Histories of the oracle: all pairs over 3 tickets, 5 blocks, 5 intervals, and triples of single values, where the cursor passes one, two or none |
| `evidence` | claims of the output directory, undisturbed measurement, runs and forked children end | 2 runs, sources edited between them or not, with and without measurement: a second run finds the files of the first. Interpreters free-threaded and not, old and not. Every child, probe, worker and forked child may fail or hang at each of its steps |
| `evidence_orphans` | the violation below | one run |
| `migration` | whole families, relationships, completion | 3 customers in batches of 2, one customer with two orders, one with none; two runs, one of them limited, so that it verifies while the other commits the second batch; 2 mishaps; a bad timestamp in the second batch |
| `migration_assigned` | the violation below | the same with a persisted assignment in the second batch |

Deadlock is checked in `layout`, where there is always another conversion. Every
other system here may stop: no caller needs to call again, the bounds are
reached, the migration is finished.

### What the three violations say

* **`fork_recycled`**: `ensure_current_process` (`CORE:91`) recognises a fork by
  comparing process numbers. A process generates, forks a child and exits; the
  child, which has not called yet, forks a grandchild, and the system gives it
  the number of the first. The grandchild takes the copy for its own, while the
  child resets its own: the grandchild continues the counter and hands out words
  that the first process has used. `tests/test_uuidv7.py:287` says without
  restriction that forked workers must not continue with duplicated entropy and
  counters. The run `fork` shows that this reuse of the number is the only way.
* **`migration_assigned`**: the comparison at `migrate.py:156` demands that
  `id_map` hold exactly the rows that are migrated already, while
  `docs/integrations.md:121` and `migrate.py:65` promise that assignments
  persisted beforehand are reused. An assignment for a customer of the first
  batch is (the repository tests that); one for a customer of a later batch
  makes every run roll back its first batch.

* **`evidence_orphans`**: `run.py:3` says that every dangerous check is
  subprocess-bounded, `check.py:3` that dangerous fork probes run in
  timeout-bounded subprocesses. What bounds a probe is a timeout within
  `check.py` (`check.py:355`), and `run.py:32` kills `check.py` alone when its own
  timeout passes. If that happens while a probe runs, and the code under test
  hangs in the probe, the probe stays for ever. Its forked child does not
  (`ForkedChildrenEnd`), because the alarm is its own. It bites only when
  the other contracts, which have no timer of their own, or the probes have used up
  the driver's 120 seconds.

### Fairness

`Uuid7Gen` and `Uuid7Fork` have none: only safety is claimed. `Uuid7Entropy` is
weakly fair inside a call: code runs on, and system calls come back, with
whatever result. Signals are finitely many. `Uuid7Batch` has
none. In `FtPrototype` a thread inside a call or a fork goes on when it can (weak
fairness of its steps: code runs on, and whoever holds the mutex is running). A
`pthread` mutex does not queue its waiters and nothing is assumed about that: calls
and forks are finitely many (`MaxCalls`), so what `EveryThreadGetsOn` shows is the
absence of threads that wait for each other for ever, not the absence of
starvation by threads that never stop calling. `Migration` assumes that each run
goes on and is started again after an error (weak fairness of its steps), and
that a bad timestamp is corrected eventually although batches keep being tried
in between (strong fairness of `Correct`). Mishaps are finitely many; without
that no retry loop ends. In `FtRounds` the main thread and the jobs go on (weak
fairness: the scheduler runs every thread, and native calls return, which is
`EveryThreadGetsOn` of `FtPrototype`), and a barrier that does not fill times out;
nothing is assumed of the timeout on results, so `RoundEnds` does not rest on it.
In `FtEvidence` nothing that is under test is fair: a build, an import, a contract, a
probe's calls, a worker, a forked child may each hang for ever. Fair are the steps
of the driver, the timeouts of the driver and of `run_fork`, the step that follows
the end of a probe, arming and delivery of the alarm, and a probe's own waiting:
the end of the pipe, the join, the exit.

## 4. Proofs

Every theorem is about the whole specification, `THEOREM Spec => ...`, for every
value of the constants that the named assumptions of the modules allow:
`CoreAssumption` (at least two words per pool, which is what a call draws; room in
a word for one timestamp more than the last), and for each module the types of its
sets; for `Uuid7Gen` also that no clock reading is so far from 1970 that the cast of
one time to 64 bits is another (`GenAssumption`: clocks count units of 100 ns or less in
64 bits, which is some 30 000 years; milliseconds of 64 bits are 500 million). The bounds for TLC (`MaxCalls`, `MaxFills`, `MaxRuns`, `MaxMishaps` and the
like) are constants too, so nothing rests on their size. The values of the code
satisfy all of them.

| Proof module | Theorems, with the property each one states |
| --- | --- |
| `Uuid7Gen_proofs` | `TypeCorrectness` (`TypeOK`), `Refinement` (`LiveOrder`), `PlaceMoves` (`PlaceMovesOnlyByIssuing`), `NoGap` (`NoGapInAMillisecond`), `FreshEntropy` (`EntropyIsFresh`), `ClockTracking` (`TimestampTracksClock`), `Exhaustion` (`ExhaustedExactlyAtTheEnd`) |
| `Uuid7Words_proofs` | of `Uuid7Entropy`: `TypeCorrectness` (`TypeOK`), `Refinement` (`OneStep`); of `Uuid7Layout`: `FormsAgreement` (`FormsAgree`), `OrderKept` (`OrderIsKept`), `ExactTime` (`TimeIsExact`) |
| `Uuid7Fork_proofs` | `TypeCorrectness` (`TypeOK`), `ProcessesIncrease` (`EachProcessIncreases`); without recycled numbers `OneOwner` (the invariant), `EntropyIsNotShared` (`NoSharedEntropy`), `FirstIdIsFresh` (`FirstIdStartsAfresh`) |
| `Uuid7Batch_proofs` | `TypeCorrectness` (`TypeOK`), `IncreasingCalls` (`CallsIncrease`), `NobodyElseHasIt` (`GivenOnce`), `Contiguity` (`RawBatchesAreContiguous`), `ValidationComesFirst` (`ValidatedBeforeEntropy`), `SnapshotIsAnswered` (`AnswersTheSnapshot`) |
| `FtPrototype_proofs` | `TypeCorrectness` (`TypeOK`), `Refinement` (`BatchesAreAtomic`) |
| `Migration_proofs` | `TypeCorrectness` (`TypeOK`), `Relationships` (`RelationshipsAgree`), `Refinement` (`WholeFamilies`) |
| `FtScripts_proofs` | of `FtEvidence`: `TypeCorrectness` (`TypeOK`), `Evidence` (`EvidenceIsWhole`), `Alone` (`MeasuredAlone`); of `FtRounds`: `RoundsTypes` (`RoundsTypeOK`), `WholeRound` (`DurationCoversCalls`), `RoundsOrder` (`RecordsAreOrdered`), `OracleAccepts` (`NoFalseAlarm`), and `OracleLoop` about the loop of `check_records`; no run checks these three, they are stated in the proof module |

`Uuid7Layout` and `FtRounds` name their specification after the module (`LayoutSpec`,
`RoundsSpec`), because their proof modules extend a second specification. `Pairs`, by
`PairsAssumption`, are pairs of a live or historical generation, of any millisecond below
2^48, any counter and any random bits.

### The arguments

**Core.** `Uuid7Core_proofs` states what each operator does to a well-typed
generator: a draw consumes only words at or after the offset of the current
pool, or words of the new refill; a commit changes the place in the sequence
only together with a successful outcome; `GenerateForTimestamp` returns a
position that is above the old place. The proofs of `Uuid7Gen`, `Uuid7Fork`,
`Uuid7Batch` and `FtPrototype` rest on these lemmas. The invariant `IInv` of
`Uuid7Gen_proofs` adds to `TypeOK` what the properties do not say and induction
needs: that a generator that has issued an identifier is initialized and stands
exactly where that identifier is, that every spent word lies in an older pool or
behind the offset of the current one, that a pool left behind by a failure has no
word left, and that the generator is stamped with the process number or untouched.
`issued` rises in every step that issues, so `Refinement` maps such a step to one of
`MonotonicIds`, which must go up, and only calls without an identifier to a stutter.
`Exhaustion` rests on `GenAssumption` through one lemma: of a reading, the cast is a
timestamp exactly when the reading is.

**Entropy.** The one-step draw chooses its outcome at once, the loops only little
by little. The history variable `left` is what the last call left behind, and the
refinement maps a call in progress to that. The invariant says for each stage of
a call how far the real state may have moved from `left`: not at all (`AsLeft`),
emptied and with some bytes of one new refill (`Opening`, `Reading`: bytes below
`filled` are of the newest refill), or filled in full (`Refilled`). Only the step
that returns maps to a step, and these cases are the outcomes of `AtomicEntropy`.

**Fork.** Two invariants. `PInv` holds for all numbers the system may give: a
process that has issued an identifier owns its copy and stands where that
identifier is; order within each process follows. `IInv` needs `~Recycled`, the
assumption of run `fork` against run `fork_recycled`, and adds that two owners
never have the same filled pool and that all spent words of a pool are behind
the offset of its owner. A fork makes no owner, because the child's number is not
the one its copy is stamped with; a process becomes one by `EnsureCurrentProcess`,
which empties its pool; and a refill has a number that nobody has. A recycled number
breaks just the first of these steps, which is why that theorem has the
hypothesis and `ProcessesIncrease` has not.

**Batch.** Calls nest, and other threads call in between, so the invariant is about
all calls on all stacks at once: live items increase, lie above the `floor` noted
at the beginning and not above the last position issued; all calls but the
innermost of the holder of the GIL are in Python code; and the items of two calls
are apart, as they are from all that earlier calls returned or dropped (`used`, of
which nothing lies above the last position issued either, `UsedInv`). Whatever is generated
next is above the last position and therefore above all of these. A batch that
never runs Python stays at the end of the sequence (`RawInv`), and a historical
call has all its timestamps in range from the moment it leaves validation.

**Prototype.** The invariant ties the log of a process to its generator
(`LogInv`) and, for the thread in the critical section, its items to the end of the
log from the ticket it read on (`BatchInv`). No second thread can be in
there, so `Unlock` shows the whole block as one step of `AtomicBatches`; in a fork
the mutex is held by the thread that forks, so the log that the child begins
with has no half block.

**Migration.** The working copy agrees with the last commit on every identifier
already there, and what is left to do concerns only mappings and rows that the last
commit does not have (`WorkingInv`, `TodoInv`). Hence a commit, once `Verified`,
only adds whole families, and a rollback adds nothing. That relationships
agree needs no more than the verification; that migrated rows and persisted
assignments are never changed needs both invariants.

**Evidence.** A child that has succeeded has left its part of the evidence, and
nothing that the driver does later undoes it (`BuildInv`, `CheckInv`,
`RowsInv`): binaries and `build.json` of these sources while anything runs after the
build, both probes passed once the contracts have, rows of a measurement that agree
with its interpreter. A probe that has passed has seen its forked child exit
(`ProbeSound`), so none is alive beside a measurement.

**Layout.** The invariant is that both identifiers are, in the form they have, what
their generation makes of them; what a conversion does to that is a statement about
one form. A form is the number cut into pieces (bytes, digits, fields, characters with
the dashes as pieces of no length): `CutInto` says that piece `c` holds the bits from
`start[c]` on, `len[c]` of them. From that, once for all forms, follow that reading the
pieces together gives the number again, because the pieces cover it, and that
comparing them in sequence compares the numbers, because of two words that differ the
highest bit that differs is in the first piece that differs (`PiecesInOrder`). What
remains is one lemma per form: which bits the shifts and masks of the code put into
each piece.

**Rounds.** `RoundsInv` has a conjunct for each mechanism. `BarrierInv`: a job is past
the barrier only if it was released; in `timed_round` it can be released only with
the thread that measures among those waiting, by counting (`MainIsParty`), and that
thread comes only after its first reading of the clock. `PoolInv`: jobs are
submitted in turn, and fewer run than there are threads. `DoneInv`: a job finishes with
all its calls made, and a result is collected only of a job that finished, so that after
the second reading nobody records anything. `OrderInv` looks at the calls that have been answered,
whether recorded or still on the way to the record: their blocks are apart, those
already recorded lie below every call started later than their end, and unless a call
failed there is no gap. Recording a call only sets its end to the present, which no
call has started after, and a new block begins where all others end.

**The oracle.** `OracleLoop` is about two lists of any records, one sorted by end and
one by start, with equal times in any order. After each turn of the loop the cursor has
passed exactly the calls that had ended when the last record looked at was started
(`LoopInv`): those before the cursor had ended even before an earlier start, and the
first one that had not ended stops it for good. The highest value seen is then that of
all of these, so the turn compares the record with every call it must follow. That there
is an invariant turn after a turn is shown without induction over data: the set of turns
where it fails would have a first one (`LeastOf`), and that one follows from the turn
before. `OracleAccepts` brings this together with `RoundsOrder`: on the records of a
round that succeeds, sorted, none of the assertions about tickets, values and time fails.

### Only model-checked

* **Liveness and fairness** (`CallReturns`, `EveryThreadGetsOn`, `Completes`,
  `RoundEnds`, `RunEnds`, `ForkedChildrenEnd`): the proof system used here cannot
  reason from fairness.
* **The ordering oracle from end to end** (`OracleAcceptsRounds`, `OracleIsExact`):
  `CheckRecords` sorts, flattens and folds, and what these operators compute on lists of
  any length is proved by induction over data. `OracleLoop` and `OracleAccepts` take the
  sorted lists and the states of the loop as given (`IsByTicket`, `IsByEnd`, `IsByStart`,
  `AreTurns`) and prove the rest. That an accepted history has one order for tickets and
  time together (`Linearizable`) is checked on the made-up histories.

## 5. Hazards without a property

* `urandom_fd` is kept for ever, across forks as well: an application that closes
  all descriptors and opens others makes the pool read from one of those. The
  models have one source of entropy, and no property could tell.
* A run that fails leaves the summary of an earlier run beside its own logs and
  binaries. `EvidenceIsWhole` is about a summary only until a later run begins.
* `build.py` hashes the sources after it has compiled them, and a build that fails
  half-way leaves a new binary beside an old `build.json`, which a measurement by
  hand then quotes. `EvidenceIsWhole` excludes it for runs that complete, as long
  as nobody edits the sources during the build.

## 6. Plan

The models are complete up to what section 1 leaves out, and every safety property
that a passing run checks is proved, but for the two about the ordering oracle, of which
the parts that need no induction over data are. What could be added: the single contracts
of `check.py`, and the remaining entry points of the prototype (`reset`, `set_state`,
`snapshot`), if the experiment becomes part of the package.

## 7. Assumptions

* Process numbers are not given to a child whose copy is stamped with them (run
  `fork`; without it, `fork_recycled`).
* `urandom_fd` is not closed or replaced by the application; the CSPRNG's words
  are as good as its specification says.
* `FtPrototype`, `Migration`: the values that stand for nobody (`Free`, `Nobody`)
  are no thread and no run.
* `FtRounds`: calls of the prototype behave as `AtomicBatches`, which is what
  `ft_prototype` shows of them.
* `FtEvidence`: a run starts on an idle host, with nothing left of an earlier one,
  as the README of the experiment asks; sources are not edited while they are
  built; a forked child reaches its `alarm` call, its first. Measurements by hand
  are tried after the last run.
