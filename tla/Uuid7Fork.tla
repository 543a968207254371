----------------------------- MODULE Uuid7Fork ------------------------------
(***************************************************************************)
(* A tree of processes that fork, each with its own copy of the generator. *)
(* A fork copies the static variables of uuid7_gen.c as they are, pool and *)
(* all; nothing runs in the child at that moment.  The first call that     *)
(* looks at the state compares getpid() with the process number stored in  *)
(* it and starts afresh when they differ.  Process numbers are the         *)
(* operating system's to give, and to give again.                          *)
(*                                                                         *)
(* os.fork() is called with the GIL held, so a fork falls between two      *)
(* calls of the generator, never into one.                                 *)
(***************************************************************************)
EXTENDS Uuid7Core, FiniteSets

CONSTANTS Procs,      \* the processes that may ever live
          Pids,       \* the process numbers the operating system gives
          Readings,   \* clock readings, as current_time_ms returns them
          MaxFills,   \* bound: how many times a pool is refilled
          Recycled    \* may a child be given the number its copy is stamped with?

ASSUME ForkAssumption ==
  /\ Procs # {}
  /\ Pids \subseteq Nat \ {NoProcess} /\ Pids # {}
  /\ Readings \subseteq Nat
  /\ MaxFills \in Nat
  /\ Recycled \in BOOLEAN

VARIABLES phase,      \* of each process: unborn, running or gone
          pid,        \* getpid() of each process that was born
          gen,        \* the static variables in each address space
          fills,      \* how many refills the CSPRNG has answered in full
          latest,     \* the live position each process issued last
          issued,     \* how many live identifiers each process has issued
          spent,      \* the entropy words of all identifiers, of all processes
          answer      \* the process that called last and what it was given

vars == <<phase, pid, gen, fills, latest, issued, spent, answer>>

\* Which number the first process has makes no difference.
RootPid == CHOOSE n \in Pids : TRUE

Running == {p \in Procs : phase[p] = "running"}

TakenPids == {pid[p] : p \in Running}

\* What p was given; its calls of the operating system give no identifier.
Answer(p, op, o) ==
  [proc |-> p, op |-> op, status |-> o.status, words |-> o.words]

OsAnswer(p, op) == Answer(p, op, Done(InitialGenerator))

\* One process has imported the extension, and nobody has called it.
Init ==
  /\ gen = [p \in Procs |-> InitialGenerator]
  /\ \E root \in Procs :
       /\ phase = [p \in Procs |-> IF p = root THEN "running" ELSE "unborn"]
       /\ pid = [p \in Procs |-> IF p = root THEN RootPid ELSE NoProcess]
       /\ answer = OsAnswer(root, "import")
  /\ fills = 0
  /\ latest = [p \in Procs |-> NoPosition]
  /\ issued = [p \in Procs |-> 0]
  /\ spent = {}

\* A call of p returns.
Return(p, op, o) ==
  /\ gen' = [gen EXCEPT ![p] = o.gen]
  /\ fills' = IF o.gen.pool > fills THEN o.gen.pool ELSE fills
  /\ spent' = spent \cup o.words
  /\ answer' = Answer(p, op, o)
  /\ UNCHANGED <<phase, pid>>

GenerateLive(p) ==
  /\ fills < MaxFills
  /\ \E now \in Readings, e \in Entropy(fills + 1) :
       LET o == GenerateForTimestamp(gen[p], now, pid[p], e)
       IN  /\ Return(p, "live", o)
           /\ IF o.status = "ok"
              THEN /\ latest' = [latest EXCEPT ![p] = o.position]
                   /\ issued' = [issued EXCEPT ![p] = @ + 1]
              ELSE UNCHANGED <<latest, issued>>

GenerateHistorical(p) ==
  /\ fills < MaxFills
  /\ \E ts \in Readings, e \in Entropy(fills + 1) :
       Return(p, "historical", GenerateAt(gen[p], ts, pid[p], e))
  /\ UNCHANGED <<latest, issued>>

\* os.fork() in p: the child c has the parent's memory and a number of its own.
Fork(p, c) ==
  /\ phase[c] = "unborn"
  /\ \E n \in Pids \ TakenPids :
       /\ Recycled \/ n # gen[p].process_id
       /\ pid' = [pid EXCEPT ![c] = n]
  /\ phase' = [phase EXCEPT ![c] = "running"]
  /\ gen' = [gen EXCEPT ![c] = gen[p]]
  /\ answer' = OsAnswer(p, "fork")
  /\ UNCHANGED <<fills, latest, issued, spent>>

\* p exits and is waited for: its memory is gone, and from here its number may
\* be given again.  Waiting later would only keep the number for longer.
Exit(p) ==
  /\ phase' = [phase EXCEPT ![p] = "gone"]
  /\ pid' = [pid EXCEPT ![p] = NoProcess]
  /\ gen' = [gen EXCEPT ![p] = InitialGenerator]
  /\ latest' = [latest EXCEPT ![p] = NoPosition]
  /\ issued' = [issued EXCEPT ![p] = 0]
  /\ answer' = OsAnswer(p, "exit")
  /\ UNCHANGED <<fills, spent>>

Next ==
  \E p \in Running :
    \/ GenerateLive(p)
    \/ GenerateHistorical(p)
    \/ \E c \in Procs : Fork(p, c)
    \/ Exit(p)

Spec == Init /\ [][Next]_vars
-----------------------------------------------------------------------------
(***************************************************************************)
(* Correctness.                                                            *)
(***************************************************************************)
Before(a, b) == a[1] < b[1] \/ (a[1] = b[1] /\ a[2] < b[2])

TypeOK ==
  /\ phase \in [Procs -> {"unborn", "running", "gone"}]
  /\ pid \in [Procs -> Pids \cup {NoProcess}]
  /\ gen \in [Procs -> GeneratorStates]
  /\ fills \in 0 .. MaxFills
  /\ latest \in [Procs -> {NoPosition} \cup (Timestamps \X Counters)]
  /\ issued \in [Procs -> Nat]
  /\ spent \in SUBSET ((1 .. MaxFills) \X (0 .. PoolWords - 1))

\* Forked workers do not continue with duplicated entropy: no word of a pool
\* goes into identifiers of two processes, or into two identifiers of one,
\* although every fork duplicates the pool.
NoSharedEntropy ==
  [][answer'.words \cap spent = {}]_vars

\* Forked workers do not continue with a duplicated counter: the first live
\* identifier of a process starts from a counter drawn in that process.
FirstIdStartsAfresh ==
  [][\A p \in Procs :
       latest[p] = NoPosition /\ latest'[p] # NoPosition =>
         Cardinality(answer'.words) = 2]_vars

\* Within each process, every identifier is greater than the one issued before
\* it, from its first to its last, whatever its relatives do.
EachProcessIncreases ==
  [][\A p \in Procs :
       latest[p] # NoPosition /\ issued'[p] > issued[p] =>
         Before(latest[p], latest'[p])]_vars
=============================================================================
