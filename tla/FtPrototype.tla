----------------------------- MODULE FtPrototype ----------------------------
(***************************************************************************)
(* tools/experiments/free_threading/prototype.c: the generator core under  *)
(* one native mutex.  A thread detaches from the interpreter before it     *)
(* waits for the mutex and unlocks before it attaches again.  fork() runs  *)
(* in an attached thread, whose prepare handler waits for the mutex; the   *)
(* child has that thread only.                                             *)
(*                                                                         *)
(* A thread between two calls is anywhere in Python.  Only a fork stays    *)
(* attached over several steps here: with the GIL it keeps it, and without *)
(* it the interpreter stops all attached threads, so that in either case   *)
(* no other thread attaches until the fork is over.                        *)
(***************************************************************************)
EXTENDS Uuid7Core, SequencesExt

CONSTANTS Threads,
          Procs,      \* the processes that may ever live
          Sizes,      \* the counts passed to generate
          Readings,   \* clock readings and timestamps passed in
          MaxCalls    \* bound: calls and forks in all processes

\* Who owns a mutex that no thread owns.
Free == "free"

ASSUME FtAssumption ==
  /\ Threads # {} /\ Procs \subseteq Nat \ {NoProcess} /\ Procs # {}
  /\ Sizes \subseteq Nat /\ Readings \subseteq Nat /\ MaxCalls \in Nat
  /\ Free \notin Threads

VARIABLES gen,      \* of each process: the static variables of uuid7_gen.c
          serial,   \* of each process: how many live identifiers it generated
          mutex,    \* of each process: the thread that owns generator_lock, or Free
          at,       \* of each process and thread: where it is
          call,     \* the locals of its call
          log,      \* of each process: the live identifiers it generated
          fills,    \* how many refills the CSPRNG has answered in full
          calls     \* how many calls and forks have begun

vars == <<gen, serial, mutex, at, call, log, fills, calls>>

\* Where a thread can be; "absent" are threads that fork did not copy.
Places == {"absent", "python", "detached", "locked", "attaching", "forking", "forked"}

NoCall == [op |-> "none", wanted |-> 0, first |-> 0, made |-> 0, items |-> <<>>, status |-> "ok"]

Unborn(p) == \A t \in Threads : at[p][t] = "absent"
Root == CHOOSE p \in Procs : TRUE

Init ==
  /\ gen = [p \in Procs |-> InitialGenerator]
  /\ serial = [p \in Procs |-> 0]
  /\ mutex = [p \in Procs |-> Free]
  /\ at = [p \in Procs |-> [t \in Threads |-> IF p = Root THEN "python" ELSE "absent"]]
  /\ call = [p \in Procs |-> [t \in Threads |-> NoCall]]
  /\ log = [p \in Procs |-> <<>>]
  /\ fills = 0
  /\ calls = 0

Goes(p, t, place) == at' = [at EXCEPT ![p][t] = place]

\* May a thread of p attach?
CanAttach(p) == \A t \in Threads : at[p][t] \notin {"forking", "forked"}

(***************************************************************************)
(* generate()                                                              *)
(***************************************************************************)
\* Arguments parsed and bytes allocated, the thread detaches.
Begin(p, t) ==
  /\ at[p][t] = "python" /\ CanAttach(p)
  /\ calls < MaxCalls
  /\ \E op \in {"live", "historical"}, n \in Sizes :
       call' = [call EXCEPT ![p][t] = [NoCall EXCEPT !.op = op, !.wanted = n]]
  /\ calls' = calls + 1
  /\ Goes(p, t, "detached")
  /\ UNCHANGED <<gen, serial, mutex, log, fills>>

\* Slip: the mutex is taken without waiting for its owner.
LockAnyway(p, t) ==
  /\ at[p][t] = "detached"
  /\ mutex' = [mutex EXCEPT ![p] = t]
  /\ call' = [call EXCEPT ![p][t].first = serial[p]]
  /\ Goes(p, t, "locked")
  /\ UNCHANGED <<gen, serial, log, fills, calls>>

Lock(p, t) ==
  /\ at[p][t] = "detached" /\ mutex[p] = Free
  /\ mutex' = [mutex EXCEPT ![p] = t]
  /\ call' = [call EXCEPT ![p][t].first = serial[p]]
  /\ Goes(p, t, "locked")
  /\ UNCHANGED <<gen, serial, log, fills, calls>>

Unfinished(c) == c.status = "ok" /\ c.made < c.wanted

\* What a call with the locals c gets from the generator core.
Drawn(c, g, ms, p, e) ==
  IF c.op = "live" THEN GenerateForTimestamp(g, ms, p, e)
                   ELSE GenerateAt(g, ms, p, e)

\* serial counts live identifiers only, and "items" are the live ones in the
\* buffer.
Counts(c, o) == o.status = "ok" /\ c.op = "live"

AfterPass(c, o) ==
  [c EXCEPT !.status = o.status,
            !.made = IF o.status = "ok" THEN @ + 1 ELSE @,
            !.items = IF Counts(c, o) THEN Append(@, o.position) ELSE @]

\* One pass of the loop.  Each pass may have another timestamp, as it has when
\* the clock is read; a timestamp passed in is the same in all of them.
Generate(p, t) ==
  /\ at[p][t] = "locked" /\ Unfinished(call[p][t])
  /\ \E ms \in Readings, e \in Entropy(fills + 1) :
       LET c == call[p][t]
           o == Drawn(c, gen[p], ms, p, e)
       IN  /\ gen' = [gen EXCEPT ![p] = o.gen]
           /\ fills' = IF o.gen.pool > fills THEN o.gen.pool ELSE fills
           /\ call' = [call EXCEPT ![p][t] = AfterPass(c, o)]
           /\ serial' = [serial EXCEPT ![p] = IF Counts(c, o) THEN @ + 1 ELSE @]
           /\ log' = [log EXCEPT ![p] = IF Counts(c, o) THEN Append(@, o.position) ELSE @]
  /\ UNCHANGED <<mutex, at, calls>>

\* Slip: the thread attaches before it unlocks.
UnlockAttached(p, t) ==
  /\ at[p][t] = "locked" /\ ~Unfinished(call[p][t])
  /\ CanAttach(p)
  /\ mutex' = [mutex EXCEPT ![p] = Free]
  /\ Goes(p, t, "attaching")
  /\ UNCHANGED <<gen, serial, call, log, fills, calls>>

Unlock(p, t) ==
  /\ at[p][t] = "locked" /\ ~Unfinished(call[p][t])
  /\ mutex' = [mutex EXCEPT ![p] = Free]
  /\ Goes(p, t, "attaching")
  /\ UNCHANGED <<gen, serial, call, log, fills, calls>>

\* Attached again, with the bytes or with an exception.
Return(p, t) ==
  /\ at[p][t] = "attaching" /\ CanAttach(p)
  /\ call' = [call EXCEPT ![p][t] = NoCall]
  /\ Goes(p, t, "python")
  /\ UNCHANGED <<gen, serial, mutex, log, fills, calls>>

(***************************************************************************)
(* os.fork()                                                               *)
(***************************************************************************)
BeginFork(p, t) ==
  /\ at[p][t] = "python" /\ CanAttach(p)
  /\ calls < MaxCalls
  /\ calls' = calls + 1
  /\ Goes(p, t, "forking")
  /\ UNCHANGED <<gen, serial, mutex, call, log, fills>>

\* The prepare handler, lock_generator.
Prepare(p, t) ==
  /\ at[p][t] = "forking" /\ mutex[p] = Free
  /\ mutex' = [mutex EXCEPT ![p] = t]
  /\ Goes(p, t, "forked")
  /\ UNCHANGED <<gen, serial, call, log, fills, calls>>

\* The memory is copied, and the child has the thread that forked alone.
\* unlock_generator runs in the parent; child_after_fork resets what was copied
\* and unlocks the child's copy of the mutex.
Copy(p, t, c, tickets) ==
  /\ at[p][t] = "forked" /\ Unborn(c)
  /\ mutex' = [mutex EXCEPT ![p] = Free, ![c] = Free]
  /\ at' = [at EXCEPT ![p][t] = "python", ![c][t] = "python"]
  /\ gen' = [gen EXCEPT ![c] = ResetProcessState(gen[p], c)]
  /\ serial' = [serial EXCEPT ![c] = tickets]
  /\ UNCHANGED <<call, log, fills, calls>>

\* Slip: the child keeps counting the tickets of its parent.
ForkKeepingTickets(p, t) == \E c \in Procs : Copy(p, t, c, serial[p])

Fork(p, t) == \E c \in Procs : Copy(p, t, c, 0)

\* No child; unlock_generator runs in the parent all the same.
ForkFails(p, t) ==
  /\ at[p][t] = "forked"
  /\ mutex' = [mutex EXCEPT ![p] = Free]
  /\ Goes(p, t, "python")
  /\ UNCHANGED <<gen, serial, call, log, fills, calls>>

GoesOn(p, t) ==
  \/ Lock(p, t) \/ Generate(p, t) \/ Unlock(p, t) \/ Return(p, t)
  \/ Prepare(p, t) \/ Fork(p, t) \/ ForkFails(p, t)

Next == \E p \in Procs, t \in Threads : Begin(p, t) \/ BeginFork(p, t) \/ GoesOn(p, t)

(***************************************************************************)
(* A thread inside a call goes on when it can.  Nothing is assumed of the  *)
(* order in which waiting threads get the mutex.                           *)
(***************************************************************************)
Fairness == \A p \in Procs, t \in Threads : WF_vars(GoesOn(p, t))

Spec == Init /\ [][Next]_vars /\ Fairness
-----------------------------------------------------------------------------
(***************************************************************************)
(* Correctness.                                                            *)
(***************************************************************************)
\* The types of the variables, and the mutex: it is owned by the one thread of
\* the process that is inside its critical section, and by no absent thread.
TypeOK ==
  /\ gen \in [Procs -> GeneratorStates]
  /\ at \in [Procs -> [Threads -> Places]]
  /\ mutex \in [Procs -> Threads \cup {Free}]
  /\ \A p \in Procs, t \in Threads :
       mutex[p] = t <=> at[p][t] \in {"locked", "forked"}

\* The log without the items of a batch that is still being generated.
Finished(p) ==
  IF \E t \in Threads : at[p][t] = "locked"
  THEN SubSeq(log[p], 1, Len(log[p]) - Len(call[p][mutex[p]].items))
  ELSE log[p]

AbstractCall(p, t) ==
  CASE at[p][t] \in {"detached", "locked"} -> <<"called">>
    [] at[p][t] = "attaching" -> <<"block", call[p][t].first, call[p][t].items>>
    [] OTHER -> <<"idle">>

Earlier(a, b) == a[1] < b[1] \/ (a[1] = b[1] /\ a[2] < b[2])

\* docs/design/free-threading.md: in every process, a forked child included,
\* each batch takes one contiguous block of the increasing sequence at one
\* moment between its call and its return, and its ticket is the place of that
\* block; nothing it returns changes between the unlocking and the return.
Atomic ==
  INSTANCE AtomicBatches WITH
    Positions <- Timestamps \X Counters, Before <- Earlier,
    log <- [p \in Procs |-> Finished(p)],
    call <- [p \in Procs |-> [t \in Threads |-> AbstractCall(p, t)]]
BatchesAreAtomic == Atomic!Spec

\* Every call returns and every fork ends, in the parent and in the child:
\* no order of mutex, interpreter and fork handlers leaves them waiting for
\* each other.
EveryThreadGetsOn ==
  \A p \in Procs, t \in Threads :
    at[p][t] \notin {"absent", "python"} ~> at[p][t] = "python"
=============================================================================
