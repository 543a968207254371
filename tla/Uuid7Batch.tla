----------------------------- MODULE Uuid7Batch -----------------------------
(***************************************************************************)
(* The extension module uuid7_gen.c (not src/uuid7_gen.c): threads of one  *)
(* process that call the scalar, the batch and the historical functions.   *)
(* A call holds the GIL from beginning to end, except where it runs Python *)
(* code: uuid7_at_many runs the caller's iterator, and allocating a list   *)
(* or building an object may run finalizers, or a constructor or setter of *)
(* the configured class.  That code may call the generator again, change   *)
(* the list the timestamps come from, or let other threads run.            *)
(*                                                                         *)
(* A scalar function is a batch of one; uuid7_at is a historical batch of  *)
(* one, validated in Python.                                               *)
(***************************************************************************)
EXTENDS Uuid7Core, SequencesExt

CONSTANTS Threads,
          Sizes,      \* the counts passed to the batch functions
          Sources,    \* what the list of timestamps may hold at any moment
          Readings,   \* clock readings, as current_time_ms returns them
          MaxDepth,   \* bound: calls within calls of one thread
          MaxCalls    \* bound: calls in all

ASSUME BatchAssumption ==
  /\ Threads # {}
  /\ Sizes \subseteq Nat
  /\ \A s \in Sources : s \in Seq(Nat)
  /\ Readings \subseteq Nat
  /\ MaxDepth \in Nat /\ MaxCalls \in Nat

\* getpid(): this is one process.
Pid == 1

\* uuid7 and uuid7_many, uuid7_obj and ..._many, and so on; "at" is historical.
LiveOps == {"uuid", "obj", "str", "bytes"}
Ops == LiveOps \cup {"at"}

VARIABLES gen,        \* the static variables of src/uuid7_gen.c
          fills,      \* how many refills the CSPRNG has answered in full
          holder,     \* the thread that holds the GIL
          stack,      \* of each thread: its calls, the innermost last
          source,     \* the list of timestamps, which Python code owns
          calls,      \* how many calls have begun
          latest,     \* the position of the live identifier generated last
          issued,     \* how many live identifiers have been generated
          used        \* the positions of all live calls that have ended: those
                      \* returned, and those dropped when the call failed

vars == <<gen, fills, holder, stack, source, calls, latest, issued, used>>

Init ==
  /\ gen = InitialGenerator
  /\ fills = 0
  /\ holder \in Threads
  /\ stack = [t \in Threads |-> <<>>]
  /\ source \in Sources
  /\ calls = 0
  /\ latest = NoPosition
  /\ issued = 0
  /\ used = {}

\* Where the thread that holds the GIL is: in a C function, or in Python code
\* which that function, if any, has called.
Call == Last(stack[holder])
InPython(t) == stack[t] # <<>> => Last(stack[t]).in_python
InC == ~InPython(holder)

Becomes(call) == stack' = [stack EXCEPT ![holder] = Append(Front(@), call)]
Pops == stack' = [stack EXCEPT ![holder] = Front(@)]

(***************************************************************************)
(* Python code.                                                            *)
(***************************************************************************)
\* Slip: the GIL is released within a call.
SwitchAnywhere ==
  /\ holder' \in Threads \ {holder}
  /\ UNCHANGED <<gen, fills, stack, source, calls, latest, issued, used>>

Switch ==
  /\ InPython(holder)
  /\ holder' \in Threads \ {holder}
  /\ UNCHANGED <<gen, fills, stack, source, calls, latest, issued, used>>

EditSource ==
  /\ InPython(holder)
  /\ source' \in Sources \ {source}
  /\ UNCHANGED <<gen, fills, holder, stack, calls, latest, issued, used>>

\* The call keeps what it has so far, and what was generated last before it.
NewCall(op, wanted, stage) ==
  [op |-> op, wanted |-> wanted, stage |-> stage, in_python |-> FALSE,
   timestamps |-> <<>>, kept |-> <<>>, places |-> <<>>, drew |-> FALSE,
   floor |-> latest]

Begin(call) ==
  /\ InPython(holder)
  /\ calls < MaxCalls /\ Len(stack[holder]) < MaxDepth
  /\ stack' = [stack EXCEPT ![holder] = Append(@, call)]
  /\ calls' = calls + 1
  /\ UNCHANGED <<gen, fills, holder, source, latest, issued, used>>

BeginLive == \E op \in LiveOps, n \in Sizes : Begin(NewCall(op, n, "allocate"))

BeginHistorical == Begin(NewCall("at", 0, "iterate"))

\* uuid7_at, whose range check is Python's; what follows is a batch of one.
BeginHistoricalOne ==
  \E ms \in UNION {ToSet(s) : s \in Sources} :
    Begin([NewCall("at", 1, "validate") EXCEPT !.timestamps = <<ms>>])

\* Slip: building a string runs Python code too.
MayRunPythonAnywhere(call) == call.stage \in {"iterate", "allocate", "build"}

\* The iterator, a list that the garbage collector tracks, an object of the
\* configured class; strings, bytes and UUID7Obj are not tracked.
MayRunPython(call) ==
  \/ call.stage = "iterate"
  \/ call.stage = "allocate" /\ call.op # "bytes"
  \/ call.stage = "build" /\ call.op \in {"uuid", "at"}

RunPython ==
  /\ InC /\ MayRunPython(Call)
  /\ Becomes([Call EXCEPT !.in_python = TRUE])
  /\ UNCHANGED <<gen, fills, holder, source, calls, latest, issued, used>>

ReturnToC ==
  /\ stack[holder] # <<>> /\ Call.in_python
  /\ Becomes([Call EXCEPT !.in_python = FALSE])
  /\ UNCHANGED <<gen, fills, holder, source, calls, latest, issued, used>>

(***************************************************************************)
(* The C functions.                                                        *)
(***************************************************************************)
\* The call ends, and its positions are used for good.
Ends ==
  /\ Pops
  /\ used' = IF Call.op = "at" THEN used ELSE used \cup ToSet(Call.kept)

\* Slip: a call that fails puts the sequence back where it found it.
RaiseRollingBack(g) ==
  /\ gen' = IF Call.floor = NoPosition
            THEN g ELSE Commit(g, Call.floor[1], Call.floor[2])
  /\ Ends

\* An exception: the items generated so far are dropped, and nothing else.
Raise(g) ==
  /\ gen' = g
  /\ Ends

\* PySequence_Tuple asks the iterator for one more.
Iterate ==
  /\ InC /\ Call.stage = "iterate"
  /\ IF Len(Call.timestamps) < Len(source)
     THEN Becomes([Call EXCEPT !.timestamps = Append(@, source[Len(@) + 1])])
     ELSE Becomes([Call EXCEPT !.stage = "validate", !.wanted = Len(Call.timestamps)])
  /\ UNCHANGED <<gen, fills, holder, source, calls, latest, issued, used>>

IteratorRaises ==
  /\ InC /\ Call.stage = "iterate"
  /\ Raise(gen)
  /\ UNCHANGED <<fills, holder, source, calls, latest, issued>>

\* Slip: the range is left to the generator to check.
ValidateLazily ==
  /\ InC /\ Call.stage = "validate"
  /\ Becomes([Call EXCEPT !.stage = "allocate"])
  /\ UNCHANGED <<gen, fills, holder, source, calls, latest, issued, used>>

Validate ==
  /\ InC /\ Call.stage = "validate"
  /\ IF \A ms \in ToSet(Call.timestamps) : ms <= MaxTimestamp
     THEN Becomes([Call EXCEPT !.stage = "allocate"]) /\ UNCHANGED <<gen, used>>
     ELSE Raise(gen)
  /\ UNCHANGED <<fills, holder, source, calls, latest, issued>>

\* PyList_New, or the bytes object.
Allocate ==
  /\ InC /\ Call.stage = "allocate"
  /\ Becomes([Call EXCEPT !.stage = "generate"])
  /\ UNCHANGED <<gen, fills, holder, source, calls, latest, issued, used>>

\* No memory for the list, for an item, or for the UUID7Obj that is allocated
\* before its words are generated.
AllocationFails ==
  /\ InC
  /\ \/ Call.stage \in {"allocate", "build"}
     \/ Call.stage = "generate" /\ Call.op = "obj" /\ Len(Call.kept) < Call.wanted
  /\ Raise(gen)
  /\ UNCHANGED <<fills, holder, source, calls, latest, issued>>

\* One more item: its position and, for a live one, its place among them all.
Kept(o) ==
  [Call EXCEPT !.kept = Append(@, o.position), !.drew = TRUE,
               !.places = IF Call.op = "at" THEN @ ELSE Append(@, issued + 1),
               !.stage = IF Call.op \in {"uuid", "str", "at"} THEN "build" ELSE @]

\* Slip: the list is read again for every item.
TimestampFromSource ==
  IF Len(Call.kept) < Len(source) THEN source[Len(Call.kept) + 1] ELSE 0

Timestamp == Call.timestamps[Len(Call.kept) + 1]

Outcome(now, e) ==
  IF Call.op = "at"
  THEN GenerateAt(gen, Timestamp, Pid, e)
  ELSE GenerateForTimestamp(gen, now, Pid, e)

Generate ==
  /\ InC /\ Call.stage = "generate" /\ Len(Call.kept) < Call.wanted
  /\ \E now \in Readings, e \in Entropy(fills + 1) :
       LET o == Outcome(now, e)
       IN  /\ fills' = IF o.gen.pool > fills THEN o.gen.pool ELSE fills
           /\ IF o.status = "ok"
              THEN Becomes(Kept(o)) /\ gen' = o.gen /\ UNCHANGED used
              ELSE Raise(o.gen)
           /\ IF o.status = "ok" /\ Call.op # "at"
              THEN latest' = o.position /\ issued' = issued + 1
              ELSE UNCHANGED <<latest, issued>>
  /\ UNCHANGED <<holder, source, calls>>

\* The item is complete and goes into the list.
Build ==
  /\ InC /\ Call.stage = "build"
  /\ Becomes([Call EXCEPT !.stage = "generate"])
  /\ UNCHANGED <<gen, fills, holder, source, calls, latest, issued, used>>

Return ==
  /\ InC /\ Call.stage = "generate" /\ Len(Call.kept) = Call.wanted
  /\ Ends
  /\ UNCHANGED <<gen, fills, holder, source, calls, latest, issued>>

Next ==
  \/ Switch \/ EditSource \/ BeginLive \/ BeginHistorical \/ BeginHistoricalOne
  \/ RunPython \/ ReturnToC
  \/ Iterate \/ IteratorRaises \/ Validate
  \/ Allocate \/ AllocationFails \/ Generate \/ Build \/ Return

Spec == Init /\ [][Next]_vars
-----------------------------------------------------------------------------
(***************************************************************************)
(* Correctness.                                                            *)
(***************************************************************************)
Before(a, b) == a[1] < b[1] \/ (a[1] = b[1] /\ a[2] < b[2])

Positions == Timestamps \X Counters

\* The calls in progress, by thread and depth.
CallsInProgress == {c \in Threads \X (1 .. MaxDepth) : c[2] <= Len(stack[c[1]])}
The(c) == stack[c[1]][c[2]]

\* The types of the variables, and the GIL: a thread that does not hold it is
\* in Python code, and so is every call but the innermost one of a thread.
TypeOK ==
  /\ gen \in GeneratorStates /\ gen.pool \in 0 .. fills
  /\ holder \in Threads
  /\ latest \in {NoPosition} \cup Positions
  /\ used \in SUBSET Positions
  /\ \A c \in CallsInProgress :
       /\ The(c).op \in Ops
       /\ Len(The(c).kept) <= The(c).wanted
       /\ (c[1] # holder \/ c[2] < Len(stack[c[1]])) => The(c).in_python

\* docs/api.md: live identifiers of scalar and batch calls increase strictly.
\* Those of one call increase from the first to the last, and all are above
\* everything generated before the call began, however many calls of other
\* threads or of its own callbacks come between its items.
CallsIncrease ==
  \A c \in CallsInProgress :
    The(c).op \in LiveOps =>
      LET all == IF The(c).floor = NoPosition
                 THEN The(c).kept ELSE <<The(c).floor>> \o The(c).kept
      IN  \A i \in 1 .. Len(all) - 1 : Before(all[i], all[i + 1])

\* No live identifier is an item of two calls: neither one that was returned nor
\* one that a failed batch has dropped is ever generated again, not even where no
\* call comes between, and none belongs to two calls in progress.
GivenOnce ==
  /\ \A c \in CallsInProgress :
       The(c).op \in LiveOps => ToSet(The(c).kept) \cap used = {}
  /\ \A c, d \in CallsInProgress :
       c # d /\ {The(c).op, The(d).op} \subseteq LiveOps =>
         ToSet(The(c).kept) \cap ToSet(The(d).kept) = {}

\* Nothing runs between the items of a batch of strings, UUID7Obj or bytes:
\* it is a contiguous piece of the live sequence.
RawBatchesAreContiguous ==
  \A c \in CallsInProgress :
    The(c).op \in {"obj", "str", "bytes"} =>
      \A i \in 1 .. Len(The(c).places) - 1 :
        The(c).places[i + 1] = The(c).places[i] + 1

\* docs/api.md: all elements are validated before any generator entropy is
\* consumed, so one bad timestamp costs nothing.
ValidatedBeforeEntropy ==
  \A c \in CallsInProgress :
    The(c).op = "at" /\ The(c).drew =>
      \A ms \in ToSet(The(c).timestamps) : ms <= MaxTimestamp

\* The list that uuid7_at_many returns answers the snapshot element by element,
\* whatever callbacks do to the list it was taken from.
AnswersTheSnapshot ==
  \A c \in CallsInProgress :
    The(c).op = "at" =>
      \A i \in 1 .. Len(The(c).kept) : The(c).kept[i] = <<The(c).timestamps[i]>>
=============================================================================
