----------------------------- MODULE CollectAll -----------------------------
(***************************************************************************)
(* source.CollectAll (src/internal/source/source.go:80-129): one goroutine *)
(* per configured source, at most Concurrency of them inside Collect, a    *)
(* WaitGroup the caller waits on, and a merge in configured order.         *)
(*                                                                         *)
(* main counts its loops with next; a goroutine goes through               *)
(*   unborn -> blocked -> collecting -> wrote -> released -> done          *)
(* where blocked is waiting on the send `sem <- struct{}{}`, wrote is      *)
(* between the assignment to results[i] and the deferred receive from sem, *)
(* released between that receive and wg.Done.  The context ends once, by   *)
(* the -timeout of the run or by a signal; nothing in CollectAll looks at  *)
(* it, only the sources do.                                                *)
(***************************************************************************)
EXTENDS Integers, Sequences, FiniteSets

CONSTANTS NSources, Item, NoAnswer,
    Concurrency,  \* collectConcurrency
    Readings      \* Readings[i]: what the Collect of source i may return

Sources == 1..NSources
Reading == [items : Seq(Item), err : BOOLEAN]

ASSUME NSourcesAssumption == NSources \in Nat
ASSUME ConcurrencyAssumption == Concurrency \in Nat \ {0}
ASSUME ReadingsAssumption == Readings \in [Sources -> SUBSET Reading]
ASSUME NoAnswerAssumption == NoAnswer \notin Reading

VARIABLES
    main,     \* where CollectAll is: "spawn", "merge" or "returned"
    next,     \* the index of main's current loop
    worker,   \* worker[i]: where the goroutine of source i is
    sem,      \* tokens in the channel sem
    wg,       \* the counter of the WaitGroup
    results,  \* results[i]: what goroutine i wrote, zero before
    ctx,      \* "live", "deadline" (the -timeout) or "canceled" (a signal)
    items,    \* the merged items
    errs      \* the indexes of the sources whose error was collected

vars == <<main, next, worker, sem, wg, results, ctx, items, errs>>

WorkerState == {"unborn", "blocked", "collecting", "wrote", "released", "done"}

\* The zero value of CollectAll's local type result.
Zero == [items |-> <<>>, err |-> FALSE]

Init ==
    /\ main = "spawn"
    /\ next = 1
    /\ worker = [i \in Sources |-> "unborn"]
    /\ sem = 0
    /\ wg = 0
    /\ results = [i \in Sources |-> Zero]
    /\ ctx = "live"
    /\ items = <<>>
    /\ errs = <<>>

\* Mutant of Spawn: the goroutine starts and nobody counted it.
SpawnWithoutAdd ==
    /\ main = "spawn"
    /\ next \in Sources
    /\ worker' = [worker EXCEPT ![next] = "blocked"]
    /\ next' = next + 1
    /\ UNCHANGED <<main, sem, wg, results, ctx, items, errs>>

\* One turn of the first loop: wg.Add(1), then go.
Spawn ==
    /\ main = "spawn"
    /\ next \in Sources
    /\ wg' = wg + 1
    /\ worker' = [worker EXCEPT ![next] = "blocked"]
    /\ next' = next + 1
    /\ UNCHANGED <<main, sem, results, ctx, items, errs>>

\* Mutant of SlotFree: one slot too many.
SlotFreeOneMore == sem <= Concurrency

\* Room in the buffered channel: the send does not block.
SlotFree == sem < Concurrency

Acquire(i) ==
    /\ worker[i] = "blocked"
    /\ SlotFree
    /\ sem' = sem + 1
    /\ worker' = [worker EXCEPT ![i] = "collecting"]
    /\ UNCHANGED <<main, next, wg, results, ctx, items, errs>>

\* s.Collect(ctx) returns and its two results are stored.
Return(i) ==
    /\ worker[i] = "collecting"
    /\ \E r \in Readings[i] : results' = [results EXCEPT ![i] = r]
    /\ worker' = [worker EXCEPT ![i] = "wrote"]
    /\ UNCHANGED <<main, next, sem, wg, ctx, items, errs>>

\* Mutant of Release: the deferred receive is missing.
ReleaseKeepsSlot(i) ==
    /\ worker[i] = "wrote"
    /\ worker' = [worker EXCEPT ![i] = "released"]
    /\ UNCHANGED <<main, next, sem, wg, results, ctx, items, errs>>

\* The two deferred calls, last one first.
Release(i) ==
    /\ worker[i] = "wrote"
    /\ sem' = sem - 1
    /\ worker' = [worker EXCEPT ![i] = "released"]
    /\ UNCHANGED <<main, next, wg, results, ctx, items, errs>>

Done(i) ==
    /\ worker[i] = "released"
    /\ wg' = wg - 1
    /\ worker' = [worker EXCEPT ![i] = "done"]
    /\ UNCHANGED <<main, next, sem, results, ctx, items, errs>>

\* wg.Wait returns and the merge begins.
Wait ==
    /\ main = "spawn"
    /\ next = NSources + 1
    /\ wg = 0
    /\ main' = "merge"
    /\ next' = 1
    /\ UNCHANGED <<worker, sem, wg, results, ctx, items, errs>>

\* Mutant of Merge: a source that failed is skipped, items and all.
MergeSkipsFailed ==
    /\ main = "merge"
    /\ next \in Sources
    /\ items' = IF results[next].err THEN items ELSE items \o results[next].items
    /\ errs' = IF results[next].err THEN Append(errs, next) ELSE errs
    /\ next' = next + 1
    /\ UNCHANGED <<main, worker, sem, wg, results, ctx>>

\* One turn of the second loop.
Merge ==
    /\ main = "merge"
    /\ next \in Sources
    /\ items' = items \o results[next].items
    /\ errs' = IF results[next].err THEN Append(errs, next) ELSE errs
    /\ next' = next + 1
    /\ UNCHANGED <<main, worker, sem, wg, results, ctx>>

Finish ==
    /\ main = "merge"
    /\ next = NSources + 1
    /\ main' = "returned"
    /\ UNCHANGED <<next, worker, sem, wg, results, ctx, items, errs>>

\* The deadline of the run passes, or SIGINT or SIGTERM arrives
\* (cmd/expiry-radar/main.go, context.WithTimeout over signal.NotifyContext).
EndContext(cause) ==
    /\ ctx = "live"
    /\ main # "returned"
    /\ ctx' = cause
    /\ UNCHANGED <<main, next, worker, sem, wg, results, items, errs>>

Goroutine(i) == Acquire(i) \/ Return(i) \/ Release(i) \/ Done(i)

Next ==
    \/ Spawn \/ Wait \/ Merge \/ Finish
    \/ \E i \in Sources : Acquire(i) \/ Return(i) \/ Release(i) \/ Done(i)
    \/ \E cause \in {"deadline", "canceled"} : EndContext(cause)

Spec == Init /\ [][Next]_vars

\* The Go scheduler runs every goroutine that can run; the timer of the
\* context fires; a source whose context has ended returns (each of them hands
\* ctx to its client, WHOIS sets a deadline on its connection).  A source may
\* hang for as long as the context lives.
Fairness ==
    /\ WF_vars(Spawn \/ Wait \/ Merge \/ Finish)
    /\ \A i \in Sources :
        /\ WF_vars(Acquire(i) \/ Release(i) \/ Done(i))
        /\ WF_vars(ctx # "live" /\ Return(i))
    /\ WF_vars(EndContext("deadline"))

FairSpec == Spec /\ Fairness

-----------------------------------------------------------------------------
(* Properties *)

TypeOK ==
    /\ main \in {"spawn", "merge", "returned"}
    /\ next \in 1..(NSources + 1)
    /\ worker \in [Sources -> WorkerState]
    /\ sem \in Nat
    /\ wg \in Nat
    /\ results \in [Sources -> Reading]
    /\ ctx \in {"live", "deadline", "canceled"}
    /\ items \in Seq(Item)
    /\ errs \in Seq(Sources)

Holders == {i \in Sources : worker[i] \in {"collecting", "wrote"}}
Pending == {i \in Sources : worker[i] \notin {"unborn", "done"}}

\* No more than collectConcurrency sources are ever inside Collect together
\* (source.go:80-82), whatever order goroutines start, block and finish in.
InFlightBounded ==
    Cardinality({i \in Sources : worker[i] = "collecting"}) <= Concurrency

\* The merge, which takes no lock, starts only when the last goroutine has
\* written its element of results and gone (source.go:107-112).
NoEarlyMerge ==
    main \in {"merge", "returned"} => \A i \in Sources : worker[i] = "done"

\* The refinement mapping: a source has answered once its element of results is
\* written, the report exists once CollectAll returns it.
AnswerMap ==
    [i \in Sources |-> IF worker[i] \in {"wrote", "released", "done"}
                       THEN results[i] ELSE NoAnswer]
ReportMap == IF main = "returned" THEN [items |-> items, errs |-> errs]
             ELSE NoAnswer

C == INSTANCE Collection WITH answer <- AnswerMap, report <- ReportMap

\* What the caller gets is every item every source returned, those of a source
\* that failed too, source after source in configured order although they
\* finished in any order, and exactly the failures (source.go:84-86,114-127).
MergedInOrder ==
    main = "returned" =>
        /\ C!IsMerge(items, results, NSources)
        /\ C!IsErrList(errs, results, NSources)

\* The -timeout is a deadline for every source and not a budget the first ones
\* spend (source.go:88-92, collect_test.go:60-63): a source that has not
\* started when the deadline passes could have, no slow source is in its way.
DeadlineIsNotABudget ==
    ctx = "deadline" => \A i \in Sources : worker[i] = "blocked" => SlotFree

\* CollectAll returns once the context ends, however many sources hang.
Returns == <>(main = "returned")

\* The goroutines implement what a collection promises.
Implements == C!Spec

-----------------------------------------------------------------------------
(* The inductive invariant: the counters count, and the merge so far.       *)

SemCounts == sem = Cardinality(Holders) /\ sem <= Concurrency
WgCounts == wg = Cardinality(Pending)

SpawnedInOrder ==
    main = "spawn" =>
        \A i \in Sources : worker[i] = "unborn" <=> i >= next

MergedSoFar ==
    /\ main = "spawn" => items = <<>> /\ errs = <<>>
    /\ main # "spawn" => /\ C!IsMerge(items, results, next - 1)
                         /\ C!IsErrList(errs, results, next - 1)
    /\ main = "returned" => next = NSources + 1

IInv == SemCounts /\ WgCounts /\ SpawnedInOrder /\ NoEarlyMerge /\ MergedSoFar
=============================================================================
