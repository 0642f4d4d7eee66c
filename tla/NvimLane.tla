------------------------------ MODULE NvimLane ------------------------------
(***************************************************************************)
(* When the Neovim plugin collects, and what becomes of a collection:      *)
(*   extensions/nvim/lua/expiry-radar/init.lua   the triggers              *)
(*   extensions/nvim/lua/expiry-radar/run.lua    collect, cancel, collected*)
(*   extensions/nvim/lua/expiry-radar/state.lua  snapshot and handle       *)
(*                                                                         *)
(* Lua runs one callback at a time.  vim.schedule puts a callback at the   *)
(* end of the queue of the main loop; a command of the user runs between   *)
(* two of them.  A process told to stop still exits later, and its exit    *)
(* callback is scheduled like any other.                                   *)
(***************************************************************************)
EXTENDS Integers, Sequences, FiniteSets

CONSTANTS
    MaxRequests,  \* bound on commands and sweeps together
    MaxSaves,     \* bound on the saves of the config file
    None

VARIABLES
    config,       \* the version of the config file on disk
    debounce,     \* the debounce timer is armed
    loop,         \* callbacks scheduled on the main loop
    handle,       \* state.handle: the run in flight, by number
    procs,        \* the processes of collections
    snapshot,     \* state.snapshot
    cancelled,    \* history: the runs somebody cancelled or preempted
    requests,     \* commands and sweeps so far
    runs          \* runs so far

vars == <<config, debounce, loop, handle, procs, snapshot, cancelled, requests, runs>>

Versions == 0..MaxSaves
Runs == 1..(MaxRequests + MaxSaves)
Results == {"report", "partial", "none"}

ASSUME BoundsAssumption == MaxRequests \in Nat /\ MaxSaves \in Nat
ASSUME NoneAssumption == None \notin Runs

Collect(reason) == [call |-> "collect", reason |-> reason]
Collected(p, result) == [call |-> "collected", run |-> p.run, ver |-> p.ver,
                         result |-> result]

Init ==
    /\ config = 0
    /\ debounce = FALSE
    /\ loop = <<>>
    /\ handle = None
    /\ procs = {}
    /\ snapshot = None
    /\ cancelled = {}
    /\ requests = 0
    /\ runs = 0

-----------------------------------------------------------------------------
(* collect and cancel *)

Told == {IF p.run = handle THEN [p EXCEPT !.told = TRUE] ELSE p : p \in procs}

\* Mutant of Finish: a failure leaves before the handle is cleared.
FinishIfOk(ok) == IF ok THEN handle' = None ELSE UNCHANGED handle

\* finish: the run is over, whatever the outcome.
Finish(ok) == handle' = None

\* The second half of collect: no sources or no binary ends it, otherwise the
\* process starts and becomes the handle.
Spawn(ps) ==
    \/ /\ handle' = None /\ procs' = ps
       /\ UNCHANGED runs
    \/ /\ runs' = runs + 1
       /\ handle' = runs'
       /\ procs' = ps \cup {[run |-> runs', ver |-> config, told |-> FALSE]}

\* Mutant of CollectAuto: the run in flight is not looked at.
CollectAutoUnguarded == Spawn(procs)

\* An automatic collection never queues behind another.
CollectAuto ==
    IF handle # None THEN UNCHANGED <<handle, procs, runs>>
    ELSE Spawn(procs)

\* :ExpiryRadar, and the commands that need a snapshot: a run in flight is
\* cancelled first, whether this one then starts or not.
CollectManual ==
    /\ requests < MaxRequests
    /\ requests' = requests + 1
    /\ cancelled' = cancelled \cup ({handle} \ {None})
    /\ Spawn(Told)
    /\ UNCHANGED <<config, debounce, loop, snapshot>>

\* :ExpiryRadarCancel
Cancel ==
    /\ handle # None
    /\ cancelled' = cancelled \cup {handle}
    /\ procs' = Told
    /\ Finish(TRUE)
    /\ UNCHANGED <<config, debounce, loop, snapshot, requests, runs>>

-----------------------------------------------------------------------------
(* Triggers *)

\* BufWritePost on the config file: the timer starts again.
Save ==
    /\ config < MaxSaves
    /\ config' = config + 1
    /\ debounce' = TRUE
    /\ UNCHANGED <<loop, handle, procs, snapshot, cancelled, requests, runs>>

\* Mutant of DebounceFires: the timer repeats.
DebounceRepeats ==
    /\ debounce
    /\ loop' = Append(loop, Collect("config saved"))
    /\ UNCHANGED <<config, debounce, handle, procs, snapshot, cancelled, requests, runs>>

DebounceFires ==
    /\ debounce
    /\ debounce' = FALSE
    /\ loop' = Append(loop, Collect("config saved"))
    /\ UNCHANGED <<config, handle, procs, snapshot, cancelled, requests, runs>>

SweepFires ==
    /\ requests < MaxRequests
    /\ requests' = requests + 1
    /\ loop' = Append(loop, Collect("periodic refresh"))
    /\ UNCHANGED <<config, debounce, handle, procs, snapshot, cancelled, runs>>

-----------------------------------------------------------------------------
(* Processes and the main loop *)

\* A process ends: of itself, on SIGTERM with what it has so far, or by
\* vim.system's timeout.
Exit(p) ==
    /\ p \in procs
    /\ procs' = procs \ {p}
    /\ \E result \in Results : loop' = Append(loop, Collected(p, result))
    /\ UNCHANGED <<config, debounce, handle, snapshot, cancelled, requests, runs>>

RunCollect ==
    /\ loop # <<>>
    /\ Head(loop).call = "collect"
    /\ loop' = Tail(loop)
    /\ CollectAuto
    /\ UNCHANGED <<config, debounce, snapshot, cancelled, requests>>

\* collected: the handle is cleared, and what the run reported is the snapshot.
RunCollected ==
    /\ loop # <<>>
    /\ Head(loop).call = "collected"
    /\ loop' = Tail(loop)
    /\ LET out == Head(loop) IN
         /\ Finish(out.result # "none")
         /\ IF out.result = "none" THEN UNCHANGED snapshot
            ELSE snapshot' = [run |-> out.run, ver |-> out.ver,
                              partial |-> out.result = "partial"]
    /\ UNCHANGED <<config, debounce, procs, cancelled, requests, runs>>

Next ==
    \/ Save \/ DebounceFires \/ SweepFires \/ CollectManual \/ Cancel
    \/ \E p \in procs : Exit(p)
    \/ RunCollect \/ RunCollected

Spec == Init /\ [][Next]_vars

\* Timers fire, the main loop runs what is scheduled, and vim.system's timeout
\* ends a process that does not end by itself.
Fairness ==
    /\ WF_vars(DebounceFires)
    /\ WF_vars(RunCollect \/ RunCollected)
    /\ WF_vars(\E p \in procs : Exit(p))

FairSpec == Spec /\ Fairness

-----------------------------------------------------------------------------
(* Properties *)

Callbacks == {k \in DOMAIN loop : loop[k].call = "collected"}

TypeOK ==
    /\ config \in Versions
    /\ debounce \in BOOLEAN
    /\ \A k \in DOMAIN loop :
        IF loop[k].call = "collect"
        THEN loop[k].reason \in {"config saved", "periodic refresh"}
        ELSE loop[k].run \in Runs /\ loop[k].result \in Results
    /\ handle \in Runs \cup {None}
    /\ procs \subseteq [run : Runs, ver : Versions, told : BOOLEAN]
    /\ snapshot \in {None} \cup [run : Runs, ver : Versions, partial : BOOLEAN]
    /\ cancelled \subseteq Runs
    /\ requests \in 0..MaxRequests /\ runs \in 0..(MaxRequests + MaxSaves)

\* "radar collecting" is never shown for good: the run in flight has a process
\* or a callback that will clear the handle.
HandleIsLive ==
    handle # None =>
        \/ \E p \in procs : p.run = handle /\ ~p.told
        \/ \E k \in Callbacks : loop[k].run = handle

\* As long as nobody cancels or preempts, there is one run at a time, its
\* callback included, and it is the one the handle names.
OneRunUntilInterrupted ==
    cancelled = {} =>
        {p.run : p \in procs} \cup {loop[k].run : k \in Callbacks} =
            IF handle = None THEN {} ELSE {handle}

\* As long as nobody cancels or preempts, the snapshot is never replaced by one
\* that read an older config file.
SnapshotsMoveForward ==
    [][cancelled = {} /\ snapshot # None => snapshot'.ver >= snapshot.ver]_snapshot

\* Every run ends: its handle does not stay.
RunsEnd == \A r \in Runs : (handle = r) ~> (handle # r)

\* "exactly one process at a time" (init.lua:8): of the processes nobody has
\* told to stop.
OneProcess == Cardinality({p \in procs : ~p.told}) <= 1

\* state.snapshot is "the last completed collection" (state.lua:11): never what
\* a cancelled or preempted run had read when it was stopped.
SnapshotCompleted == snapshot # None => snapshot.run \notin cancelled
=============================================================================
