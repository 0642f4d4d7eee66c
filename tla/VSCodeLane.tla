----------------------------- MODULE VSCodeLane -----------------------------
(***************************************************************************)
(* When the VS Code extension collects, and what becomes of a collection:  *)
(*   extensions/vscode/src/scheduler.ts   which job runs, and when         *)
(*   extensions/vscode/src/runner.ts      exec: one process, its timeout,  *)
(*                                        its cancellation                 *)
(*   extensions/vscode/src/collector.ts   execute: from report to snapshot *)
(*   extensions/vscode/src/store.ts       one snapshot per folder          *)
(*                                                                         *)
(* JavaScript runs one callback at a time, promise continuations included: *)
(* an action is one callback with every continuation it releases.  So a    *)
(* run that settles, its finally block and the start of the next job of    *)
(* the chain are one step; the waits for the process, for the config file  *)
(* to be read again, for timers and for the user are what interleaves.     *)
(***************************************************************************)
EXTENDS Integers, Sequences, FiniteSets, SequencesExt

CONSTANTS
    Folders,    \* workspace folders, each with a config file
    MaxJobs,    \* bound on the jobs ever requested
    MaxSaves,   \* bound on the saves of each config file
    None

VARIABLES
    config,     \* config[f]: the version of the config file on disk
    pending,    \* Scheduler.pending: the job behind the debounce timer
    timer,      \* Scheduler.timer is armed
    chain,      \* jobs started behind the active one (Scheduler.chain)
    active,     \* Scheduler.active and how far its execute is
    procs,      \* the expiry-radar processes of this machine, dying ones too
    store,      \* ResultStore: the snapshot of each folder
    recent,     \* lastCompletedAt is less than 0.9 of the period ago
    tried,      \* history: the newest config each folder's ended runs have
                \*   read, a cancelled one only if the user cancelled it
    disposed,   \* the extension was deactivated
    nextId      \* identity of the next job

vars == <<config, pending, timer, chain, active, procs, store, recent,
          tried, disposed, nextId>>

Ids == 1..MaxJobs
Versions == 0..MaxSaves
Job == [id : Ids, folder : Folders, manual : BOOLEAN]
Running == [job : Job, phase : {"process", "placing"}, ver : Versions,
            partial : BOOLEAN]
Process == [job : Job, ver : Versions, dying : BOOLEAN]
Snapshot == [id : Ids, ver : Versions, partial : BOOLEAN]

ASSUME BoundsAssumption == MaxJobs \in Nat /\ MaxSaves \in Nat
ASSUME NoneAssumption == None \notin Job \cup Running

Init ==
    /\ config = [f \in Folders |-> 0]
    /\ pending = None
    /\ timer = FALSE
    /\ chain = <<>>
    /\ active = None
    /\ procs = {}
    /\ store = [f \in Folders |-> None]
    /\ recent = FALSE
    /\ tried = [f \in Folders |-> 0]
    /\ disposed = FALSE
    /\ nextId = 1

-----------------------------------------------------------------------------
(* The lane *)

Request ==
    /\ ~disposed
    /\ nextId \in Ids
    /\ nextId' = nextId + 1

NewJob(f, manual) == [id |-> nextId, folder |-> f, manual |-> manual]

\* The first job of q starts, if there is one: exec spawns its process in the
\* same callback, with the config file as it is now.
Proceed(q, ps) ==
    IF q = <<>>
    THEN active' = None /\ chain' = <<>> /\ procs' = ps
    ELSE LET j == Head(q) IN
         /\ active' = [job |-> j, phase |-> "process", ver |-> config[j.folder],
                       partial |-> FALSE]
         /\ chain' = Tail(q)
         /\ procs' = ps \cup
                {[job |-> j, ver |-> config[j.folder], dying |-> FALSE]}

\* Scheduler.start: the job runs when all that was started before it has ended.
Start(job) ==
    IF active = None THEN Proceed(<<job>>, procs)
    ELSE chain' = Append(chain, job) /\ UNCHANGED <<active, procs>>

\* Mutant of Killed: nobody signals the process.
NotKilled == procs

\* SIGTERM to the process of the active run; it dies in its own time, three
\* seconds later by SIGKILL.
Killed == {IF p.job = active.job THEN [p EXCEPT !.dying = TRUE] ELSE p : p \in procs}

\* Mutant of Settle: the finally block forgets the pending job.
SettleWithoutRearm(q, ps) ==
    /\ Proceed(q, ps)
    /\ recent' = TRUE
    /\ UNCHANGED timer

\* The finally block of Scheduler.start: the run is over, however it ended, a
\* pending job gets its timer back and the next one of q starts.
Settle(q, ps) ==
    /\ Proceed(q, ps)
    /\ recent' = TRUE
    /\ timer' = (timer \/ pending # None)

Tried(f, v) == [tried EXCEPT ![f] = IF v > @ THEN v ELSE @]

\* Only a run that still waits for its process notices a cancellation; one
\* that is placing its items goes on and stores them.
Cancellable == active # None /\ active.phase = "process"

-----------------------------------------------------------------------------
(* Requests *)

\* Scheduler.schedule: the newest request wins the one pending slot.
Schedule(job) ==
    IF pending # None /\ pending.manual /\ ~job.manual
    THEN UNCHANGED <<pending, timer>>
    ELSE pending' = job /\ timer' = TRUE

\* onSave of the config file of folder f.
Save(f) ==
    /\ config[f] < MaxSaves
    /\ Request
    /\ config' = [config EXCEPT ![f] = @ + 1]
    /\ Schedule(NewJob(f, FALSE))
    /\ UNCHANGED <<chain, active, procs, store, recent, tried, disposed>>

\* The periodic refresh, of whichever folder is primary; a tick without focus
\* or too soon after a run changes nothing.
Sweep(f) ==
    /\ ~recent
    /\ Request
    /\ Schedule(NewJob(f, FALSE))
    /\ UNCHANGED <<config, chain, active, procs, store, recent, tried,
                   disposed>>

\* Mutants of Fire: the slot is emptied before the active run is looked at, and
\* the slot is not emptied.
FireEmptiesFirst ==
    /\ timer
    /\ timer' = FALSE
    /\ pending' = None
    /\ IF pending = None \/ active # None
       THEN UNCHANGED <<chain, active, procs>>
       ELSE Start(pending)
    /\ UNCHANGED <<config, store, recent, tried, disposed, nextId>>

FireKeepsPending ==
    /\ timer
    /\ timer' = FALSE
    /\ IF pending = None \/ active # None
       THEN UNCHANGED <<chain, active, procs>>
       ELSE Start(pending)
    /\ UNCHANGED <<config, pending, store, recent, tried, disposed, nextId>>

\* The debounce timer fires.
Fire ==
    /\ timer
    /\ timer' = FALSE
    /\ IF pending = None \/ active # None
       THEN UNCHANGED <<pending, chain, active, procs>>
       ELSE pending' = None /\ Start(pending)
    /\ UNCHANGED <<config, store, recent, tried, disposed, nextId>>

\* Scheduler.runNow, for a command: an automatic run in flight is cancelled.
RunNow(f) ==
    /\ Request
    /\ LET job == NewJob(f, TRUE) IN
         IF Cancellable /\ ~active.job.manual
         THEN Settle(Append(chain, job), Killed)
         ELSE Start(job) /\ UNCHANGED <<timer, recent>>
    /\ UNCHANGED <<config, pending, store, tried, disposed>>

\* Scheduler.cancel, the command.
Cancel ==
    /\ ~disposed
    /\ pending # None \/ active # None
    /\ pending' = None
    /\ timer' = FALSE
    /\ IF Cancellable
       THEN Proceed(chain, Killed) /\ recent' = TRUE
       ELSE UNCHANGED <<chain, active, procs, recent>>
    /\ tried' = [f \in Folders |->
                    IF \/ pending # None /\ pending.folder = f
                       \/ Cancellable /\ active.job.folder = f
                    THEN config[f] ELSE tried[f]]
    /\ UNCHANGED <<config, store, disposed, nextId>>

\* Scheduler.cancelJob: the button of a manual run's progress notification.  It
\* reaches the job only while it is the active one.
CancelJob ==
    /\ Cancellable
    /\ active.job.manual
    /\ Settle(chain, Killed)
    /\ tried' = Tried(active.job.folder, config[active.job.folder])
    /\ UNCHANGED <<config, pending, store, disposed, nextId>>

\* Scheduler.dispose.
Dispose ==
    /\ ~disposed
    /\ disposed' = TRUE
    /\ IF Cancellable
       THEN /\ Proceed(chain, Killed)
            /\ recent' = TRUE
            /\ timer' = (pending # None)
       ELSE timer' = FALSE /\ UNCHANGED <<chain, active, procs, recent>>
    /\ UNCHANGED <<config, pending, store, tried, nextId>>

-----------------------------------------------------------------------------
(* The active run *)

\* Mutant of Own: whatever process of the folder reports, the active run takes it.
OwnFolder(p) == Cancellable /\ p.job.folder = active.job.folder

\* Each exec listens to its own child.
Own(p) == Cancellable /\ p.job = active.job

\* The process closes with a report, whole (exit 0, 1) or short of a source
\* (exit 3); the config file is read again to place the items.
Report(p) ==
    /\ p \in procs
    /\ Own(p)
    /\ procs' = procs \ {p}
    /\ \E short \in BOOLEAN :
        active' = [active EXCEPT !.phase = "placing", !.ver = p.ver,
                                 !.partial = short]
    /\ UNCHANGED <<config, pending, timer, chain, store, recent, tried,
                   disposed, nextId>>

\* The read returns, or fails and leaves the items unplaced: store, publish.
Placed ==
    /\ active # None
    /\ active.phase = "placing"
    /\ store' = [store EXCEPT ![active.job.folder] =
                    [id |-> active.job.id, ver |-> active.ver,
                     partial |-> active.partial]]
    /\ tried' = Tried(active.job.folder, active.ver)
    /\ Settle(chain, procs)
    /\ UNCHANGED <<config, pending, disposed, nextId>>

\* Mutant of Fail: the chain does not survive a failed run.
FailBreaksChain(p) ==
    /\ p \in procs
    /\ Own(p)
    /\ active' = None
    /\ procs' = procs \ {p}
    /\ recent' = TRUE
    /\ timer' = (timer \/ pending # None)
    /\ tried' = Tried(active.job.folder, p.ver)
    /\ UNCHANGED <<config, pending, chain, store, disposed, nextId>>

\* The process ends without a report: no binary to start, exit 2, a crash, or
\* output that is no JSON.
Fail(p) ==
    /\ p \in procs
    /\ Own(p)
    /\ tried' = Tried(active.job.folder, p.ver)
    /\ Settle(chain, procs \ {p})
    /\ UNCHANGED <<config, pending, store, disposed, nextId>>

\* exec's own timeout, ten seconds past the -timeout of the command.
Timeout ==
    /\ Cancellable
    /\ tried' = Tried(active.job.folder, active.ver)
    /\ Settle(chain, Killed)
    /\ UNCHANGED <<config, pending, store, disposed, nextId>>

\* A process told to stop exits; exec is settled and ignores what it wrote.
Die(p) ==
    /\ p \in procs
    /\ p.dying
    /\ procs' = procs \ {p}
    /\ UNCHANGED <<config, pending, timer, chain, active, store, recent,
                   tried, disposed, nextId>>

\* Most of a period passes without a run.
Tick ==
    /\ recent
    /\ recent' = FALSE
    /\ UNCHANGED <<config, pending, timer, chain, active, procs, store, tried,
                   disposed, nextId>>

Next ==
    \/ \E f \in Folders : Save(f) \/ Sweep(f) \/ RunNow(f)
    \/ Fire \/ Cancel \/ CancelJob \/ Dispose
    \/ \E p \in procs : Report(p) \/ Fail(p) \/ Die(p)
    \/ Placed \/ Timeout \/ Tick

Spec == Init /\ [][Next]_vars

\* Timers fire, reads return, and a process that was sent SIGKILL dies.  Nothing
\* obliges a process to report, nor anybody to press a button.
Fairness ==
    /\ WF_vars(Fire)
    /\ WF_vars(Placed)
    /\ WF_vars(Timeout)
    /\ WF_vars(\E p \in procs : Die(p))

FairSpec == Spec /\ Fairness

-----------------------------------------------------------------------------
(* Properties *)

\* Types, and each job is in one place: pending, in the chain or active.
TypeOK ==
    /\ config \in [Folders -> Versions]
    /\ pending \in Job \cup {None}
    /\ timer \in BOOLEAN
    /\ chain \in Seq(Job)
    /\ active \in Running \cup {None}
    /\ procs \subseteq Process
    /\ store \in [Folders -> Snapshot \cup {None}]
    /\ recent \in BOOLEAN /\ disposed \in BOOLEAN
    /\ tried \in [Folders -> Versions]
    /\ nextId \in 1..(MaxJobs + 1)
    /\ \A j \in Range(chain) \cup ({pending} \ {None}) :
            active # None => j # active.job
    /\ pending \notin Range(chain)

\* Through every preemption, cancellation and timeout, the only process nobody
\* has told to stop is the one the active run waits for, and it has one.
OneLane ==
    {p.job : p \in {q \in procs : ~q.dying}} =
        IF Cancellable THEN {active.job} ELSE {}

\* No wake-up is lost: a started job waits only behind an active one, and a
\* pending job waits only for its timer or for the active run to end.
LaneMoves ==
    /\ chain # <<>> => active # None
    /\ pending # None => timer \/ active # None \/ disposed

\* A snapshot is never replaced by one that read an older config file: a run
\* that was preempted, cancelled or timed out leaves nothing behind, however
\* late its process ends.
SnapshotsMoveForward ==
    [][\A f \in Folders :
            store[f] # None => store'[f].ver >= store[f].ver]_store

Queued(i) ==
    \/ active # None /\ active.job.id = i
    \/ \E k \in DOMAIN chain : chain[k].id = i

\* runNow's promise is settled in the end, so a command that awaits it comes
\* back even if the process hangs or an earlier run failed (scheduler.ts:49-53,
\* 118-119).
RunsEnd == \A i \in Ids : Queued(i) ~> ~Queued(i)

\* Saving the config file triggers a collection (docs/editors.md:128-130): a
\* run that read this version or a later one ends, or the user cancels it.
SavesCollected ==
    \A f \in Folders : \A v \in Versions :
        (config[f] = v /\ ~disposed) ~> (tried[f] >= v \/ disposed)
=============================================================================
