-------------------------- MODULE VSCodeLaneProofs --------------------------
(***************************************************************************)
(* Theorems about VSCodeLane, for any set of folders and any number of     *)
(* jobs and saves.  A job is in one place at a time: pending, in the chain,*)
(* active, or the job of one process.  Nearly every action ends one run    *)
(* and starts the next with Proceed, so the invariant is split into what   *)
(* Proceed establishes (Lane) and what it leaves alone (Slot, Dated).      *)
(***************************************************************************)
EXTENDS VSCodeLane, SequenceLemmas

USE BoundsAssumption, NoneAssumption

\* The jobs of the chain, the active run and the processes.
Lane ==
    /\ chain \in Seq(Job) /\ active \in Running \cup {None} /\ procs \subseteq Process
    /\ chain # <<>> => active # None
    /\ IsInjective(chain)
    /\ \A j \in Range(chain) :
          /\ j.id < nextId /\ j # pending
          /\ active # None => j # active.job
          /\ \A p \in procs : p.job # j
    /\ active # None =>
          /\ active.job.id < nextId /\ active.job # pending
          /\ active.ver <= config[active.job.folder]
    /\ \A p \in procs :
          /\ p.job.id < nextId /\ p.job # pending
          /\ ~p.dying => Cancellable /\ p.job = active.job /\ p.ver = active.ver
          /\ active # None /\ p.job = active.job => active.phase = "process"
    /\ \A p, q \in procs : p.job = q.job => p = q
    /\ Cancellable => \E p \in procs : ~p.dying /\ p.job = active.job

\* The pending job and its timer.
Slot ==
    /\ pending \in Job \cup {None} /\ timer \in BOOLEAN /\ disposed \in BOOLEAN
    /\ nextId \in 1..(MaxJobs + 1)
    /\ pending # None => pending.id < nextId /\ (timer \/ active # None \/ disposed)

\* Which config the snapshots and the ended runs have read.
Dated ==
    /\ config \in [Folders -> Versions] /\ tried \in [Folders -> Versions]
    /\ recent \in BOOLEAN
    /\ store \in [Folders -> Snapshot \cup {None}]
    /\ \A f \in Folders : store[f] # None =>
          /\ store[f].ver <= config[f]
          /\ active # None /\ active.job.folder = f => store[f].ver <= active.ver

IInv == Lane /\ Slot /\ Dated

-----------------------------------------------------------------------------
\* Proceed leaves one live process, that of the job it starts, if the jobs it is
\* given are distinct and new to the processes, which are all told to stop.
LEMMA ProceedKeepsLane ==
    ASSUME NEW q \in Seq(Job), NEW ps \in SUBSET Process, Proceed(q, ps),
           config \in [Folders -> Versions], config' = config,
           nextId' \in Nat,
           IsInjective(q),
           \A j \in Range(q) : /\ j.id < nextId' /\ j # pending'
                               /\ \A p \in ps : p.job # j,
           \A p \in ps : p.dying /\ p.job.id < nextId' /\ p.job # pending',
           \A p, r \in ps : p.job = r.job => p = r
    PROVE  Lane'
<1>1. CASE q = <<>>
  <2>1. active' = None /\ chain' = <<>> /\ procs' = ps
    BY <1>1 DEF Proceed
  <2> QED
    BY <2>1, EmptyRange DEF Lane, Cancellable
<1>2. CASE q # <<>>
  <2> DEFINE j == Head(q)
             run == [job |-> j, phase |-> "process", ver |-> config[j.folder],
                     partial |-> FALSE]
             proc == [job |-> j, ver |-> config[j.folder], dying |-> FALSE]
  <2>1. active' = run /\ chain' = Tail(q) /\ procs' = ps \cup {proc}
    BY <1>2 DEF Proceed
  <2>2. /\ j \in Job /\ j \in Range(q) /\ Tail(q) \in Seq(Job)
        /\ Range(Tail(q)) \subseteq Range(q)
        /\ IsInjective(Tail(q)) /\ j \notin Range(Tail(q))
    BY <1>2, HeadTailRange
  <2>3. config[j.folder] \in Versions /\ j.folder \in Folders
    BY <2>2 DEF Job
  <2>4. run \in Running /\ proc \in Process /\ run # None
    <3>1. run \in Running
      BY <2>2, <2>3 DEF Running
    <3>2. proc \in Process
      BY <2>2, <2>3 DEF Process
    <3> HIDE DEF run, proc
    <3> QED
      BY <3>1, <3>2
  <2>5. Cancellable' /\ active'.job = j /\ active'.ver = config[j.folder]
    BY <2>1, <2>4 DEF Cancellable
  <2> HIDE DEF j, run, proc
  <2>6. /\ proc.job = j /\ ~proc.dying /\ proc.ver = config[j.folder]
        /\ run.job = j /\ run.phase = "process" /\ run.ver = config[j.folder]
    BY DEF proc, run
  <2>7. \A p \in procs' :
          /\ p.job.id < nextId' /\ p.job # pending'
          /\ ~p.dying => Cancellable' /\ p.job = active'.job /\ p.ver = active'.ver
          /\ active' # None /\ p.job = active'.job => active'.phase = "process"
    BY <2>1, <2>2, <2>5, <2>6
  <2>8. \A p, r \in procs' : p.job = r.job => p = r
    BY <2>1, <2>2, <2>6
  <2>9. \A i \in Range(chain') :
          /\ i.id < nextId' /\ i # pending'
          /\ active' # None => i # active'.job
          /\ \A p \in procs' : p.job # i
    BY <2>1, <2>2, <2>5, <2>6
  <2>10. active' # None =>
          /\ active'.job.id < nextId' /\ active'.job # pending'
          /\ active'.ver <= config'[active'.job.folder]
    <3>1. config[j.folder] <= config[j.folder]
      BY <2>3 DEF Versions
    <3> QED
      BY <2>2, <2>5, <3>1
  <2>11. \E p \in procs' : ~p.dying /\ p.job = active'.job
    BY <2>1, <2>5, <2>6
  <2>12. /\ chain' \in Seq(Job) /\ active' \in Running \cup {None}
         /\ procs' \subseteq Process
         /\ active' # None /\ IsInjective(chain')
    BY <2>1, <2>2, <2>4
  <2> QED
    BY <2>7, <2>8, <2>9, <2>10, <2>11, <2>12 DEF Lane
<1> QED
  BY <1>1, <1>2

-----------------------------------------------------------------------------
(* What the actions give to Proceed *)

\* Told to stop, the processes of the active run are no process's but theirs.
LEMMA KilledLane ==
    ASSUME IInv, Cancellable
    PROVE  /\ Killed \in SUBSET Process
           /\ \A p \in Killed : p.dying /\ \E q \in procs : p.job = q.job
           /\ \A p, q \in Killed : p.job = q.job => p = q
<1> DEFINE K(p) == IF p.job = active.job THEN [p EXCEPT !.dying = TRUE] ELSE p
<1>1. ASSUME NEW p \in procs
      PROVE  K(p) \in Process /\ K(p).dying /\ K(p).job = p.job
  <2>1. p \in Process /\ (~p.dying => p.job = active.job)
    BY DEF IInv, Lane
  <2> QED
    BY <2>1 DEF Process
<1>2. Killed = {K(p) : p \in procs}
  BY DEF Killed
<1>3. \A p, q \in procs : p.job = q.job => p = q
  BY DEF IInv, Lane
<1> HIDE DEF K
<1> QED
  BY <1>1, <1>2, <1>3

\* With nothing waiting for a process, every process has been told to stop.
LEMMA IdleProcs ==
    ASSUME IInv, ~Cancellable
    PROVE  \A p \in procs : p.dying
BY DEF IInv, Lane, Process

\* The process of the active run is the only one not told to stop.
LEMMA OwnProcess ==
    ASSUME IInv, NEW p \in procs, Own(p)
    PROVE  /\ Cancellable /\ p.job = active.job /\ ~p.dying /\ p.ver = active.ver
           /\ \A q \in procs \ {p} : q.dying /\ q.job # active.job
<1>1. /\ Cancellable /\ p.job = active.job
      /\ \A q, r \in procs : q.job = r.job => q = r
      /\ \A q \in procs : ~q.dying => q.job = active.job /\ q.ver = active.ver
  BY DEF IInv, Lane, Own
<1>2. PICK r \in procs : ~r.dying /\ r.job = active.job
  BY <1>1 DEF IInv, Lane
<1> QED
  BY <1>1, <1>2 DEF IInv, Lane, Process

\* The job a request makes is no job there is.
LEMMA NewJobIsNew ==
    ASSUME IInv, Request, NEW f \in Folders, NEW manual \in BOOLEAN
    PROVE  LET job == NewJob(f, manual) IN
           /\ job \in Job /\ job.id < nextId' /\ job.folder = f
           /\ nextId' \in 1..(MaxJobs + 1) /\ nextId < nextId'
           /\ job # pending /\ job \notin Range(chain)
           /\ active # None => job # active.job
           /\ \A p \in procs : p.job # job
<1> DEFINE job == NewJob(f, manual)
<1>1. nextId \in Ids /\ nextId' = nextId + 1 /\ nextId \in Nat
  BY DEF Request, Ids
<1>2. /\ job \in Job /\ job.id = nextId /\ job.folder = f
      /\ nextId' \in 1..(MaxJobs + 1) /\ nextId < nextId'
  BY <1>1 DEF NewJob, Job, Ids
<1> HIDE DEF job
<1>3. pending # None => pending.id < nextId
  BY DEF IInv, Slot
<1>4. ~(nextId < nextId)
  BY <1>1
<1>5. job # None
  BY <1>2
<1>6. job # pending
  BY <1>2, <1>3, <1>4, <1>5
<1>7. /\ \A j \in Range(chain) : j.id < nextId
      /\ active # None => active.job.id < nextId
      /\ \A p \in procs : p.job.id < nextId
  BY DEF IInv, Lane
<1> QED
  BY <1>1, <1>2, <1>4, <1>6, <1>7 DEF job

\* A folder's snapshot is not newer than what the run that starts will read.
LEMMA DatedKept ==
    ASSUME IInv, UNCHANGED <<config, store>>, tried' \in [Folders -> Versions],
           recent' \in BOOLEAN,
           active' # None => \/ active'.ver = config[active'.job.folder]
                             \/ /\ active # None /\ active'.job = active.job
                                /\ active'.ver = active.ver
    PROVE  Dated'
BY DEF IInv, Dated

\* What Proceed starts has read the config of now.
LEMMA ProceedReadsNow ==
    ASSUME NEW q, NEW ps, Proceed(q, ps)
    PROVE  active' # None => active'.ver = config[active'.job.folder]
BY DEF Proceed

LEMMA TriedType ==
    ASSUME IInv, NEW f, NEW v \in Versions
    PROVE  Tried(f, v) \in [Folders -> Versions]
BY DEF Tried, IInv, Dated

\* A request that only takes the pending slot leaves the lane as it was.
LEMMA ScheduleKeeps ==
    ASSUME IInv, Request, NEW f \in Folders, Schedule(NewJob(f, FALSE)),
           UNCHANGED <<chain, active, procs, disposed>>,
           config' \in [Folders -> Versions],
           \A g \in Folders : config[g] <= config'[g]
    PROVE  Lane' /\ Slot'
<1> DEFINE job == NewJob(f, FALSE)
<1>1. /\ job \in Job /\ job.id < nextId'
      /\ nextId' \in 1..(MaxJobs + 1) /\ nextId < nextId'
      /\ job # pending /\ job \notin Range(chain)
      /\ active # None => job # active.job
      /\ \A p \in procs : p.job # job
  BY NewJobIsNew
<1>2. /\ nextId \in Nat /\ nextId' \in Nat
      /\ \A i \in Nat : i < nextId => i < nextId'
  BY <1>1 DEF IInv, Slot
<1>3. \/ pending' = pending /\ timer' = timer /\ pending # None
      \/ pending' = job /\ timer' = TRUE
  BY DEF Schedule
<1> HIDE DEF job
<1>4. Slot'
  <2>1. CASE pending' = pending /\ timer' = timer /\ pending # None
    <3>1. pending \in Job /\ pending.id < nextId
      BY <2>1 DEF IInv, Slot
    <3>2. pending.id < nextId'
      BY <3>1, <1>2 DEF Job, Ids
    <3> QED
      BY <2>1, <3>1, <3>2, <1>1 DEF IInv, Slot
  <2>2. CASE pending' = job /\ timer' = TRUE
    BY <2>2, <1>1 DEF IInv, Slot
  <2> QED
    BY <1>3, <2>1, <2>2
<1>5. \A j \in Range(chain) : j \in Job
  BY RangeType DEF IInv, Lane
<1>6. ASSUME NEW j \in Job, j.id < nextId PROVE j.id < nextId'
  BY <1>2, <1>6 DEF Job, Ids
<1>7. active # None => active \in Running /\ active.job \in Job
  BY DEF IInv, Lane, Running
<1>8. \A p \in procs : p.job \in Job
  BY DEF IInv, Lane, Process
<1>9. \A j \in Range(chain') :
          /\ j.id < nextId' /\ j # pending'
          /\ active' # None => j # active'.job
          /\ \A p \in procs' : p.job # j
  BY <1>1, <1>3, <1>5, <1>6 DEF IInv, Lane
<1>10. active' # None =>
          /\ active'.job.id < nextId' /\ active'.job # pending'
          /\ active'.ver <= config'[active'.job.folder]
  <2> SUFFICES ASSUME active # None
               PROVE  /\ active.job.id < nextId' /\ active.job # pending'
                      /\ active.ver <= config'[active.job.folder]
    OBVIOUS
  <2>1. active.job.id < nextId' /\ active.job # pending'
    BY <1>1, <1>3, <1>6, <1>7 DEF IInv, Lane
  <2>2. active.job.folder \in Folders /\ active.ver \in Versions
    BY <1>7 DEF Running, Job
  <2>3. /\ active.ver <= config[active.job.folder]
        /\ config[active.job.folder] <= config'[active.job.folder]
        /\ config[active.job.folder] \in Versions
        /\ config'[active.job.folder] \in Versions
    BY <2>2 DEF IInv, Lane, Dated
  <2>4. active.ver <= config'[active.job.folder]
    BY <2>2, <2>3 DEF Versions
  <2> QED
    BY <2>1, <2>4
<1>11. \A p \in procs' :
          /\ p.job.id < nextId' /\ p.job # pending'
          /\ ~p.dying => Cancellable' /\ p.job = active'.job /\ p.ver = active'.ver
          /\ active' # None /\ p.job = active'.job => active'.phase = "process"
  BY <1>1, <1>3, <1>6, <1>8 DEF IInv, Lane, Cancellable
<1>12. Lane'
  BY <1>9, <1>10, <1>11 DEF IInv, Lane, Cancellable
<1> QED
  BY <1>4, <1>12

\* The lane does not notice the pending slot being emptied.
LEMMA LaneStays ==
    ASSUME IInv, UNCHANGED <<config, chain, active, procs, nextId>>,
           pending' \in {pending, None}
    PROVE  Lane'
<1>1. /\ \A j \in Range(chain) : j # None
      /\ active # None => active.job # None
      /\ \A p \in procs : p.job # None
  BY RangeType DEF IInv, Lane, Running, Process
<1> QED
  BY <1>1 DEF IInv, Lane, Cancellable

\* The chain runs on when the active run is over and its processes are told to
\* stop: Proceed finds the jobs of the chain distinct and without a process.
LEMMA ChainProceeds ==
    ASSUME IInv, NEW ps \in SUBSET Process, Proceed(chain, ps),
           UNCHANGED <<config, nextId>>, pending' \in {pending, None},
           \A p \in ps : p.dying /\ \E q \in procs : p.job = q.job,
           \A p, q \in ps : p.job = q.job => p = q
    PROVE  Lane'
<1>1. /\ \A j \in Range(chain) : j # None
      /\ \A p \in procs : p.job # None
  BY RangeType DEF IInv, Lane, Process
<1>2. \A p \in ps : p.job.id < nextId' /\ p.job # pending'
  BY <1>1 DEF IInv, Lane
<1>3. \A j \in Range(chain) : /\ j.id < nextId' /\ j # pending'
                              /\ \A p \in ps : p.job # j
  BY <1>1 DEF IInv, Lane
<1>4. /\ chain \in Seq(Job) /\ IsInjective(chain) /\ nextId' \in Nat
      /\ config \in [Folders -> Versions]
  BY DEF IInv, Lane, Slot, Dated
<1> QED
  BY <1>2, <1>3, <1>4, ProceedKeepsLane

\* The pending job keeps a timer or an active run to wait for.
LEMMA SettleKeepsSlot ==
    ASSUME IInv, UNCHANGED <<pending, disposed, nextId>>,
           timer' = (timer \/ pending # None)
    PROVE  Slot'
BY DEF IInv, Slot

-----------------------------------------------------------------------------
(* The steps *)

LEMMA SaveKeeps == ASSUME IInv, NEW f \in Folders, Save(f) PROVE IInv'
<1>1. /\ config[f] \in Versions /\ config[f] < MaxSaves
      /\ config' = [config EXCEPT ![f] = @ + 1]
      /\ config \in [Folders -> Versions]
  BY DEF Save, IInv, Dated
<1>2. config' \in [Folders -> Versions] /\ \A g \in Folders : config[g] <= config'[g]
  BY <1>1 DEF Versions
<1>3. Lane' /\ Slot'
  BY <1>2, ScheduleKeeps DEF Save
<1>4. ASSUME NEW g \in Folders, store[g] # None PROVE store[g].ver <= config'[g]
  <2>1. /\ store[g].ver \in Versions /\ store[g].ver <= config[g]
        /\ config[g] \in Versions /\ config'[g] \in Versions /\ config[g] <= config'[g]
    BY <1>2, <1>4 DEF IInv, Dated, Snapshot
  <2> QED
    BY <2>1 DEF Versions
<1>5. Dated'
  BY <1>2, <1>4 DEF IInv, Dated, Save
<1> QED
  BY <1>3, <1>5 DEF IInv

LEMMA SweepKeeps == ASSUME IInv, NEW f \in Folders, Sweep(f) PROVE IInv'
<1>1. config \in [Folders -> Versions] /\ \A g \in Folders : config[g] <= config[g]
  BY DEF IInv, Dated, Versions
<1>2. Lane' /\ Slot'
  BY <1>1, ScheduleKeeps DEF Sweep
<1>3. Dated'
  BY DatedKept DEF Sweep, IInv, Dated
<1> QED
  BY <1>2, <1>3 DEF IInv

LEMMA RunNowKeeps == ASSUME IInv, NEW f \in Folders, RunNow(f) PROVE IInv'
<1> DEFINE job == NewJob(f, TRUE)
<1>1. /\ job \in Job /\ job.id < nextId'
      /\ nextId' \in 1..(MaxJobs + 1) /\ nextId < nextId' /\ nextId' \in Nat
      /\ job # pending /\ job \notin Range(chain)
      /\ active # None => job # active.job
      /\ \A p \in procs : p.job # job
  <2>1. Request /\ TRUE \in BOOLEAN
    BY DEF RunNow
  <2>2. \A i \in 1..(MaxJobs + 1) : i \in Nat
    OBVIOUS
  <2> QED
    BY <2>1, <2>2, NewJobIsNew
<1>2. ASSUME NEW j \in Job, j.id < nextId PROVE j.id < nextId'
  BY <1>1, <1>2 DEF Job, Ids, IInv, Slot
<1>3. \/ Cancellable /\ Settle(Append(chain, job), Killed)
      \/ active = None /\ Proceed(<<job>>, procs) /\ UNCHANGED <<timer, recent>>
      \/ /\ active # None /\ chain' = Append(chain, job)
         /\ UNCHANGED <<active, procs, timer, recent>>
  BY DEF RunNow, Start
<1>4. /\ UNCHANGED <<config, pending, store, tried, disposed>>
      /\ config \in [Folders -> Versions] /\ tried \in [Folders -> Versions]
      /\ recent \in BOOLEAN
  BY DEF RunNow, IInv, Dated
<1> HIDE DEF job
<1>5. /\ chain \in Seq(Job) /\ IsInjective(chain)
      /\ Append(chain, job) \in Seq(Job) /\ Append(chain, job) # <<>>
      /\ Range(Append(chain, job)) = Range(chain) \cup {job}
      /\ IsInjective(Append(chain, job))
  BY <1>1, AppendRange DEF IInv, Lane
<1>6. /\ \A j \in Range(chain) : j.id < nextId' /\ j # pending'
      /\ \A p \in procs : p.job.id < nextId' /\ p.job # pending'
  BY <1>2, <1>4, <1>5, RangeType DEF IInv, Lane, Process
<1>7. timer' = timer \/ timer' = (timer \/ pending # None)
  BY <1>3 DEF Settle
<1>8. pending # None => pending.id < nextId'
  BY <1>2 DEF IInv, Slot
<1>9. CASE Cancellable /\ Settle(Append(chain, job), Killed)
  <2>1. Proceed(Append(chain, job), Killed)
    BY <1>9 DEF Settle
  <2>2. /\ Killed \in SUBSET Process
        /\ \A p \in Killed : p.dying /\ \E q \in procs : p.job = q.job
        /\ \A p, q \in Killed : p.job = q.job => p = q
    BY <1>9, KilledLane
  <2>3. \A p \in Killed : p.dying /\ p.job.id < nextId' /\ p.job # pending'
    BY <2>2, <1>6
  <2>4. \A j \in Range(Append(chain, job)) : \A p \in Killed : p.job # j
    BY <2>2, <1>1, <1>5 DEF IInv, Lane
  <2>5. \A j \in Range(Append(chain, job)) : j.id < nextId' /\ j # pending'
    BY <1>1, <1>4, <1>5, <1>6
  <2>6. Lane'
    BY <2>1, <2>2, <2>3, <2>4, <2>5, <1>1, <1>4, <1>5, ProceedKeepsLane
  <2>7. Slot'
    BY <1>1, <1>4, <1>8, <1>9 DEF IInv, Slot, Settle
  <2>8. Dated'
    BY <2>1, <1>4, <1>9, ProceedReadsNow, DatedKept DEF Settle
  <2> QED
    BY <2>6, <2>7, <2>8 DEF IInv
<1>10. CASE active = None /\ Proceed(<<job>>, procs) /\ UNCHANGED <<timer, recent>>
  <2>1. <<job>> \in Seq(Job) /\ IsInjective(<<job>>) /\ Range(<<job>>) = {job}
    BY <1>1, SingletonRange
  <2>2. \A p \in procs : p.dying /\ p.job.id < nextId' /\ p.job # pending'
    BY <1>6, <1>10, IdleProcs DEF Cancellable
  <2>3. procs \in SUBSET Process /\ \A p, q \in procs : p.job = q.job => p = q
    BY DEF IInv, Lane
  <2>4. Lane'
    BY <2>1, <2>2, <2>3, <1>1, <1>4, <1>10, ProceedKeepsLane
  <2>5. Slot'
    <3>1. pending # None => timer \/ disposed
      BY <1>10 DEF IInv, Slot
    <3> QED
      BY <3>1, <1>1, <1>4, <1>8, <1>10 DEF IInv, Slot
  <2>6. Dated'
    BY <1>4, <1>10, ProceedReadsNow, DatedKept
  <2> QED
    BY <2>4, <2>5, <2>6 DEF IInv
<1>11. CASE /\ active # None /\ chain' = Append(chain, job)
            /\ UNCHANGED <<active, procs, timer, recent>>
  <2>1. \A j \in Range(chain') :
          /\ j.id < nextId' /\ j # pending'
          /\ active' # None => j # active'.job
          /\ \A p \in procs' : p.job # j
    BY <1>1, <1>4, <1>5, <1>6, <1>11 DEF IInv, Lane
  <2>2. active.job.id < nextId'
    BY <1>2, <1>11 DEF IInv, Lane, Running
  <2>3. Lane'
    BY <2>1, <2>2, <1>4, <1>5, <1>6, <1>11 DEF IInv, Lane, Cancellable
  <2>4. Slot'
    BY <1>1, <1>4, <1>8, <1>11 DEF IInv, Slot
  <2>5. Dated'
    BY <1>4, <1>11, DatedKept
  <2> QED
    BY <2>3, <2>4, <2>5 DEF IInv
<1> QED
  BY <1>3, <1>9, <1>10, <1>11

LEMMA FireKeeps == ASSUME IInv, Fire PROVE IInv'
<1>1. /\ timer /\ timer' = FALSE
      /\ UNCHANGED <<config, store, recent, tried, disposed, nextId>>
      /\ \/ (pending = None \/ active # None) /\ UNCHANGED <<pending, chain, active, procs>>
         \/ /\ pending # None /\ active = None
            /\ pending' = None /\ Proceed(<<pending>>, procs)
  BY DEF Fire, Start
<1>2. tried \in [Folders -> Versions] /\ recent \in BOOLEAN
      /\ config \in [Folders -> Versions]
  BY DEF IInv, Dated
<1>3. CASE (pending = None \/ active # None) /\ UNCHANGED <<pending, chain, active, procs>>
  <2>1. Lane'
    BY <1>1, <1>3, LaneStays
  <2>2. Slot'
    BY <1>1, <1>3 DEF IInv, Slot
  <2>3. Dated'
    BY <1>1, <1>2, <1>3, DatedKept
  <2> QED
    BY <2>1, <2>2, <2>3 DEF IInv
<1>4. CASE /\ pending # None /\ active = None
           /\ pending' = None /\ Proceed(<<pending>>, procs)
  <2>1. pending \in Job /\ pending.id < nextId /\ nextId' \in Nat
    BY <1>1, <1>4 DEF IInv, Slot
  <2>2. /\ <<pending>> \in Seq(Job) /\ IsInjective(<<pending>>)
        /\ Range(<<pending>>) = {pending}
    BY <2>1, SingletonRange
  <2>3. \A p \in procs : p.dying
    BY <1>4, IdleProcs DEF Cancellable
  <2>4. \A p \in procs : p.job.id < nextId' /\ p.job # pending /\ p.job # None
    BY <1>1 DEF IInv, Lane, Process
  <2>5. procs \in SUBSET Process /\ \A p, q \in procs : p.job = q.job => p = q
    BY DEF IInv, Lane
  <2>6. \A j \in Range(<<pending>>) : /\ j.id < nextId' /\ j # pending'
                                      /\ \A p \in procs : p.job # j
    BY <1>1, <1>4, <2>1, <2>2, <2>4
  <2>7. \A p \in procs : p.dying /\ p.job.id < nextId' /\ p.job # pending'
    BY <1>4, <2>3, <2>4
  <2>8. Lane'
    BY <1>1, <1>2, <1>4, <2>1, <2>2, <2>5, <2>6, <2>7, ProceedKeepsLane
  <2>9. Slot'
    BY <1>1, <1>4 DEF IInv, Slot
  <2>10. Dated'
    BY <1>1, <1>2, <1>4, ProceedReadsNow, DatedKept
  <2> QED
    BY <2>8, <2>9, <2>10 DEF IInv
<1> QED
  BY <1>1, <1>3, <1>4

LEMMA CancelKeeps == ASSUME IInv, Cancel PROVE IInv'
<1>1. /\ pending' = None /\ timer' = FALSE
      /\ UNCHANGED <<config, store, disposed, nextId>>
      /\ \/ Cancellable /\ Proceed(chain, Killed) /\ recent' = TRUE
         \/ ~Cancellable /\ UNCHANGED <<chain, active, procs, recent>>
  BY DEF Cancel
<1>2. tried' \in [Folders -> Versions] /\ recent' \in BOOLEAN
  BY <1>1 DEF Cancel, IInv, Dated
<1>3. Slot'
  BY <1>1 DEF IInv, Slot
<1>4. CASE Cancellable /\ Proceed(chain, Killed)
  <2>1. Lane'
    BY <1>1, <1>4, KilledLane, ChainProceeds
  <2>2. Dated'
    BY <1>1, <1>2, <1>4, ProceedReadsNow, DatedKept
  <2> QED
    BY <1>3, <2>1, <2>2 DEF IInv
<1>5. CASE UNCHANGED <<chain, active, procs>>
  BY <1>1, <1>2, <1>3, <1>5, LaneStays, DatedKept DEF IInv
<1> QED
  BY <1>1, <1>4, <1>5

LEMMA DisposeKeeps == ASSUME IInv, Dispose PROVE IInv'
<1>1. /\ disposed' = TRUE /\ timer' \in BOOLEAN
      /\ UNCHANGED <<config, pending, store, tried, nextId>>
      /\ \/ Cancellable /\ Proceed(chain, Killed) /\ recent' = TRUE
         \/ ~Cancellable /\ UNCHANGED <<chain, active, procs, recent>>
  BY DEF Dispose
<1>2. tried' \in [Folders -> Versions] /\ recent' \in BOOLEAN
  BY <1>1 DEF IInv, Dated
<1>3. Slot'
  BY <1>1 DEF IInv, Slot
<1>4. CASE Cancellable /\ Proceed(chain, Killed)
  <2>1. Lane'
    BY <1>1, <1>4, KilledLane, ChainProceeds
  <2>2. Dated'
    BY <1>1, <1>2, <1>4, ProceedReadsNow, DatedKept
  <2> QED
    BY <1>3, <2>1, <2>2 DEF IInv
<1>5. CASE UNCHANGED <<chain, active, procs>>
  BY <1>1, <1>2, <1>3, <1>5, LaneStays, DatedKept DEF IInv
<1> QED
  BY <1>1, <1>4, <1>5

\* CancelJob and Timeout: the run is over while its process still runs.
LEMMA KilledSettles ==
    ASSUME IInv, Cancellable, Settle(chain, Killed),
           UNCHANGED <<config, pending, store, disposed, nextId>>,
           tried' \in [Folders -> Versions]
    PROVE  IInv'
<1>1. Proceed(chain, Killed) /\ recent' = TRUE /\ timer' = (timer \/ pending # None)
  BY DEF Settle
<1>2. Lane'
  BY <1>1, KilledLane, ChainProceeds
<1>3. Slot'
  BY <1>1, SettleKeepsSlot
<1>4. Dated'
  BY <1>1, ProceedReadsNow, DatedKept
<1> QED
  BY <1>2, <1>3, <1>4 DEF IInv

LEMMA CancelJobKeeps == ASSUME IInv, CancelJob PROVE IInv'
<1>1. active.job.folder \in Folders /\ config[active.job.folder] \in Versions
  BY DEF CancelJob, Cancellable, IInv, Lane, Dated, Running, Job
<1> QED
  BY <1>1, TriedType, KilledSettles DEF CancelJob

LEMMA TimeoutKeeps == ASSUME IInv, Timeout PROVE IInv'
<1>1. active.ver \in Versions
  BY DEF Timeout, Cancellable, IInv, Lane, Running
<1> QED
  BY <1>1, TriedType, KilledSettles DEF Timeout

LEMMA ReportKeeps == ASSUME IInv, NEW p \in procs, Report(p) PROVE IInv'
<1>1. /\ Own(p) /\ procs' = procs \ {p}
      /\ UNCHANGED <<config, pending, timer, chain, store, recent, tried, disposed, nextId>>
  BY DEF Report
<1>2. PICK short \in BOOLEAN :
        active' = [active EXCEPT !.phase = "placing", !.ver = p.ver, !.partial = short]
  BY DEF Report
<1>3. /\ Cancellable /\ p.job = active.job /\ ~p.dying /\ p.ver = active.ver
      /\ \A q \in procs \ {p} : q.dying /\ q.job # active.job
  BY <1>1, OwnProcess
<1>4. active \in Running /\ active # None
  BY <1>3 DEF Cancellable, IInv, Lane
<1>5. /\ active' \in Running /\ active'.job = active.job /\ active'.ver = active.ver
      /\ active'.phase = "placing"
  BY <1>2, <1>3, <1>4 DEF Running
<1>6. active' # None /\ ~Cancellable'
  BY <1>5 DEF Cancellable
<1>7. Lane'
  <2>1. \A q \in procs' : /\ q \in procs /\ q.dying /\ q.job # active'.job
    BY <1>1, <1>3, <1>5
  <2>2. \A j \in Range(chain') :
          /\ j.id < nextId' /\ j # pending'
          /\ active' # None => j # active'.job
          /\ \A q \in procs' : q.job # j
    BY <1>1, <1>4, <1>5, <2>1 DEF IInv, Lane
  <2>3. \A q \in procs' : q.job.id < nextId' /\ q.job # pending'
    BY <1>1, <2>1 DEF IInv, Lane
  <2>4. /\ active'.job.id < nextId' /\ active'.job # pending'
        /\ active'.ver <= config'[active'.job.folder]
    BY <1>1, <1>4, <1>5 DEF IInv, Lane
  <2>5. /\ chain' \in Seq(Job) /\ procs' \subseteq Process /\ IsInjective(chain')
        /\ \A q, r \in procs' : q.job = r.job => q = r
    BY <1>1, <2>1 DEF IInv, Lane
  <2> QED
    BY <1>5, <1>6, <2>1, <2>2, <2>3, <2>4, <2>5 DEF Lane
<1>8. Slot'
  BY <1>1, <1>6 DEF IInv, Slot
<1>9. Dated'
  BY <1>1, <1>4, <1>5, DatedKept DEF IInv, Dated
<1> QED
  BY <1>7, <1>8, <1>9 DEF IInv

LEMMA PlacedKeeps == ASSUME IInv, Placed PROVE IInv'
<1>1. /\ active # None /\ ~Cancellable /\ Proceed(chain, procs)
      /\ recent' = TRUE /\ timer' = (timer \/ pending # None)
      /\ UNCHANGED <<config, pending, disposed, nextId>>
      /\ store' = [store EXCEPT ![active.job.folder] =
                      [id |-> active.job.id, ver |-> active.ver,
                       partial |-> active.partial]]
      /\ tried' = Tried(active.job.folder, active.ver)
  BY DEF Placed, Settle, Cancellable
<1>2. /\ active \in Running /\ active.job.folder \in Folders /\ active.job.id \in Ids
      /\ active.ver \in Versions /\ active.partial \in BOOLEAN
      /\ active.ver <= config[active.job.folder]
  BY <1>1 DEF IInv, Lane, Running, Job
<1>3. Lane'
  <2>1. \A p \in procs : p.dying
    BY <1>1, IdleProcs
  <2>2. procs \in SUBSET Process /\ \A p, q \in procs : p.job = q.job => p = q
    BY DEF IInv, Lane
  <2> QED
    BY <1>1, <2>1, <2>2, ChainProceeds
<1>4. Slot'
  BY <1>1, SettleKeepsSlot
<1>5. Dated'
  <2> DEFINE new == [id |-> active.job.id, ver |-> active.ver, partial |-> active.partial]
  <2>1. new \in Snapshot /\ new.ver = active.ver
    BY <1>2 DEF Snapshot
  <2> HIDE DEF new
  <2>2. /\ store \in [Folders -> Snapshot \cup {None}]
        /\ store' = [store EXCEPT ![active.job.folder] = new]
    BY <1>1 DEF new, IInv, Dated
  <2>3. store' \in [Folders -> Snapshot \cup {None}]
    BY <1>2, <2>1, <2>2
  <2>4. ASSUME NEW f \in Folders, store'[f] # None PROVE store'[f].ver <= config[f]
    BY <1>2, <2>1, <2>2, <2>4 DEF IInv, Dated
  <2>5. active' # None => active'.ver = config[active'.job.folder]
    BY <1>1, ProceedReadsNow
  <2>6. tried' \in [Folders -> Versions] /\ config' \in [Folders -> Versions]
    BY <1>1, <1>2, TriedType DEF IInv, Dated
  <2> QED
    BY <1>1, <2>3, <2>4, <2>5, <2>6 DEF Dated
<1> QED
  BY <1>3, <1>4, <1>5 DEF IInv

LEMMA FailKeeps == ASSUME IInv, NEW p \in procs, Fail(p) PROVE IInv'
<1>1. /\ Own(p) /\ Proceed(chain, procs \ {p})
      /\ recent' = TRUE /\ timer' = (timer \/ pending # None)
      /\ UNCHANGED <<config, pending, store, disposed, nextId>>
      /\ tried' = Tried(active.job.folder, p.ver)
  BY DEF Fail, Settle
<1>2. /\ p \in Process /\ p.ver \in Versions
      /\ \A q \in procs \ {p} : q.dying
  BY <1>1, OwnProcess DEF IInv, Lane, Process
<1>3. Lane'
  <2>1. /\ procs \ {p} \in SUBSET Process
        /\ \A q, r \in procs \ {p} : q.job = r.job => q = r
    BY DEF IInv, Lane
  <2> QED
    BY <1>1, <1>2, <2>1, ChainProceeds
<1>4. Slot'
  BY <1>1, SettleKeepsSlot
<1>5. Dated'
  BY <1>1, <1>2, TriedType, ProceedReadsNow, DatedKept
<1> QED
  BY <1>3, <1>4, <1>5 DEF IInv

LEMMA DieKeeps == ASSUME IInv, NEW p \in procs, Die(p) PROVE IInv'
<1>1. /\ p.dying /\ procs' = procs \ {p}
      /\ UNCHANGED <<config, pending, timer, chain, active, store, recent, tried,
                     disposed, nextId>>
  BY DEF Die
<1>2. Cancellable => \E q \in procs \ {p} : ~q.dying /\ q.job = active.job
  BY <1>1 DEF IInv, Lane
<1>3. Lane'
  BY <1>1, <1>2 DEF IInv, Lane, Cancellable
<1>4. Slot' /\ Dated'
  BY <1>1 DEF IInv, Slot, Dated
<1> QED
  BY <1>3, <1>4 DEF IInv

LEMMA NextKeeps == IInv /\ [Next]_vars => IInv'
<1> SUFFICES ASSUME IInv, [Next]_vars PROVE IInv'
  OBVIOUS
<1>1. CASE UNCHANGED vars
  BY <1>1 DEF vars, IInv, Lane, Slot, Dated, Cancellable
<1>2. CASE Tick
  BY <1>2 DEF Tick, IInv, Lane, Slot, Dated, Cancellable
<1>3. CASE \E f \in Folders : Save(f) \/ Sweep(f) \/ RunNow(f)
  BY <1>3, SaveKeeps, SweepKeeps, RunNowKeeps
<1>4. CASE Fire \/ Cancel \/ CancelJob \/ Dispose
  BY <1>4, FireKeeps, CancelKeeps, CancelJobKeeps, DisposeKeeps
<1>5. CASE \E p \in procs : Report(p) \/ Fail(p) \/ Die(p)
  BY <1>5, ReportKeeps, FailKeeps, DieKeeps
<1>6. CASE Placed \/ Timeout
  BY <1>6, PlacedKeeps, TimeoutKeeps
<1> QED
  BY <1>1, <1>2, <1>3, <1>4, <1>5, <1>6 DEF Next

LEMMA InitKeeps == Init => IInv
<1> SUFFICES ASSUME Init PROVE IInv
  OBVIOUS
<1>1. Lane
  <2>1. chain = <<>> /\ chain \in Seq(Job) /\ Range(chain) = {} /\ IsInjective(chain)
    BY EmptyRange DEF Init
  <2> QED
    BY <2>1 DEF Init, Lane, Cancellable
<1>2. 1 \in 1..(MaxJobs + 1) /\ 0 \in Versions
  BY DEF Versions
<1>3. Slot
  BY <1>2 DEF Init, Slot
<1>4. Dated
  <2>1. \A f \in Folders : store[f] = None
    BY DEF Init
  <2> QED
    BY <1>2, <2>1 DEF Init, Dated
<1> QED
  BY <1>1, <1>3, <1>4 DEF IInv

-----------------------------------------------------------------------------
(* The theorems *)

\* The invariant the others follow from (scheduler.ts, runner.ts).
THEOREM Invariance == Spec => []IInv
BY InitKeeps, NextKeeps, PTL DEF Spec

\* Whatever is requested, cancelled or timed out, a job is pending, in the
\* chain or active, and only once (scheduler.ts:42-67, 91-122).
THEOREM TypeCorrect == Spec => []TypeOK
<1>1. IInv => TypeOK
  <2> SUFFICES ASSUME IInv PROVE TypeOK
    OBVIOUS
  <2>1. \A j \in Range(chain) : j # pending /\ (active # None => j # active.job)
    BY DEF IInv, Lane
  <2>2. active # None => pending # active.job
    BY DEF IInv, Lane
  <2> QED
    BY <2>1, <2>2 DEF TypeOK, IInv, Lane, Slot, Dated
<1> QED
  BY <1>1, Invariance, PTL

\* Through every preemption, cancellation and timeout the one process nobody
\* has told to stop is the active run's (scheduler.ts:49-72, runner.ts:240-299).
THEOREM LaneIsOne == Spec => []OneLane
<1>1. IInv => OneLane
  <2> SUFFICES ASSUME IInv PROVE OneLane
    OBVIOUS
  <2>1. CASE Cancellable
    <3>1. \E p \in procs : ~p.dying /\ p.job = active.job
      BY <2>1 DEF IInv, Lane
    <3>2. \A p \in procs : ~p.dying => p.job = active.job
      BY DEF IInv, Lane
    <3> QED
      BY <2>1, <3>1, <3>2 DEF OneLane
  <2>2. CASE ~Cancellable
    BY <2>2, IdleProcs DEF OneLane
  <2> QED
    BY <2>1, <2>2
<1> QED
  BY <1>1, Invariance, PTL

\* No wake-up is lost: what waits in the chain waits behind an active run, and
\* a pending job for its timer or for that run (scheduler.ts:91-122).
THEOREM WakeUpsKept == Spec => []LaneMoves
<1>1. IInv => LaneMoves
  BY DEF IInv, Lane, Slot, LaneMoves
<1> QED
  BY <1>1, Invariance, PTL

\* A run replaces the snapshot of its folder by one that has read the same
\* config or a newer one (collector.ts:71-97, store.ts).
THEOREM StoreMovesForward == Spec => SnapshotsMoveForward
<1> DEFINE Forward == \A f \in Folders :
                         store[f] # None => store'[f].ver >= store[f].ver
<1>1. IInv /\ [Next]_vars => [Forward]_store
  <2> SUFFICES ASSUME IInv, Next, store' # store PROVE Forward
    BY DEF vars
  <2>1. Placed
    BY DEF Next, Save, Sweep, RunNow, Fire, Cancel, CancelJob, Dispose, Report,
           Fail, Die, Timeout, Tick
  <2>2. /\ active # None
        /\ store' = [store EXCEPT ![active.job.folder] =
                        [id |-> active.job.id, ver |-> active.ver,
                         partial |-> active.partial]]
    BY <2>1 DEF Placed
  <2>3. active.ver \in Versions /\ active.job.folder \in Folders
    BY <2>2 DEF IInv, Lane, Running, Job
  <2> SUFFICES ASSUME NEW f \in Folders, store[f] # None
               PROVE  store'[f].ver >= store[f].ver
    OBVIOUS
  <2>4. store \in [Folders -> Snapshot \cup {None}] /\ store[f].ver \in Versions
    BY DEF IInv, Dated, Snapshot
  <2>5. CASE f = active.job.folder
    <3>1. store[f].ver <= active.ver /\ store'[f].ver = active.ver
      BY <2>2, <2>4, <2>5 DEF IInv, Dated
    <3> QED
      BY <3>1, <2>3, <2>4 DEF Versions
  <2>6. CASE f # active.job.folder
    <3>1. store'[f].ver = store[f].ver
      BY <2>2, <2>4, <2>6
    <3> QED
      BY <3>1, <2>4 DEF Versions
  <2> QED
    BY <2>5, <2>6
<1> QED
  BY <1>1, Invariance, PTL DEF Spec, SnapshotsMoveForward
=============================================================================
