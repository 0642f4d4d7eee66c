--------------------------- MODULE NvimLaneProofs ---------------------------
(***************************************************************************)
(* Theorems about NvimLane, for any number of commands, sweeps and saves.  *)
(* A run goes from its process to a callback of the main loop and is over  *)
(* when that callback runs; the handle names the newest run or nothing.    *)
(***************************************************************************)
EXTENDS NvimLane, SequenceLemmas

USE BoundsAssumption, NoneAssumption

CollectCall == [call : {"collect"}, reason : {"config saved", "periodic refresh"}]
CollectedCall == [call : {"collected"}, run : Runs, ver : Versions, result : Results]
Process == [run : Runs, ver : Versions, told : BOOLEAN]
Snapshot == [run : Runs, ver : Versions, partial : BOOLEAN]

Typed ==
    /\ config \in Versions /\ debounce \in BOOLEAN
    /\ loop \in Seq(CollectCall \cup CollectedCall)
    /\ handle \in Runs \cup {None}
    /\ procs \subseteq Process
    /\ snapshot \in Snapshot \cup {None}
    /\ cancelled \subseteq Runs
    /\ requests \in 0..MaxRequests /\ runs \in Nat

\* The calls of collect that wait on the main loop.
Waiting(s) == {k \in DOMAIN s : s[k].call = "collect"}

\* Every run was asked for by a command, a sweep or a save.
Counted ==
    runs + Cardinality(Waiting(loop)) + (IF debounce THEN 1 ELSE 0) <= requests + config

\* A run is one process or one callback, and what it read is not of the future.
Once ==
    /\ \A p \in procs : p.run <= runs /\ p.ver <= config
    /\ \A p, q \in procs : p.run = q.run => p = q
    /\ \A k \in Callbacks : loop[k].run <= runs /\ loop[k].ver <= config
    /\ \A k, l \in Callbacks : loop[k].run = loop[l].run => k = l
    /\ \A p \in procs, k \in Callbacks : p.run # loop[k].run

\* The run the handle names is there, and nobody has told it to stop.
Handled ==
    /\ handle # None => handle <= runs
    /\ HandleIsLive
    /\ \A p \in procs : p.run = handle => ~p.told

\* Until somebody interrupts, there is no other run, and none has read an older
\* config than the snapshot.
Undisturbed ==
    /\ snapshot # None => snapshot.ver <= config
    /\ cancelled = {} =>
          /\ \A p \in procs : p.run = handle
          /\ \A k \in Callbacks : loop[k].run = handle
          /\ snapshot # None =>
                /\ \A p \in procs : snapshot.ver <= p.ver
                /\ \A k \in Callbacks : snapshot.ver <= loop[k].ver

IInv == Typed /\ Counted /\ Once /\ Handled /\ Undisturbed

-----------------------------------------------------------------------------
(* The main loop *)

Call == CollectCall \cup CollectedCall

LEMMA CallType ==
    ASSUME NEW c \in Call
    PROVE  /\ c.call = "collect" => c \in CollectCall
           /\ c.call # "collect" => c \in CollectedCall /\ c.call = "collected"
           /\ c.call = "collected" => c \in CollectedCall
BY DEF Call, CollectCall, CollectedCall

LEMMA WaitingFinite ==
    ASSUME NEW s \in Seq(Call)
    PROVE  IsFiniteSet(Waiting(s)) /\ Cardinality(Waiting(s)) \in Nat
<1>1. Len(s) \in Nat /\ Waiting(s) \in SUBSET Nat /\ \A k \in Waiting(s) : k <= Len(s)
  BY DEF Waiting
<1> QED
  BY <1>1, FS_BoundedSetOfNaturals, FS_CardinalityType

LEMMA WaitingAppend ==
    ASSUME NEW s \in Seq(Call), NEW c \in Call
    PROVE  Cardinality(Waiting(Append(s, c))) =
              Cardinality(Waiting(s)) + (IF c.call = "collect" THEN 1 ELSE 0)
<1>1. IsFiniteSet(Waiting(s)) /\ Cardinality(Waiting(s)) \in Nat
  BY WaitingFinite
<1>2. Len(s) + 1 \notin Waiting(s)
  BY AppendIndex DEF Waiting
<1>3. CASE c.call = "collect"
  <2>1. Waiting(Append(s, c)) = Waiting(s) \cup {Len(s) + 1}
    BY <1>3, AppendIndex DEF Waiting
  <2> QED
    BY <1>1, <1>2, <1>3, <2>1, FS_AddElement
<1>4. CASE c.call # "collect"
  <2>1. Waiting(Append(s, c)) = Waiting(s)
    BY <1>4, AppendIndex DEF Waiting
  <2> QED
    BY <1>1, <1>4, <2>1
<1> QED
  BY <1>3, <1>4

LEMMA WaitingTail ==
    ASSUME NEW s \in Seq(Call), s # <<>>
    PROVE  Cardinality(Waiting(s)) =
              Cardinality(Waiting(Tail(s))) + (IF Head(s).call = "collect" THEN 1 ELSE 0)
<1> DEFINE W == Waiting(s) \ {1}
           f == [k \in Waiting(Tail(s)) |-> k + 1]
<1>1. /\ IsFiniteSet(Waiting(s)) /\ Cardinality(Waiting(s)) \in Nat
      /\ Tail(s) \in Seq(Call)
      /\ IsFiniteSet(Waiting(Tail(s))) /\ Cardinality(Waiting(Tail(s))) \in Nat
  BY WaitingFinite, TailIndex
<1>2. f \in Bijection(Waiting(Tail(s)), W)
  <2>1. \A k \in Waiting(Tail(s)) : k \in Nat /\ k + 1 \in W
    BY TailIndex DEF Waiting
  <2>2. ASSUME NEW k \in W PROVE k - 1 \in Waiting(Tail(s)) /\ f[k - 1] = k
    <3>1. k \in DOMAIN s \ {1} /\ s[k].call = "collect" /\ k \in Nat
      BY DEF Waiting
    <3>2. k - 1 \in DOMAIN Tail(s) /\ (k - 1) + 1 = k
      BY <3>1, TailIndex
    <3>3. Tail(s)[k - 1] = s[k]
      BY <3>2, TailIndex
    <3> QED
      BY <3>1, <3>2, <3>3 DEF Waiting
  <2>3. f \in [Waiting(Tail(s)) -> W]
    BY <2>1
  <2>4. \A k, l \in Waiting(Tail(s)) : f[k] = f[l] => k = l
    BY <2>1
  <2>5. \A k \in W : \E l \in Waiting(Tail(s)) : f[l] = k
    BY <2>2
  <2> HIDE DEF f, W
  <2> QED
    BY <2>3, <2>4, <2>5 DEF Bijection, Injection, Surjection, IsInjective
<1>3. Cardinality(W) = Cardinality(Waiting(Tail(s)))
  BY <1>1, <1>2, FS_Bijection DEF ExistsBijection
<1>4. Cardinality(W) =
         IF 1 \in Waiting(s) THEN Cardinality(Waiting(s)) - 1 ELSE Cardinality(Waiting(s))
  BY <1>1, FS_RemoveElement
<1>5. 1 \in Waiting(s) <=> Head(s).call = "collect"
  BY TailIndex DEF Waiting
<1> QED
  BY <1>1, <1>3, <1>4, <1>5

\* What becomes of the callbacks when the loop takes its first call, and when
\* a call is scheduled.
LEMMA CallbacksTail ==
    ASSUME loop \in Seq(Call), loop # <<>>, loop' = Tail(loop)
    PROVE  /\ \A k \in Callbacks' : /\ k \in Nat /\ k + 1 \in Callbacks /\ k + 1 # 1
                                    /\ loop'[k] = loop[k + 1]
           /\ \A k \in Callbacks \ {1} :
                 k - 1 \in Callbacks' /\ loop'[k - 1] = loop[k]
           /\ 1 \in Callbacks <=> Head(loop).call = "collected"
<1>1. \A k \in Callbacks' : /\ k \in Nat /\ k + 1 \in Callbacks /\ k + 1 # 1
                            /\ loop'[k] = loop[k + 1]
  BY TailIndex DEF Callbacks
<1>2. ASSUME NEW k \in Callbacks \ {1}
      PROVE  k - 1 \in Callbacks' /\ loop'[k - 1] = loop[k]
  <2>1. k \in DOMAIN loop \ {1} /\ loop[k].call = "collected" /\ k \in Nat
    BY DEF Callbacks
  <2>2. k - 1 \in DOMAIN Tail(loop) /\ (k - 1) + 1 = k
    BY <2>1, TailIndex
  <2>3. Tail(loop)[k - 1] = loop[k]
    BY <2>2, TailIndex
  <2> QED
    BY <2>1, <2>2, <2>3 DEF Callbacks
<1>3. 1 \in Callbacks <=> Head(loop).call = "collected"
  BY TailIndex DEF Callbacks
<1> QED
  BY <1>1, <1>2, <1>3

LEMMA CallbacksAppend ==
    ASSUME loop \in Seq(Call), NEW c \in Call, loop' = Append(loop, c)
    PROVE  /\ Callbacks' = Callbacks \cup
                 (IF c.call = "collected" THEN {Len(loop) + 1} ELSE {})
           /\ Len(loop) + 1 \notin Callbacks
           /\ \A k \in Callbacks : loop'[k] = loop[k]
           /\ loop'[Len(loop) + 1] = c
BY AppendIndex DEF Callbacks

-----------------------------------------------------------------------------
(* Collect *)

LEMMA CallbackType ==
    ASSUME Typed, NEW k \in Callbacks
    PROVE  loop[k] \in CollectedCall
<1>1. loop[k] \in Call /\ loop[k].call = "collected"
  BY DEF Typed, Call, Callbacks
<1> QED
  BY <1>1, CallType

LEMMA ToldProcs ==
    ASSUME IInv
    PROVE  /\ Told \in SUBSET Process
           /\ \A p \in Told : \E q \in procs : p.run = q.run /\ p.ver = q.ver
           /\ \A p, q \in Told : p.run = q.run => p = q
<1> DEFINE T(p) == IF p.run = handle THEN [p EXCEPT !.told = TRUE] ELSE p
<1>1. ASSUME NEW p \in procs PROVE T(p) \in Process /\ T(p).run = p.run /\ T(p).ver = p.ver
  <2>1. p \in Process
    BY DEF IInv, Typed
  <2> QED
    BY <2>1 DEF Process
<1>2. Told = {T(p) : p \in procs}
  BY DEF Told
<1>3. \A p, q \in procs : p.run = q.run => p = q
  BY DEF IInv, Once
<1> HIDE DEF T
<1> QED
  BY <1>1, <1>2, <1>3

\* A run that starts is the newest, and if nobody ever interrupted, it is alone.
LEMMA Spawned ==
    ASSUME IInv, NEW ps \in SUBSET Process, Spawn(ps), UNCHANGED <<config, snapshot>>,
           runs < MaxRequests + MaxSaves,
           cancelled' = {} => cancelled = {} /\ handle = None,
           \A p \in ps : \E q \in procs : p.run = q.run /\ p.ver = q.ver,
           \A p, q \in ps : p.run = q.run => p = q,
           \A k \in Callbacks' : \E l \in Callbacks : loop'[k] = loop[l],
           \A k, l \in Callbacks' : loop'[k].run = loop'[l].run => k = l
    PROVE  /\ Once' /\ Handled' /\ Undisturbed'
           /\ handle' \in Runs \cup {None} /\ procs' \subseteq Process
           /\ runs' \in Nat /\ runs' <= runs + 1
<1>1. /\ runs \in Nat /\ config \in Nat /\ config <= config
      /\ \A p \in ps : p.run <= runs /\ p.ver <= config
      /\ \A k \in Callbacks' : loop'[k].run <= runs /\ loop'[k].ver <= config
      /\ \A p \in ps, k \in Callbacks' : p.run # loop'[k].run
      /\ snapshot # None => snapshot.ver <= config
  BY DEF IInv, Typed, Once, Versions, Undisturbed
<1>2. ASSUME cancelled' = {} PROVE ps = {} /\ Callbacks' = {}
  <2>1. cancelled = {} /\ handle = None
    BY <1>2
  <2>2. \A q \in procs : q.run # None
    BY DEF IInv, Typed, Process
  <2>3. \A l \in Callbacks : loop[l].run # None
    BY CallbackType DEF IInv, CollectedCall
  <2> QED
    BY <2>1, <2>2, <2>3 DEF IInv, Undisturbed
<1>3. CASE handle' = None /\ procs' = ps /\ UNCHANGED runs
  <2>1. Once'
    BY <1>1, <1>3 DEF Once
  <2>2. Handled'
    <3>1. \A p \in ps : p.run # None
      BY DEF Process
    <3> QED
      BY <1>3, <3>1 DEF Handled, HandleIsLive
  <2>3. Undisturbed'
    BY <1>1, <1>2, <1>3 DEF Undisturbed
  <2> QED
    BY <1>1, <1>3, <2>1, <2>2, <2>3
<1>4. CASE /\ runs' = runs + 1 /\ handle' = runs'
           /\ procs' = ps \cup {[run |-> runs', ver |-> config, told |-> FALSE]}
  <2> DEFINE new == [run |-> runs', ver |-> config, told |-> FALSE]
  <2>1. runs' \in Runs /\ runs' \in Nat /\ config \in Versions
    BY <1>1, <1>4 DEF Runs, IInv, Typed
  <2>2. new \in Process /\ new.run = runs' /\ new.ver = config /\ ~new.told
    BY <2>1 DEF Process
  <2>3. procs' = ps \cup {new}
    BY <1>4
  <2> HIDE DEF new
  <2>4. handle' # None /\ handle' \in Runs
    BY <1>4, <2>1
  <2>5. /\ \A p \in ps : p.run \in Nat /\ p.run # runs' /\ p.run <= runs'
        /\ \A k \in Callbacks' : loop'[k].run # runs' /\ loop'[k].run <= runs'
    <3>1. \A p \in ps : p.run \in Nat
      BY DEF Process, Runs
    <3>2. \A k \in Callbacks' : loop'[k].run \in Nat
      BY CallbackType DEF IInv, CollectedCall, Runs
    <3> QED
      BY <1>1, <1>4, <3>1, <3>2
  <2>6. runs' <= runs'
    BY <2>1
  <2>7. Once'
    BY <1>1, <2>2, <2>3, <2>5, <2>6 DEF Once
  <2>8. Handled'
    BY <1>4, <2>2, <2>3, <2>5, <2>6 DEF Handled, HandleIsLive
  <2>9. Undisturbed'
    BY <1>1, <1>2, <1>4, <2>2, <2>3 DEF Undisturbed
  <2> QED
    BY <1>1, <1>4, <2>1, <2>2, <2>3, <2>4, <2>7, <2>8, <2>9
<1> QED
  BY <1>3, <1>4 DEF Spawn

LEMMA CollectManualKeeps == ASSUME IInv, CollectManual PROVE IInv'
<1>1. /\ requests < MaxRequests /\ requests' = requests + 1
      /\ cancelled' = cancelled \cup ({handle} \ {None})
      /\ Spawn(Told)
      /\ UNCHANGED <<config, debounce, loop, snapshot>>
  BY DEF CollectManual
<1>2. /\ loop \in Seq(Call) /\ Cardinality(Waiting(loop)) \in Nat
      /\ config \in Versions /\ requests \in 0..MaxRequests /\ runs \in Nat
  BY WaitingFinite DEF IInv, Typed, Call
<1>3. runs <= requests + config
  BY <1>2 DEF IInv, Counted, Versions
<1>4. runs < MaxRequests + MaxSaves /\ requests' \in 0..MaxRequests
  BY <1>1, <1>2, <1>3 DEF Versions
<1>5. cancelled' = {} => cancelled = {} /\ handle = None
  BY <1>1
<1>6. /\ Callbacks' = Callbacks
      /\ \A k, l \in Callbacks : loop[k].run = loop[l].run => k = l
  BY <1>1 DEF Callbacks, IInv, Once
<1>7. /\ Once' /\ Handled' /\ Undisturbed'
      /\ handle' \in Runs \cup {None} /\ procs' \subseteq Process
      /\ runs' \in Nat /\ runs' <= runs + 1
  BY <1>1, <1>4, <1>5, <1>6, ToldProcs, Spawned
<1>8. cancelled' \subseteq Runs
  BY <1>1 DEF IInv, Typed
<1>9. Typed'
  BY <1>1, <1>4, <1>7, <1>8 DEF IInv, Typed
<1>10. Counted'
  BY <1>1, <1>2, <1>7 DEF IInv, Counted, Versions
<1> QED
  BY <1>7, <1>9, <1>10 DEF IInv

LEMMA RunCollectKeeps == ASSUME IInv, RunCollect PROVE IInv'
<1>1. /\ loop # <<>> /\ Head(loop).call = "collect" /\ loop' = Tail(loop)
      /\ \/ handle # None /\ UNCHANGED <<handle, procs, runs>>
         \/ handle = None /\ Spawn(procs)
      /\ UNCHANGED <<config, debounce, snapshot, cancelled, requests>>
  BY DEF RunCollect, CollectAuto
<1>2. /\ loop \in Seq(Call) /\ loop' \in Seq(Call)
      /\ Cardinality(Waiting(loop)) = Cardinality(Waiting(loop')) + 1
      /\ Cardinality(Waiting(loop')) \in Nat
      /\ config \in Versions /\ requests \in 0..MaxRequests /\ runs \in Nat
  BY <1>1, TailIndex, WaitingTail, WaitingFinite DEF IInv, Typed, Call
<1>3. runs + 1 + Cardinality(Waiting(loop')) + (IF debounce THEN 1 ELSE 0)
         <= requests + config
  BY <1>2 DEF IInv, Counted, Versions
<1>4. runs < MaxRequests + MaxSaves
  BY <1>2, <1>3 DEF Versions
<1>5. /\ \A k \in Callbacks' : /\ k \in Nat /\ k + 1 \in Callbacks
                               /\ loop'[k] = loop[k + 1]
      /\ \A k \in Callbacks \ {1} : k - 1 \in Callbacks' /\ loop'[k - 1] = loop[k]
      /\ 1 \notin Callbacks
  BY <1>1, <1>2, CallbacksTail
<1>6. \A k, l \in Callbacks' : loop'[k].run = loop'[l].run => k = l
  BY <1>5 DEF IInv, Once
<1>7. \A k \in Callbacks' : \E l \in Callbacks : loop'[k] = loop[l]
  BY <1>5
<1>8. CASE handle # None /\ UNCHANGED <<handle, procs, runs>>
  <2>1. Once'
    <3>1. ASSUME NEW k \in Callbacks'
          PROVE  /\ loop'[k].run <= runs /\ loop'[k].ver <= config
                 /\ \A p \in procs : p.run # loop'[k].run
      BY <1>7 DEF IInv, Once
    <3>2. /\ \A p \in procs : p.run <= runs /\ p.ver <= config
          /\ \A p, q \in procs : p.run = q.run => p = q
      BY DEF IInv, Once
    <3> QED
      BY <1>1, <1>6, <1>8, <3>1, <3>2 DEF Once
  <2>2. Handled'
    <3>1. \/ \E p \in procs : p.run = handle /\ ~p.told
          \/ \E k \in Callbacks : loop[k].run = handle
      BY <1>8 DEF IInv, Handled, HandleIsLive
    <3>2. ASSUME NEW k \in Callbacks, loop[k].run = handle
          PROVE  \E l \in Callbacks' : loop'[l].run = handle
      BY <1>5, <3>2
    <3> QED
      BY <1>8, <3>1, <3>2 DEF IInv, Handled, HandleIsLive
  <2>3. Undisturbed'
    BY <1>1, <1>7, <1>8 DEF IInv, Undisturbed
  <2>4. Typed' /\ Counted'
    BY <1>1, <1>2, <1>3, <1>8 DEF IInv, Typed, Counted, Call, Versions
  <2> QED
    BY <2>1, <2>2, <2>3, <2>4 DEF IInv
<1>9. CASE handle = None /\ Spawn(procs)
  <2>1. /\ procs \in SUBSET Process
        /\ \A p \in procs : \E q \in procs : p.run = q.run /\ p.ver = q.ver
        /\ \A p, q \in procs : p.run = q.run => p = q
    BY DEF IInv, Typed, Once
  <2>2. /\ Once' /\ Handled' /\ Undisturbed'
        /\ handle' \in Runs \cup {None} /\ procs' \subseteq Process
        /\ runs' \in Nat /\ runs' <= runs + 1
    BY <1>1, <1>4, <1>6, <1>7, <1>9, <2>1, Spawned
  <2>3. Typed'
    BY <1>1, <1>2, <2>2 DEF IInv, Typed, Call
  <2>4. Counted'
    BY <1>1, <1>2, <1>3, <2>2 DEF Counted, Versions
  <2> QED
    BY <2>2, <2>3, <2>4 DEF IInv
<1> QED
  BY <1>1, <1>8, <1>9

-----------------------------------------------------------------------------
(* The other steps *)

LEMMA CancelKeeps == ASSUME IInv, Cancel PROVE IInv'
<1>1. /\ handle # None /\ handle' = None
      /\ cancelled' = cancelled \cup {handle} /\ procs' = Told
      /\ UNCHANGED <<config, debounce, loop, snapshot, requests, runs>>
  BY DEF Cancel, Finish
<1>2. Callbacks' = Callbacks
  BY <1>1 DEF Callbacks
<1>3. /\ Told \in SUBSET Process
      /\ \A p \in Told : \E q \in procs : p.run = q.run /\ p.ver = q.ver
      /\ \A p, q \in Told : p.run = q.run => p = q
  BY ToldProcs
<1>4. Typed'
  <2>1. handle \in Runs /\ cancelled' \subseteq Runs
    BY <1>1 DEF IInv, Typed
  <2> QED
    BY <1>1, <1>3, <2>1 DEF IInv, Typed
<1>5. Counted'
  BY <1>1 DEF IInv, Counted
<1>6. Once'
  <2>1. ASSUME NEW p \in Told
        PROVE  /\ p.run <= runs /\ p.ver <= config
               /\ \A k \in Callbacks : p.run # loop[k].run
    BY <1>3 DEF IInv, Once
  <2>2. /\ \A k \in Callbacks : loop[k].run <= runs /\ loop[k].ver <= config
        /\ \A k, l \in Callbacks : loop[k].run = loop[l].run => k = l
    BY DEF IInv, Once
  <2> QED
    BY <1>1, <1>2, <1>3, <2>1, <2>2 DEF Once
<1>7. Handled'
  <2>1. \A p \in Told : p.run # None
    BY <1>3 DEF Process
  <2> QED
    BY <1>1, <2>1 DEF Handled, HandleIsLive
<1>8. Undisturbed'
  BY <1>1 DEF IInv, Undisturbed
<1> QED
  BY <1>4, <1>5, <1>6, <1>7, <1>8 DEF IInv

LEMMA SaveKeeps == ASSUME IInv, Save PROVE IInv'
<1>1. /\ config < MaxSaves /\ config' = config + 1 /\ debounce' = TRUE
      /\ UNCHANGED <<loop, handle, procs, snapshot, cancelled, requests, runs>>
  BY DEF Save
<1>2. /\ config \in Versions /\ loop \in Seq(Call)
      /\ Cardinality(Waiting(loop)) \in Nat /\ runs \in Nat /\ requests \in Nat
  BY WaitingFinite DEF IInv, Typed, Call
<1>3. config' \in Versions /\ \A v \in Versions : v <= config => v <= config'
  BY <1>1, <1>2 DEF Versions
<1>4. Callbacks' = Callbacks
  BY <1>1 DEF Callbacks
<1>5. Typed'
  BY <1>1, <1>3 DEF IInv, Typed
<1>6. Counted'
  BY <1>1, <1>2 DEF IInv, Counted, Versions
<1>7. /\ \A p \in procs : p.ver \in Versions /\ p.ver <= config
      /\ \A k \in Callbacks : loop[k].ver \in Versions /\ loop[k].ver <= config
      /\ snapshot # None => snapshot.ver \in Versions /\ snapshot.ver <= config
  BY CallbackType DEF IInv, Typed, Once, Undisturbed, Process, CollectedCall, Snapshot
<1>8. Once'
  BY <1>1, <1>3, <1>4, <1>7 DEF IInv, Once
<1>9. Handled'
  BY <1>1, <1>4 DEF IInv, Handled, HandleIsLive
<1>10. Undisturbed'
  BY <1>1, <1>3, <1>4, <1>7 DEF IInv, Undisturbed
<1> QED
  BY <1>5, <1>6, <1>8, <1>9, <1>10 DEF IInv

\* A call of collect that is scheduled waits its turn.
LEMMA Scheduled ==
    ASSUME IInv, NEW reason \in {"config saved", "periodic refresh"},
           loop' = Append(loop, Collect(reason)),
           UNCHANGED <<config, handle, procs, snapshot, cancelled, runs>>
    PROVE  /\ Once' /\ Handled' /\ Undisturbed'
           /\ loop' \in Seq(Call)
           /\ Cardinality(Waiting(loop')) = Cardinality(Waiting(loop)) + 1
           /\ Cardinality(Waiting(loop)) \in Nat
<1>1. Collect(reason) \in CollectCall /\ Collect(reason).call = "collect"
  BY DEF Collect, CollectCall
<1>2. Collect(reason) \in Call /\ loop \in Seq(Call)
  BY <1>1 DEF Call, IInv, Typed
<1>3. /\ loop' \in Seq(Call)
      /\ Cardinality(Waiting(loop')) = Cardinality(Waiting(loop)) + 1
      /\ Cardinality(Waiting(loop)) \in Nat
  BY <1>1, <1>2, AppendIndex, WaitingAppend, WaitingFinite
<1>4. Callbacks' = Callbacks /\ \A k \in Callbacks : loop'[k] = loop[k]
  BY <1>1, <1>2, CallbacksAppend
<1>5. Once'
  <2>1. runs' = runs /\ config' = config /\ procs' = procs
    OBVIOUS
  <2>2. \A k \in Callbacks' : /\ loop'[k].run <= runs /\ loop'[k].ver <= config
                              /\ \A p \in procs : p.run # loop'[k].run
    <3>1. \A k \in Callbacks : /\ loop[k].run <= runs /\ loop[k].ver <= config
                               /\ \A p \in procs : p.run # loop[k].run
      BY DEF IInv, Once
    <3> QED
      BY <1>4, <3>1
  <2>3. \A k, l \in Callbacks' : loop'[k].run = loop'[l].run => k = l
    <3> SUFFICES ASSUME NEW k \in Callbacks, NEW l \in Callbacks,
                        loop'[k].run = loop'[l].run
                 PROVE  k = l
      BY <1>4
    <3>1. loop[k].run = loop[l].run
      BY <1>4
    <3> QED
      BY <3>1 DEF IInv, Once
  <2>4. /\ \A p \in procs : p.run <= runs /\ p.ver <= config
        /\ \A p, q \in procs : p.run = q.run => p = q
    BY DEF IInv, Once
  <2> QED
    BY <2>1, <2>2, <2>3, <2>4 DEF Once
<1>6. Undisturbed'
  BY <1>4 DEF IInv, Undisturbed
<1>7. Handled'
  BY <1>4 DEF IInv, Handled, HandleIsLive
<1> QED
  BY <1>3, <1>5, <1>6, <1>7

LEMMA DebounceKeeps == ASSUME IInv, DebounceFires PROVE IInv'
<1>1. /\ debounce /\ debounce' = FALSE /\ loop' = Append(loop, Collect("config saved"))
      /\ UNCHANGED <<config, handle, procs, snapshot, cancelled, requests, runs>>
  BY DEF DebounceFires
<1>2. /\ Once' /\ Handled' /\ Undisturbed'
      /\ loop' \in Seq(Call)
      /\ Cardinality(Waiting(loop')) = Cardinality(Waiting(loop)) + 1
      /\ Cardinality(Waiting(loop)) \in Nat
  BY <1>1, Scheduled
<1>3. runs + Cardinality(Waiting(loop)) + 1 <= requests + config
  BY <1>1 DEF IInv, Counted
<1>4. Counted'
  <2>1. runs \in Nat /\ (IF debounce' THEN 1 ELSE 0) = 0
    BY <1>1 DEF IInv, Typed
  <2>2. runs + Cardinality(Waiting(loop')) + 0 <= requests + config
    BY <1>2, <1>3, <2>1
  <2> QED
    BY <1>1, <2>1, <2>2 DEF Counted
<1>5. Typed'
  BY <1>1, <1>2 DEF IInv, Typed, Call
<1> QED
  BY <1>2, <1>4, <1>5 DEF IInv

LEMMA SweepKeeps == ASSUME IInv, SweepFires PROVE IInv'
<1>1. /\ requests < MaxRequests /\ requests' = requests + 1
      /\ loop' = Append(loop, Collect("periodic refresh"))
      /\ UNCHANGED <<config, debounce, handle, procs, snapshot, cancelled, runs>>
  BY DEF SweepFires
<1>2. /\ Once' /\ Handled' /\ Undisturbed'
      /\ loop' \in Seq(Call)
      /\ Cardinality(Waiting(loop')) = Cardinality(Waiting(loop)) + 1
      /\ Cardinality(Waiting(loop)) \in Nat
  BY <1>1, Scheduled
<1>3. config \in Nat /\ runs \in Nat /\ requests \in Nat /\ requests' \in 0..MaxRequests
  <2>1. config \in Nat /\ runs \in Nat /\ requests \in 0..MaxRequests
    BY DEF IInv, Typed, Versions
  <2>2. requests < MaxRequests /\ requests' = requests + 1
    BY <1>1
  <2> QED
    BY <2>1, <2>2
<1>4. Counted'
  <2> DEFINE d == IF debounce THEN 1 ELSE 0
  <2>1. d \in Nat /\ (IF debounce' THEN 1 ELSE 0) = d
    BY <1>1
  <2>2. runs + Cardinality(Waiting(loop)) + d <= requests + config
    BY DEF IInv, Counted
  <2> HIDE DEF d
  <2>3. runs + (Cardinality(Waiting(loop)) + 1) + d <= (requests + 1) + config
    BY <1>2, <1>3, <2>1, <2>2
  <2>4. UNCHANGED <<runs, config>> /\ requests' = requests + 1
    BY <1>1
  <2> QED
    BY <1>2, <2>1, <2>3, <2>4 DEF Counted
<1>5. Typed'
  BY <1>1, <1>2, <1>3 DEF IInv, Typed, Call
<1> QED
  BY <1>2, <1>4, <1>5 DEF IInv

LEMMA ExitKeeps == ASSUME IInv, NEW p \in procs, Exit(p) PROVE IInv'
<1>1. /\ procs' = procs \ {p}
      /\ UNCHANGED <<config, debounce, handle, snapshot, cancelled, requests, runs>>
  BY DEF Exit
<1>2. PICK result \in Results : loop' = Append(loop, Collected(p, result))
  BY DEF Exit
<1> DEFINE c == Collected(p, result)
<1>3. p \in Process
  BY DEF IInv, Typed
<1>4. /\ c \in CollectedCall /\ c.call = "collected" /\ c.call # "collect"
      /\ c.run = p.run /\ c.ver = p.ver
  BY <1>3 DEF Collected, CollectedCall, Process
<1>5. loop' = Append(loop, c)
  BY <1>2
<1> HIDE DEF c
<1>6. c \in Call /\ loop \in Seq(Call)
  BY <1>4 DEF Call, IInv, Typed
<1>7. /\ loop' \in Seq(Call)
      /\ Cardinality(Waiting(loop')) = Cardinality(Waiting(loop)) + 0
      /\ Cardinality(Waiting(loop)) \in Nat
  BY <1>4, <1>5, <1>6, AppendIndex, WaitingAppend, WaitingFinite
<1>8. /\ Callbacks' = Callbacks \cup {Len(loop) + 1}
      /\ Len(loop) + 1 \notin Callbacks
      /\ \A k \in Callbacks : loop'[k] = loop[k]
      /\ loop'[Len(loop) + 1] = c
  BY <1>4, <1>5, <1>6, CallbacksAppend
<1>9. Typed'
  BY <1>1, <1>7 DEF IInv, Typed, Call
<1>10. Counted'
  BY <1>1, <1>7 DEF IInv, Counted
<1>11. Once'
  <2>1. /\ p.run <= runs /\ p.ver <= config
        /\ \A q \in procs \ {p} : q.run # p.run
        /\ \A k \in Callbacks : p.run # loop[k].run
    BY DEF IInv, Once
  <2>2. /\ \A q \in procs' : q.run <= runs /\ q.ver <= config
        /\ \A q, r \in procs' : q.run = r.run => q = r
    BY <1>1 DEF IInv, Once
  <2>3. \A k \in Callbacks' : loop'[k].run <= runs /\ loop'[k].ver <= config
    BY <1>4, <1>8, <2>1 DEF IInv, Once
  <2>4. \A k, l \in Callbacks' : loop'[k].run = loop'[l].run => k = l
    BY <1>4, <1>8, <2>1 DEF IInv, Once
  <2>5. \A q \in procs', k \in Callbacks' : q.run # loop'[k].run
    BY <1>1, <1>4, <1>8, <2>1 DEF IInv, Once
  <2> QED
    BY <1>1, <2>2, <2>3, <2>4, <2>5 DEF Once
<1>12. Handled'
  <2>1. \/ handle = None
        \/ \E q \in procs' : q.run = handle /\ ~q.told
        \/ p.run = handle
        \/ \E k \in Callbacks : loop[k].run = handle
    BY <1>1 DEF IInv, Handled, HandleIsLive
  <2>2. HandleIsLive'
    BY <1>1, <1>4, <1>8, <2>1 DEF HandleIsLive
  <2> QED
    BY <1>1, <2>2 DEF IInv, Handled
<1>13. Undisturbed'
  BY <1>1, <1>4, <1>8 DEF IInv, Undisturbed
<1> QED
  BY <1>9, <1>10, <1>11, <1>12, <1>13 DEF IInv

LEMMA RunCollectedKeeps == ASSUME IInv, RunCollected PROVE IInv'
<1>1. /\ loop # <<>> /\ Head(loop).call = "collected" /\ loop' = Tail(loop)
      /\ handle' = None
      /\ \/ UNCHANGED snapshot
         \/ snapshot' = [run |-> Head(loop).run, ver |-> Head(loop).ver,
                         partial |-> Head(loop).result = "partial"]
      /\ UNCHANGED <<config, debounce, procs, cancelled, requests, runs>>
  BY DEF RunCollected, Finish
<1>2. /\ loop \in Seq(Call) /\ loop' \in Seq(Call)
      /\ loop[1] = Head(loop) /\ Head(loop) \in CollectedCall
      /\ Cardinality(Waiting(loop)) = Cardinality(Waiting(loop')) + 0
      /\ Cardinality(Waiting(loop')) \in Nat
  <2>1. loop \in Seq(Call)
    BY DEF IInv, Typed, Call
  <2>2. loop' \in Seq(Call) /\ Head(loop) \in Call /\ loop[1] = Head(loop)
    BY <1>1, <2>1, TailIndex
  <2>3. Head(loop) \in CollectedCall /\ Head(loop).call # "collect"
    BY <1>1, <2>2, CallType
  <2> QED
    BY <1>1, <2>1, <2>2, <2>3, WaitingTail, WaitingFinite
<1>3. /\ \A k \in Callbacks' : /\ k \in Nat /\ k + 1 \in Callbacks /\ k + 1 # 1
                               /\ loop'[k] = loop[k + 1]
      /\ 1 \in Callbacks
  BY <1>1, <1>2, CallbacksTail
<1>4. snapshot' \in Snapshot \cup {None} /\ (snapshot' # None => snapshot'.ver <= config)
  <2>1. CASE UNCHANGED snapshot
    BY <2>1 DEF IInv, Typed, Undisturbed
  <2>2. CASE snapshot' = [run |-> Head(loop).run, ver |-> Head(loop).ver,
                          partial |-> Head(loop).result = "partial"]
    <3>1. snapshot' \in Snapshot /\ snapshot'.ver = Head(loop).ver
      BY <1>2, <2>2 DEF CollectedCall, Snapshot
    <3>2. Head(loop).ver <= config
      BY <1>2, <1>3 DEF IInv, Once
    <3> QED
      BY <3>1, <3>2
  <2> QED
    BY <1>1, <2>1, <2>2
<1>5. Typed'
  BY <1>1, <1>2, <1>4 DEF IInv, Typed, Call
<1>6. Counted'
  BY <1>1, <1>2 DEF IInv, Counted
<1>7. Once'
  <2>1. ASSUME NEW k \in Callbacks'
        PROVE  /\ loop'[k].run <= runs /\ loop'[k].ver <= config
               /\ \A q \in procs : q.run # loop'[k].run
    BY <1>3 DEF IInv, Once
  <2>2. \A k, l \in Callbacks' : loop'[k].run = loop'[l].run => k = l
    <3> SUFFICES ASSUME NEW k \in Callbacks', NEW l \in Callbacks',
                        loop'[k].run = loop'[l].run
                 PROVE  k = l
      OBVIOUS
    <3>1. k + 1 = l + 1
      BY <1>3 DEF IInv, Once
    <3> QED
      BY <1>3, <3>1
  <2>3. /\ \A q \in procs : q.run <= runs /\ q.ver <= config
        /\ \A q, r \in procs : q.run = r.run => q = r
    BY DEF IInv, Once
  <2> QED
    BY <1>1, <2>1, <2>2, <2>3 DEF Once
<1>8. Handled'
  <2>1. \A p \in procs : p.run # None
    BY DEF IInv, Typed, Process
  <2> QED
    BY <1>1, <2>1 DEF Handled, HandleIsLive
<1>9. Undisturbed'
  <2>1. ASSUME cancelled = {} PROVE procs = {} /\ Callbacks' = {}
    <3>1. loop[1].run = handle
      BY <1>3, <2>1 DEF IInv, Undisturbed
    <3>2. \A p \in procs : p.run = handle /\ p.run # loop[1].run
      BY <1>3, <2>1 DEF IInv, Undisturbed, Once
    <3>3. ASSUME NEW k \in Callbacks' PROVE FALSE
      <4>1. k + 1 \in Callbacks /\ k + 1 # 1 /\ loop[k + 1].run = handle
        BY <1>3, <2>1 DEF IInv, Undisturbed
      <4> QED
        BY <1>3, <3>1, <4>1 DEF IInv, Once
    <3> QED
      BY <3>1, <3>2, <3>3
  <2> QED
    BY <1>1, <1>4, <2>1 DEF Undisturbed
<1> QED
  BY <1>5, <1>6, <1>7, <1>8, <1>9 DEF IInv

LEMMA InitKeeps == Init => IInv
<1> SUFFICES ASSUME Init PROVE IInv
  OBVIOUS
<1>1. /\ config = 0 /\ debounce = FALSE /\ loop = <<>> /\ handle = None /\ procs = {}
      /\ snapshot = None /\ cancelled = {} /\ requests = 0 /\ runs = 0
  BY DEF Init
<1>2. Typed
  <2>1. /\ 0 \in 0..MaxRequests /\ 0 \in Versions
        /\ <<>> \in Seq(CollectCall \cup CollectedCall)
        /\ FALSE \in BOOLEAN /\ 0 \in Nat
    BY DEF Versions
  <2> QED
    BY <1>1, <2>1 DEF Typed
<1>3. Waiting(loop) = {} /\ Callbacks = {}
  BY <1>1 DEF Waiting, Callbacks
<1>4. Counted
  <2>1. Cardinality(Waiting(loop)) = 0
    BY <1>3, FS_EmptySet
  <2> QED
    BY <1>1, <2>1 DEF Counted
<1>5. Once /\ Handled /\ Undisturbed
  BY <1>1, <1>3 DEF Once, Handled, HandleIsLive, Undisturbed
<1> QED
  BY <1>2, <1>4, <1>5 DEF IInv

LEMMA NextKeeps == IInv /\ [Next]_vars => IInv'
<1> SUFFICES ASSUME IInv, [Next]_vars PROVE IInv'
  OBVIOUS
<1>1. CASE UNCHANGED vars
  BY <1>1 DEF vars, IInv, Typed, Counted, Once, Handled, HandleIsLive, Undisturbed,
              Callbacks
<1>2. CASE Next
  BY <1>2, SaveKeeps, DebounceKeeps, SweepKeeps, CollectManualKeeps, CancelKeeps,
     ExitKeeps, RunCollectKeeps, RunCollectedKeeps DEF Next
<1> QED
  BY <1>1, <1>2

-----------------------------------------------------------------------------
(* The theorems *)

\* The invariant the others follow from (run.lua, state.lua).
THEOREM Invariance == Spec => []IInv
BY InitKeeps, NextKeeps, PTL DEF Spec

\* Types, and no more runs than commands, sweeps and saves have asked for: a
\* debounce timer that fires asks once (init.lua:113-158).
THEOREM TypeCorrect == Spec => []TypeOK
<1>1. IInv => TypeOK
  <2> SUFFICES ASSUME IInv PROVE TypeOK
    OBVIOUS
  <2>1. /\ loop \in Seq(Call) /\ Cardinality(Waiting(loop)) \in Nat
        /\ config \in Versions /\ requests \in 0..MaxRequests /\ runs \in Nat
    BY WaitingFinite DEF IInv, Typed, Call
  <2>2. runs \in 0..(MaxRequests + MaxSaves)
    BY <2>1 DEF IInv, Counted, Versions
  <2>3. \A k \in DOMAIN loop :
          IF loop[k].call = "collect"
          THEN loop[k].reason \in {"config saved", "periodic refresh"}
          ELSE loop[k].run \in Runs /\ loop[k].result \in Results
    <3> SUFFICES ASSUME NEW k \in DOMAIN loop
                 PROVE  IF loop[k].call = "collect"
                        THEN loop[k].reason \in {"config saved", "periodic refresh"}
                        ELSE loop[k].run \in Runs /\ loop[k].result \in Results
      OBVIOUS
    <3>1. loop[k] \in Call
      BY <2>1
    <3> QED
      BY <3>1, CallType DEF CollectCall, CollectedCall
  <2> QED
    BY <2>2, <2>3 DEF TypeOK, IInv, Typed, Process, Snapshot
<1> QED
  BY <1>1, Invariance, PTL

\* The handle is never left behind: the run it names has a process nobody has
\* told to stop, or a callback that clears it (run.lua:16-22, 93-113, 151-174).
THEOREM HandleLives == Spec => []HandleIsLive
<1>1. IInv => HandleIsLive
  BY DEF IInv, Handled
<1> QED
  BY <1>1, Invariance, PTL

\* Without a cancellation or a preemption there is one run at a time
\* (run.lua:118-127).
THEOREM RunsAlone == Spec => []OneRunUntilInterrupted
<1>1. IInv => OneRunUntilInterrupted
  <2> SUFFICES ASSUME IInv, cancelled = {}
               PROVE  {p.run : p \in procs} \cup {loop[k].run : k \in Callbacks} =
                         IF handle = None THEN {} ELSE {handle}
    BY DEF OneRunUntilInterrupted
  <2>1. /\ \A p \in procs : p.run = handle
        /\ \A k \in Callbacks : loop[k].run = handle
    BY DEF IInv, Undisturbed
  <2>2. CASE handle = None
    <3>1. procs = {}
      BY <2>1, <2>2 DEF IInv, Typed, Process
    <3>2. Callbacks = {}
      BY <2>1, <2>2, CallbackType DEF IInv, CollectedCall
    <3> QED
      BY <2>2, <3>1, <3>2
  <2>3. CASE handle # None
    <3>1. (\E p \in procs : p.run = handle) \/ (\E k \in Callbacks : loop[k].run = handle)
      BY <2>3 DEF IInv, Handled, HandleIsLive
    <3> QED
      BY <2>1, <2>3, <3>1
  <2> QED
    BY <2>2, <2>3
<1> QED
  BY <1>1, Invariance, PTL

\* Without a cancellation or a preemption a snapshot is replaced by one that has
\* read the same config or a newer one (run.lua:93-113).
THEOREM SnapshotForward == Spec => SnapshotsMoveForward
<1> DEFINE Forward == cancelled = {} /\ snapshot # None => snapshot'.ver >= snapshot.ver
<1>1. IInv /\ [Next]_vars => [Forward]_snapshot
  <2> SUFFICES ASSUME IInv, Next, snapshot' # snapshot, cancelled = {}, snapshot # None
               PROVE  snapshot'.ver >= snapshot.ver
    BY DEF vars
  <2>1. RunCollected
    BY DEF Next, Save, DebounceFires, SweepFires, CollectManual, Cancel, Exit, RunCollect
  <2>2. /\ loop # <<>> /\ Head(loop).call = "collected" /\ loop' = Tail(loop)
        /\ snapshot'.ver = Head(loop).ver
    BY <2>1 DEF RunCollected
  <2>3. 1 \in Callbacks /\ loop[1] = Head(loop)
    BY <2>2, CallbacksTail, TailIndex DEF IInv, Typed, Call
  <2>4. /\ snapshot.ver <= loop[1].ver
        /\ snapshot.ver \in Versions /\ loop[1].ver \in Versions
    BY <2>3, CallbackType DEF IInv, Typed, Undisturbed, Snapshot, CollectedCall
  <2> QED
    BY <2>2, <2>3, <2>4 DEF Versions
<1> QED
  BY <1>1, Invariance, PTL DEF Spec, SnapshotsMoveForward
=============================================================================
