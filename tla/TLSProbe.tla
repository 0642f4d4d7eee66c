------------------------------ MODULE TLSProbe ------------------------------
(***************************************************************************)
(* The TLS source (src/internal/source/tls.go): one goroutine per endpoint,*)
(* at most Concurrency probing, a mutex around the two slices they append  *)
(* to, then the intermediates of the chains merged and all sorted by date. *)
(*                                                                         *)
(* A goroutine goes through                                                *)
(*   unborn -> blocked -> probing -> answered -> appending -> unlocked     *)
(*          -> done                                                        *)
(* The slot of sem is held from probing to unlocked, the mutex while       *)
(* appending.  The WaitGroup counts those that are neither unborn nor done.*)
(***************************************************************************)
EXTENDS Ordering, SequencesExt

CONSTANTS
    NEndpoints,
    Concurrency,  \* tlsProbeConcurrency
    Chains,       \* Chains[i]: the chains endpoint i may present, leaf first:
                  \*   sequences of certificates [serial, expires, root]
    Failed        \* the answer of an endpoint that could not be probed

Endpoints == 1..NEndpoints
Certs == UNION {UNION {Range(c) : c \in Chains[i]} : i \in Endpoints}

ASSUME NEndpointsAssumption == NEndpoints \in Nat
ASSUME ConcurrencyAssumption == Concurrency \in Nat \ {0}
ASSUME ChainsAssumption ==
    \A i \in Endpoints : \A c \in Chains[i] :
        c # Failed /\ c # <<>> /\ c \in Seq(Certs)
ASSUME CertsAssumption == \A c \in Certs : c.expires \in Int

VARIABLES
    main,     \* "spawn" or "returned"
    next,     \* the next endpoint to spawn
    worker,   \* worker[i]: where the goroutine of endpoint i is
    mutex,    \* the endpoint whose goroutine holds mu, 0 if none
    answer,   \* answer[i]: the chain endpoint i presented, or Failed
    seen,     \* seen[i]: the two slices as goroutine i found them under mu
    items,    \* the items read so far, then the items returned
    errs      \* the endpoints that failed

vars == <<main, next, worker, mutex, answer, seen, items, errs>>

Init ==
    /\ main = "spawn"
    /\ next = 1
    /\ worker = [i \in Endpoints |-> "unborn"]
    /\ mutex = 0
    /\ answer = [i \in Endpoints |-> Failed]
    /\ seen = [i \in Endpoints |-> [items |-> <<>>, errs |-> <<>>]]
    /\ items = <<>>
    /\ errs = <<>>

Spawn ==
    /\ main = "spawn"
    /\ next \in Endpoints
    /\ worker' = [worker EXCEPT ![next] = "blocked"]
    /\ next' = next + 1
    /\ UNCHANGED <<main, mutex, answer, seen, items, errs>>

Step(i, from, to) == worker[i] = from /\ worker' = [worker EXCEPT ![i] = to]

Holding == {i \in Endpoints :
                worker[i] \in {"probing", "answered", "appending", "unlocked"}}

\* Mutant of SlotFree: one slot too many.
SlotFreeOneMore == Cardinality(Holding) <= Concurrency

SlotFree == Cardinality(Holding) < Concurrency

Acquire(i) ==
    /\ Step(i, "blocked", "probing")
    /\ SlotFree
    /\ UNCHANGED <<main, next, mutex, answer, seen, items, errs>>

\* The handshake ends, fails, or runs into its own timeout.
Probe(i) ==
    /\ Step(i, "probing", "answered")
    /\ \E a \in Chains[i] \cup {Failed} : answer' = [answer EXCEPT ![i] = a]
    /\ UNCHANGED <<main, next, mutex, seen, items, errs>>

\* Mutant of Unlocked: mu.Lock is missing.
NoMutex == TRUE

Unlocked == mutex = 0

\* mu.Lock, and the slices that append starts from.
Lock(i) ==
    /\ Step(i, "answered", "appending")
    /\ Unlocked
    /\ mutex' = i
    /\ seen' = [seen EXCEPT ![i] = [items |-> items, errs |-> errs]]
    /\ UNCHANGED <<main, next, answer, items, errs>>

\* leafItem, and intermediateItem for the rest of the chain but its root.
LeafItem(i, cert) ==
    [kind |-> "leaf", serial |-> cert.serial, expires |-> cert.expires,
     hosts |-> {i}]
IntermediateItem(i, cert) ==
    [kind |-> "intermediate", serial |-> cert.serial, expires |-> cert.expires,
     hosts |-> {i}]

Presented(i, chain) ==
    LET rest == ElementsAt(chain, {k \in DOMAIN chain : k > 1 /\ ~chain[k].root})
    IN  <<LeafItem(i, Head(chain))>>
        \o [k \in DOMAIN rest |-> IntermediateItem(i, rest[k])]

\* Mutant of Unlock: the early return of a failed probe leaves mu locked.
UnlockUnlessFailed(i) ==
    /\ Step(i, "appending", "unlocked")
    /\ IF answer[i] = Failed
       THEN errs' = Append(seen[i].errs, i) /\ UNCHANGED <<mutex, items>>
       ELSE /\ items' = seen[i].items \o Presented(i, answer[i])
            /\ mutex' = 0
            /\ UNCHANGED errs
    /\ UNCHANGED <<main, next, answer, seen>>

\* The append is stored and mu unlocked.
Unlock(i) ==
    /\ Step(i, "appending", "unlocked")
    /\ mutex' = 0
    /\ IF answer[i] = Failed
       THEN errs' = Append(seen[i].errs, i) /\ UNCHANGED items
       ELSE items' = seen[i].items \o Presented(i, answer[i]) /\ UNCHANGED errs
    /\ UNCHANGED <<main, next, answer, seen>>

\* The slot is given back and wg.Done called.
Leave(i) ==
    /\ Step(i, "unlocked", "done")
    /\ UNCHANGED <<main, next, mutex, answer, seen, items, errs>>

-----------------------------------------------------------------------------
(* The end of Collect *)

\* The key of an intermediate is its name and serial number, here serial.
SameCert(x, y) ==
    x.kind = "intermediate" /\ y.kind = "intermediate" /\ x.serial = y.serial

\* mergeIntermediates: an intermediate is reported once, where it came first, and
\* with all its hosts.
MergeIntermediates(its) ==
    LET copies(k) == {k} \cup {j \in DOMAIN its : SameCert(its[j], its[k])}
        merged == [k \in DOMAIN its |->
                      [its[k] EXCEPT !.hosts = UNION {its[j].hosts : j \in copies(k)}]]
    IN  ElementsAt(merged, {k \in DOMAIN its :
                              ~\E j \in 1..(k - 1) : SameCert(its[j], its[k])})

\* sort.Slice promises nothing about ties; it sorts a dozen items or fewer by
\* insertion, which keeps their order, and so does this.
ByDate(its) ==
    LET sooner(j, k) == \/ its[j].expires < its[k].expires
                        \/ its[j].expires = its[k].expires /\ j <= k
        order == Ordered(1..Len(its),
                         {p \in (1..Len(its)) \X (1..Len(its)) : sooner(p[1], p[2])})
    IN  [n \in DOMAIN order |-> its[order[n]]]

\* The items, next to an error too.
Collected == ByDate(MergeIntermediates(items))

\* wg.Wait returns; one goroutine does the rest.
Return ==
    /\ main = "spawn"
    /\ next = NEndpoints + 1
    /\ \A i \in Endpoints : worker[i] = "done"
    /\ main' = "returned"
    /\ items' = Collected
    /\ UNCHANGED <<next, worker, mutex, answer, seen, errs>>

Goroutine(i) ==
    Acquire(i) \/ Probe(i) \/ Lock(i) \/ Unlock(i) \/ Leave(i)

Next ==
    \/ Spawn \/ Return
    \/ \E i \in Endpoints :
        Acquire(i) \/ Probe(i) \/ Lock(i) \/ Unlock(i) \/ Leave(i)

Spec == Init /\ [][Next]_vars

\* The Go scheduler runs what can run, mutexes and channels are starvation
\* free, and every probe has a timeout of its own.
Fairness ==
    /\ WF_vars(Spawn \/ Return)
    /\ \A i \in Endpoints : SF_vars(Goroutine(i))

FairSpec == Spec /\ Fairness

-----------------------------------------------------------------------------
(* Properties *)

Item == [kind : {"leaf", "intermediate"}, serial : {c.serial : c \in Certs},
         expires : {c.expires : c \in Certs}, hosts : SUBSET Endpoints]

TypeOK ==
    /\ main \in {"spawn", "returned"}
    /\ next \in 1..(NEndpoints + 1)
    /\ worker \in [Endpoints -> {"unborn", "blocked", "probing", "answered",
                                 "appending", "unlocked", "done"}]
    /\ mutex \in Endpoints \cup {0}
    /\ \A i \in Endpoints : answer[i] \in Chains[i] \cup {Failed}
    /\ seen \in [Endpoints -> [items : Seq(Item), errs : Seq(Endpoints)]]
    /\ items \in Seq(Item)
    /\ errs \in Seq(Endpoints)
    /\ Cardinality(Holding) <= Concurrency

Rows(kind, serial, i) ==
    {r \in DOMAIN items : /\ items[r].kind = kind
                          /\ items[r].serial = serial
                          /\ i \in items[r].hosts}

\* Whatever order the probes answer and append in, what comes back is each leaf
\* once per endpoint that serves it, each intermediate once with every endpoint
\* whose chain holds it, and nothing else: no append is lost and an unreachable
\* endpoint does not hide its neighbours.  The source fails exactly when an
\* endpoint did, and names each once (tls.go:60-66,77-80,192-193).
NothingLost ==
    main = "returned" =>
        /\ \A i \in Endpoints : answer[i] # Failed =>
            \A it \in Range(Presented(i, answer[i])) :
                Cardinality(Rows(it.kind, it.serial, i)) = 1
        /\ \A r \in DOMAIN items : \A i \in items[r].hosts :
                /\ answer[i] # Failed
                /\ \E it \in Range(Presented(i, answer[i])) :
                        it.kind = items[r].kind /\ it.serial = items[r].serial
        /\ \A q, r \in DOMAIN items :
                q # r /\ items[q].kind = "intermediate" =>
                    ~SameCert(items[q], items[r])
        /\ Range(errs) = {i \in Endpoints : answer[i] = Failed}
        /\ IsInjective(errs)

\* Every probe ends, so the source returns.
Returns == <>(main = "returned")

\* "Merged in configured order, not completion order [...] two runs of one
\* config must not disagree" (source.go:114-116): rows with one date come in the
\* order of the endpoints.
ConfiguredOrder ==
    main = "returned" =>
        \A q, r \in DOMAIN items :
            q < r /\ items[q].expires = items[r].expires
                  /\ items[q].kind = "leaf" /\ items[r].kind = "leaf"
            => \A i \in items[q].hosts, j \in items[r].hosts : i < j
=============================================================================
