---------------------------- MODULE SourceUnits ----------------------------
(***************************************************************************)
(* How a provider source reads its provider (src/internal/source): the     *)
(* units of collectUnits one after another, in each unit a list of paged   *)
(* requests, and what each call site does when a request fails, when a     *)
(* page cap is reached or when the reply holds less than the provider has. *)
(* The programs, one per source, are data: see Adapters.tla.  The provider *)
(* answers anything its API allows; a time-limited token may age meanwhile.*)
(***************************************************************************)
EXTENDS Naturals, Sequences, FiniteSets, SequencesExt, Ordering

CONSTANTS
    Programs,   \* Programs[s]: how source s reads its provider
    MaxPages,   \* the cap of the page loops (20, 40 or 50 in the code)
    PageSize,   \* the entries of a full page
    NParents,   \* configured projects, organisations, zones, mounts: 0 or this
    MaxSurprises \* bound: what differs in one run from replies of one ordinary page

ASSUME SourceUnitsAssumption ==
    MaxPages \in Nat \ {0} /\ PageSize \in Nat \ {0} /\ NParents \in Nat

\* The lists a unit asks for: its own, and those below their entries.
ListsOf(u) ==
    LET own == Range(u.once) \cup Range(u.each)
    IN  own \cup UNION {Range(l.kids) : l \in own}

\* What call sites do with an error.
Policies == {"keep", "skip", "fail", "return", "silent"}

\* Every call site knows how its loop ends.  The one that drops an error asks for
\* a single object, and a page that is used before the next is asked for has
\* nothing to report itself.
SoundList(l) ==
    /\ l.get.stop \in {"short", "next", "link", "single", "whole"}
    /\ l.get.stop = "single" => l.get.tells \in {"total", "full", "nothing"}
    /\ l.onErr \in Policies /\ l.onCut \in Policies
    /\ "silent" \in {l.onErr, l.onCut} => l.get.stop = "whole"
    /\ l.eager => l.by \in {"all", "some"}

\* Lists that are read together have names that tell them apart, and so have the
\* lists below their entries; below those there are none.
NamedApart(ls) ==
    /\ \A j, k \in DOMAIN ls : ls[j].name = ls[k].name => j = k
    /\ \A l \in Range(ls) : \A j \in DOMAIN l.kids :
          /\ l.kids[j].kids = <<>>
          /\ \A m \in Range(ls) :
                /\ m.name # l.kids[j].name
                /\ \A k \in DOMAIN m.kids :
                      l.kids[j].name = m.kids[k].name => l = m /\ j = k

\* An error that drops what the unit has is that of the one list it begins with.
FailsAlone(u) ==
    \A l \in ListsOf(u) :
        "fail" \in {l.onErr, l.onCut} => u.once = <<l>> /\ u.each = <<>> /\ ~l.eager

ASSUME ProgramsAssumption ==
    \A s \in DOMAIN Programs :
        LET p == Programs[s] IN
        /\ p.units \in Seq(Range(p.units))
        /\ \A u \in Range(p.units) :
              /\ u.once \in Seq(ListsOf(u)) /\ u.each \in Seq(ListsOf(u))
              /\ \A l \in ListsOf(u) : SoundList(l) /\ l.kids \in Seq(ListsOf(u))
              /\ \A ls \in IF u.alone THEN {u.once, u.each} ELSE {u.once \o u.each} :
                    NamedApart(ls)
              /\ FailsAlone(u)
              /\ p.scopes # {} => u.scope \in p.scopes

VARIABLES
    conf,       \* the source: [src, skip, parents, policy]
    pc,         \* "begin", "units", "done"
    unit,       \* the unit being read
    work,       \* its calls still to be made, the first one in progress
    got,        \* its items so far
    warned,     \* its warnings: the lists that could not be read whole
    items, results, err,    \* what collectUnits has gathered
    token,      \* token[scope]: the age of the cached access token
    sent,       \* the token of the request in flight: [age, ticked]
    surprises,  \* failed requests, other replies and waits so far
    read, whole, unread     \* history: deadlines answered, those of lists read
                            \* to their end, lists of which something is missing

unitVars == <<unit, work, got, warned>>
outVars  == <<items, results, err>>
history  == <<read, whole, unread>>
vars == <<conf, pc, unitVars, outVars, token, sent, surprises, history>>

Program == Programs[conf.src]
NotSent == [age |-> "none", ticked |-> FALSE]

\* Sources with a list of providers build a unit for each one configured; the
\* others build all their units and mark some of them skipped.
Units == IF Program.listed
         THEN ElementsAt(Program.units,
                         {k \in DOMAIN Program.units : Program.units[k].name \notin conf.skip})
         ELSE Program.units

\* Skipped by a flag, or there is nothing configured that it could ask for.
Skipped(u) == \/ u.name \in conf.skip
              \/ u.once = <<>> /\ conf.parents = 0

Call(list, path) == [list |-> list, path |-> path, page |-> 1, got |-> <<>>]

\* The first calls of a unit: lists read once, then lists read for each
\* configured parent.  A unit with `alone` has parents instead of the once lists.
Calls(u) ==
    (IF u.alone /\ conf.parents > 0 THEN <<>>
     ELSE [k \in DOMAIN u.once |-> Call(u.once[k], <<>>)])
    \o FlattenSeq([p \in 1..conf.parents |->
                     [k \in DOMAIN u.each |-> Call(u.each[k], <<p>>)]])

Configurations ==
    UNION {[src : {s},
            skip : {{}} \cup IF Programs[s].flags
                             THEN {{Programs[s].units[k].name} : k \in DOMAIN Programs[s].units}
                             ELSE {},
            parents : {0} \cup IF Programs[s].parents THEN {NParents} ELSE {},
            policy : BOOLEAN] : s \in DOMAIN Programs}

Init ==
    /\ conf \in {c \in Configurations : c.policy => Programs[c.src].policy}
    /\ pc = "begin"
    /\ unit = 0 /\ work = <<>> /\ got = <<>> /\ warned = {}
    /\ items = <<>> /\ results = <<>> /\ err = {}
    /\ token = [scope \in Program.scopes |-> "none"]
    /\ sent = NotSent
    /\ surprises = 0
    /\ read = {} /\ whole = {} /\ unread = {}

-----------------------------------------------------------------------------
(* Entries and deadlines *)

\* What an entry may carry, by the rule that gives it its deadline: an expiry,
\* a creation date, a policy date that comes first.  Parents are followed or not.
EntryKinds(by) ==
    CASE by = "issuer"   -> {{}, {"expires"}}
      [] by = "policy"   -> {{}, {"created"}}
      [] by = "sooner"   -> SUBSET {"expires", "created", "early"}
      [] by = "all"      -> {{"follow"}}
      [] by = "some"     -> {{}, {"follow"}}
      [] OTHER           -> SUBSET {"expires", "created"}

\* The deadlines an entry has: none, one, or (secrets that also rotate) two.
Deadlines(by, e) ==
    {d \in {"issuer", "policy", "schedule"} :
        \/ d = "issuer" /\ "expires" \in e
           /\ \/ by \in {"issuer", "fallback", "both"}
              \/ by = "aged" /\ "created" \in e
              \/ by = "sooner" /\ ~(conf.policy /\ {"created", "early"} \subseteq e)
        \/ d = "policy" /\ "created" \in e
           /\ \/ by = "policy"
              \/ by = "fallback" /\ conf.policy /\ "expires" \notin e
              \/ by = "aged" /\ "expires" \notin e
              \/ by = "sooner" /\ conf.policy
                 /\ ("early" \in e \/ "expires" \notin e)
        \/ d = "schedule" /\ by = "both" /\ "created" \in e}

Item(c, e, d) == [unit |-> unit, list |-> c.list.name, path |-> c.path,
                  at |-> e.at, date |-> d]

Yield(c, es) ==
    FlattenSeq([k \in DOMAIN es |->
        SetToSeq({Item(c, es[k], d) : d \in Deadlines(c.list.by, es[k].has)})])

\* One call for each list below each entry that is followed.
Below(c, es) ==
    FlattenSeq([k \in DOMAIN es |->
        IF "follow" \notin es[k].has THEN <<>>
        ELSE [j \in DOMAIN c.list.kids |->
                 Call(c.list.kids[j], Append(c.path, es[k].at))]])

-----------------------------------------------------------------------------
(* What a provider may answer *)

\* Pages are full as long as there is more, except where the API hands out
\* links.  `bad`: the link to the rest cannot be followed.  A loop without a cap
\* ends because the provider has an end, here after MaxPages + 1 pages.
Replies(c) ==
    LET g == c.list.get
        Entries(n) == [1..n -> EntryKinds(c.list.by)]
    IN {r \in [batch : UNION {{[k \in 1..n |-> [at |-> <<c.page, k>>, has |-> h[k]]] :
                                   h \in Entries(n)} : n \in 0..PageSize},
               more : BOOLEAN, bad : BOOLEAN] :
          /\ r.more => g.stop # "whole"
          /\ r.more /\ g.stop # "link" => Len(r.batch) = PageSize
          /\ r.more /\ ~g.capped => c.page <= MaxPages
          /\ r.bad => r.more /\ g.badNext # "none"}

\* The reply that is no surprise: one entry that has it all, and no more pages.
Ordinary(c) ==
    [batch |-> <<[at |-> <<c.page, 1>>, has |-> UNION EntryKinds(c.list.by)]>>,
     more |-> FALSE, bad |-> FALSE]

\* Does the loop ask for another page.
Continues(g, r) ==
    \/ g.stop = "short" /\ Len(r.batch) = PageSize
    \/ g.stop = "next" /\ r.more /\ r.batch # <<>>
    \/ g.stop = "link" /\ r.more

\* Mutant of Noticed: the total in the reply is not compared.
NeverNoticed(g, r) == FALSE

\* Does the code see that a single reply may not be everything.
Noticed(g, r) ==
    \/ g.tells = "total" /\ r.more
    \/ g.tells = "full" /\ Len(r.batch) = PageSize

\* A zone that is configured and not found, metadata without a date.
Wanting(c, es) ==
    /\ c.list.wants
    /\ (IF c.list.kids = <<>> THEN Yield(c, es) ELSE es) = <<>>

\* What a loop carries to its next page.
Carried(c, r) == IF c.list.eager THEN <<>> ELSE c.got \o r.batch

-----------------------------------------------------------------------------
(* What a call site does with what the page loop returns *)

\* A list has been read as far as it will be: es are the entries to use.
Settle(c, es, policy, missed) ==
    LET keeps == policy \in {"whole", "keep", "return"}
        stops == policy \in {"fail", "return"}
        below == IF keeps THEN Below(c, es) ELSE <<>>
    IN /\ work' = IF stops THEN <<>>
                  ELSE IF c.list.last THEN Tail(work) \o below ELSE below \o Tail(work)
       /\ got' = IF policy = "fail" THEN <<>>
                 ELSE IF keeps THEN got \o Yield(c, es) ELSE got
       /\ warned' = IF policy \in {"whole", "silent"} THEN warned
                    ELSE warned \cup {c.list.name}
       /\ whole' = IF policy = "whole" /\ ~missed
                   THEN whole \cup Range(Yield(c, es)) ELSE whole
       /\ unread' = unread \cup
            {[unit |-> Units[unit].name, blind |-> l.get.tells = "nothing" \/ l.onErr = "silent"] :
                l \in (IF missed THEN {c.list} ELSE {})
                      \cup (IF stops THEN {work[k].list : k \in 2..Len(work)} ELSE {})}

Reading == pc = "units" /\ work # <<>>

\* Mutant of Usable: the margin of a minute is left out.
NotYetExpired(age) == age \in {"fresh", "late"}

\* A cached token is used until a minute before it expires.
Usable(age) == age = "fresh"

\* accessToken (GCP), token (Azure): the request carries the cached token, or a
\* new one.  An exchange that fails is a request that fails, see Deny.
Ask ==
    /\ Reading /\ Program.scopes # {} /\ sent = NotSent
    /\ LET scope == Units[unit].scope IN
         /\ token' = IF Usable(token[scope]) THEN token
                     ELSE [token EXCEPT ![scope] = "fresh"]
         /\ sent' = [age |-> token'[scope], ticked |-> FALSE]
    /\ UNCHANGED <<conf, pc, unitVars, outVars, surprises, history>>

Older(age) == CASE age = "fresh" -> "late" [] age = "late" -> "dead" [] OTHER -> age

\* Time passes while a request is in flight.  A tick is a minute: the client's
\* timeout allows one, and tokens live longer than two.
Tick ==
    /\ sent # NotSent /\ ~sent.ticked /\ surprises < MaxSurprises
    /\ sent' = [age |-> Older(sent.age), ticked |-> TRUE]
    /\ token' = [scope \in DOMAIN token |-> Older(token[scope])]
    /\ surprises' = surprises + 1
    /\ UNCHANGED <<conf, pc, unitVars, outVars, history>>

\* A page arrives; after the last one the call site settles the list.
Answer ==
    /\ Reading /\ (Program.scopes # {} => sent # NotSent)
    /\ \E r \in Replies(Head(work)) :
        LET c == Head(work)
            g == c.list.get
            all == c.got \o r.batch
            next == [c EXCEPT !.page = @ + 1, !.got = Carried(c, r)]
        IN /\ read' = read \cup Range(Yield(c, r.batch))
           /\ surprises' = IF r = Ordinary(c) THEN surprises ELSE surprises + 1
           /\ surprises' <= MaxSurprises
           /\ \/ /\ r.bad
                 /\ Settle(c, IF g.badNext = "after" THEN all ELSE c.got, c.list.onErr, TRUE)
              \/ /\ ~r.bad /\ Continues(g, r) /\ (g.capped => c.page < MaxPages)
                 /\ work' = (IF c.list.eager THEN Below(c, r.batch) ELSE <<>>)
                            \o <<next>> \o Tail(work)
                 /\ UNCHANGED <<got, warned, whole, unread>>
              \/ /\ ~r.bad /\ Continues(g, r) /\ g.capped /\ c.page = MaxPages
                 /\ Settle(c, all, c.list.onCut, r.more)
              \/ /\ ~r.bad /\ ~Continues(g, r)
                 /\ Settle(c, all,
                           IF Noticed(g, r) \/ Wanting(c, all) THEN "keep" ELSE "whole",
                           r.more)
    /\ sent' = NotSent
    /\ UNCHANGED <<conf, pc, unit, outVars, token>>

\* The request is refused, breaks off, cannot be decoded, or says it failed.
Deny ==
    /\ Reading /\ surprises < MaxSurprises
    /\ Settle(Head(work), IF Head(work).list.get.keeps THEN Head(work).got ELSE <<>>,
              Head(work).list.onErr, TRUE)
    /\ surprises' = surprises + 1
    /\ sent' = NotSent
    /\ UNCHANGED <<conf, pc, unit, outVars, token, read>>

-----------------------------------------------------------------------------
(* collectUnits *)

\* Collect: a source without its credentials, its projects or a token it can
\* get returns an error and nothing else.
Refuse ==
    /\ pc = "begin"
    /\ pc' = "done"
    /\ err' = {conf.src}
    /\ UNCHANGED <<conf, unitVars, items, results, token, sent, surprises, history>>

Begin ==
    /\ pc = "begin"
    /\ Program.required => conf.parents > 0
    /\ pc' = "units"
    /\ unit' = 1
    /\ work' = IF Units # <<>> /\ ~Skipped(Units[1]) THEN Calls(Units[1]) ELSE <<>>
    /\ token' = IF Program.early THEN [scope \in DOMAIN token |-> "fresh"] ELSE token
    /\ UNCHANGED <<conf, got, warned, outVars, sent, surprises, history>>

\* Mutant of Gathered: a unit with a warning adds nothing.
GatheredIfClean == IF warned = {} THEN items \o got ELSE items

\* The items of a unit are taken whether or not it failed.
Gathered == items \o got

\* What the caller is told of a unit.
UnitResult(u) ==
    [name |-> u.name, skipped |-> Skipped(u), items |-> Len(got), failed |-> warned # {}]

\* The units the error names.
UnitErr(u) == IF warned # {} THEN err \cup {u.name} ELSE err

EndUnit ==
    /\ pc = "units" /\ work = <<>> /\ unit <= Len(Units)
    /\ items' = Gathered
    /\ results' = Append(results, UnitResult(Units[unit]))
    /\ err' = UnitErr(Units[unit])
    /\ unit' = unit + 1
    /\ work' = IF unit < Len(Units) /\ ~Skipped(Units[unit + 1])
               THEN Calls(Units[unit + 1]) ELSE <<>>
    /\ got' = <<>> /\ warned' = {}
    /\ UNCHANGED <<conf, pc, token, sent, surprises, history>>

Return ==
    /\ pc = "units" /\ unit > Len(Units)
    /\ pc' = "done"
    /\ UNCHANGED <<conf, unitVars, outVars, token, sent, surprises, history>>

Next == Refuse \/ Begin \/ Ask \/ Tick \/ Answer \/ Deny \/ EndUnit \/ Return

Spec == Init /\ [][Next]_vars

-----------------------------------------------------------------------------

\* Every variable has its type; the token of a scope has an age.
TypeOK ==
    /\ conf.src \in DOMAIN Programs
    /\ pc \in {"begin", "units", "done"}
    /\ unit \in 0..(Len(Units) + 1)
    /\ \A k \in DOMAIN work : work[k].page \in 1..(MaxPages + 1)
    /\ surprises \in 0..MaxSurprises
    /\ token \in [Program.scopes -> {"none", "fresh", "late", "dead"}]
    /\ Range(items) \subseteq read /\ whole \subseteq read

\* Never let a cap look like a clean result: when something of a list is
\* missing, its page failed, the cap was reached, the total is larger or the
\* link leads elsewhere, the unit is named in the error of the source; and what
\* a unit without an error was told is in the report.  Two kinds of call do not
\* say so and are excepted: single replies the code does not compare with
\* anything, and the certificates of a Vault mount (see the README).
NeverSilent ==
    pc = "done" =>
        /\ \A u \in unread : u.unit \in err \/ u.blind
        /\ \A i \in read : i \in Range(items) \/ Units[i.unit].name \in err

\* One denied permission does not lose the others' findings: whatever fails, and
\* wherever, the deadlines of every list that was read to its end are returned
\* (collectUnits, cloudflare.go:86, awsgaps.go), and no deadline is returned
\* twice, whatever the pages and parents it was found through.
DenialIsLocal == pc = "done" => whole \subseteq Range(items) /\ IsInjective(items)

\* A request never carries a token that has expired, however long the pages
\* before it took: a token is renewed a minute early and no request takes longer
\* (gcp.go:128, azure.go token).
TokenLive == sent.age # "dead"
=============================================================================
