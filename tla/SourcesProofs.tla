----------------------------- MODULE SourcesProofs -----------------------------
(***************************************************************************)
(* Theorems about the sources that have a model of their own: Domains, for *)
(* any list of them; Kubernetes, for any cluster and configuration; and    *)
(* TLSProbe, for any endpoints, slots and chains.                          *)
(***************************************************************************)
EXTENDS Domains, Kubernetes, TLSProbe, SequenceLemmas

-----------------------------------------------------------------------------
(* Domains, for any list of them *)

DItem == [domain : DOMAIN Configured, src : {"rdap", "whois"}]

DTyped ==
    /\ at \in 1..(Len(Configured) + 1)
    /\ ask \in {"rdap", "iana", "whois"}
    /\ ditems \in Seq(DItem) /\ derrs \in Seq(DOMAIN Configured)
    /\ noRDAP \subseteq DOMAIN Configured

\* Somebody else than RDAP is asked only after its 404.
Asking == ask # "rdap" <=> at \in noRDAP

\* The domains before at have their answer.
Settled ==
    /\ {ditems[n].domain : n \in DOMAIN ditems} \cup Range(derrs) = 1..(at - 1)
    /\ Len(ditems) + Len(derrs) = at - 1
    /\ \A m, n \in DOMAIN ditems : m < n => ditems[m].domain < ditems[n].domain
    /\ \A n \in DOMAIN ditems : ditems[n].src = "whois" <=> ditems[n].domain \in noRDAP
    /\ \A d \in noRDAP : d <= at

DInv == DTyped /\ Asking /\ Settled

LEMMA ConfiguredDomain ==
    /\ Len(Configured) \in Nat /\ DOMAIN Configured = 1..Len(Configured)
BY ConfiguredAssumption

LEMMA DInitStep == DInit => DInv
BY ConfiguredDomain, EmptyRange DEF DInit, DInv, DTyped, Asking, Settled

\* A domain gets its row.
LEMMA DatedStep ==
    ASSUME DInv, NEW whom, Looking(whom), NEW src \in {"rdap", "whois"}, Dated(src),
           src = "whois" <=> at \in noRDAP, UNCHANGED noRDAP
    PROVE  DInv'
<1> USE DEF DInv
<1> DEFINE row == [domain |-> at, src |-> src]
<1>1. /\ at \in Nat /\ at <= Len(Configured) /\ at \in DOMAIN Configured /\ at' = at + 1
      /\ ask' = "rdap" /\ ditems' = Append(ditems, row) /\ derrs' = derrs
  BY ConfiguredDomain DEF DTyped, Looking, Dated, Advance
<1>2. row \in DItem /\ row.domain = at /\ row.src = src /\ ditems \in Seq(DItem)
  BY <1>1 DEF DItem, DTyped
<1> HIDE DEF row
<1>3. /\ Len(ditems) \in Nat /\ DOMAIN ditems = 1..Len(ditems)
      /\ ditems' \in Seq(DItem)
      /\ DOMAIN ditems' = DOMAIN ditems \cup {Len(ditems) + 1}
      /\ \A k \in DOMAIN ditems : k # Len(ditems) + 1 /\ ditems'[k] = ditems[k]
      /\ ditems'[Len(ditems) + 1] = row
      /\ Len(ditems') = Len(ditems) + 1
  BY <1>1, <1>2, AppendIndex
<1>4. DTyped'
  BY <1>1, <1>3, ConfiguredDomain DEF DTyped
<1>5. Asking'
  BY <1>1 DEF Asking, Settled
<1>6. \A n \in DOMAIN ditems : ditems[n].domain \in 1..(at - 1)
  BY DEF Settled
<1>7. Settled'
  <2>1. {ditems'[n].domain : n \in DOMAIN ditems'}
           = {ditems[n].domain : n \in DOMAIN ditems} \cup {at}
    BY <1>2, <1>3
  <2>2. 1..(at' - 1) = 1..(at - 1) \cup {at}
    BY <1>1
  <2>3. {ditems'[n].domain : n \in DOMAIN ditems'} \cup Range(derrs') = 1..(at' - 1)
    BY <1>1, <2>1, <2>2 DEF Settled
  <2>4. Len(ditems') + Len(derrs') = at' - 1
    BY <1>1, <1>3 DEF Settled, DTyped
  <2>5. \A m, n \in DOMAIN ditems' : m < n => ditems'[m].domain < ditems'[n].domain
    <3> SUFFICES ASSUME NEW m \in DOMAIN ditems', NEW n \in DOMAIN ditems', m < n
                 PROVE  ditems'[m].domain < ditems'[n].domain
      OBVIOUS
    <3>1. m \in DOMAIN ditems
      BY <1>3
    <3>2. CASE n \in DOMAIN ditems
      BY <1>3, <3>1, <3>2 DEF Settled
    <3>3. CASE n = Len(ditems) + 1
      BY <1>1, <1>2, <1>3, <1>6, <3>1, <3>3
    <3> QED
      BY <1>3, <3>2, <3>3
  <2>6. \A n \in DOMAIN ditems' : ditems'[n].src = "whois" <=> ditems'[n].domain \in noRDAP'
    BY <1>2, <1>3 DEF Settled
  <2>7. \A d \in noRDAP' : d <= at'
    BY <1>1, ConfiguredDomain DEF Settled, DTyped
  <2> QED
    BY <2>3, <2>4, <2>5, <2>6, <2>7 DEF Settled
<1> QED
  BY <1>4, <1>5, <1>7

\* A domain fails.
LEMMA FailingStep ==
    ASSUME DInv, NEW whom, Looking(whom), Failing, UNCHANGED ditems,
           noRDAP' \in {noRDAP, noRDAP \cup {at}}
    PROVE  DInv'
<1> USE DEF DInv
<1>1. /\ at \in Nat /\ at <= Len(Configured) /\ at \in DOMAIN Configured /\ at' = at + 1
      /\ ask' = "rdap" /\ ditems' = ditems /\ derrs' = Append(derrs, at)
      /\ derrs \in Seq(DOMAIN Configured)
  BY ConfiguredDomain DEF DTyped, Looking, Failing, Advance
<1>2. /\ derrs' \in Seq(DOMAIN Configured) /\ Range(derrs') = Range(derrs) \cup {at}
      /\ Len(derrs') = Len(derrs) + 1 /\ Len(derrs) \in Nat
  BY <1>1, AppendRange
<1>3. DTyped'
  BY <1>1, <1>2, ConfiguredDomain DEF DTyped
<1>4. Asking'
  BY <1>1 DEF Asking, Settled
<1>5. \A n \in DOMAIN ditems : ditems[n].domain \in 1..(at - 1)
  BY DEF Settled
<1>6. Settled'
  <2>1. 1..(at' - 1) = 1..(at - 1) \cup {at}
    BY <1>1
  <2>2. {ditems'[n].domain : n \in DOMAIN ditems'} \cup Range(derrs') = 1..(at' - 1)
    BY <1>1, <1>2, <2>1 DEF Settled
  <2>3. Len(ditems') + Len(derrs') = at' - 1
    BY <1>1, <1>2 DEF Settled, DTyped
  <2>4. \A n \in DOMAIN ditems' : ditems'[n].src = "whois" <=> ditems'[n].domain \in noRDAP'
    BY <1>1, <1>5 DEF Settled
  <2>5. \A d \in noRDAP' : d <= at'
    BY <1>1, ConfiguredDomain DEF Settled, DTyped
  <2> QED
    BY <1>1, <2>2, <2>3, <2>4, <2>5 DEF Settled
<1> QED
  BY <1>3, <1>4, <1>6

LEMMA DNextStep == DInv /\ [DNext]_dvars => DInv'
<1> SUFFICES ASSUME DInv, [DNext]_dvars PROVE DInv'
  OBVIOUS
<1>1. CASE RDAPAnswers
  <2>1. Looking("rdap") /\ at \notin noRDAP /\ UNCHANGED noRDAP
    BY <1>1 DEF RDAPAnswers, Looking, DInv, Asking
  <2>2. CASE Dated("rdap")
    BY <2>1, <2>2, DatedStep
  <2>3. CASE Failing /\ UNCHANGED ditems
    BY <2>1, <2>3, FailingStep
  <2> QED
    BY <1>1, <2>2, <2>3 DEF RDAPAnswers
<1>2. CASE NoRDAP
  <2>1. CASE tldOf[at] = "none"
    BY <1>2, <2>1, FailingStep DEF NoRDAP, Fallback
  <2>2. CASE tldOf[at] # "none"
    <3>1. /\ at \in DOMAIN Configured /\ at \in Nat /\ ask' \in {"iana", "whois"}
          /\ UNCHANGED <<at, ditems, derrs>> /\ noRDAP' = noRDAP \cup {at}
      BY <1>2, <2>2, ConfiguredDomain DEF NoRDAP, Fallback, Looking, DInv, DTyped
    <3>2. DTyped' /\ Asking'
      BY <3>1 DEF DInv, DTyped, Asking
    <3>3. \A n \in DOMAIN ditems : ditems[n].domain \in 1..(at - 1)
      BY DEF DInv, Settled
    <3>4. Settled'
      BY <3>1, <3>3 DEF DInv, Settled
    <3> QED
      BY <3>2, <3>4 DEF DInv
  <2> QED
    BY <2>1, <2>2
<1>3. CASE IANAAnswers
  <2>1. Looking("iana") /\ at \in noRDAP /\ UNCHANGED <<noRDAP, ditems>>
    BY <1>3 DEF IANAAnswers, Looking, DInv, Asking
  <2>2. CASE Failing
    BY <2>1, <2>2, FailingStep
  <2>3. CASE ask' = "whois" /\ UNCHANGED <<at, derrs>>
    BY <2>1, <2>3 DEF DInv, DTyped, Asking, Settled
  <2> QED
    BY <1>3, <2>2, <2>3 DEF IANAAnswers
<1>4. CASE WhoisAnswers
  <2>1. Looking("whois") /\ at \in noRDAP /\ UNCHANGED noRDAP
    BY <1>4 DEF WhoisAnswers, Looking, DInv, Asking
  <2>2. CASE Dated("whois")
    BY <2>1, <2>2, DatedStep
  <2>3. CASE Failing /\ UNCHANGED ditems
    BY <2>1, <2>3, FailingStep
  <2> QED
    BY <1>4, <2>2, <2>3 DEF WhoisAnswers
<1>5. CASE UNCHANGED dvars
  BY <1>5 DEF dvars, DInv, DTyped, Asking, Settled
<1> QED
  BY <1>1, <1>2, <1>3, <1>4, <1>5 DEF DNext

\* Each domain of the config ends as one row or one failure, in order, and a row
\* says whois only after RDAP said 404 (rdap.go:61).
THEOREM EveryDomainIsAnswered == DSpec => []EveryDomainAnswered
<1>1. DInv => EveryDomainAnswered
  <2> SUFFICES ASSUME DInv, at > Len(Configured) PROVE EveryDomainAnswered
    BY DEF EveryDomainAnswered
  <2>1. at - 1 = Len(Configured)
    BY ConfiguredDomain DEF DInv, DTyped
  <2> QED
    BY <2>1, ConfiguredDomain DEF DInv, Settled, EveryDomainAnswered
<1>2. DSpec => []DInv
  BY DInitStep, DNextStep, PTL DEF DSpec
<1> QED
  BY <1>1, <1>2, PTL

-----------------------------------------------------------------------------
(* Kubernetes: what is still to be asked *)

\* The order Collect asks in.
Stage ==
    [ingresses |-> 1, secrets |-> 2, certificates |-> 3, join |-> 4,
     webhooks |-> 5, apiservices |-> 5, mesh |-> 5, finish |-> 6]

Namespaces == UNION {Range(k.namespaces) : k \in Clusters}

\* The names that are given to things: those of the code, and the namespaces.
Name ==
    {"none", "*", "all", "certificates", "validating", "mutating", "apiservices",
     "istio-system", "istio-ca-root-cert", "cacerts", "root-cert.pem", "ca-cert.pem",
     "anchor", "issuer"}
    \cup Namespaces

MeshKey == [key : Name, role : Name]

Mesh == [name : Name, ns : Name, keys : Seq(MeshKey)]

\* What a request is about: a namespace, a kind of object, a place for an anchor.
Subject == Name \cup Mesh

KRequest == [unit : DOMAIN Stage, of : Subject]

UnitsIn(s) == {s[n].unit : n \in DOMAIN s}

Pending(unit) == unit \in UnitsIn(todo)

\* A plan is in the order of the stages, reads no Secret twice, joins what it
\* reads of Certificates, and ends.
Plan(s) ==
    /\ s \in Seq(KRequest)
    /\ \A m, n \in DOMAIN s : m < n => Stage[s[m].unit] <= Stage[s[n].unit]
    /\ \A n \in DOMAIN s : s[n].unit = "mesh" => s[n].of \in Mesh
    /\ \A m, n \in DOMAIN s :
          m # n /\ s[m].unit = "secrets" /\ s[n].unit = "secrets" =>
             InScope(s[m].of) \cap InScope(s[n].of) = {}
    /\ \A m, n \in DOMAIN s : s[m].unit = "join" /\ s[n].unit = "join" => m = n

\* What is left of it joins the Certificates that it reads, and ends.
Ends(s) ==
    /\ "certificates" \in UnitsIn(s) => "join" \in UnitsIn(s)
    /\ "finish" \in UnitsIn(s)

-----------------------------------------------------------------------------
(* Kubernetes: certificates *)

CertRow ==
    [src : {"secret", "cert-manager"}, key : Keys, expires : {"issued", "now"},
     public : BOOLEAN, state : {"none", "unreadable", "missing"},
     renewal : {"none", "stuck", "managed"}]

KTyped ==
    /\ kconf \in Clusters
    /\ secretNS \subseteq Subject
    /\ DOMAIN secrets \subseteq Keys /\ DOMAIN secrets = listed
    /\ \A k \in DOMAIN secrets : secrets[k] \in {"parsed", "unreadable"}
    /\ DOMAIN certs \subseteq Keys
    /\ \A k \in DOMAIN certs : certs[k] \in Statuses
    /\ kitems \in Seq(CertRow)

\* Secrets are known where they were listed, and are listed once.
SecretsListed ==
    /\ \A k \in DOMAIN secrets : \E scope \in secretNS : k \in InScope(scope)
    /\ \A n \in DOMAIN todo : todo[n].unit = "secrets" =>
          \A scope \in secretNS : InScope(scope) \cap InScope(todo[n].of) = {}

\* A Secret that was parsed is a row; who refers to it was read before.
SecretRows ==
    /\ Pending("ingresses") => kitems = <<>>
    /\ \A n \in DOMAIN kitems : kitems[n].src = "secret" =>
          /\ kitems[n] = SecretItem(kitems[n].key)
          /\ kitems[n].key \in DOMAIN secrets /\ secrets[kitems[n].key] = "parsed"
    /\ \A k \in DOMAIN secrets :
          secrets[k] = "parsed" => SecretItem(k) \in Range(kitems)

\* Certificates are read after the Secrets, and are rows once they are joined.
CertificateRows ==
    /\ Pending("ingresses") \/ Pending("secrets") => DOMAIN certs = {}
    /\ \A n \in DOMAIN kitems : kitems[n].src = "cert-manager" =>
          /\ kitems[n] \in CertificateItems
          /\ \A unit \in {"ingresses", "secrets", "certificates", "join"} : ~Pending(unit)
    /\ Pending("join") \/ CertificateItems \subseteq Range(kitems)

RowsOnce == \A m, n \in DOMAIN kitems : kitems[m].key = kitems[n].key => m = n

-----------------------------------------------------------------------------
(* Kubernetes: trust anchors *)

TrustUnits == {"webhooks", "apiservices", "mesh"}

Owner == {<<o>> : o \in Subject} \cup (Name \X Name)

Finding ==
    [ca : CAs, src : TrustUnits, owner : Owner, ns : Name, role : Name]

Anchor ==
    [ca : CAs, src : TrustUnits, usedBy : SUBSET Owner, ns : Name, role : Name]

\* One entry for each CA, that names whoever holds it.
Merged(acc, held) ==
    /\ acc \in Seq(Anchor)
    /\ \A m, n \in DOMAIN acc : acc[m].ca = acc[n].ca => m = n
    /\ held = {p \in CAs \X Owner :
                 \E n \in DOMAIN acc : acc[n].ca = p[1] /\ p[2] \in acc[n].usedBy}

KCollecting ==
    /\ KTyped /\ Plan(todo) /\ Ends(todo)
    /\ SecretsListed /\ SecretRows /\ CertificateRows /\ RowsOnce
    /\ Merged(anchors, holders)

KCollected ==
    MissingWasLookedFor /\ CertificateOnce /\ NeverFalselyCalm /\ AnchorsMerged

KInv == IF todo # <<>> THEN KCollecting ELSE KCollected

-----------------------------------------------------------------------------
(* Kubernetes: the plan *)

LEMMA PlanSingle ==
    ASSUME NEW r \in KRequest, r.unit = "mesh" => r.of \in Mesh
    PROVE  Plan(<<r>>) /\ UnitsIn(<<r>>) = {r.unit}
<1>1. <<r>> \in Seq(KRequest) /\ DOMAIN <<r>> = {1} /\ <<r>>[1] = r
  OBVIOUS
<1>2. Stage[r.unit] <= Stage[r.unit]
  BY DEF KRequest, Stage
<1> QED
  BY <1>1, <1>2 DEF Plan, UnitsIn

LEMMA PlanEmpty == Plan(<<>>) /\ UnitsIn(<<>>) = {}
BY DEF Plan, UnitsIn

\* One plan after another.
LEMMA PlanConcat ==
    ASSUME NEW s, NEW t, Plan(s), Plan(t),
           \A u \in UnitsIn(s) : \A v \in UnitsIn(t) :
              Stage[u] <= Stage[v] /\ (u = v => u \notin {"secrets", "join"})
    PROVE  Plan(s \o t) /\ UnitsIn(s \o t) = UnitsIn(s) \cup UnitsIn(t)
<1> DEFINE both == s \o t
<1>1. s \in Seq(KRequest) /\ t \in Seq(KRequest)
  BY DEF Plan
<1>2. /\ both \in Seq(KRequest) /\ Len(s) \in Nat
      /\ \A k \in DOMAIN s : k \in DOMAIN both /\ both[k] = s[k]
      /\ \A k \in DOMAIN t : /\ Len(s) + k \in DOMAIN both
                            /\ Len(s) + k \notin DOMAIN s
                            /\ both[Len(s) + k] = t[k]
      /\ \A k \in DOMAIN both :
            k \in DOMAIN s \/ \E j \in DOMAIN t : k = Len(s) + j
  BY <1>1, ConcatIndex
<1>3. /\ DOMAIN s = 1..Len(s) /\ DOMAIN t \subseteq Nat \ {0}
      /\ \A j \in DOMAIN t : ~(Len(s) + j <= Len(s))
  BY <1>1
<1> HIDE DEF both
<1>4. UnitsIn(both) = UnitsIn(s) \cup UnitsIn(t)
  BY <1>2 DEF UnitsIn
<1>5. \A m, n \in DOMAIN both :
         \/ m \in DOMAIN s /\ n \in DOMAIN s
         \/ m \in DOMAIN s /\ \E j \in DOMAIN t : n = Len(s) + j
         \/ n \in DOMAIN s /\ \E i \in DOMAIN t : m = Len(s) + i
         \/ \E i, j \in DOMAIN t : m = Len(s) + i /\ n = Len(s) + j
  BY <1>2
<1>6. \A m \in DOMAIN s : s[m].unit \in UnitsIn(s)
  BY DEF UnitsIn
<1>7. \A m \in DOMAIN t : t[m].unit \in UnitsIn(t)
  BY DEF UnitsIn
<1>8. ASSUME NEW m \in DOMAIN both, NEW n \in DOMAIN both, m < n
      PROVE  Stage[both[m].unit] <= Stage[both[n].unit]
  <2>1. CASE m \in DOMAIN s /\ n \in DOMAIN s
    BY <1>2, <1>8, <2>1 DEF Plan
  <2>2. CASE m \in DOMAIN s /\ \E j \in DOMAIN t : n = Len(s) + j
    BY <1>2, <1>6, <1>7, <2>2
  <2>3. CASE n \in DOMAIN s /\ \E i \in DOMAIN t : m = Len(s) + i
    BY <1>2, <1>3, <1>8, <2>3
  <2>4. CASE \E i, j \in DOMAIN t : m = Len(s) + i /\ n = Len(s) + j
    <3>1. PICK i \in DOMAIN t, j \in DOMAIN t : m = Len(s) + i /\ n = Len(s) + j
      BY <2>4
    <3>2. i < j
      BY <1>2, <1>3, <1>8, <3>1
    <3> QED
      BY <1>2, <3>1, <3>2 DEF Plan
  <2> QED
    BY <1>5, <2>1, <2>2, <2>3, <2>4
<1>9. \A n \in DOMAIN both : both[n].unit = "mesh" => both[n].of \in Mesh
  BY <1>2 DEF Plan
<1>10. ASSUME NEW m \in DOMAIN both, NEW n \in DOMAIN both, m # n,
              both[m].unit = both[n].unit, both[m].unit \in {"secrets", "join"}
       PROVE  \/ \E i, j \in DOMAIN s : i # j /\ both[m] = s[i] /\ both[n] = s[j]
              \/ \E i, j \in DOMAIN t : i # j /\ both[m] = t[i] /\ both[n] = t[j]
  <2>1. CASE m \in DOMAIN s /\ n \in DOMAIN s
    BY <1>2, <1>10, <2>1
  <2>2. CASE m \in DOMAIN s /\ \E j \in DOMAIN t : n = Len(s) + j
    BY <1>2, <1>6, <1>7, <1>10, <2>2
  <2>3. CASE n \in DOMAIN s /\ \E i \in DOMAIN t : m = Len(s) + i
    BY <1>2, <1>6, <1>7, <1>10, <2>3
  <2>4. CASE \E i, j \in DOMAIN t : m = Len(s) + i /\ n = Len(s) + j
    BY <1>2, <1>10, <2>4
  <2> QED
    BY <1>5, <2>1, <2>2, <2>3, <2>4
<1>11. \A m, n \in DOMAIN both :
          m # n /\ both[m].unit = "secrets" /\ both[n].unit = "secrets" =>
             InScope(both[m].of) \cap InScope(both[n].of) = {}
  <2> SUFFICES ASSUME NEW m \in DOMAIN both, NEW n \in DOMAIN both, m # n,
                      both[m].unit = "secrets", both[n].unit = "secrets"
               PROVE  InScope(both[m].of) \cap InScope(both[n].of) = {}
    OBVIOUS
  <2>1. CASE \E i, j \in DOMAIN s : i # j /\ both[m] = s[i] /\ both[n] = s[j]
    BY <2>1 DEF Plan
  <2>2. CASE \E i, j \in DOMAIN t : i # j /\ both[m] = t[i] /\ both[n] = t[j]
    BY <2>2 DEF Plan
  <2> QED
    BY <1>10, <2>1, <2>2
<1>12. \A m, n \in DOMAIN both : both[m].unit = "join" /\ both[n].unit = "join" => m = n
  BY <1>10 DEF Plan
<1>13. Plan(both)
  BY <1>2, <1>8, <1>9, <1>11, <1>12 DEF Plan
<1> QED
  BY <1>4, <1>13 DEF both

\* One request for each of a list of things.
LEMMA PlanEach ==
    ASSUME NEW unit \in DOMAIN Stage, unit # "join",
           NEW over, over \in Seq(Subject),
           unit = "mesh" => over \in Seq(Mesh),
           unit = "secrets" =>
              \A m, n \in DOMAIN over : m # n => InScope(over[m]) \cap InScope(over[n]) = {}
    PROVE  LET s == [n \in DOMAIN over |-> Request(unit, over[n])] IN
           Plan(s) /\ UnitsIn(s) \subseteq {unit}
<1> DEFINE s == [n \in DOMAIN over |-> Request(unit, over[n])]
<1>1. /\ DOMAIN over = 1..Len(over) /\ Len(over) \in Nat
      /\ \A n \in DOMAIN over : over[n] \in Subject
  OBVIOUS
<1>2. DOMAIN s = 1..Len(over) /\ \A n \in DOMAIN s : s[n].unit = unit /\ s[n].of = over[n]
  BY <1>1 DEF Request
<1>3. \A n \in DOMAIN s : s[n] \in KRequest
  BY <1>1 DEF KRequest, Request
<1>4. s \in Seq(KRequest)
  BY <1>1, <1>3
<1>5. Stage[unit] <= Stage[unit]
  BY DEF Stage
<1>6. \A n \in DOMAIN s : unit = "mesh" => over[n] \in Mesh
  BY <1>1, <1>2
<1> HIDE DEF s
<1>7. Plan(s)
  BY <1>1, <1>2, <1>4, <1>5, <1>6 DEF Plan
<1>8. UnitsIn(s) \subseteq {unit}
  BY <1>2 DEF UnitsIn
<1> QED
  BY <1>7, <1>8 DEF s

LEMMA ScopesDisjoint ==
    ASSUME kconf \in Clusters
    PROVE  /\ Scopes \in Seq(Name) /\ Scopes \in Seq(Subject)
           /\ \A m, n \in DOMAIN Scopes : m # n =>
                 InScope(Scopes[m]) \cap InScope(Scopes[n]) = {}
<1>1. CASE kconf.namespaces = <<>>
  <2>1. Scopes = <<"*">>
    BY <1>1 DEF Scopes
  <2>2. /\ <<"*">> \in Seq(Name) /\ <<"*">> \in Seq(Subject)
        /\ DOMAIN <<"*">> = {1}
    BY DEF Subject, Name
  <2> QED
    BY <2>1, <2>2
<1>2. CASE kconf.namespaces # <<>>
  <2> DEFINE names == kconf.namespaces
  <2>1. /\ Scopes = names /\ names \in Seq(Range(names))
        /\ IsInjective(Scopes) /\ "*" \notin Range(Scopes)
    BY <1>2, ClustersAssumption DEF Scopes
  <2>2. \A m, n \in DOMAIN Scopes : m # n => Scopes[m] # Scopes[n]
    BY <2>1 DEF IsInjective
  <2>3. \A m \in DOMAIN Scopes : Scopes[m] # "*"
    BY <2>1 DEF Range
  <2>4. \A m \in DOMAIN Scopes : \A k \in InScope(Scopes[m]) : k.ns = Scopes[m]
    BY <2>3 DEF InScope
  <2>5. Range(names) \subseteq Name
    <3>1. Range(names) \subseteq Namespaces
      BY Zenon DEF Namespaces
    <3> QED
      BY <3>1, Zenon DEF Name
  <2> HIDE DEF names
  <2>6. Scopes \in Seq(Name)
    BY <2>1, <2>5
  <2>7. Scopes \in Seq(Subject)
    BY <2>6 DEF Subject
  <2>8. ASSUME NEW m \in DOMAIN Scopes, NEW n \in DOMAIN Scopes, m # n
        PROVE  InScope(Scopes[m]) \cap InScope(Scopes[n]) = {}
    BY <2>2, <2>4, <2>8
  <2> QED
    BY <2>6, <2>7, <2>8
<1> QED
  BY <1>1, <1>2

LEMMA MeshAnchorsType == MeshAnchors \in Seq(Mesh)
<1>1. DefaultMeshAnchors \in Seq(Mesh)
  BY DEF DefaultMeshAnchors, Mesh, AnchorKey, MeshKey, Name
<1>2. SigningSecretAnchors \in Seq(Mesh)
  BY DEF SigningSecretAnchors, Mesh, AnchorKey, MeshKey, Name
<1> HIDE DEF Mesh, DefaultMeshAnchors, SigningSecretAnchors
<1>3. (IF kconf.signing THEN SigningSecretAnchors ELSE <<>>) \in Seq(Mesh)
  BY <1>2
<1> QED
  BY <1>1, <1>3 DEF MeshAnchors

\* Collect asks in order, reads no Secret twice, joins what it reads, and ends.
LEMMA RequestsPlan ==
    ASSUME kconf \in Clusters
    PROVE  Plan(Requests) /\ Ends(Requests) /\ Requests # <<>>
<1> DEFINE secret == IF kconf.skipSecrets THEN <<>>
                     ELSE PerScope("ingresses") \o PerScope("secrets")
           certificate == IF kconf.certManager
                          THEN Append(PerScope("certificates"), Request("join", "certificates"))
                          ELSE <<>>
           bundle == <<Request("webhooks", "validating"), Request("webhooks", "mutating"),
                       Request("apiservices", "apiservices")>>
           meshes == [n \in DOMAIN MeshAnchors |-> Request("mesh", MeshAnchors[n])]
           trust == IF kconf.trust THEN bundle \o meshes ELSE <<>>
           last == <<Request("finish", "all")>>
<1>1. ASSUME NEW unit \in {"ingresses", "secrets", "certificates"}
      PROVE  Plan(PerScope(unit)) /\ UnitsIn(PerScope(unit)) \subseteq {unit}
  <2>1. unit \in DOMAIN Stage /\ unit # "join" /\ unit # "mesh"
    BY DEF Stage
  <2> QED
    BY <2>1, ScopesDisjoint, PlanEach DEF PerScope
<1>2. Plan(secret) /\ UnitsIn(secret) \subseteq {"ingresses", "secrets"}
  <2>1. /\ Plan(PerScope("ingresses") \o PerScope("secrets"))
        /\ UnitsIn(PerScope("ingresses") \o PerScope("secrets"))
             = UnitsIn(PerScope("ingresses")) \cup UnitsIn(PerScope("secrets"))
    <3>1. \A u \in UnitsIn(PerScope("ingresses")) : \A v \in UnitsIn(PerScope("secrets")) :
             Stage[u] <= Stage[v] /\ (u = v => u \notin {"secrets", "join"})
      BY <1>1 DEF Stage
    <3> QED
      BY <1>1, <3>1, PlanConcat
  <2> QED
    BY <1>1, <2>1, PlanEmpty
<1>3. /\ Plan(certificate) /\ UnitsIn(certificate) \subseteq {"certificates", "join"}
      /\ "certificates" \in UnitsIn(certificate) => "join" \in UnitsIn(certificate)
  <2> DEFINE join == Request("join", "certificates")
             s == PerScope("certificates")
  <2>1. join \in KRequest /\ join.unit = "join"
    BY DEF Request, KRequest, Subject, Stage, Name
  <2> HIDE DEF join
  <2>2. Plan(<<join>>) /\ UnitsIn(<<join>>) = {"join"}
    BY <2>1, PlanSingle
  <2>3. Plan(s) /\ UnitsIn(s) \subseteq {"certificates"}
    BY <1>1
  <2> HIDE DEF s
  <2>4. \A u \in UnitsIn(s) : \A v \in UnitsIn(<<join>>) :
           Stage[u] <= Stage[v] /\ (u = v => u \notin {"secrets", "join"})
    BY <2>2, <2>3 DEF Stage
  <2>5. Plan(s \o <<join>>) /\ UnitsIn(s \o <<join>>) = UnitsIn(s) \cup {"join"}
    BY <2>2, <2>3, <2>4, PlanConcat
  <2>6. Append(s, join) = s \o <<join>>
    BY <2>1, <2>3 DEF Plan
  <2> QED
    BY <2>3, <2>5, <2>6, PlanEmpty DEF join, s
<1>4. Plan(bundle) /\ UnitsIn(bundle) \subseteq {"webhooks", "apiservices"}
  <2>1. /\ bundle \in Seq(KRequest) /\ DOMAIN bundle = 1..3
        /\ \A n \in DOMAIN bundle : bundle[n].unit \in {"webhooks", "apiservices"}
        /\ \A n \in DOMAIN bundle : Stage[bundle[n].unit] = 5
    BY DEF Request, KRequest, Subject, Stage, Name
  <2> HIDE DEF bundle
  <2> QED
    BY <2>1 DEF Plan, UnitsIn
<1>5. Plan(meshes) /\ UnitsIn(meshes) \subseteq {"mesh"}
  <2>1. MeshAnchors \in Seq(Subject)
    BY MeshAnchorsType DEF Subject
  <2>2. "mesh" \in DOMAIN Stage
    BY DEF Stage
  <2> QED
    BY <2>1, <2>2, MeshAnchorsType, PlanEach
<1> HIDE DEF secret, certificate, bundle, meshes
<1>6. Plan(trust) /\ UnitsIn(trust) \subseteq {"webhooks", "apiservices", "mesh"}
  <2>1. \A u \in UnitsIn(bundle) : \A v \in UnitsIn(meshes) :
           Stage[u] <= Stage[v] /\ (u = v => u \notin {"secrets", "join"})
    BY <1>4, <1>5 DEF Stage
  <2>2. Plan(bundle \o meshes) /\ UnitsIn(bundle \o meshes) = UnitsIn(bundle) \cup UnitsIn(meshes)
    BY <1>4, <1>5, <2>1, PlanConcat
  <2> QED
    BY <1>4, <1>5, <2>2, PlanEmpty
<1> HIDE DEF trust
<1>7. Plan(last) /\ UnitsIn(last) = {"finish"}
  <2>1. Request("finish", "all") \in KRequest /\ Request("finish", "all").unit = "finish"
    BY DEF Request, KRequest, Subject, Stage, Name
  <2> HIDE DEF Request
  <2> QED
    BY <2>1, PlanSingle
<1> HIDE DEF last
<1>8. /\ Plan(secret \o certificate)
      /\ UnitsIn(secret \o certificate) = UnitsIn(secret) \cup UnitsIn(certificate)
  <2>1. \A u \in UnitsIn(secret) : \A v \in UnitsIn(certificate) :
           Stage[u] <= Stage[v] /\ (u = v => u \notin {"secrets", "join"})
    BY <1>2, <1>3 DEF Stage
  <2> QED
    BY <1>2, <1>3, <2>1, PlanConcat
<1>9. /\ Plan(secret \o certificate \o trust)
      /\ UnitsIn(secret \o certificate \o trust)
           = UnitsIn(secret) \cup UnitsIn(certificate) \cup UnitsIn(trust)
  <2>1. \A u \in UnitsIn(secret \o certificate) : \A v \in UnitsIn(trust) :
           Stage[u] <= Stage[v] /\ (u = v => u \notin {"secrets", "join"})
    BY <1>2, <1>3, <1>6, <1>8 DEF Stage
  <2> QED
    BY <1>6, <1>8, <2>1, PlanConcat
<1>10. /\ Plan(secret \o certificate \o trust \o last)
       /\ UnitsIn(secret \o certificate \o trust \o last)
            = UnitsIn(secret) \cup UnitsIn(certificate) \cup UnitsIn(trust) \cup {"finish"}
  <2>1. \A u \in UnitsIn(secret \o certificate \o trust) : \A v \in UnitsIn(last) :
           Stage[u] <= Stage[v] /\ (u = v => u \notin {"secrets", "join"})
    BY <1>2, <1>3, <1>6, <1>7, <1>9 DEF Stage
  <2> QED
    BY <1>7, <1>9, <2>1, PlanConcat
<1>11. Requests = secret \o certificate \o trust \o last
  BY DEF Requests, secret, certificate, trust, bundle, meshes, last
<1>12. Ends(Requests)
  BY <1>2, <1>3, <1>6, <1>10, <1>11 DEF Ends
<1>13. Requests # <<>>
  BY <1>12, PlanEmpty DEF Ends
<1> QED
  BY <1>10, <1>11, <1>12, <1>13

\* The request that is next, and those that are left after it.
LEMMA PlanTail ==
    ASSUME NEW s, s # <<>>, Plan(s), Ends(s)
    PROVE  LET h == Head(s)
               t == Tail(s)
           IN /\ h \in KRequest /\ (h.unit = "mesh" => h.of \in Mesh)
              /\ Plan(t)
              /\ UnitsIn(s) = {h.unit} \cup UnitsIn(t)
              /\ \A u \in UnitsIn(s) : Stage[h.unit] <= Stage[u]
              /\ h.unit = "join" => "join" \notin UnitsIn(t)
              /\ \A k \in DOMAIN t : \E j \in DOMAIN s : t[k] = s[j]
              /\ h.unit = "secrets" =>
                    \A k \in DOMAIN t : t[k].unit = "secrets" =>
                       InScope(t[k].of) \cap InScope(h.of) = {}
              /\ h.unit # "finish" => Ends(t) /\ t # <<>>
<1> DEFINE h == Head(s)
           t == Tail(s)
<1>1. s \in Seq(KRequest)
  BY DEF Plan
<1>2. /\ t \in Seq(KRequest) /\ h \in KRequest
      /\ 1 \in DOMAIN s /\ s[1] = h
      /\ \A k \in DOMAIN t :
            k \in Nat /\ k + 1 \in DOMAIN s /\ k + 1 # 1 /\ t[k] = s[k + 1]
      /\ \A k \in DOMAIN s \ {1} : k - 1 \in DOMAIN t
  BY <1>1, TailIndex
<1>3. DOMAIN s \subseteq Nat \ {0}
  BY <1>1
<1> HIDE DEF h, t
<1>4. \A k \in DOMAIN s \ {1} : k - 1 \in DOMAIN t /\ t[k - 1] = s[k]
  BY <1>2, <1>3
<1>5. UnitsIn(s) = {h.unit} \cup UnitsIn(t)
  <2>1. UnitsIn(s) \subseteq {h.unit} \cup UnitsIn(t)
    BY <1>2, <1>4 DEF UnitsIn
  <2>2. UnitsIn(t) \subseteq UnitsIn(s)
    BY <1>2 DEF UnitsIn
  <2>3. h.unit \in UnitsIn(s)
    BY <1>2 DEF UnitsIn
  <2> QED
    BY <2>1, <2>2, <2>3
<1>6. h.unit = "mesh" => h.of \in Mesh
  BY <1>2 DEF Plan
<1>7. ASSUME NEW u \in UnitsIn(s) PROVE Stage[h.unit] <= Stage[u]
  <2>1. PICK k \in DOMAIN s : u = s[k].unit
    BY DEF UnitsIn
  <2>2. CASE k = 1
    <3>1. Stage[h.unit] <= Stage[h.unit]
      BY <1>2 DEF KRequest, Stage
    <3> QED
      BY <1>2, <2>1, <2>2, <3>1
  <2>3. CASE k # 1
    <3>1. 1 < k
      BY <1>3, <2>3
    <3> QED
      BY <1>2, <2>1, <3>1 DEF Plan
  <2> QED
    BY <2>2, <2>3
<1>8. \A k \in DOMAIN t : \E j \in DOMAIN s : t[k] = s[j]
  BY <1>2
<1>9. h.unit = "join" => "join" \notin UnitsIn(t)
  BY <1>2 DEF Plan, UnitsIn
<1>10. h.unit = "secrets" =>
          \A k \in DOMAIN t : t[k].unit = "secrets" => InScope(t[k].of) \cap InScope(h.of) = {}
  BY <1>2 DEF Plan
<1>11. Plan(t)
  <2>1. ASSUME NEW m \in DOMAIN t, NEW n \in DOMAIN t, m < n
        PROVE  Stage[t[m].unit] <= Stage[t[n].unit]
    <3>1. m + 1 < n + 1 /\ m + 1 \in DOMAIN s /\ n + 1 \in DOMAIN s
      BY <1>2, <2>1
    <3>2. Stage[s[m + 1].unit] <= Stage[s[n + 1].unit]
      BY <3>1 DEF Plan
    <3> QED
      BY <1>2, <3>2
  <2>2. \A n \in DOMAIN t : t[n].unit = "mesh" => t[n].of \in Mesh
    BY <1>2 DEF Plan
  <2>3. \A m, n \in DOMAIN t : m + 1 = n + 1 => m = n
    BY <1>2
  <2>4. ASSUME NEW m \in DOMAIN t, NEW n \in DOMAIN t, m # n,
               t[m].unit = "secrets", t[n].unit = "secrets"
        PROVE  InScope(t[m].of) \cap InScope(t[n].of) = {}
    <3>1. /\ m + 1 # n + 1 /\ m + 1 \in DOMAIN s /\ n + 1 \in DOMAIN s
          /\ t[m] = s[m + 1] /\ t[n] = s[n + 1]
      BY <1>2, <2>3, <2>4
    <3>2. InScope(s[m + 1].of) \cap InScope(s[n + 1].of) = {}
      BY <2>4, <3>1 DEF Plan
    <3> QED
      BY <3>1, <3>2
  <2>5. \A m, n \in DOMAIN t : t[m].unit = "join" /\ t[n].unit = "join" => m = n
    BY <1>2, <2>3 DEF Plan
  <2> QED
    BY <1>2, <2>1, <2>2, <2>4, <2>5 DEF Plan
<1>12. ASSUME h.unit # "finish" PROVE Ends(t) /\ t # <<>>
  <2>1. "finish" \in UnitsIn(t)
    BY <1>5, <1>12 DEF Ends
  <2>2. ASSUME "certificates" \in UnitsIn(t) PROVE "join" \in UnitsIn(t)
    <3>1. "join" \in UnitsIn(s) /\ Stage[h.unit] <= Stage["certificates"]
      BY <1>5, <1>7, <2>2 DEF Ends
    <3>2. h.unit # "join"
      BY <3>1 DEF Stage
    <3> QED
      BY <1>5, <3>1, <3>2
  <2>3. t # <<>>
    BY <2>1, PlanEmpty
  <2> QED
    BY <2>1, <2>2, <2>3 DEF Ends
<1> QED
  BY <1>2, <1>5, <1>6, <1>7, <1>8, <1>9, <1>10, <1>11, <1>12 DEF h, t

-----------------------------------------------------------------------------
(* Kubernetes: the accumulator of CAs *)

\* Everything that is found is a CA, with its owner.
LEMMA FoundType ==
    ASSUME NEW bundle \in Bundles, NEW src \in TrustUnits, NEW owner \in Owner,
           NEW ns \in Name, NEW role \in Name
    PROVE  Found(bundle, src, owner, ns, role) \in Seq(Finding)
<1> DEFINE found == Found(bundle, src, owner, ns, role)
<1>1. CASE Junk(bundle)
  <2>1. found = [n \in {} |-> [ca |-> bundle[n], src |-> src, owner |-> owner, ns |-> ns,
                               role |-> role]]
    BY <1>1, Zenon DEF Found
  <2>2. found \in Seq(Finding) <=> <<>> \in Seq(Finding)
    BY <2>1
  <2> QED
    BY <2>2
<1>2. CASE ~Junk(bundle)
  <2>1. bundle \in Seq(CAs)
    <3>1. SetToSeq(CAs) \in Seq(CAs)
      BY CAsAssumption, SetToSeqLists
    <3>2. bundle = <<>> \/ (\E c \in CAs : bundle = <<c>>) \/ bundle = SetToSeq(CAs)
      BY <1>2 DEF Bundles, Junk
    <3>3. \A c \in CAs : <<c>> \in Seq(CAs)
      OBVIOUS
    <3>4. <<>> \in Seq(CAs)
      OBVIOUS
    <3> QED
      BY <3>1, <3>2, <3>3, <3>4, Zenon
  <2>2. found = [n \in DOMAIN bundle |-> [ca |-> bundle[n], src |-> src, owner |-> owner,
                                          ns |-> ns, role |-> role]]
    BY <1>2, Zenon DEF Found
  <2>3. DOMAIN bundle = 1..Len(bundle) /\ Len(bundle) \in Nat
    BY <2>1
  <2>4. \A n \in DOMAIN bundle : [ca |-> bundle[n], src |-> src, owner |-> owner, ns |-> ns,
                                  role |-> role] \in Finding
    BY <2>1 DEF Finding
  <2> DEFINE one(n) == [ca |-> bundle[n], src |-> src, owner |-> owner, ns |-> ns, role |-> role]
  <2>5. found = [n \in 1..Len(bundle) |-> one(n)]
    BY <2>2, <2>3
  <2>6. \A n \in 1..Len(bundle) : one(n) \in Finding
    BY <2>3, <2>4
  <2> HIDE DEF found, one
  <2>7. found \in [1..Len(bundle) -> Finding]
    BY <2>5, <2>6
  <2>8. found \in Seq(Finding)
    BY <2>3, <2>7
  <2> QED
    BY <2>8 DEF found
<1> QED
  BY <1>1, <1>2

\* What is found about a CA is added to its entry, or makes one.
LEMMA AddCAMerges ==
    ASSUME NEW acc, NEW held, Merged(acc, held), NEW f \in Finding
    PROVE  Merged(AddCA(acc, f), held \cup {<<f.ca, f.owner>>})
<1> DEFINE more == held \cup {<<f.ca, f.owner>>}
           new == AddCA(acc, f)
<1>1. /\ f.ca \in CAs /\ f.src \in TrustUnits /\ f.owner \in Owner /\ f.ns \in Name
      /\ f.role \in Name /\ acc \in Seq(Anchor)
  BY DEF Finding, Merged
<1>2. held = {p \in CAs \X Owner :
                 \E n \in DOMAIN acc : acc[n].ca = p[1] /\ p[2] \in acc[n].usedBy}
  BY DEF Merged
<1>3. \A n \in DOMAIN acc :
         /\ acc[n].ca \in CAs /\ acc[n].src \in TrustUnits /\ acc[n].usedBy \subseteq Owner
         /\ acc[n].ns \in Name /\ acc[n].role \in Name /\ acc[n] \in Anchor
  <2>1. \A n \in DOMAIN acc : acc[n] \in Anchor
    BY <1>1
  <2> QED
    BY <2>1 DEF Anchor
<1>4. CASE \E n \in DOMAIN acc : acc[n].ca = f.ca
  <2> DEFINE to(a) == [a EXCEPT !.usedBy = @ \cup {f.owner},
                                !.ns = IF @ = "none" THEN f.ns ELSE @,
                                !.role = IF @ = "none" THEN f.role ELSE @]
  <2>1. new = [n \in DOMAIN acc |-> IF acc[n].ca # f.ca THEN acc[n] ELSE to(acc[n])]
    BY <1>4, Zenon DEF AddCA
  <2>2. ASSUME NEW n \in DOMAIN acc
        PROVE  /\ to(acc[n]) \in Anchor /\ to(acc[n]).ca = acc[n].ca
               /\ to(acc[n]).usedBy = acc[n].usedBy \cup {f.owner}
    <3>1. acc[n] \in Anchor
      BY <1>3
    <3> QED
      BY <1>1, <3>1 DEF Anchor
  <2> HIDE DEF to, new
  <2>3. /\ DOMAIN new = DOMAIN acc
        /\ \A n \in DOMAIN new :
              /\ new[n] \in Anchor /\ new[n].ca = acc[n].ca
              /\ new[n].usedBy = IF acc[n].ca = f.ca THEN acc[n].usedBy \cup {f.owner}
                                 ELSE acc[n].usedBy
    BY <1>3, <2>1, <2>2
  <2>4. new \in Seq(Anchor)
    <3>1. DOMAIN acc = 1..Len(acc) /\ Len(acc) \in Nat
      BY <1>1
    <3>2. \A n \in 1..Len(acc) : (IF acc[n].ca # f.ca THEN acc[n] ELSE to(acc[n])) \in Anchor
      BY <1>3, <2>2, <3>1
    <3> QED
      BY <2>1, <3>1, <3>2
  <2>5. \A m, n \in DOMAIN new : new[m].ca = new[n].ca => m = n
    BY <2>3 DEF Merged
  <2>6. ASSUME NEW c \in CAs, NEW o \in Owner
        PROVE  <<c, o>> \in more <=> \E n \in DOMAIN new : new[n].ca = c /\ o \in new[n].usedBy
    <3>1. <<c, o>> \in held <=> \E n \in DOMAIN acc : acc[n].ca = c /\ o \in acc[n].usedBy
      BY <1>2
    <3>2. <<c, o>> \in more <=> <<c, o>> \in held \/ (c = f.ca /\ o = f.owner)
      OBVIOUS
    <3> HIDE DEF more
    <3> QED
      BY <1>4, <2>3, <3>1, <3>2
  <2>7. more \subseteq CAs \X Owner
    BY <1>1, <1>2
  <2>8. more = {p \in CAs \X Owner :
                  \E n \in DOMAIN new : new[n].ca = p[1] /\ p[2] \in new[n].usedBy}
    <3> HIDE DEF more
    <3> QED
      BY <2>6, <2>7
  <2> QED
    BY <2>4, <2>5, <2>8 DEF Merged, new
<1>5. CASE \A n \in DOMAIN acc : acc[n].ca # f.ca
  <2> DEFINE a == [ca |-> f.ca, src |-> f.src, usedBy |-> {f.owner}, ns |-> f.ns,
                   role |-> f.role]
  <2>1. a \in Anchor /\ a.ca = f.ca /\ a.usedBy = {f.owner}
    BY <1>1 DEF Anchor
  <2>2. new = Append(acc, a)
    BY <1>5, Zenon DEF AddCA
  <2> HIDE DEF a, new
  <2>3. /\ new \in Seq(Anchor) /\ DOMAIN new = DOMAIN acc \cup {Len(acc) + 1}
        /\ \A n \in DOMAIN acc : n # Len(acc) + 1 /\ new[n] = acc[n]
        /\ new[Len(acc) + 1] = a
    BY <1>1, <2>1, <2>2, AppendIndex
  <2>4. \A m, n \in DOMAIN new : new[m].ca = new[n].ca => m = n
    BY <1>5, <2>1, <2>3 DEF Merged
  <2>5. ASSUME NEW c \in CAs, NEW o \in Owner
        PROVE  <<c, o>> \in more <=> \E n \in DOMAIN new : new[n].ca = c /\ o \in new[n].usedBy
    <3>1. <<c, o>> \in held <=> \E n \in DOMAIN acc : acc[n].ca = c /\ o \in acc[n].usedBy
      BY <1>2
    <3>2. <<c, o>> \in more <=> <<c, o>> \in held \/ (c = f.ca /\ o = f.owner)
      OBVIOUS
    <3> HIDE DEF more
    <3> QED
      BY <2>1, <2>3, <3>1, <3>2
  <2>6. more \subseteq CAs \X Owner
    BY <1>1, <1>2
  <2>7. more = {p \in CAs \X Owner :
                  \E n \in DOMAIN new : new[n].ca = p[1] /\ p[2] \in new[n].usedBy}
    <3> HIDE DEF more
    <3> QED
      BY <2>5, <2>6
  <2> QED
    BY <2>3, <2>4, <2>7 DEF Merged, new
<1> QED
  BY <1>4, <1>5

\* So is a list of findings.
LEMMA AddAllMerges ==
    ASSUME NEW acc, NEW held, Merged(acc, held), NEW found \in Seq(Finding)
    PROVE  Merged(AddAll(acc, found),
                  held \cup {<<found[n].ca, found[n].owner>> : n \in DOMAIN found})
<1> DEFINE L == Len(found)
           Fix(g, n) == g = [i \in 0..n |-> IF i = 0 THEN acc ELSE AddCA(g[i - 1], found[i])]
           Upto(n) == held \cup {<<found[i].ca, found[i].owner>> : i \in 1..n}
<1>1. L \in Nat /\ DOMAIN found = 1..L /\ \A i \in 1..L : found[i] \in Finding
  OBVIOUS
<1> HIDE DEF L
<1>2. \E g : Fix(g, L)
  <2> DEFINE M == {n \in Nat : \E g : Fix(g, n)}
  <2>1. 0 \in M
    <3>1. Fix([i \in 0..0 |-> acc], 0)
      <4>1. \A i \in 0..0 : i = 0
        OBVIOUS
      <4> QED
        BY <4>1
    <3> QED
      BY <3>1
  <2>2. ASSUME NEW n \in Nat, n \in M PROVE n + 1 \in M
    <3>1. PICK g : Fix(g, n)
      BY <2>2
    <3> DEFINE h == [i \in 0..(n + 1) |-> IF i = 0 THEN acc ELSE AddCA(g[i - 1], found[i])]
    <3>2. \A i \in 0..n : h[i] = g[i]
      <4>1. \A i \in 0..n : g[i] = IF i = 0 THEN acc ELSE AddCA(g[i - 1], found[i])
        BY <3>1
      <4>2. \A i \in 0..n : i \in 0..(n + 1)
        OBVIOUS
      <4> QED
        BY <4>1, <4>2
    <3>3. \A i \in 0..(n + 1) : i # 0 => i - 1 \in 0..n
      OBVIOUS
    <3>4. \A i \in 0..(n + 1) : i # 0 => g[i - 1] = h[i - 1]
      BY <3>2, <3>3
    <3>5. h = [i \in 0..(n + 1) |-> IF i = 0 THEN acc ELSE AddCA(h[i - 1], found[i])]
      BY <3>4
    <3> HIDE DEF h
    <3>6. Fix(h, n + 1)
      BY <3>5
    <3> HIDE DEF Fix
    <3> QED
      BY <3>6
  <2> HIDE DEF M
  <2>3. \A n \in Nat : n \in M
    BY <2>1, <2>2, NatInduct
  <2> QED
    BY <1>1, <2>3 DEF M
<1>3. PICK f : Fix(f, L) /\ AddAll(acc, found) = f[L]
  <2>1. \E f : /\ f = [n \in 0..L |-> IF n = 0 THEN acc ELSE AddCA(f[n - 1], found[n])]
               /\ AddAll(acc, found) = f[L]
    BY <1>2 DEF AddAll, L
  <2> QED
    BY <2>1
<1>4. /\ f[0] = acc
      /\ \A n \in Nat : n + 1 <= L => f[n + 1] = AddCA(f[n], found[n + 1])
  <2>1. \A i \in 0..L : f[i] = IF i = 0 THEN acc ELSE AddCA(f[i - 1], found[i])
    BY <1>3
  <2>2. 0 \in 0..L /\ \A n \in Nat : n + 1 # 0 /\ (n + 1) - 1 = n
    BY <1>1
  <2>3. \A n \in Nat : n + 1 <= L => n + 1 \in 0..L
    BY <1>1
  <2> QED
    BY <2>1, <2>2, <2>3
<1> HIDE DEF Fix
<1> DEFINE M == {n \in Nat : n <= L => Merged(f[n], Upto(n))}
<1>5. 0 \in M
  <2>1. Upto(0) = held
    OBVIOUS
  <2> HIDE DEF Upto
  <2> QED
    BY <1>4, <2>1
<1>6. ASSUME NEW n \in Nat, n \in M PROVE n + 1 \in M
  <2> SUFFICES ASSUME n + 1 <= L PROVE Merged(f[n + 1], Upto(n + 1))
    OBVIOUS
  <2>1. Merged(f[n], Upto(n)) /\ found[n + 1] \in Finding
    BY <1>1, <1>6
  <2>2. Upto(n + 1) = Upto(n) \cup {<<found[n + 1].ca, found[n + 1].owner>>}
    <3>1. 1..(n + 1) = 1..n \cup {n + 1}
      OBVIOUS
    <3> QED
      BY <3>1
  <2> HIDE DEF Upto
  <2> QED
    BY <1>4, <2>1, <2>2, AddCAMerges
<1> HIDE DEF M
<1>7. \A n \in Nat : n \in M
  BY <1>5, <1>6, NatInduct
<1>8. Merged(f[L], Upto(L))
  <2>1. L \in M /\ L <= L
    BY <1>1, <1>7
  <2> HIDE DEF Upto
  <2> QED
    BY <2>1 DEF M
<1> QED
  BY <1>1, <1>3, <1>8

-----------------------------------------------------------------------------
(* Kubernetes: the rows *)

LEMMA KeyedFinite ==
    ASSUME NEW rows, \A i \in rows : i.key \in Keys,
           \A i, j \in rows : i.key = j.key => i = j
    PROVE  IsFiniteSet(rows)
<1> DEFINE f == [i \in rows |-> i.key]
<1>1. f \in Injection(rows, Keys)
  BY DEF Injection, IsInjective
<1> QED
  BY <1>1, KeysAssumption, FS_Injection

Parsed(k) == k \in DOMAIN secrets /\ secrets[k] = "parsed"

\* A Certificate is one row at most, none where its Secret was parsed, and one
\* wherever there is a date.
LEMMA CertificateItemsOnce ==
    ASSUME KTyped
    PROVE  /\ \A i \in CertificateItems :
                 /\ i \in CertRow /\ i.src = "cert-manager"
                 /\ i.key \in DOMAIN certs /\ i.key \in Keys /\ ~Parsed(i.key)
                 /\ i.state = "missing" => i.key \notin DOMAIN secrets /\ ReadSecretsIn(i.key.ns)
                 /\ i.renewal = RenewalFor(certs[i.key], i.state)
           /\ \A i, j \in CertificateItems : i.key = j.key => i = j
           /\ \A k \in DOMAIN certs :
                 certs[k].dated /\ ~Parsed(k) => \E i \in CertificateItems : i.key = k
           /\ DOMAIN certs = {} => CertificateItems = {}
           /\ IsFiniteSet(CertificateItems)
<1> DEFINE Unreadable(k) == k \in DOMAIN secrets /\ secrets[k] = "unreadable"
           Unread(k) == k \notin DOMAIN secrets /\ ~ReadSecretsIn(k.ns)
           Lost(k) == k \notin DOMAIN secrets /\ ReadSecretsIn(k.ns)
           U == {CertManagerItem(k, "issued", "unreadable") :
                    k \in {k \in DOMAIN certs : Unreadable(k) /\ certs[k].dated}}
           V == {CertManagerItem(k, "issued", "none") :
                    k \in {k \in DOMAIN certs : Unread(k) /\ certs[k].dated}}
           W == {CertManagerItem(k, IF certs[k].dated THEN "issued" ELSE "now", "missing") :
                    k \in {k \in DOMAIN certs : Lost(k)}}
<1>1. CertificateItems = U \cup V \cup W
  BY Zenon DEF CertificateItems
<1>2. ASSUME NEW k \in DOMAIN certs, NEW e \in {"issued", "now"},
             NEW state \in {"none", "unreadable", "missing"}
      PROVE  LET i == CertManagerItem(k, e, state) IN
             /\ i \in CertRow /\ i.src = "cert-manager" /\ i.key = k
             /\ i.state = state /\ i.renewal = RenewalFor(certs[k], state)
  <2>1. RenewalFor(certs[k], state) \in {"none", "stuck", "managed"}
    BY DEF RenewalFor, RenewalState
  <2>2. k \in Keys
    BY DEF KTyped
  <2> HIDE DEF RenewalFor
  <2> QED
    BY <2>1, <2>2 DEF CertManagerItem, CertRow
<1>3. \A i \in U : \E k \in DOMAIN certs :
         i = CertManagerItem(k, "issued", "unreadable") /\ Unreadable(k)
  OBVIOUS
<1>4. \A i \in V : \E k \in DOMAIN certs :
         i = CertManagerItem(k, "issued", "none") /\ Unread(k)
  OBVIOUS
<1>5. \A i \in W : \E k \in DOMAIN certs :
         /\ i = CertManagerItem(k, IF certs[k].dated THEN "issued" ELSE "now", "missing")
         /\ Lost(k)
  OBVIOUS
<1>6. ASSUME NEW k \in DOMAIN certs
      PROVE  /\ Unreadable(k) /\ certs[k].dated => CertManagerItem(k, "issued", "unreadable") \in U
             /\ Unread(k) /\ certs[k].dated => CertManagerItem(k, "issued", "none") \in V
             /\ Lost(k) =>
                   CertManagerItem(k, IF certs[k].dated THEN "issued" ELSE "now", "missing") \in W
  OBVIOUS
<1> HIDE DEF U, V, W
<1>7. \A i \in U : /\ i \in CertRow /\ i.src = "cert-manager" /\ i.key \in DOMAIN certs
                   /\ Unreadable(i.key) /\ i.state = "unreadable"
                   /\ i.renewal = RenewalFor(certs[i.key], i.state)
                   /\ i = CertManagerItem(i.key, "issued", "unreadable")
  BY <1>2, <1>3
<1>8. \A i \in V : /\ i \in CertRow /\ i.src = "cert-manager" /\ i.key \in DOMAIN certs
                   /\ Unread(i.key) /\ i.state = "none"
                   /\ i.renewal = RenewalFor(certs[i.key], i.state)
                   /\ i = CertManagerItem(i.key, "issued", "none")
  BY <1>2, <1>4
<1>9. \A i \in W : /\ i \in CertRow /\ i.src = "cert-manager" /\ i.key \in DOMAIN certs
                   /\ Lost(i.key) /\ i.state = "missing"
                   /\ i.renewal = RenewalFor(certs[i.key], i.state)
                   /\ i = CertManagerItem(i.key, IF certs[i.key].dated THEN "issued" ELSE "now",
                                          "missing")
  <2>1. \A k : (IF certs[k].dated THEN "issued" ELSE "now") \in {"issued", "now"}
    OBVIOUS
  <2> QED
    BY <1>2, <1>5, <2>1
<1>10. ASSUME NEW i \in CertificateItems
       PROVE  /\ i \in CertRow /\ i.src = "cert-manager"
              /\ i.key \in DOMAIN certs /\ i.key \in Keys /\ ~Parsed(i.key)
              /\ i.state = "missing" => i.key \notin DOMAIN secrets /\ ReadSecretsIn(i.key.ns)
              /\ i.renewal = RenewalFor(certs[i.key], i.state)
  BY <1>1, <1>7, <1>8, <1>9 DEF Parsed, KTyped
<1>11. ASSUME NEW i \in CertificateItems, NEW j \in CertificateItems, i.key = j.key PROVE i = j
  BY <1>1, <1>7, <1>8, <1>9, <1>11
<1>12. ASSUME NEW k \in DOMAIN certs, certs[k].dated, ~Parsed(k)
       PROVE  \E i \in CertificateItems : i.key = k
  <2>1. Unreadable(k) \/ Unread(k) \/ Lost(k)
    BY <1>12 DEF Parsed, KTyped
  <2> QED
    BY <1>1, <1>2, <1>6, <1>12, <2>1
<1>13. DOMAIN certs = {} => CertificateItems = {}
  BY <1>10
<1>14. IsFiniteSet(CertificateItems)
  BY <1>10, <1>11, KeyedFinite
<1> QED
  BY <1>10, <1>11, <1>12, <1>13, <1>14

LEMMA SecretItemType ==
    ASSUME NEW k \in Keys
    PROVE  SecretItem(k) \in CertRow /\ SecretItem(k).src = "secret" /\ SecretItem(k).key = k
BY DEF SecretItem, CertRow

-----------------------------------------------------------------------------
(* Kubernetes: the steps *)

LEMMA KInitStep == KInit => KInv
<1> SUFFICES ASSUME KInit PROVE KInv
  OBVIOUS
<1> USE DEF KInit
<1>1. Plan(todo) /\ Ends(todo) /\ todo # <<>>
  BY RequestsPlan
<1>2. DOMAIN secrets = {} /\ DOMAIN certs = {} /\ DOMAIN kitems = {} /\ DOMAIN anchors = {}
  OBVIOUS
<1>3. KTyped
  BY <1>2 DEF KTyped
<1>4. SecretsListed
  BY <1>2 DEF SecretsListed
<1>5. SecretRows
  BY <1>2 DEF SecretRows
<1>6. CertificateRows
  BY <1>2, <1>3, CertificateItemsOnce DEF CertificateRows
<1>7. RowsOnce
  BY <1>2 DEF RowsOnce
<1>8. Merged(anchors, holders)
  <2>1. anchors \in Seq(Anchor) /\ holders = {}
    OBVIOUS
  <2> QED
    BY <1>2, <2>1 DEF Merged
<1> QED
  BY <1>1, <1>3, <1>4, <1>5, <1>6, <1>7, <1>8 DEF KInv, KCollecting

\* Collect goes on with the next request.
LEMMA Proceeds ==
    ASSUME KInv, todo # <<>>, Head(todo).unit # "finish", todo' = Tail(todo)
    PROVE  /\ KCollecting
           /\ Plan(todo') /\ Ends(todo') /\ todo' # <<>>
           /\ UnitsIn(todo) = {Head(todo).unit} \cup UnitsIn(todo')
           /\ \A u \in UnitsIn(todo) : Stage[Head(todo).unit] <= Stage[u]
           /\ \A k \in DOMAIN todo' : \E j \in DOMAIN todo : todo'[k] = todo[j]
BY PlanTail DEF KInv, KCollecting

\* Whatever is not about certificates leaves them alone.
LEMMA RowsLeft ==
    ASSUME KInv, todo # <<>>, Head(todo).unit \notin {"join", "finish"}, todo' = Tail(todo),
           UNCHANGED <<kconf, refs, secrets, secretNS, certs, kitems, listed>>,
           Merged(anchors', holders')
    PROVE  KInv'
<1>1. /\ KCollecting
      /\ Plan(todo') /\ Ends(todo') /\ todo' # <<>>
      /\ UnitsIn(todo) = {Head(todo).unit} \cup UnitsIn(todo')
      /\ \A k \in DOMAIN todo' : \E j \in DOMAIN todo : todo'[k] = todo[j]
  BY Proceeds
<1>2. KTyped'
  BY <1>1 DEF KCollecting, KTyped
<1>3. SecretsListed'
  BY <1>1 DEF KCollecting, SecretsListed
<1>4. SecretRows'
  BY <1>1 DEF KCollecting, SecretRows, Pending, SecretItem
<1>5. CertificateItems' = CertificateItems
  BY DEF CertificateItems, CertManagerItem, ReadSecretsIn
<1>6. CertificateRows'
  BY <1>1, <1>5 DEF KCollecting, CertificateRows, Pending
<1>7. RowsOnce'
  BY <1>1 DEF KCollecting, RowsOnce
<1> QED
  BY <1>1, <1>2, <1>3, <1>4, <1>6, <1>7 DEF KInv, KCollecting

LEMMA ReadIngressesStep == KInv /\ ReadIngresses => KInv'
<1> SUFFICES ASSUME KInv, ReadIngresses PROVE KInv'
  OBVIOUS
<1>1. /\ todo # <<>> /\ Head(todo).unit = "ingresses" /\ todo' = Tail(todo)
      /\ UNCHANGED <<kconf, secrets, secretNS, certs, anchors, kitems, listed, holders>>
  BY DEF ReadIngresses, Now
<1>2. /\ KCollecting
      /\ Plan(todo') /\ Ends(todo') /\ todo' # <<>>
      /\ UnitsIn(todo) = {Head(todo).unit} \cup UnitsIn(todo')
      /\ \A k \in DOMAIN todo' : \E j \in DOMAIN todo : todo'[k] = todo[j]
  BY <1>1, Proceeds
<1>3. kitems = <<>> /\ DOMAIN kitems = {} /\ DOMAIN certs = {}
  BY <1>1, <1>2 DEF KCollecting, SecretRows, CertificateRows, Pending
<1>4. KTyped' /\ SecretsListed'
  BY <1>1, <1>2 DEF KCollecting, KTyped, SecretsListed
<1>5. SecretRows'
  <2>1. \A k \in DOMAIN secrets : secrets[k] # "parsed"
    BY <1>2, <1>3 DEF KCollecting, SecretRows, Range
  <2> QED
    BY <1>1, <1>3, <2>1 DEF SecretRows
<1>6. CertificateItems' = {}
  BY <1>1, <1>3 DEF CertificateItems
<1>7. CertificateRows'
  BY <1>1, <1>3, <1>6 DEF CertificateRows
<1>8. RowsOnce' /\ Merged(anchors', holders')
  BY <1>1, <1>2 DEF KCollecting, RowsOnce
<1> QED
  BY <1>2, <1>4, <1>5, <1>7, <1>8 DEF KInv, KCollecting

LEMMA ReadCertificatesStep == KInv /\ ReadCertificates => KInv'
<1> SUFFICES ASSUME KInv, ReadCertificates PROVE KInv'
  OBVIOUS
<1>1. /\ todo # <<>> /\ Head(todo).unit = "certificates" /\ todo' = Tail(todo)
      /\ UNCHANGED <<kconf, refs, secrets, secretNS, anchors, kitems, listed, holders>>
  BY DEF ReadCertificates, Now
<1>2. /\ KCollecting
      /\ Plan(todo') /\ Ends(todo') /\ todo' # <<>>
      /\ UnitsIn(todo) = {Head(todo).unit} \cup UnitsIn(todo')
      /\ \A u \in UnitsIn(todo) : Stage[Head(todo).unit] <= Stage[u]
      /\ \A k \in DOMAIN todo' : \E j \in DOMAIN todo : todo'[k] = todo[j]
  BY <1>1, Proceeds
<1>3. PICK ks \in SUBSET InScope(Head(todo).of) :
         \E status \in [ks -> Statuses] : certs' = Update(certs, status)
  BY DEF ReadCertificates
<1>4. PICK status \in [ks -> Statuses] : certs' = Update(certs, status)
  BY <1>3
<1>5. /\ DOMAIN certs' \subseteq Keys
      /\ \A k \in DOMAIN certs' : certs'[k] \in Statuses
  <2>1. ks \subseteq Keys /\ DOMAIN status = ks
    BY DEF InScope
  <2>2. /\ DOMAIN certs' = DOMAIN certs \cup ks
        /\ \A k \in DOMAIN certs' : certs'[k] = IF k \in ks THEN status[k] ELSE certs[k]
    BY <1>4, <2>1 DEF Update
  <2> QED
    BY <1>2, <2>1, <2>2 DEF KCollecting, KTyped
<1>6. KTyped'
  BY <1>1, <1>2, <1>5 DEF KCollecting, KTyped
<1>7. SecretsListed' /\ SecretRows' /\ RowsOnce' /\ Merged(anchors', holders')
  BY <1>1, <1>2
  DEF KCollecting, SecretsListed, SecretRows, RowsOnce, Pending, SecretItem
<1>8. CertificateRows'
  <2>1. "ingresses" \notin UnitsIn(todo') /\ "secrets" \notin UnitsIn(todo')
    BY <1>1, <1>2 DEF Stage
  <2>2. "join" \in UnitsIn(todo')
    BY <1>1, <1>2 DEF KCollecting, Ends
  <2>3. \A n \in DOMAIN kitems : kitems[n].src # "cert-manager"
    BY <1>1, <1>2 DEF KCollecting, CertificateRows, Pending
  <2> QED
    BY <1>1, <2>1, <2>2, <2>3 DEF CertificateRows, Pending
<1> QED
  BY <1>2, <1>6, <1>7, <1>8 DEF KInv, KCollecting

LEMMA ReadSecretsStep == KInv /\ ReadSecrets => KInv'
<1> SUFFICES ASSUME KInv, ReadSecrets PROVE KInv'
  OBVIOUS
<1> DEFINE scope == Head(todo).of
<1>1. /\ todo # <<>> /\ Head(todo).unit = "secrets" /\ todo' = Tail(todo)
      /\ secretNS' = secretNS \cup {scope}
      /\ UNCHANGED <<kconf, refs, certs, anchors, holders>>
  BY DEF ReadSecrets, Now
<1>2. /\ KCollecting
      /\ Plan(todo') /\ Ends(todo') /\ todo' # <<>>
      /\ UnitsIn(todo) = {Head(todo).unit} \cup UnitsIn(todo')
      /\ \A u \in UnitsIn(todo) : Stage[Head(todo).unit] <= Stage[u]
      /\ \A k \in DOMAIN todo' : \E j \in DOMAIN todo : todo'[k] = todo[j]
  BY <1>1, Proceeds
<1>3. /\ \A k \in DOMAIN todo' : todo'[k].unit = "secrets" =>
            InScope(todo'[k].of) \cap InScope(scope) = {}
      /\ \E j \in DOMAIN todo : todo[j] = Head(todo)
      /\ scope \in Subject
  <2>1. Plan(todo) /\ Ends(todo)
    BY <1>2 DEF KCollecting
  <2>2. \A k \in DOMAIN todo' : todo'[k].unit = "secrets" =>
           InScope(todo'[k].of) \cap InScope(scope) = {}
    BY <1>1, <2>1, PlanTail
  <2>3. 1 \in DOMAIN todo /\ todo[1] = Head(todo)
    BY <1>1, <2>1 DEF Plan
  <2>4. scope \in Subject
    BY <1>1, <2>1, PlanTail DEF KRequest
  <2> QED
    BY <2>2, <2>3, <2>4
<1> HIDE DEF scope
<1>4. PICK content \in [InScope(scope) -> {"absent", "good", "bad"}] :
         LET good == {k \in DOMAIN content : content[k] = "good"}
         IN /\ secrets' = Update(secrets, SecretState(content))
            /\ kitems' = kitems \o SetToSeq({SecretItem(k) : k \in good})
            /\ listed' = listed \cup {k \in DOMAIN content : content[k] # "absent"}
  BY Zenon DEF ReadSecrets, scope
<1> DEFINE good == {k \in DOMAIN content : content[k] = "good"}
           known == {k \in DOMAIN content : content[k] # "absent"}
           rows == {SecretItem(k) : k \in good}
           q == SetToSeq(rows)
<1>5. /\ good \subseteq known /\ known \subseteq InScope(scope) /\ known \subseteq Keys
      /\ \A k \in known : content[k] = "good" <=> k \in good
  BY DEF InScope
<1>6. /\ DOMAIN secrets' = DOMAIN secrets \cup known
      /\ \A k \in known : secrets'[k] = IF k \in good THEN "parsed" ELSE "unreadable"
      /\ \A k \in DOMAIN secrets \ known : secrets'[k] = secrets[k]
  BY <1>4, <1>5 DEF Update, SecretState
<1>7. listed' = listed \cup known /\ kitems' = kitems \o q
  BY <1>4
<1>8. \A k \in DOMAIN secrets : k \notin InScope(scope)
  BY <1>1, <1>2, <1>3 DEF KCollecting, SecretsListed, scope
<1>9. /\ \A k \in good : SecretItem(k) \in rows
      /\ \A i \in rows : /\ i \in CertRow /\ i.src = "secret" /\ i.key \in good
                         /\ i = SecretItem(i.key)
  <2>1. \A k \in good : k \in Keys
    BY <1>5
  <2> HIDE DEF good
  <2>2. \A k \in good : SecretItem(k) \in rows
    OBVIOUS
  <2>3. \A i \in rows : \E k \in good : i = SecretItem(k)
    OBVIOUS
  <2> HIDE DEF rows
  <2> QED
    BY <2>1, <2>2, <2>3, SecretItemType
<1> HIDE DEF good, known, rows
<1>10. q \in Seq(rows) /\ Range(q) = rows /\ IsInjective(q)
  <2>1. IsFiniteSet(rows)
    BY <1>5, <1>9, KeyedFinite
  <2> QED
    BY <2>1, SetToSeqLists
<1> HIDE DEF q
<1>11. /\ q \in Seq(CertRow) /\ kitems \in Seq(CertRow)
       /\ \A k \in DOMAIN q : q[k] \in rows
       /\ \A i \in rows : \E k \in DOMAIN q : q[k] = i
  BY <1>2, <1>9, <1>10 DEF Range, KCollecting, KTyped
<1>12. /\ kitems' \in Seq(CertRow)
       /\ \A k \in DOMAIN kitems : k \in DOMAIN kitems' /\ kitems'[k] = kitems[k]
       /\ \A k \in DOMAIN q : Len(kitems) + k \in DOMAIN kitems' /\ kitems'[Len(kitems) + k] = q[k]
       /\ \A k \in DOMAIN kitems' :
             k \in DOMAIN kitems \/ \E j \in DOMAIN q : k = Len(kitems) + j
  BY <1>7, <1>11, ConcatIndex
<1>13. \A n \in DOMAIN kitems :
          /\ kitems[n].src = "secret" /\ kitems[n] = SecretItem(kitems[n].key)
          /\ kitems[n].key \in DOMAIN secrets /\ secrets[kitems[n].key] = "parsed"
  <2>1. \A n \in DOMAIN kitems : kitems[n] \in CertRow
    BY <1>11
  <2>2. \A n \in DOMAIN kitems : kitems[n].src # "cert-manager"
    BY <1>1, <1>2 DEF KCollecting, CertificateRows, Pending
  <2>3. \A n \in DOMAIN kitems : kitems[n].src = "secret"
    BY <2>1, <2>2 DEF CertRow
  <2> QED
    BY <1>2, <2>3 DEF KCollecting, SecretRows
<1>14. \A k \in DOMAIN secrets : secrets'[k] = secrets[k] /\ k \notin known
  BY <1>5, <1>6, <1>8
<1>15. KTyped'
  <2>1. \A k \in DOMAIN secrets' : secrets'[k] \in {"parsed", "unreadable"}
    BY <1>2, <1>6 DEF KCollecting, KTyped
  <2> QED
    BY <1>1, <1>2, <1>3, <1>5, <1>6, <1>7, <1>12, <2>1 DEF KCollecting, KTyped
<1>16. SecretsListed'
  <2>1. \A k \in DOMAIN secrets' : \E s \in secretNS' : k \in InScope(s)
    BY <1>1, <1>2, <1>5, <1>6 DEF KCollecting, SecretsListed
  <2>2. \A n \in DOMAIN todo' : todo'[n].unit = "secrets" =>
           \A s \in secretNS' : InScope(s) \cap InScope(todo'[n].of) = {}
    BY <1>1, <1>2, <1>3 DEF KCollecting, SecretsListed
  <2> QED
    BY <2>1, <2>2 DEF SecretsListed
<1>17. SecretRows'
  <2>1. "ingresses" \notin UnitsIn(todo')
    BY <1>1, <1>2 DEF Stage
  <2>2. \A k : SecretItem(k)' = SecretItem(k)
    BY <1>1 DEF SecretItem
  <2>3. \A n \in DOMAIN kitems' :
           /\ kitems'[n] = SecretItem(kitems'[n].key)
           /\ kitems'[n].key \in DOMAIN secrets' /\ secrets'[kitems'[n].key] = "parsed"
    <3> SUFFICES ASSUME NEW n \in DOMAIN kitems'
                 PROVE  /\ kitems'[n] = SecretItem(kitems'[n].key)
                        /\ kitems'[n].key \in DOMAIN secrets'
                        /\ secrets'[kitems'[n].key] = "parsed"
      OBVIOUS
    <3>1. CASE n \in DOMAIN kitems
      BY <1>6, <1>12, <1>13, <1>14, <3>1
    <3>2. CASE \E j \in DOMAIN q : n = Len(kitems) + j
      BY <1>5, <1>6, <1>9, <1>11, <1>12, <3>2
    <3> QED
      BY <1>12, <3>1, <3>2
  <2>4. ASSUME NEW k \in DOMAIN secrets', secrets'[k] = "parsed"
        PROVE  \E n \in DOMAIN kitems' : kitems'[n] = SecretItem(k)
    <3>1. CASE k \in DOMAIN secrets
      <4>1. secrets[k] = "parsed"
        BY <1>14, <2>4, <3>1
      <4>2. \E n \in DOMAIN kitems : kitems[n] = SecretItem(k)
        BY <1>2, <3>1, <4>1 DEF KCollecting, SecretRows, Range
      <4> QED
        BY <1>12, <4>2
    <3>2. CASE k \in known
      <4>1. SecretItem(k) \in rows
        BY <1>6, <1>9, <2>4, <3>2
      <4> QED
        BY <1>11, <1>12, <4>1
    <3> QED
      BY <1>6, <3>1, <3>2
  <2> QED
    BY <2>1, <2>2, <2>3, <2>4 DEF SecretRows, Pending, Range
<1>18. CertificateRows'
  <2>1. DOMAIN certs' = {}
    BY <1>1, <1>2 DEF KCollecting, CertificateRows, Pending
  <2>2. CertificateItems' = {}
    BY <2>1 DEF CertificateItems
  <2>3. \A n \in DOMAIN kitems' : kitems'[n].src # "cert-manager"
    BY <1>9, <1>11, <1>12, <1>13
  <2> QED
    BY <2>1, <2>2, <2>3 DEF CertificateRows
<1>19. RowsOnce'
  <2> SUFFICES ASSUME NEW m \in DOMAIN kitems', NEW n \in DOMAIN kitems',
                      kitems'[m].key = kitems'[n].key
               PROVE  m = n
    BY DEF RowsOnce
  <2>1. \A k \in DOMAIN q : kitems'[Len(kitems) + k].key \in known
    BY <1>5, <1>9, <1>11, <1>12
  <2>2. \A k \in DOMAIN kitems : kitems'[k].key \in DOMAIN secrets
    BY <1>12, <1>13
  <2>3. CASE m \in DOMAIN kitems /\ n \in DOMAIN kitems
    BY <1>2, <1>12, <2>3 DEF KCollecting, RowsOnce
  <2>4. CASE m \in DOMAIN kitems /\ \E j \in DOMAIN q : n = Len(kitems) + j
    BY <1>14, <2>1, <2>2, <2>4
  <2>5. CASE n \in DOMAIN kitems /\ \E j \in DOMAIN q : m = Len(kitems) + j
    BY <1>14, <2>1, <2>2, <2>5
  <2>6. CASE \E i, j \in DOMAIN q : m = Len(kitems) + i /\ n = Len(kitems) + j
    <3>1. PICK i \in DOMAIN q, j \in DOMAIN q : m = Len(kitems) + i /\ n = Len(kitems) + j
      BY <2>6
    <3>2. q[i].key = q[j].key /\ q[i] = SecretItem(q[i].key) /\ q[j] = SecretItem(q[j].key)
      BY <1>9, <1>11, <1>12, <3>1
    <3> QED
      BY <1>10, <3>1, <3>2 DEF IsInjective
  <2> QED
    BY <1>12, <2>3, <2>4, <2>5, <2>6
<1> QED
  BY <1>1, <1>2, <1>15, <1>16, <1>17, <1>18, <1>19 DEF KInv, KCollecting

LEMMA JoinStep == KInv /\ JoinCertificates => KInv'
<1> SUFFICES ASSUME KInv, JoinCertificates PROVE KInv'
  OBVIOUS
<1> DEFINE q == SetToSeq(CertificateItems)
<1>1. /\ todo # <<>> /\ Head(todo).unit = "join" /\ todo' = Tail(todo)
      /\ kitems' = kitems \o q
      /\ UNCHANGED <<kconf, refs, secrets, secretNS, certs, anchors, listed, holders>>
  BY DEF JoinCertificates, Now
<1>2. /\ KCollecting
      /\ Plan(todo') /\ Ends(todo') /\ todo' # <<>>
      /\ UnitsIn(todo) = {Head(todo).unit} \cup UnitsIn(todo')
      /\ \A u \in UnitsIn(todo) : Stage[Head(todo).unit] <= Stage[u]
      /\ \A k \in DOMAIN todo' : \E j \in DOMAIN todo : todo'[k] = todo[j]
  BY <1>1, Proceeds
<1>3. \A unit \in {"ingresses", "secrets", "certificates", "join"} : unit \notin UnitsIn(todo')
  <2>1. "join" \notin UnitsIn(todo')
    BY <1>1, <1>2, PlanTail DEF KCollecting
  <2>2. /\ "ingresses" \notin UnitsIn(todo') /\ "secrets" \notin UnitsIn(todo')
        /\ "certificates" \notin UnitsIn(todo')
    BY <1>1, <1>2 DEF Stage
  <2> QED
    BY <2>1, <2>2
<1>4. KTyped
  BY <1>2 DEF KCollecting
<1>5. q \in Seq(CertificateItems) /\ Range(q) = CertificateItems /\ IsInjective(q)
  BY <1>4, CertificateItemsOnce, SetToSeqLists
<1> HIDE DEF q
<1>6. /\ \A i \in CertificateItems :
            i \in CertRow /\ i.src = "cert-manager" /\ ~Parsed(i.key)
      /\ \A i, j \in CertificateItems : i.key = j.key => i = j
  BY <1>4, CertificateItemsOnce
<1>7. /\ q \in Seq(CertRow) /\ kitems \in Seq(CertRow)
      /\ \A k \in DOMAIN q : q[k] \in CertificateItems
      /\ \A i \in CertificateItems : \E k \in DOMAIN q : q[k] = i
  BY <1>4, <1>5, <1>6 DEF Range, KTyped
<1>8. /\ kitems' \in Seq(CertRow)
      /\ \A k \in DOMAIN kitems : k \in DOMAIN kitems' /\ kitems'[k] = kitems[k]
      /\ \A k \in DOMAIN q : Len(kitems) + k \in DOMAIN kitems' /\ kitems'[Len(kitems) + k] = q[k]
      /\ \A k \in DOMAIN kitems' :
            k \in DOMAIN kitems \/ \E j \in DOMAIN q : k = Len(kitems) + j
  BY <1>1, <1>7, ConcatIndex
<1>9. \A n \in DOMAIN kitems :
         kitems[n].src = "secret" /\ kitems[n] = SecretItem(kitems[n].key) /\ Parsed(kitems[n].key)
  <2>1. \A n \in DOMAIN kitems : kitems[n] \in CertRow
    BY <1>7
  <2>2. \A n \in DOMAIN kitems : kitems[n].src # "cert-manager"
    BY <1>1, <1>2 DEF KCollecting, CertificateRows, Pending
  <2>3. \A n \in DOMAIN kitems : kitems[n].src = "secret"
    BY <2>1, <2>2 DEF CertRow
  <2> QED
    BY <1>2, <2>3 DEF KCollecting, SecretRows, Parsed
<1>10. KTyped' /\ SecretsListed'
  BY <1>1, <1>2, <1>8 DEF KCollecting, KTyped, SecretsListed
<1>11. SecretRows'
  <2>1. \A k : SecretItem(k)' = SecretItem(k)
    BY <1>1 DEF SecretItem
  <2>2. \A n \in DOMAIN kitems' : kitems'[n].src = "secret" => n \in DOMAIN kitems
    BY <1>6, <1>7, <1>8
  <2>3. \A k \in DOMAIN secrets : secrets[k] = "parsed" =>
           \E n \in DOMAIN kitems' : kitems'[n] = SecretItem(k)
    BY <1>2, <1>8 DEF KCollecting, SecretRows, Range
  <2>4. \A n \in DOMAIN kitems' : kitems'[n].src = "secret" =>
           /\ kitems'[n] = SecretItem(kitems'[n].key)
           /\ kitems'[n].key \in DOMAIN secrets /\ secrets[kitems'[n].key] = "parsed"
    BY <1>8, <1>9, <2>2 DEF Parsed
  <2>5. \A k \in DOMAIN secrets : secrets[k] = "parsed" => SecretItem(k) \in Range(kitems')
    BY <2>3 DEF Range
  <2>6. ~Pending("ingresses")'
    BY <1>3 DEF Pending
  <2> QED
    BY <1>1, <2>1, <2>4, <2>5, <2>6 DEF SecretRows
<1>12. CertificateItems' = CertificateItems
  BY <1>1 DEF CertificateItems, CertManagerItem, ReadSecretsIn
<1>13. CertificateRows'
  <2>1. ASSUME NEW n \in DOMAIN kitems', kitems'[n].src = "cert-manager"
        PROVE  kitems'[n] \in CertificateItems
    <3>1. n \notin DOMAIN kitems
      BY <1>8, <1>9, <2>1
    <3> QED
      BY <1>7, <1>8, <3>1
  <2>2. CertificateItems \subseteq Range(kitems')
    BY <1>7, <1>8 DEF Range
  <2> QED
    BY <1>1, <1>3, <1>12, <2>1, <2>2 DEF CertificateRows, Pending
<1>14. RowsOnce'
  <2> SUFFICES ASSUME NEW m \in DOMAIN kitems', NEW n \in DOMAIN kitems',
                      kitems'[m].key = kitems'[n].key
               PROVE  m = n
    BY DEF RowsOnce
  <2>1. \A k \in DOMAIN q : ~Parsed(kitems'[Len(kitems) + k].key)
    BY <1>6, <1>7, <1>8
  <2>2. \A k \in DOMAIN kitems : Parsed(kitems'[k].key)
    BY <1>8, <1>9
  <2>3. CASE m \in DOMAIN kitems /\ n \in DOMAIN kitems
    BY <1>2, <1>8, <2>3 DEF KCollecting, RowsOnce
  <2>4. CASE m \in DOMAIN kitems /\ \E j \in DOMAIN q : n = Len(kitems) + j
    BY <2>1, <2>2, <2>4
  <2>5. CASE n \in DOMAIN kitems /\ \E j \in DOMAIN q : m = Len(kitems) + j
    BY <2>1, <2>2, <2>5
  <2>6. CASE \E i, j \in DOMAIN q : m = Len(kitems) + i /\ n = Len(kitems) + j
    <3>1. PICK i \in DOMAIN q, j \in DOMAIN q : m = Len(kitems) + i /\ n = Len(kitems) + j
      BY <2>6
    <3>2. q[i] = q[j]
      BY <1>6, <1>7, <1>8, <3>1
    <3> QED
      BY <1>5, <3>1, <3>2 DEF IsInjective
  <2> QED
    BY <1>8, <2>3, <2>4, <2>5, <2>6
<1> QED
  BY <1>1, <1>2, <1>10, <1>11, <1>13, <1>14 DEF KInv, KCollecting

LEMMA ReadBundlesStep ==
    ASSUME NEW unit \in {"webhooks", "apiservices"}, KInv, ReadBundles(unit)
    PROVE  KInv'
<1>1. /\ todo # <<>> /\ Head(todo).unit = unit /\ todo' = Tail(todo)
      /\ UNCHANGED <<kconf, refs, secrets, secretNS, certs, kitems, listed>>
  BY DEF ReadBundles, Now
<1>2. PICK bundle \in Bundles : Add(Found(bundle, unit, <<Head(todo).of>>, "none", "none"))
  BY DEF ReadBundles
<1> DEFINE owner == <<Head(todo).of>>
           found == Found(bundle, unit, owner, "none", "none")
<1>3. owner \in Owner
  <2>1. Head(todo) \in KRequest
    BY <1>1, PlanTail DEF KInv, KCollecting
  <2> QED
    BY <2>1 DEF KRequest, Owner
<1>4. found \in Seq(Finding)
  BY <1>3, FoundType DEF TrustUnits, Name
<1>5. Merged(anchors', holders')
  <2>1. Merged(anchors, holders)
    BY <1>1 DEF KInv, KCollecting
  <2> HIDE DEF found
  <2>2. /\ anchors' = AddAll(anchors, found)
        /\ holders' = holders \cup {<<found[n].ca, found[n].owner>> : n \in DOMAIN found}
    BY <1>2 DEF Add, found
  <2> QED
    BY <1>4, <2>1, <2>2, AddAllMerges
<1>6. Head(todo).unit \notin {"join", "finish"}
  BY <1>1
<1> QED
  BY <1>1, <1>5, <1>6, RowsLeft

LEMMA ReadMeshStep == KInv /\ ReadMesh => KInv'
<1> SUFFICES ASSUME KInv, ReadMesh PROVE KInv'
  OBVIOUS
<1> DEFINE a == Head(todo).of
<1>1. /\ todo # <<>> /\ Head(todo).unit = "mesh" /\ todo' = Tail(todo)
      /\ UNCHANGED <<kconf, refs, secrets, secretNS, certs, kitems, listed>>
  BY DEF ReadMesh, Now
<1>2. PICK data \in [DOMAIN a.keys -> Bundles] :
         Add(FlattenSeq([n \in DOMAIN a.keys |->
                 Found(data[n], "mesh", <<a.name, a.keys[n].key>>, a.ns, a.keys[n].role)]))
  BY Zenon DEF ReadMesh
<1>3. a \in Mesh
  BY <1>1, PlanTail DEF KInv, KCollecting
<1> HIDE DEF a
<1> DEFINE each == [n \in DOMAIN a.keys |->
                       Found(data[n], "mesh", <<a.name, a.keys[n].key>>, a.ns, a.keys[n].role)]
           found == FlattenSeq(each)
<1>4. /\ a.name \in Name /\ a.ns \in Name
      /\ DOMAIN a.keys = 1..Len(a.keys) /\ Len(a.keys) \in Nat
      /\ \A n \in DOMAIN a.keys : a.keys[n].key \in Name /\ a.keys[n].role \in Name
  <2>1. a.name \in Name /\ a.ns \in Name /\ a.keys \in Seq(MeshKey)
    BY <1>3 DEF Mesh
  <2>2. \A n \in DOMAIN a.keys : a.keys[n] \in MeshKey
    BY <2>1
  <2> QED
    BY <2>1, <2>2 DEF MeshKey
<1>5. ASSUME NEW n \in DOMAIN a.keys PROVE each[n] \in Seq(Finding)
  <2>1. <<a.name, a.keys[n].key>> \in Owner
    BY <1>4 DEF Owner
  <2>2. data[n] \in Bundles
    BY <1>2
  <2> QED
    BY <1>4, <2>1, <2>2, FoundType DEF TrustUnits
<1>6. each \in Seq(Seq(Finding))
  <2>1. DOMAIN each = 1..Len(a.keys)
    BY <1>4
  <2>2. each = [n \in 1..Len(a.keys) |-> each[n]]
    BY <1>4
  <2>3. \A n \in 1..Len(a.keys) : each[n] \in Seq(Finding)
    BY <1>4, <1>5
  <2>4. each \in [1..Len(a.keys) -> Seq(Finding)]
    BY <2>1, <2>2, <2>3
  <2> HIDE DEF each
  <2> QED
    BY <1>4, <2>4
<1> HIDE DEF each
<1>7. found \in Seq(Finding)
  BY <1>6, FlattenConcatenates
<1>8. Merged(anchors', holders')
  <2>1. Merged(anchors, holders)
    BY <1>1 DEF KInv, KCollecting
  <2>2. Add(found)
    BY <1>2 DEF each
  <2> HIDE DEF found
  <2> QED
    BY <1>7, <2>1, <2>2, AddAllMerges DEF Add
<1>9. Head(todo).unit \notin {"join", "finish"}
  BY <1>1
<1> QED
  BY <1>1, <1>8, <1>9, RowsLeft

LEMMA UnansweredStep == KInv /\ (Forbidden \/ NotInstalled) => KInv'
<1> SUFFICES ASSUME KInv, Forbidden \/ NotInstalled PROVE KInv'
  OBVIOUS
<1>1. /\ todo # <<>> /\ Head(todo).unit \notin {"join", "finish"} /\ todo' = Tail(todo)
      /\ UNCHANGED <<kconf, refs, secrets, secretNS, certs, kitems, listed, anchors, holders>>
  BY DEF Forbidden, NotInstalled
<1>2. Merged(anchors', holders')
  BY <1>1 DEF KInv, KCollecting
<1> QED
  BY <1>1, <1>2, RowsLeft

-----------------------------------------------------------------------------
(* Kubernetes: what was collected *)

AnchorRow ==
    [src : TrustUnits, ca : CAs, usedBy : SUBSET Owner, ns : Name, role : Name,
     renewal : {"none"}]

\* What a Certificate says of its renewal.
LEMMA RenewalIs ==
    ASSUME NEW status \in Statuses, NEW state
    PROVE  /\ RenewalState(status) = "managed" => status.ready /\ status.renewAt = "ahead"
           /\ RenewalFor(status, state) # "managed"
           /\ ~status.ready \/ status.renewAt = "past" =>
                 RenewalState(status) = "stuck" /\ RenewalFor(status, state) = "stuck"
<1>1. status.renewAt \in {"unset", "past", "ahead"} /\ status.ready \in BOOLEAN
  BY DEF Statuses
<1>2. RenewalState(status) = IF ~status.ready \/ status.renewAt = "past" THEN "stuck"
                             ELSE IF status.renewAt = "unset" THEN "none" ELSE "managed"
  <2>1. CASE ~status.ready
    BY <2>1 DEF RenewalState
  <2>2. CASE status.ready /\ status.renewAt = "past"
    BY <2>2 DEF RenewalState
  <2>3. CASE status.ready /\ status.renewAt = "unset"
    BY <2>3 DEF RenewalState
  <2>4. CASE status.ready /\ status.renewAt = "ahead"
    BY <2>4 DEF RenewalState
  <2> QED
    BY <1>1, <2>1, <2>2, <2>3, <2>4
<1> QED
  BY <1>1, <1>2 DEF RenewalFor

\* A certificate's row, with the renewal of its Certificate.
LEMMA Annotated ==
    ASSUME KTyped, NEW i \in CertRow
    PROVE  LET a == AnnotateRenewal(i) IN
           /\ a \in CertRow /\ a.src = i.src /\ a.key = i.key /\ a.state = i.state
           /\ a.public = i.public
           /\ a.renewal = IF i.src = "secret" /\ i.key \in DOMAIN certs
                          THEN RenewalState(certs[i.key]) ELSE i.renewal
<1>1. \A k : RenewalState(certs[k]) \in {"none", "stuck", "managed"}
  BY DEF RenewalState
<1>2. CASE i.src = "secret" /\ i.key \in DOMAIN certs
  <2> DEFINE r == RenewalState(certs[i.key])
  <2>1. AnnotateRenewal(i) = [i EXCEPT !.renewal = r]
    BY <1>2, Zenon DEF AnnotateRenewal
  <2>2. r \in {"none", "stuck", "managed"}
    BY <1>1
  <2> HIDE DEF r
  <2>3. LET a == [i EXCEPT !.renewal = r] IN
        /\ a \in CertRow /\ a.src = i.src /\ a.key = i.key /\ a.state = i.state
        /\ a.public = i.public /\ a.renewal = r
    BY <2>2 DEF CertRow
  <2> QED
    BY <1>2, <2>1, <2>3 DEF r
<1>3. CASE ~(i.src = "secret" /\ i.key \in DOMAIN certs)
  <2>1. AnnotateRenewal(i) = i
    BY <1>3, Zenon DEF AnnotateRenewal
  <2> QED
    BY <1>3, <2>1
<1> QED
  BY <1>2, <1>3

\* At the end every certificate is a row of its own, and so is every CA.
LEMMA FinishStep == KInv /\ Finish => KInv'
<1> SUFFICES ASSUME KInv, Finish PROVE KInv'
  OBVIOUS
<1> DEFINE a == [n \in DOMAIN kitems |-> AnnotateRenewal(kitems[n])]
           b == [n \in DOMAIN anchors |-> AnchorItem(anchors[n])]
           Row == CertRow \cup AnchorRow
<1>1. /\ todo # <<>> /\ Head(todo).unit = "finish" /\ todo' = <<>> /\ kitems' = a \o b
      /\ UNCHANGED <<kconf, refs, secrets, secretNS, certs, listed, holders>>
  BY DEF Finish, Now
<1>2. /\ KCollecting
      /\ \A unit \in {"ingresses", "secrets", "certificates", "join"} : ~Pending(unit)
  <2>1. KCollecting
    BY <1>1 DEF KInv
  <2>2. \A u \in UnitsIn(todo) : Stage["finish"] <= Stage[u]
    BY <1>1, <2>1, PlanTail DEF KCollecting
  <2> QED
    BY <2>1, <2>2 DEF Pending, Stage
<1>3. KTyped
  BY <1>2 DEF KCollecting
<1>4. /\ DOMAIN a = DOMAIN kitems
      /\ \A n \in DOMAIN kitems :
            /\ kitems[n] \in CertRow /\ a[n] \in CertRow
            /\ a[n].src = kitems[n].src /\ a[n].key = kitems[n].key
            /\ a[n].state = kitems[n].state /\ a[n].public = kitems[n].public
            /\ a[n].renewal = IF kitems[n].src = "secret" /\ kitems[n].key \in DOMAIN certs
                              THEN RenewalState(certs[kitems[n].key]) ELSE kitems[n].renewal
      /\ a \in Seq(CertRow)
  <2>1. DOMAIN kitems = 1..Len(kitems) /\ Len(kitems) \in Nat
        /\ \A n \in DOMAIN kitems : kitems[n] \in CertRow
    BY <1>3 DEF KTyped
  <2>2. ASSUME NEW n \in DOMAIN kitems
        PROVE  /\ kitems[n] \in CertRow /\ a[n] \in CertRow
               /\ a[n].src = kitems[n].src /\ a[n].key = kitems[n].key
               /\ a[n].state = kitems[n].state /\ a[n].public = kitems[n].public
               /\ a[n].renewal = IF kitems[n].src = "secret" /\ kitems[n].key \in DOMAIN certs
                                 THEN RenewalState(certs[kitems[n].key]) ELSE kitems[n].renewal
    <3>1. a[n] = AnnotateRenewal(kitems[n])
      OBVIOUS
    <3> HIDE DEF a
    <3> QED
      BY <1>3, <2>1, <3>1, Annotated
  <2>3. a \in [1..Len(kitems) -> CertRow]
    BY <2>1, <2>2
  <2>4. a \in Seq(CertRow)
    <3> HIDE DEF a
    <3> QED
      BY <2>1, <2>3
  <2>5. DOMAIN a = DOMAIN kitems
    OBVIOUS
  <2> HIDE DEF a
  <2> QED
    BY <2>2, <2>4, <2>5
<1>5. /\ DOMAIN b = DOMAIN anchors /\ b \in Seq(AnchorRow)
      /\ \A n \in DOMAIN anchors :
            /\ b[n] \in AnchorRow /\ b[n].src \in TrustUnits /\ b[n].renewal = "none"
            /\ b[n].ca = anchors[n].ca /\ b[n].usedBy = anchors[n].usedBy
  <2>1. /\ DOMAIN anchors = 1..Len(anchors) /\ Len(anchors) \in Nat
        /\ \A n \in DOMAIN anchors : anchors[n] \in Anchor
    BY <1>2 DEF KCollecting, Merged
  <2>2. ASSUME NEW n \in DOMAIN anchors
        PROVE  /\ b[n] \in AnchorRow /\ b[n].src \in TrustUnits /\ b[n].renewal = "none"
               /\ b[n].ca = anchors[n].ca /\ b[n].usedBy = anchors[n].usedBy
    <3>1. anchors[n] \in Anchor
      BY <2>1
    <3> QED
      BY <3>1 DEF Anchor, AnchorItem, AnchorRow
  <2>3. b \in [1..Len(anchors) -> AnchorRow]
    BY <2>1, <2>2
  <2>4. b \in Seq(AnchorRow)
    <3> HIDE DEF b
    <3> QED
      BY <2>1, <2>3
  <2>5. DOMAIN b = DOMAIN anchors
    OBVIOUS
  <2> HIDE DEF b
  <2> QED
    BY <2>2, <2>4, <2>5
<1> HIDE DEF a, b
<1>6. /\ \A k \in DOMAIN a : k \in DOMAIN kitems' /\ kitems'[k] = a[k]
      /\ \A k \in DOMAIN b : Len(a) + k \in DOMAIN kitems' /\ kitems'[Len(a) + k] = b[k]
      /\ \A k \in DOMAIN kitems' : k \in DOMAIN a \/ \E j \in DOMAIN b : k = Len(a) + j
  <2>1. a \in Seq(Row) /\ b \in Seq(Row)
    BY <1>4, <1>5
  <2> HIDE DEF Row
  <2> QED
    BY <1>1, <2>1, ConcatIndex
<1>7. \A k \in DOMAIN kitems :
         /\ kitems[k].src = "secret" =>
               /\ Parsed(kitems[k].key) /\ kitems[k].state = "none"
               /\ kitems[k].renewal = "none"
               /\ kitems[k].public <=> kitems[k].key \in refs
         /\ kitems[k].src = "cert-manager" => kitems[k] \in CertificateItems
         /\ kitems[k].src \in {"secret", "cert-manager"}
         /\ kitems[k].key \in Keys
  <2> SUFFICES ASSUME NEW k \in DOMAIN kitems
               PROVE  /\ kitems[k].src = "secret" =>
                           /\ Parsed(kitems[k].key) /\ kitems[k].state = "none"
                           /\ kitems[k].renewal = "none"
                           /\ kitems[k].public <=> kitems[k].key \in refs
                      /\ kitems[k].src = "cert-manager" => kitems[k] \in CertificateItems
                      /\ kitems[k].src \in {"secret", "cert-manager"}
                      /\ kitems[k].key \in Keys
    OBVIOUS
  <2>1. kitems[k].src \in {"secret", "cert-manager"} /\ kitems[k].key \in Keys
    BY <1>4 DEF CertRow
  <2>2. ASSUME kitems[k].src = "secret"
        PROVE  /\ Parsed(kitems[k].key) /\ kitems[k].state = "none"
               /\ kitems[k].renewal = "none"
               /\ kitems[k].public <=> kitems[k].key \in refs
    <3>1. kitems[k] = SecretItem(kitems[k].key) /\ Parsed(kitems[k].key)
      BY <1>2, <2>2 DEF KCollecting, SecretRows, Parsed
    <3>2. \A x : /\ SecretItem(x).state = "none" /\ SecretItem(x).renewal = "none"
                 /\ SecretItem(x).public <=> x \in refs
      BY DEF SecretItem
    <3> QED
      BY <3>1, <3>2
  <2>3. kitems[k].src = "cert-manager" => kitems[k] \in CertificateItems
    BY <1>2 DEF KCollecting, CertificateRows
  <2> QED
    BY <2>1, <2>2, <2>3
<1>8. /\ \A i \in CertificateItems :
            /\ i.key \in DOMAIN certs /\ i.key \in Keys /\ ~Parsed(i.key)
            /\ i.state = "missing" => i.key \notin DOMAIN secrets /\ ReadSecretsIn(i.key.ns)
            /\ i.renewal = RenewalFor(certs[i.key], i.state)
      /\ \A k \in DOMAIN certs :
            certs[k].dated /\ ~Parsed(k) => \E i \in CertificateItems : i.key = k
  BY <1>3, CertificateItemsOnce
<1>9. /\ "secret" \notin TrustUnits /\ "cert-manager" \notin TrustUnits
  BY DEF TrustUnits
<1>10. MissingWasLookedFor'
  <2>1. ASSUME NEW n \in DOMAIN kitems', kitems'[n].src = "cert-manager",
               kitems'[n].state = "missing"
        PROVE  /\ \E scope \in secretNS : kitems'[n].key \in InScope(scope)
               /\ kitems'[n].key \notin listed
    <3>1. /\ n \in DOMAIN kitems /\ kitems[n].src = "cert-manager"
          /\ kitems[n].state = "missing" /\ kitems'[n].key = kitems[n].key
      BY <1>4, <1>5, <1>6, <1>9, <2>1
    <3>2. /\ kitems[n].key \notin DOMAIN secrets /\ ReadSecretsIn(kitems[n].key.ns)
          /\ kitems[n].key \in Keys
      BY <1>7, <1>8, <3>1
    <3>3. \E scope \in secretNS : kitems[n].key \in InScope(scope)
      BY <3>2 DEF ReadSecretsIn, InScope
    <3> QED
      BY <1>3, <3>1, <3>2, <3>3 DEF KTyped
  <2> QED
    BY <1>1, <2>1 DEF MissingWasLookedFor, Range
<1>11. CertificateOnce'
  <2> DEFINE rows(k) == {n \in DOMAIN kitems' : /\ kitems'[n].src \in {"secret", "cert-manager"}
                                               /\ kitems'[n].key = k}
  <2>1. \A n \in DOMAIN kitems' : kitems'[n].src \in {"secret", "cert-manager"} =>
           /\ n \in DOMAIN kitems /\ kitems'[n].src = kitems[n].src
           /\ kitems'[n].key = kitems[n].key /\ kitems'[n].public = kitems[n].public
    BY <1>4, <1>5, <1>6, <1>9
  <2>2. \A n \in DOMAIN kitems :
           /\ n \in DOMAIN kitems' /\ kitems'[n].key = kitems[n].key
           /\ kitems'[n].src \in {"secret", "cert-manager"}
    BY <1>4, <1>6, <1>7
  <2>3. ASSUME NEW k \in Keys
        PROVE  /\ \A m, n \in rows(k) : m = n
               /\ Parsed(k) \/ (k \in DOMAIN certs /\ certs[k].dated) => rows(k) # {}
               /\ Parsed(k) => \A n \in rows(k) : /\ kitems'[n].src = "secret"
                                                  /\ kitems'[n].public <=> k \in refs
    <3>1. \A m, n \in rows(k) : m = n
      BY <1>2, <2>1 DEF KCollecting, RowsOnce
    <3>2. ASSUME Parsed(k) PROVE rows(k) # {}
      <4>1. \E n \in DOMAIN kitems : kitems[n] = SecretItem(k)
        BY <1>2, <3>2 DEF KCollecting, SecretRows, Parsed, Range
      <4>2. \E n \in DOMAIN kitems : kitems[n].key = k
        BY <4>1, SecretItemType
      <4> QED
        BY <2>2, <4>2
    <3>3. ASSUME k \in DOMAIN certs, certs[k].dated, ~Parsed(k) PROVE rows(k) # {}
      <4>1. \E i \in CertificateItems : i.key = k
        BY <1>8, <3>3
      <4>2. CertificateItems \subseteq Range(kitems)
        BY <1>2 DEF KCollecting, CertificateRows
      <4>3. \E n \in DOMAIN kitems : kitems[n].key = k
        BY <4>1, <4>2 DEF Range
      <4> QED
        BY <2>2, <4>3
    <3>4. ASSUME Parsed(k), NEW n \in rows(k)
          PROVE  kitems'[n].src = "secret" /\ (kitems'[n].public <=> k \in refs)
      <4>1. /\ n \in DOMAIN kitems /\ kitems'[n].src = kitems[n].src /\ kitems[n].key = k
            /\ kitems'[n].public = kitems[n].public
        BY <2>1
      <4>2. kitems[n].src # "cert-manager"
        BY <1>7, <1>8, <3>4, <4>1
      <4> QED
        BY <1>7, <4>1, <4>2
    <3> QED
      BY <3>1, <3>2, <3>3, <3>4
  <2> QED
    BY <1>1, <2>3 DEF CertificateOnce, Parsed
<1>12. NeverFalselyCalm'
  <2>1. ASSUME NEW n \in DOMAIN kitems'
        PROVE  LET i == kitems'[n] IN
               /\ i.renewal = "managed" =>
                     /\ i.src = "secret" /\ secrets[i.key] = "parsed"
                     /\ certs[i.key].ready /\ certs[i.key].renewAt = "ahead"
               /\ (/\ i.src \in {"secret", "cert-manager"} /\ i.key \in DOMAIN certs
                   /\ (~certs[i.key].ready \/ certs[i.key].renewAt = "past")) =>
                     i.renewal = "stuck"
    <3>1. CASE n \in DOMAIN a
      <4>1. /\ n \in DOMAIN kitems /\ kitems'[n].src = kitems[n].src
            /\ kitems'[n].key = kitems[n].key
            /\ kitems'[n].renewal =
                  IF kitems[n].src = "secret" /\ kitems[n].key \in DOMAIN certs
                  THEN RenewalState(certs[kitems[n].key]) ELSE kitems[n].renewal
        BY <1>4, <1>6, <3>1
      <4>2. CASE kitems[n].src = "secret" /\ kitems[n].key \in DOMAIN certs
        <5>1. certs[kitems[n].key] \in Statuses
          BY <1>3, <4>2 DEF KTyped
        <5>2. secrets[kitems[n].key] = "parsed"
          BY <1>7, <4>1, <4>2 DEF Parsed
        <5> QED
          BY <4>1, <4>2, <5>1, <5>2, RenewalIs
      <4>3. CASE kitems[n].src = "secret" /\ kitems[n].key \notin DOMAIN certs
        BY <1>7, <4>1, <4>3
      <4>4. CASE kitems[n].src = "cert-manager"
        <5>1. kitems'[n].renewal = RenewalFor(certs[kitems[n].key], kitems[n].state)
          BY <1>7, <1>8, <4>1, <4>4
        <5>2. certs[kitems[n].key] \in Statuses
          BY <1>3, <1>7, <1>8, <4>1, <4>4 DEF KTyped
        <5> QED
          BY <4>1, <4>4, <5>1, <5>2, RenewalIs
      <4> QED
        BY <1>7, <4>1, <4>2, <4>3, <4>4
    <3>2. CASE \E j \in DOMAIN b : n = Len(a) + j
      BY <1>5, <1>6, <1>9, <3>2
    <3> QED
      BY <1>6, <3>1, <3>2
  <2> QED
    BY <1>1, <2>1 DEF NeverFalselyCalm, Range
<1>13. AnchorsMerged'
  <2> DEFINE rows == {n \in DOMAIN kitems' : kitems'[n].src \notin {"secret", "cert-manager"}}
  <2>1. /\ \A n \in rows : \E j \in DOMAIN anchors : n = Len(a) + j
        /\ \A j \in DOMAIN anchors :
              /\ Len(a) + j \in rows /\ kitems'[Len(a) + j].ca = anchors[j].ca
              /\ kitems'[Len(a) + j].usedBy = anchors[j].usedBy
    <3>1. \A n \in DOMAIN a : kitems'[n].src \in {"secret", "cert-manager"}
      BY <1>4, <1>6, <1>7
    <3>2. ASSUME NEW j \in DOMAIN anchors
          PROVE  /\ Len(a) + j \in rows /\ kitems'[Len(a) + j].ca = anchors[j].ca
                 /\ kitems'[Len(a) + j].usedBy = anchors[j].usedBy
      <4>1. Len(a) + j \in DOMAIN kitems' /\ kitems'[Len(a) + j] = b[j]
        BY <1>5, <1>6
      <4> QED
        BY <1>5, <1>9, <4>1
    <3>3. \A n \in rows : n \in DOMAIN kitems' /\ n \notin DOMAIN a
      BY <3>1
    <3>4. \A n \in rows : \E j \in DOMAIN anchors : n = Len(a) + j
      BY <1>5, <1>6, <3>3
    <3> QED
      BY <3>2, <3>4
  <2> HIDE DEF rows
  <2>2. Merged(anchors, holders)
    BY <1>2 DEF KCollecting
  <2>3. \A m, n \in rows : kitems'[m].ca = kitems'[n].ca => m = n
    BY <2>1, <2>2 DEF Merged
  <2>4. UNION {{<<kitems'[n].ca, o>> : o \in kitems'[n].usedBy} : n \in rows} = holders
    <3>1. /\ holders = {p \in CAs \X Owner : \E n \in DOMAIN anchors :
                           anchors[n].ca = p[1] /\ p[2] \in anchors[n].usedBy}
          /\ \A n \in DOMAIN anchors : anchors[n].ca \in CAs /\ anchors[n].usedBy \subseteq Owner
      <4>1. \A n \in DOMAIN anchors : anchors[n] \in Anchor
        BY <2>2 DEF Merged
      <4> QED
        BY <2>2, <4>1 DEF Merged, Anchor
    <3>2. ASSUME NEW n \in rows, NEW o \in kitems'[n].usedBy
          PROVE  <<kitems'[n].ca, o>> \in holders
      BY <2>1, <3>1
    <3>3. ASSUME NEW p \in holders
          PROVE  \E n \in rows : \E o \in kitems'[n].usedBy : p = <<kitems'[n].ca, o>>
      <4>1. /\ p = <<p[1], p[2]>>
            /\ \E n \in DOMAIN anchors : anchors[n].ca = p[1] /\ p[2] \in anchors[n].usedBy
        BY <3>1
      <4> QED
        BY <2>1, <4>1
    <3> QED
      BY <3>2, <3>3
  <2> QED
    BY <1>1, <2>3, <2>4 DEF AnchorsMerged, rows
<1> QED
  BY <1>1, <1>10, <1>11, <1>12, <1>13 DEF KInv, KCollected

LEMMA KNextStep == KInv /\ [KNext]_kvars => KInv'
<1> SUFFICES ASSUME KInv, [KNext]_kvars PROVE KInv'
  OBVIOUS
<1>1. CASE KNext
  BY <1>1, ReadIngressesStep, ReadSecretsStep, ReadCertificatesStep, JoinStep,
     ReadBundlesStep, ReadMeshStep, UnansweredStep, FinishStep DEF KNext
<1>2. CASE UNCHANGED kvars
  <2>1. /\ KTyped' <=> KTyped
        /\ (SecretsListed /\ SecretRows /\ CertificateRows /\ RowsOnce)'
             <=> (SecretsListed /\ SecretRows /\ CertificateRows /\ RowsOnce)
    BY <1>2 DEF kvars, KTyped, SecretsListed, SecretRows, CertificateRows, RowsOnce, Pending,
                SecretItem, CertificateItems, CertManagerItem, ReadSecretsIn
  <2>2. KCollected' <=> KCollected
    BY <1>2 DEF kvars, KCollected, MissingWasLookedFor, CertificateOnce, NeverFalselyCalm,
                AnchorsMerged
  <2> QED
    BY <1>2, <2>1, <2>2 DEF kvars, KInv, KCollecting
<1> QED
  BY <1>1, <1>2

THEOREM KInvariance == KSpec => []KInv
BY KInitStep, KNextStep, PTL DEF KSpec

\* While Collect goes on, no row says missing without having looked.
LEMMA LookedForSoFar == KCollecting => MissingWasLookedFor
<1> SUFFICES ASSUME KCollecting, NEW n \in DOMAIN kitems, kitems[n].src = "cert-manager",
                    kitems[n].state = "missing"
             PROVE  /\ \E scope \in secretNS : kitems[n].key \in InScope(scope)
                    /\ kitems[n].key \notin listed
  BY DEF MissingWasLookedFor, Range
<1>1. kitems[n] \in CertificateItems
  BY DEF KCollecting, CertificateRows
<1>2. /\ kitems[n].key \notin DOMAIN secrets /\ ReadSecretsIn(kitems[n].key.ns)
      /\ kitems[n].key \in Keys
  BY <1>1, CertificateItemsOnce DEF KCollecting
<1>3. \E scope \in secretNS : kitems[n].key \in InScope(scope)
  BY <1>2 DEF ReadSecretsIn, InScope
<1> QED
  BY <1>2, <1>3 DEF KCollecting, KTyped

\* A Certificate is said to be without its Secret only where the Secrets of its
\* namespace were listed, and not among them (k8scert.go:119).
THEOREM MissingIsLookedFor == KSpec => []MissingWasLookedFor
<1>1. KInv => MissingWasLookedFor
  BY LookedForSoFar DEF KInv, KCollected
<1> QED
  BY <1>1, KInvariance, PTL

\* A certificate is one row: its Secret where that was parsed, else its
\* Certificate, and never neither when one of them has a date (k8scert.go:99).
THEOREM CertificateIsOneRow == KSpec => []CertificateOnce
<1>1. KInv => CertificateOnce
  BY DEF KInv, KCollected, CertificateOnce
<1> QED
  BY <1>1, KInvariance, PTL

\* Only a certificate that was read and will be renewed is "managed", and a
\* renewal that is stuck is said of every row (k8scert.go:143).
THEOREM CalmIsEarned == KSpec => []NeverFalselyCalm
<1>1. KInv => NeverFalselyCalm
  BY DEF KInv, KCollected, NeverFalselyCalm
<1> QED
  BY <1>1, KInvariance, PTL

\* One row for each CA, which names every object that holds it (k8strust.go:318).
THEOREM AnchorsAreMerged == KSpec => []AnchorsMerged
<1>1. KInv => AnchorsMerged
  BY DEF KInv, KCollected, AnchorsMerged
<1> QED
  BY <1>1, KInvariance, PTL

-----------------------------------------------------------------------------
(* The TLS probe: what its goroutines keep *)

Appended == {i \in Endpoints : worker[i] \in {"unlocked", "done"}}

\* The goroutine that appends holds the mutex, so the slices it found are the
\* slices there are.
Appending ==
    \A i \in Endpoints : worker[i] = "appending" =>
        mutex = i /\ seen[i] = [items |-> items, errs |-> errs]

Spawned == \A i \in Endpoints : i >= next => worker[i] = "unborn"

\* The rows its holds are what the endpoints in done presented, one leaf each.
Holds(its, done) ==
    /\ \A i \in done : answer[i] # Failed =>
          \A it \in Range(Presented(i, answer[i])) : \E r \in DOMAIN its : its[r] = it
    /\ \A r \in DOMAIN its : \E i \in done :
          answer[i] # Failed /\ its[r] \in Range(Presented(i, answer[i]))
    /\ \A q, r \in DOMAIN its :
          its[q].kind = "leaf" /\ its[r] = its[q] => q = r

Failures ==
    /\ Range(errs) = {i \in Appended : answer[i] = Failed}
    /\ IsInjective(errs)

Gathered == main = "spawn" => Holds(items, Appended)

Finished == main = "returned" => Appended = Endpoints /\ NothingLost

ProbeInv == TypeOK /\ Appending /\ Spawned /\ Failures /\ Gathered /\ Finished

-----------------------------------------------------------------------------
(* What a probe presents *)

\* The leaf first, and after it intermediates; all of them rows of i alone.
LEMMA PresentedLists ==
    ASSUME NEW i \in Endpoints, NEW chain \in Chains[i]
    PROVE  LET P == Presented(i, chain) IN
           /\ P \in Seq(Item) /\ 1 \in DOMAIN P
           /\ \A k \in DOMAIN P : P[k].hosts = {i} /\ (P[k].kind = "leaf" <=> k = 1)
<1> DEFINE K == {k \in DOMAIN chain : k > 1 /\ ~chain[k].root}
           rest == ElementsAt(chain, K)
           leaf == LeafItem(i, Head(chain))
           others == [k \in DOMAIN rest |-> IntermediateItem(i, rest[k])]
           P == Presented(i, chain)
<1>1. chain \in Seq(Certs) /\ chain # <<>>
  BY ChainsAssumption
<1>2. \A c \in Certs : LeafItem(i, c) \in Item /\ IntermediateItem(i, c) \in Item
  BY DEF Item, LeafItem, IntermediateItem
<1>3. leaf \in Item /\ leaf.hosts = {i} /\ leaf.kind = "leaf"
  <2>1. Head(chain) \in Certs
    BY <1>1
  <2> QED
    BY <1>2, <2>1 DEF LeafItem
<1>4. rest \in Seq(Certs)
  <2>1. K \in SUBSET DOMAIN chain
    OBVIOUS
  <2> HIDE DEF K
  <2> QED
    BY <1>1, <2>1, ElementsAtLists
<1> HIDE DEF rest
<1>5. /\ others \in Seq(Item)
      /\ \A k \in DOMAIN others : others[k].hosts = {i} /\ others[k].kind = "intermediate"
  <2>1. DOMAIN rest = 1..Len(rest) /\ Len(rest) \in Nat /\ \A k \in DOMAIN rest : rest[k] \in Certs
    BY <1>4
  <2>2. \A k \in DOMAIN others :
           others[k] \in Item /\ others[k].hosts = {i} /\ others[k].kind = "intermediate"
    BY <1>2, <2>1 DEF IntermediateItem
  <2>3. others \in [1..Len(rest) -> Item]
    BY <2>1, <2>2
  <2> HIDE DEF others
  <2> QED
    BY <2>1, <2>2, <2>3
<1>6. P = <<leaf>> \o others
  BY DEF Presented, rest
<1> HIDE DEF leaf, others, P
<1>7. <<leaf>> \in Seq(Item) /\ DOMAIN <<leaf>> = {1} /\ <<leaf>>[1] = leaf /\ Len(<<leaf>>) = 1
  BY <1>3
<1>8. /\ P \in Seq(Item)
      /\ 1 \in DOMAIN P /\ P[1] = leaf
      /\ \A k \in DOMAIN others : 1 + k # 1 /\ P[1 + k] = others[k]
      /\ \A k \in DOMAIN P : k = 1 \/ \E j \in DOMAIN others : k = 1 + j
  <2> DEFINE s == <<leaf>>
  <2>1. s \in Seq(Item) /\ DOMAIN s = {1} /\ s[1] = leaf /\ Len(s) = 1
    BY <1>7
  <2> HIDE DEF s
  <2>2. /\ s \o others \in Seq(Item) /\ Len(s) \in Nat
        /\ \A k \in DOMAIN s : k \in DOMAIN (s \o others) /\ (s \o others)[k] = s[k]
        /\ \A k \in DOMAIN others : /\ Len(s) + k \in DOMAIN (s \o others)
                                   /\ Len(s) + k \notin DOMAIN s
                                   /\ (s \o others)[Len(s) + k] = others[k]
        /\ \A k \in DOMAIN (s \o others) :
              k \in DOMAIN s \/ \E j \in DOMAIN others : k = Len(s) + j
    BY <1>5, <2>1, ConcatIndex
  <2> QED
    BY <1>6, <2>1, <2>2 DEF s
<1>9. \A k \in DOMAIN P : P[k].hosts = {i} /\ (P[k].kind = "leaf" <=> k = 1)
  <2> SUFFICES ASSUME NEW k \in DOMAIN P
               PROVE  P[k].hosts = {i} /\ (P[k].kind = "leaf" <=> k = 1)
    OBVIOUS
  <2>1. CASE k = 1
    BY <1>3, <1>8, <2>1
  <2>2. CASE \E j \in DOMAIN others : k = 1 + j
    BY <1>5, <1>8, <2>2
  <2> QED
    BY <1>8, <2>1, <2>2
<1> QED
  BY <1>8, <1>9 DEF P

-----------------------------------------------------------------------------
(* The merge and the sort *)

\* Every row is in a merged row of its kind and serial number with its hosts, and a
\* merged row has no others; no certificate has two merged rows; and leaves are left
\* alone.
LEMMA MergeLists ==
    ASSUME NEW its \in Seq(Item)
    PROVE  LET m == MergeIntermediates(its) IN
           /\ m \in Seq(Item)
           /\ \A k \in DOMAIN its : \E n \in DOMAIN m :
                 /\ m[n].kind = its[k].kind /\ m[n].serial = its[k].serial
                 /\ its[k].hosts \subseteq m[n].hosts
           /\ \A n \in DOMAIN m : \A i \in m[n].hosts : \E k \in DOMAIN its :
                 /\ m[n].kind = its[k].kind /\ m[n].serial = its[k].serial
                 /\ i \in its[k].hosts
           /\ \A n, o \in DOMAIN m : n # o => ~SameCert(m[n], m[o])
           /\ \E place \in [DOMAIN m -> DOMAIN its] :
                 /\ \A n \in DOMAIN m : m[n].kind = "leaf" => m[n] = its[place[n]]
                 /\ \A n, o \in DOMAIN m : place[n] = place[o] => n = o
<1> DEFINE D == DOMAIN its
           copies(k) == {k} \cup {j \in D : SameCert(its[j], its[k])}
           hosts(k) == UNION {its[j].hosts : j \in copies(k)}
           merged == [k \in D |-> [its[k] EXCEPT !.hosts = hosts(k)]]
           K == {k \in D : ~\E j \in 1..(k - 1) : SameCert(its[j], its[k])}
           m == MergeIntermediates(its)
<1>1. D = 1..Len(its) /\ Len(its) \in Nat /\ \A k \in D : k \in Nat /\ its[k] \in Item
  OBVIOUS
<1>2. \A k \in D : hosts(k) \in SUBSET Endpoints
  <2>1. \A k \in D : its[k].hosts \subseteq Endpoints
    BY <1>1 DEF Item
  <2> QED
    BY <2>1
<1>3. m = ElementsAt(merged, K)
  BY DEF MergeIntermediates
<1> HIDE DEF m
<1>4. \A k \in D : /\ merged[k] \in Item
                  /\ merged[k].kind = its[k].kind /\ merged[k].serial = its[k].serial
                  /\ merged[k].hosts = hosts(k)
  <2> SUFFICES ASSUME NEW k \in D
               PROVE  /\ merged[k] \in Item
                      /\ merged[k].kind = its[k].kind /\ merged[k].serial = its[k].serial
                      /\ merged[k].hosts = hosts(k)
    OBVIOUS
  <2>1. merged[k] = [its[k] EXCEPT !.hosts = hosts(k)]
    OBVIOUS
  <2>2. hosts(k) \in SUBSET Endpoints /\ its[k] \in Item
    BY <1>1, <1>2
  <2> HIDE DEF hosts, merged
  <2> QED
    BY <2>1, <2>2 DEF Item
<1>5. /\ \A k \in D : its[k].hosts \subseteq hosts(k)
      /\ \A k \in D : its[k].kind = "leaf" => hosts(k) = its[k].hosts
      /\ \A k \in D : \A i \in hosts(k) : \E j \in D :
            its[j].kind = its[k].kind /\ its[j].serial = its[k].serial /\ i \in its[j].hosts
  <2>1. \A k \in D : its[k].hosts \subseteq hosts(k)
    OBVIOUS
  <2>2. \A k \in D : its[k].kind = "leaf" => hosts(k) = its[k].hosts
    BY DEF SameCert
  <2>3. \A k \in D : \A i \in hosts(k) : \E j \in D :
            its[j].kind = its[k].kind /\ its[j].serial = its[k].serial /\ i \in its[j].hosts
    BY DEF SameCert
  <2> QED
    BY <2>1, <2>2, <2>3
<1>6. DOMAIN merged = D
  OBVIOUS
<1> HIDE DEF hosts
<1>7. merged \in Seq(Item)
  <2>1. merged \in [1..Len(its) -> Item]
    BY <1>1, <1>4, <1>6
  <2> HIDE DEF merged
  <2> QED
    BY <1>1, <2>1
<1>8. K \in SUBSET D
  OBVIOUS
<1>9. \A k \in D : \E j \in K : j = k \/ SameCert(its[j], its[k])
  <2> SUFFICES ASSUME NEW k \in D, k \notin K PROVE \E j \in K : SameCert(its[j], its[k])
    OBVIOUS
  <2> DEFINE T == {j \in 1..(k - 1) : SameCert(its[j], its[k])}
  <2>1. T # {} /\ T \in SUBSET Nat
    OBVIOUS
  <2>2. PICK j \in T : \A l \in T : j <= l
    <3> HIDE DEF T
    <3> QED
      BY <2>1, LeastNat
  <2>3. j \in D /\ SameCert(its[j], its[k])
    BY <1>1, <2>2
  <2>4. ASSUME NEW l \in 1..(j - 1), SameCert(its[l], its[j]) PROVE FALSE
    <3>1. SameCert(its[l], its[k])
      BY <2>3, <2>4 DEF SameCert
    <3>2. l \in T /\ ~(j <= l)
      BY <1>1, <2>2, <3>1
    <3> QED
      BY <2>2, <3>2
  <2> QED
    BY <2>3, <2>4
<1>10. \A j, k \in K : j # k => ~SameCert(its[j], its[k])
  <2> SUFFICES ASSUME NEW j \in K, NEW k \in K, j # k, SameCert(its[j], its[k]) PROVE FALSE
    OBVIOUS
  <2>1. SameCert(its[k], its[j])
    BY DEF SameCert
  <2>2. j \in 1..(k - 1) \/ k \in 1..(j - 1)
    BY <1>1
  <2> QED
    BY <2>1, <2>2
<1> HIDE DEF merged, K, D
<1>11. /\ m \in Seq(Item)
       /\ \E place \in [DOMAIN m -> K] :
             /\ \A n \in DOMAIN m : m[n] = merged[place[n]]
             /\ \A k \in K : \E n \in DOMAIN m : place[n] = k
             /\ \A n, o \in DOMAIN m : n < o => place[n] < place[o]
  <2> DEFINE t == ElementsAt(merged, K)
  <2>1. /\ t \in Seq(Item)
        /\ Range(t) = {merged[k] : k \in K}
        /\ t = <<>> <=> K = {}
        /\ \E place \in [DOMAIN t -> K] :
              /\ \A n \in DOMAIN t : t[n] = merged[place[n]]
              /\ \A k \in K : \E n \in DOMAIN t : place[n] = k
              /\ \A n, o \in DOMAIN t : n < o => place[n] < place[o]
    BY <1>6, <1>7, <1>8, ElementsAtLists
  <2> QED
    BY <1>3, <2>1
<1>12. PICK place \in [DOMAIN m -> K] :
             /\ \A n \in DOMAIN m : m[n] = merged[place[n]]
             /\ \A k \in K : \E n \in DOMAIN m : place[n] = k
             /\ \A n, o \in DOMAIN m : n < o => place[n] < place[o]
  BY <1>11
<1>13. \A n \in DOMAIN m :
          /\ place[n] \in D /\ place[n] \in K
          /\ m[n].kind = its[place[n]].kind /\ m[n].serial = its[place[n]].serial
          /\ m[n].hosts = hosts(place[n])
  BY <1>4, <1>8, <1>12
<1>14. \A n, o \in DOMAIN m : place[n] = place[o] => n = o
  <2> SUFFICES ASSUME NEW n \in DOMAIN m, NEW o \in DOMAIN m, place[n] = place[o] PROVE n = o
    OBVIOUS
  <2>1. n \in Nat /\ o \in Nat
    BY <1>11
  <2>2. place[n] \in Nat /\ place[o] \in Nat
    BY <1>1, <1>13
  <2>3. ~(n < o) /\ ~(o < n)
    BY <1>12, <2>2
  <2> QED
    BY <2>1, <2>3
<1>15. \A n, o \in DOMAIN m : n # o => ~SameCert(m[n], m[o])
  <2> SUFFICES ASSUME NEW n \in DOMAIN m, NEW o \in DOMAIN m, n # o
               PROVE  ~SameCert(m[n], m[o])
    OBVIOUS
  <2>1. ~SameCert(its[place[n]], its[place[o]])
    BY <1>10, <1>13, <1>14
  <2> QED
    BY <1>13, <2>1 DEF SameCert
<1>16. ASSUME NEW k \in D
       PROVE  \E n \in DOMAIN m :
                 /\ m[n].kind = its[k].kind /\ m[n].serial = its[k].serial
                 /\ its[k].hosts \subseteq m[n].hosts
  <2>1. PICK j \in K : j = k \/ SameCert(its[j], its[k])
    BY <1>9
  <2>2. PICK n \in DOMAIN m : place[n] = j
    BY <1>12
  <2>3. its[k].hosts \subseteq hosts(j)
    <3>1. k \in copies(j)
      BY <2>1 DEF SameCert
    <3> QED
      BY <3>1 DEF hosts
  <2> QED
    BY <1>13, <2>1, <2>2, <2>3 DEF SameCert
<1>17. ASSUME NEW n \in DOMAIN m, NEW i \in m[n].hosts
       PROVE  \E k \in D :
                 /\ m[n].kind = its[k].kind /\ m[n].serial = its[k].serial
                 /\ i \in its[k].hosts
  BY <1>5, <1>13
<1>18. \A n \in DOMAIN m : m[n].kind = "leaf" => m[n] = its[place[n]]
  <2> SUFFICES ASSUME NEW n \in DOMAIN m, m[n].kind = "leaf" PROVE m[n] = its[place[n]]
    OBVIOUS
  <2>1. hosts(place[n]) = its[place[n]].hosts
    BY <1>5, <1>13
  <2>2. m[n] = [its[place[n]] EXCEPT !.hosts = hosts(place[n])]
    BY <1>12, <1>13 DEF merged
  <2>3. its[place[n]] \in Item
    BY <1>1, <1>13
  <2> QED
    BY <2>1, <2>2, <2>3 DEF Item
<1>19. place \in [DOMAIN m -> D]
  BY <1>8, <1>12
<1> QED
  BY <1>11, <1>14, <1>15, <1>16, <1>17, <1>18, <1>19 DEF m, D

\* ByDate permutes.
LEMMA SortPermutes ==
    ASSUME NEW its \in Seq(Item)
    PROVE  LET s == ByDate(its) IN
           /\ s \in Seq(Item)
           /\ \E place \in [DOMAIN s -> DOMAIN its] :
                 /\ \A n \in DOMAIN s : s[n] = its[place[n]]
                 /\ \A k \in DOMAIN its : \E n \in DOMAIN s : place[n] = k
                 /\ \A n, o \in DOMAIN s : place[n] = place[o] => n = o
<1> DEFINE D == 1..Len(its)
           sooner(j, k) == \/ its[j].expires < its[k].expires
                           \/ its[j].expires = its[k].expires /\ j <= k
           R == {p \in D \X D : sooner(p[1], p[2])}
           place == Ordered(D, R)
           s == ByDate(its)
<1>1. Len(its) \in Nat /\ DOMAIN its = D
  OBVIOUS
<1>2. IsFiniteSet(D)
  BY <1>1, FS_Interval
<1>3. \A k \in D : k \in Int /\ its[k] \in Item /\ its[k].expires \in Int
  <2>1. \A it \in Item : it.expires \in Int
    BY CertsAssumption DEF Item
  <2>2. \A k \in D : k \in Int /\ its[k] \in Item
    BY <1>1
  <2> QED
    BY <2>1, <2>2
<1>4. \A j, k \in D : <<j, k>> \in R <=>
         \/ its[j].expires < its[k].expires
         \/ its[j].expires = its[k].expires /\ j <= k
  OBVIOUS
<1>5. s = [n \in DOMAIN place |-> its[place[n]]]
  BY DEF ByDate
<1> HIDE DEF D, R, s, place
<1>6. IsTotalOrder(D, R)
  <2> DEFINE expires(k) == its[k].expires
  <2>1. \A k \in D : k \in Int /\ expires(k) \in Int
    BY <1>3
  <2>2. \A j, k \in D : <<j, k>> \in R <=>
           expires(j) < expires(k) \/ (expires(j) = expires(k) /\ j <= k)
    BY <1>4
  <2> HIDE DEF expires
  <2>3. \A x \in D : <<x, x>> \in R
    BY <2>1, <2>2
  <2>4. \A x, y \in D : <<x, y>> \in R \/ <<y, x>> \in R
    <3> SUFFICES ASSUME NEW x \in D, NEW y \in D PROVE <<x, y>> \in R \/ <<y, x>> \in R
      OBVIOUS
    <3>1. x \in Int /\ y \in Int /\ expires(x) \in Int /\ expires(y) \in Int
      BY <2>1
    <3> QED
      BY <2>2, <3>1
  <2>5. \A x, y \in D : <<x, y>> \in R /\ <<y, x>> \in R => x = y
    BY <2>1, <2>2
  <2>6. \A x, y, z \in D : <<x, y>> \in R /\ <<y, z>> \in R => <<x, z>> \in R
    BY <2>1, <2>2
  <2> QED
    BY <2>3, <2>4, <2>5, <2>6 DEF IsTotalOrder
<1>7. /\ place \in Seq(D) /\ DOMAIN place = 1..Cardinality(D) /\ Cardinality(D) \in Nat
      /\ Range(place) = D
      /\ \A m, n \in DOMAIN place : m < n => <<place[m], place[n]>> \in R /\ place[m] # place[n]
  BY <1>2, <1>6, OrderedLists DEF place
<1>8. DOMAIN s = DOMAIN place /\ \A n \in DOMAIN s : s[n] = its[place[n]] /\ place[n] \in D
  BY <1>5, <1>7
<1>9. s \in Seq(Item)
  <2>1. \A n \in 1..Cardinality(D) : s[n] \in Item
    BY <1>3, <1>7, <1>8
  <2>2. s \in [1..Cardinality(D) -> Item]
    BY <1>5, <1>7, <1>8, <2>1
  <2> QED
    BY <1>7, <2>2
<1>10. \A k \in D : \E n \in DOMAIN s : place[n] = k
  BY <1>7, <1>8 DEF Range
<1>11. \A n, o \in DOMAIN s : place[n] = place[o] => n = o
  <2> SUFFICES ASSUME NEW n \in DOMAIN s, NEW o \in DOMAIN s, place[n] = place[o], n # o PROVE FALSE
    OBVIOUS
  <2>1. n < o \/ o < n
    BY <1>7, <1>8
  <2> QED
    BY <1>7, <1>8, <2>1
<1>12. place \in [DOMAIN s -> D]
  BY <1>7, <1>8
<1> QED
  BY <1>1, <1>8, <1>9, <1>10, <1>11, <1>12 DEF s

AnswersTyped == \A i \in Endpoints : answer[i] \in Chains[i] \cup {Failed}

\* What an endpoint presented is rows of its own.
LEMMA OwnRows ==
    ASSUME AnswersTyped, NEW i \in Endpoints, answer[i] # Failed
    PROVE  /\ Presented(i, answer[i]) \in Seq(Item)
           /\ \A it \in Range(Presented(i, answer[i])) : it \in Item /\ it.hosts = {i}
<1> DEFINE P == Presented(i, answer[i])
<1>1. answer[i] \in Chains[i]
  BY DEF AnswersTyped
<1>2. P \in Seq(Item) /\ \A k \in DOMAIN P : P[k].hosts = {i}
  BY <1>1, PresentedLists
<1> HIDE DEF P
<1>3. \A it \in Range(P) : it \in Item /\ it.hosts = {i}
  BY <1>2 DEF Range
<1> QED
  BY <1>2, <1>3 DEF P

\* s is each leaf once for its endpoint, each intermediate once, and nothing else.
Complete(s) ==
    /\ \A i \in Endpoints : answer[i] # Failed =>
          \A it \in Range(Presented(i, answer[i])) :
             Cardinality({r \in DOMAIN s : /\ s[r].kind = it.kind
                                           /\ s[r].serial = it.serial
                                           /\ i \in s[r].hosts}) = 1
    /\ \A r \in DOMAIN s : \A i \in s[r].hosts :
          /\ answer[i] # Failed
          /\ \E it \in Range(Presented(i, answer[i])) :
                it.kind = s[r].kind /\ it.serial = s[r].serial
    /\ \A q, r \in DOMAIN s :
          q # r /\ s[q].kind = "intermediate" => ~SameCert(s[q], s[r])

\* Once every endpoint has appended, that is what Collect makes of the rows.
LEMMA CollectedLists ==
    ASSUME items \in Seq(Item), AnswersTyped, Holds(items, Endpoints)
    PROVE  Collected \in Seq(Item) /\ Complete(Collected)
<1> DEFINE m == MergeIntermediates(items)
           s == ByDate(m)
<1>1. Collected = s
  BY DEF Collected
<1>2. /\ m \in Seq(Item)
      /\ \A k \in DOMAIN items : \E n \in DOMAIN m :
            /\ m[n].kind = items[k].kind /\ m[n].serial = items[k].serial
            /\ items[k].hosts \subseteq m[n].hosts
      /\ \A n \in DOMAIN m : \A i \in m[n].hosts : \E k \in DOMAIN items :
            /\ m[n].kind = items[k].kind /\ m[n].serial = items[k].serial
            /\ i \in items[k].hosts
      /\ \A n, o \in DOMAIN m : n # o => ~SameCert(m[n], m[o])
      /\ \E place \in [DOMAIN m -> DOMAIN items] :
            /\ \A n \in DOMAIN m : m[n].kind = "leaf" => m[n] = items[place[n]]
            /\ \A n, o \in DOMAIN m : place[n] = place[o] => n = o
  BY MergeLists
<1> HIDE DEF m
<1>3. /\ s \in Seq(Item)
      /\ \E place \in [DOMAIN s -> DOMAIN m] :
            /\ \A n \in DOMAIN s : s[n] = m[place[n]]
            /\ \A k \in DOMAIN m : \E n \in DOMAIN s : place[n] = k
            /\ \A n, o \in DOMAIN s : place[n] = place[o] => n = o
  BY <1>2, SortPermutes
<1> HIDE DEF s
<1>4. PICK by \in [DOMAIN m -> DOMAIN items] :
         /\ \A n \in DOMAIN m : m[n].kind = "leaf" => m[n] = items[by[n]]
         /\ \A n, o \in DOMAIN m : by[n] = by[o] => n = o
  BY <1>2
<1>5. PICK place \in [DOMAIN s -> DOMAIN m] :
         /\ \A n \in DOMAIN s : s[n] = m[place[n]]
         /\ \A k \in DOMAIN m : \E n \in DOMAIN s : place[n] = k
         /\ \A n, o \in DOMAIN s : place[n] = place[o] => n = o
  BY <1>3
<1>6. \A k \in DOMAIN items : \E i \in Endpoints :
         /\ answer[i] # Failed /\ items[k] \in Range(Presented(i, answer[i]))
         /\ items[k].hosts = {i}
  BY OwnRows DEF Holds
<1>7. \A q, r \in DOMAIN s : q # r => ~SameCert(s[q], s[r])
  BY <1>2, <1>5
<1> DEFINE rowOf(n, i) == {k \in DOMAIN items :
              m[n].kind = items[k].kind /\ m[n].serial = items[k].serial /\ i \in items[k].hosts}
<1>8. \A n \in DOMAIN m : \A i \in m[n].hosts : rowOf(n, i) # {}
  BY <1>2
<1>9. ASSUME NEW r \in DOMAIN s, NEW i \in s[r].hosts
      PROVE  /\ i \in Endpoints /\ answer[i] # Failed
             /\ \E it \in Range(Presented(i, answer[i])) :
                   it.kind = s[r].kind /\ it.serial = s[r].serial
  <2>1. place[r] \in DOMAIN m /\ s[r] = m[place[r]]
    BY <1>5
  <2>2. PICK k \in DOMAIN items : /\ s[r].kind = items[k].kind /\ s[r].serial = items[k].serial
                                  /\ i \in items[k].hosts
    BY <1>8, <2>1
  <2>3. PICK j \in Endpoints :
           /\ answer[j] # Failed /\ items[k] \in Range(Presented(j, answer[j]))
           /\ items[k].hosts = {j}
    BY <1>6
  <2>4. i = j
    BY <2>2, <2>3
  <2> QED
    BY <2>2, <2>3, <2>4
<1>10. ASSUME NEW q \in DOMAIN s, NEW r \in DOMAIN s, NEW i \in s[q].hosts, i \in s[r].hosts,
             s[q].kind = "leaf", s[r].kind = "leaf"
      PROVE  q = r
  <2>1. /\ place[q] \in DOMAIN m /\ s[q] = m[place[q]] /\ place[r] \in DOMAIN m /\ s[r] = m[place[r]]
    BY <1>5
  <2> DEFINE j == by[place[q]]
             k == by[place[r]]
  <2>2. /\ j \in DOMAIN items /\ s[q] = items[j] /\ k \in DOMAIN items /\ s[r] = items[k]
    BY <1>4, <1>10, <2>1
  <2> HIDE DEF j, k
  <2>3. items[j].hosts = {i} /\ items[k].hosts = {i}
    BY <1>6, <1>10, <2>2
  <2>4. items[j] \in Range(Presented(i, answer[i])) /\ items[k] \in Range(Presented(i, answer[i]))
    BY <1>6, <2>2, <2>3
  <2>5. items[j] = items[k]
    <3>1. i \in Endpoints /\ answer[i] \in Chains[i]
      BY <1>9, <1>10 DEF AnswersTyped
    <3> DEFINE P == Presented(i, answer[i])
    <3>2. \A n \in DOMAIN P : P[n].kind = "leaf" <=> n = 1
      BY <3>1, PresentedLists
    <3> HIDE DEF P
    <3>3. \A it \in Range(P) : it.kind = "leaf" => it = P[1]
      BY <3>2 DEF Range
    <3> QED
      BY <1>10, <2>2, <2>4, <3>3 DEF P
  <2>6. j = k
    BY <1>10, <2>2, <2>5 DEF Holds
  <2> QED
    BY <1>4, <1>5, <2>1, <2>6 DEF j, k
<1>11. ASSUME NEW i \in Endpoints, answer[i] # Failed,
              NEW it \in Range(Presented(i, answer[i]))
       PROVE  Cardinality({r \in DOMAIN s : /\ s[r].kind = it.kind
                                             /\ s[r].serial = it.serial
                                             /\ i \in s[r].hosts}) = 1
  <2> DEFINE rows == {r \in DOMAIN s : /\ s[r].kind = it.kind
                                       /\ s[r].serial = it.serial
                                       /\ i \in s[r].hosts}
  <2>1. it \in Item /\ it.hosts = {i}
    BY <1>11, OwnRows
  <2>2. PICK k \in DOMAIN items : items[k] = it
    BY <1>11 DEF Holds
  <2>3. PICK n \in DOMAIN m : /\ m[n].kind = it.kind /\ m[n].serial = it.serial
                              /\ i \in m[n].hosts
    BY <1>2, <2>1, <2>2
  <2>4. PICK r \in DOMAIN s : place[r] = n /\ r \in rows
    BY <1>5, <2>3
  <2>5. ASSUME NEW q \in rows PROVE q = r
    <3>1. /\ s[q].kind = it.kind /\ s[q].serial = it.serial /\ i \in s[q].hosts
          /\ s[r].kind = it.kind /\ s[r].serial = it.serial /\ i \in s[r].hosts
          /\ q \in DOMAIN s /\ r \in DOMAIN s
      BY <2>4, <2>5
    <3>2. it.kind = "leaf" \/ it.kind = "intermediate"
      BY <2>1 DEF Item
    <3>3. CASE it.kind = "leaf"
      BY <1>10, <3>1, <3>3
    <3>4. CASE it.kind = "intermediate"
      BY <1>7, <3>1, <3>4 DEF SameCert
    <3> QED
      BY <3>2, <3>3, <3>4
  <2>6. rows = {r}
    BY <2>4, <2>5
  <2> HIDE DEF rows
  <2>7. Cardinality(rows) = 1
    BY <2>6, FS_Singleton
  <2> QED
    BY <2>7 DEF rows
<1>12. \A i \in Endpoints : answer[i] # Failed =>
          \A it \in Range(Presented(i, answer[i])) :
             Cardinality({r \in DOMAIN s : /\ s[r].kind = it.kind
                                           /\ s[r].serial = it.serial
                                           /\ i \in s[r].hosts}) = 1
  BY <1>11
<1>13. \A r \in DOMAIN s : \A i \in s[r].hosts :
          /\ answer[i] # Failed
          /\ \E it \in Range(Presented(i, answer[i])) :
                it.kind = s[r].kind /\ it.serial = s[r].serial
  BY <1>9
<1>14. s \in Seq(Item)
  BY <1>3
<1>15. \A q, r \in DOMAIN s :
          q # r /\ s[q].kind = "intermediate" => ~SameCert(s[q], s[r])
  BY <1>7
<1>16. Complete(s)
  BY <1>12, <1>13, <1>15 DEF Complete
<1> QED
  BY <1>1, <1>14, <1>16

-----------------------------------------------------------------------------
(* The steps *)

\* A set of endpoints is finite, and slots given back leave no more of them held.
LEMMA SlotsKept ==
    ASSUME TypeOK, NEW H \in SUBSET Holding
    PROVE  /\ IsFiniteSet(H) /\ Cardinality(H) \in Nat /\ Cardinality(H) <= Concurrency
           /\ IsFiniteSet(Holding) /\ Cardinality(Holding) \in Nat
<1>1. IsFiniteSet(Endpoints)
  BY NEndpointsAssumption, FS_Interval DEF Endpoints
<1>2. Holding \in SUBSET Endpoints
  BY DEF Holding
<1>3. IsFiniteSet(Holding) /\ IsFiniteSet(H)
  BY <1>1, <1>2, FS_Subset
<1>4. Cardinality(H) <= Cardinality(Holding) /\ Cardinality(Holding) <= Concurrency
  BY <1>3, FS_Subset DEF TypeOK
<1>5. Cardinality(H) \in Nat /\ Cardinality(Holding) \in Nat
  BY <1>3, FS_CardinalityType
<1> QED
  BY <1>3, <1>4, <1>5, ConcurrencyAssumption

\* A step that leaves alone the slices, and the answers of those that have appended,
\* leaves what is known of the rows alone.
LEMMA RowsKept ==
    ASSUME ProbeInv, UNCHANGED <<main, items, errs>>, Appended' = Appended,
           \A i \in Appended : answer'[i] = answer[i]
    PROVE  Failures' /\ Gathered' /\ Finished'
<1>1. Failures'
  BY DEF ProbeInv, Failures
<1>2. Gathered'
  BY DEF ProbeInv, Gathered, Holds
<1>3. Finished'
  <2> SUFFICES ASSUME main' = "returned" PROVE Appended' = Endpoints /\ NothingLost'
    BY DEF Finished
  <2>1. Appended = Endpoints /\ NothingLost /\ main = "returned"
    BY DEF ProbeInv, Finished
  <2>2. \A i \in Endpoints : answer'[i] = answer[i]
    BY <2>1
  <2>3. \A i \in Endpoints : Presented(i, answer'[i]) = Presented(i, answer[i])
    BY <2>2
  <2>4. \A i \in Endpoints : answer'[i] # Failed =>
           \A it \in Range(Presented(i, answer'[i])) :
              Cardinality(Rows(it.kind, it.serial, i)') = 1
    BY <2>1, <2>2, <2>3 DEF NothingLost, Rows
  <2>5. \A r \in DOMAIN items : \A i \in items[r].hosts :
           /\ answer[i] # Failed
           /\ \E it \in Range(Presented(i, answer[i])) :
                 it.kind = items[r].kind /\ it.serial = items[r].serial
    BY <2>1 DEF NothingLost
  <2>6. \A r \in DOMAIN items : items[r].hosts \subseteq Endpoints
    <3>1. items \in Seq(Item)
      BY DEF ProbeInv, TypeOK
    <3>2. \A r \in DOMAIN items : items[r] \in Item
      BY <3>1
    <3> QED
      BY <3>2 DEF Item
  <2>7. \A r \in DOMAIN items' : \A i \in items'[r].hosts :
           /\ answer'[i] # Failed
           /\ \E it \in Range(Presented(i, answer'[i])) :
                 it.kind = items'[r].kind /\ it.serial = items'[r].serial
    BY <2>2, <2>3, <2>5, <2>6
  <2>8. Range(errs') = {i \in Endpoints : answer'[i] = Failed} /\ IsInjective(errs')
    BY <2>1, <2>2 DEF NothingLost
  <2>9. \A q, r \in DOMAIN items' :
           q # r /\ items'[q].kind = "intermediate" => ~SameCert(items'[q], items'[r])
    BY <2>1 DEF NothingLost
  <2>10. NothingLost'
    BY <2>4, <2>7, <2>8, <2>9 DEF NothingLost
  <2> QED
    BY <2>1, <2>10
<1> QED
  BY <1>1, <1>2, <1>3

LEMMA InitStep == Init => ProbeInv
<1> SUFFICES ASSUME Init PROVE ProbeInv
  OBVIOUS
<1> USE DEF Init
<1>1. Appended = {} /\ Holding = {}
  BY DEF Appended, Holding
<1>2. TypeOK
  <2>1. next \in 1..(NEndpoints + 1)
    BY NEndpointsAssumption
  <2>2. Cardinality(Holding) <= Concurrency
    BY <1>1, FS_EmptySet, ConcurrencyAssumption
  <2> QED
    BY <2>1, <2>2 DEF TypeOK
<1>3. Appending /\ Spawned
  BY DEF Appending, Spawned
<1>4. Failures /\ Gathered /\ Finished
  BY <1>1, EmptyRange DEF Failures, Gathered, Holds, Finished
<1> QED
  BY <1>2, <1>3, <1>4 DEF ProbeInv

LEMMA SpawnStep == ASSUME ProbeInv, Spawn PROVE ProbeInv'
<1> USE DEF ProbeInv, Spawn
<1>1. next \in Endpoints /\ worker[next] = "unborn" /\ DOMAIN worker = Endpoints
      /\ worker' = [worker EXCEPT ![next] = "blocked"]
  BY DEF Spawned, TypeOK
<1>2. Appended' = Appended /\ Holding' = Holding
  BY <1>1 DEF Appended, Holding
<1>3. TypeOK'
  <2>1. next' \in 1..(NEndpoints + 1)
    BY NEndpointsAssumption DEF Endpoints
  <2> QED
    BY <1>1, <1>2, <2>1 DEF TypeOK
<1>4. Appending'
  BY <1>1 DEF Appending
<1>5. Spawned'
  BY <1>1 DEF Spawned, Endpoints
<1>6. Failures' /\ Gathered' /\ Finished'
  BY <1>2, RowsKept
<1> QED
  BY <1>3, <1>4, <1>5, <1>6

\* Only a goroutine that was spawned takes a step.
LEMMA SpawnedStep ==
    ASSUME ProbeInv, UNCHANGED next, NEW i \in Endpoints, NEW to,
           worker[i] # "unborn", worker' = [worker EXCEPT ![i] = to]
    PROVE  Spawned'
BY DEF ProbeInv, Spawned, TypeOK

LEMMA AcquireStep == ASSUME ProbeInv, NEW i \in Endpoints, Acquire(i) PROVE ProbeInv'
<1> USE DEF ProbeInv, Acquire, Step
<1>1. Appended' = Appended /\ Holding' = Holding \cup {i} /\ i \notin Holding
  BY DEF Appended, Holding, TypeOK
<1>2. Cardinality(Holding') <= Concurrency
  <2>1. IsFiniteSet(Holding) /\ Cardinality(Holding) \in Nat
    BY SlotsKept
  <2>2. Cardinality(Holding') = Cardinality(Holding) + 1
    BY <1>1, <2>1, FS_AddElement
  <2> QED
    BY <2>1, <2>2, ConcurrencyAssumption DEF SlotFree
<1>3. TypeOK'
  BY <1>2 DEF TypeOK
<1>4. Appending'
  BY DEF Appending, TypeOK
<1>5. Spawned'
  BY SpawnedStep
<1>6. Failures' /\ Gathered' /\ Finished'
  BY <1>1, RowsKept
<1> QED
  BY <1>3, <1>4, <1>5, <1>6

LEMMA ProbeStep == ASSUME ProbeInv, NEW i \in Endpoints, Probe(i) PROVE ProbeInv'
<1> USE DEF ProbeInv, Probe, Step
<1>1. Appended' = Appended /\ Holding' = Holding /\ i \notin Appended
  BY DEF Appended, Holding, TypeOK
<1>2. PICK a \in Chains[i] \cup {Failed} : answer' = [answer EXCEPT ![i] = a]
  OBVIOUS
<1>3. TypeOK'
  BY <1>1, <1>2 DEF TypeOK
<1>4. Appending'
  BY DEF Appending, TypeOK
<1>5. Spawned'
  BY SpawnedStep
<1>6. Failures' /\ Gathered' /\ Finished'
  <2>1. \A j \in Appended : answer'[j] = answer[j]
    BY <1>1, <1>2
  <2> QED
    BY <1>1, <2>1, RowsKept
<1> QED
  BY <1>3, <1>4, <1>5, <1>6

LEMMA LockStep == ASSUME ProbeInv, NEW i \in Endpoints, Lock(i) PROVE ProbeInv'
<1> USE DEF ProbeInv, Lock, Step
<1>1. Appended' = Appended /\ Holding' = Holding
  BY DEF Appended, Holding, TypeOK
<1>2. TypeOK'
  <2>1. seen' \in [Endpoints -> [items : Seq(Item), errs : Seq(Endpoints)]]
    BY DEF TypeOK
  <2> QED
    BY <1>1, <2>1 DEF TypeOK
<1>3. Appending'
  <2> SUFFICES ASSUME NEW j \in Endpoints, worker'[j] = "appending"
               PROVE  mutex' = j /\ seen'[j] = [items |-> items', errs |-> errs']
    BY DEF Appending
  <2>1. j = i
    <3>1. \A k \in Endpoints : worker[k] # "appending"
      BY DEF Appending, Unlocked, Endpoints
    <3> QED
      BY <3>1 DEF TypeOK
  <2> QED
    BY <2>1 DEF TypeOK
<1>4. Spawned'
  BY SpawnedStep
<1>5. Failures' /\ Gathered' /\ Finished'
  BY <1>1, RowsKept
<1> QED
  BY <1>2, <1>3, <1>4, <1>5

LEMMA LeaveStep == ASSUME ProbeInv, NEW i \in Endpoints, Leave(i) PROVE ProbeInv'
<1> USE DEF ProbeInv, Leave, Step
<1>1. Appended' = Appended /\ Holding' \in SUBSET Holding
  BY DEF Appended, Holding, TypeOK
<1>2. Cardinality(Holding') <= Concurrency
  BY <1>1, SlotsKept
<1>3. TypeOK'
  BY <1>2 DEF TypeOK
<1>4. Appending'
  BY DEF Appending, TypeOK
<1>5. Spawned'
  BY SpawnedStep
<1>6. Failures' /\ Gathered' /\ Finished'
  BY <1>1, RowsKept
<1> QED
  BY <1>3, <1>4, <1>5, <1>6

\* The append of a goroutine that found the slices as they are.
LEMMA UnlockStep == ASSUME ProbeInv, NEW i \in Endpoints, Unlock(i) PROVE ProbeInv'
<1> USE DEF ProbeInv, Unlock, Step
<1>1. /\ Appended' = Appended \cup {i} /\ i \notin Appended
      /\ Holding' \in SUBSET Holding
  BY DEF Appended, Holding, TypeOK
<1>2. mutex = i /\ seen[i].items = items /\ seen[i].errs = errs
  BY DEF Appending
<1>3. main = "spawn" /\ Holds(items, Appended)
  BY <1>1 DEF Finished, Gathered, TypeOK
<1>4. items \in Seq(Item) /\ errs \in Seq(Endpoints) /\ AnswersTyped
  BY DEF TypeOK, AnswersTyped
<1>5. /\ items' \in Seq(Item) /\ errs' \in Seq(Endpoints)
      /\ Failures' /\ Holds(items, Appended)'
  <2>1. CASE answer[i] = Failed
    <3>1. errs' = Append(errs, i) /\ items' = items /\ answer' = answer
      BY <1>2, <2>1
    <3>2. i \notin Range(errs)
      BY <1>1 DEF Failures
    <3>3. errs' \in Seq(Endpoints) /\ Range(errs') = Range(errs) \cup {i} /\ IsInjective(errs')
      BY <1>4, <3>1, <3>2, AppendRange DEF Failures
    <3>4. Failures'
      BY <1>1, <2>1, <3>1, <3>3 DEF Failures
    <3>5. Holds(items, Appended)'
      BY <1>1, <1>3, <2>1, <3>1 DEF Holds
    <3> QED
      BY <1>4, <3>1, <3>3, <3>4, <3>5
  <2>2. CASE answer[i] # Failed
    <3> DEFINE P == Presented(i, answer[i])
    <3>1. errs' = errs /\ items' = items \o P /\ answer' = answer
      BY <1>2, <2>2
    <3>2. Failures'
      BY <1>1, <2>2, <3>1 DEF Failures
    <3>3. /\ P \in Seq(Item)
          /\ \A k \in DOMAIN P : P[k].hosts = {i} /\ (P[k].kind = "leaf" <=> k = 1)
      BY <1>4, <2>2, PresentedLists DEF AnswersTyped
    <3>4. P = Presented(i, answer'[i])
      BY <3>1
    <3> HIDE DEF P
    <3>5. /\ items' \in Seq(Item) /\ Len(items) \in Nat
          /\ \A k \in DOMAIN items : k \in DOMAIN items' /\ items'[k] = items[k]
          /\ \A k \in DOMAIN P : /\ Len(items) + k \in DOMAIN items'
                                 /\ items'[Len(items) + k] = P[k]
          /\ \A k \in DOMAIN items' :
                k \in DOMAIN items \/ \E j \in DOMAIN P : k = Len(items) + j
      BY <1>4, <3>1, <3>3, ConcatIndex
    <3>6. ASSUME NEW j \in Appended', answer'[j] # Failed,
                 NEW it \in Range(Presented(j, answer'[j]))
          PROVE  \E r \in DOMAIN items' : items'[r] = it
      <4>1. CASE j = i
        <5>1. PICK k \in DOMAIN P : P[k] = it
          BY <3>4, <3>6, <4>1 DEF Range
        <5> QED
          BY <3>5, <5>1
      <4>2. CASE j # i
        <5>1. j \in Appended /\ answer[j] # Failed /\ it \in Range(Presented(j, answer[j]))
          BY <1>1, <3>1, <3>6, <4>2
        <5>2. PICK r \in DOMAIN items : items[r] = it
          BY <1>3, <5>1 DEF Holds
        <5> QED
          BY <3>5, <5>2
      <4> QED
        BY <4>1, <4>2
    <3>7. ASSUME NEW r \in DOMAIN items'
          PROVE  \E j \in Appended' :
                    answer'[j] # Failed /\ items'[r] \in Range(Presented(j, answer'[j]))
      <4>1. CASE r \in DOMAIN items
        <5>1. PICK j \in Appended :
                 answer[j] # Failed /\ items[r] \in Range(Presented(j, answer[j]))
          BY <1>3, <4>1 DEF Holds
        <5> QED
          BY <1>1, <3>1, <3>5, <4>1, <5>1
      <4>2. CASE \E k \in DOMAIN P : r = Len(items) + k
        <5>1. PICK k \in DOMAIN P : r = Len(items) + k
          BY <4>2
        <5>2. items'[r] \in Range(P)
          BY <3>5, <5>1 DEF Range
        <5> QED
          BY <1>1, <2>2, <3>1, <3>4, <5>2
      <4> QED
        BY <3>5, <4>1, <4>2
    <3>8. ASSUME NEW r \in DOMAIN items PROVE items[r].hosts # {i}
      <4>1. PICK j \in Appended :
               answer[j] # Failed /\ items[r] \in Range(Presented(j, answer[j]))
        BY <1>3 DEF Holds
      <4>2. items[r].hosts = {j}
        BY <1>4, <4>1, OwnRows DEF Appended
      <4> QED
        BY <1>1, <4>2
    <3>9. ASSUME NEW q \in DOMAIN items', NEW r \in DOMAIN items',
                 items'[q].kind = "leaf", items'[r] = items'[q]
          PROVE  q = r
      <4>1. CASE q \in DOMAIN items /\ r \in DOMAIN items
        BY <1>3, <3>5, <3>9, <4>1 DEF Holds
      <4>2. CASE \E k, l \in DOMAIN P : q = Len(items) + k /\ r = Len(items) + l
        BY <3>3, <3>5, <3>9, <4>2
      <4>3. CASE q \in DOMAIN items /\ \E l \in DOMAIN P : r = Len(items) + l
        BY <3>3, <3>5, <3>8, <3>9, <4>3
      <4>4. CASE r \in DOMAIN items /\ \E k \in DOMAIN P : q = Len(items) + k
        BY <3>3, <3>5, <3>8, <3>9, <4>4
      <4> QED
        BY <3>5, <4>1, <4>2, <4>3, <4>4
    <3>10. Holds(items, Appended)'
      BY <3>6, <3>7, <3>9 DEF Holds
    <3> QED
      BY <1>4, <3>1, <3>2, <3>5, <3>10
  <2> QED
    BY <2>1, <2>2
<1>6. TypeOK'
  <2>1. Cardinality(Holding') <= Concurrency
    BY <1>1, SlotsKept
  <2> QED
    BY <1>5, <2>1 DEF TypeOK
<1>7. Appending'
  BY <1>2 DEF Appending, TypeOK
<1>8. Spawned'
  BY SpawnedStep
<1>9. Gathered' /\ Finished'
  BY <1>3, <1>5 DEF Gathered, Finished
<1> QED
  BY <1>5, <1>6, <1>7, <1>8, <1>9

LEMMA ReturnStep == ASSUME ProbeInv, Return PROVE ProbeInv'
<1> USE DEF ProbeInv, Return
<1>1. Appended = Endpoints /\ Appended' = Endpoints /\ Holding' = Holding
  BY DEF Appended, Holding
<1>2. items' \in Seq(Item) /\ Complete(items')
  <2>1. items \in Seq(Item) /\ AnswersTyped /\ Holds(items, Endpoints)
    BY <1>1 DEF TypeOK, AnswersTyped, Gathered
  <2> QED
    BY <2>1, CollectedLists
<1>3. TypeOK'
  BY <1>1, <1>2 DEF TypeOK
<1>4. Appending' /\ Spawned'
  BY DEF Appending, Spawned
<1>5. Failures'
  BY <1>1 DEF Failures
<1>6. Gathered'
  BY DEF Gathered
<1>7. Finished'
  <2>1. Range(errs') = {i \in Endpoints : answer'[i] = Failed} /\ IsInjective(errs')
    BY <1>1, <1>5 DEF Failures
  <2>2. NothingLost'
    BY <1>2, <2>1 DEF NothingLost, Complete, Rows
  <2> QED
    BY <1>1, <2>2 DEF Finished
<1> QED
  BY <1>3, <1>4, <1>5, <1>6, <1>7

-----------------------------------------------------------------------------
(* The theorems *)

\* ProbeInv holds whatever order the goroutines of tls.go run in.
THEOREM ProbeInvariance == Spec => []ProbeInv
<1>1. Init => ProbeInv
  BY InitStep
<1>2. ProbeInv /\ [Next]_vars => ProbeInv'
  <2> SUFFICES ASSUME ProbeInv, [Next]_vars PROVE ProbeInv'
    OBVIOUS
  <2>1. CASE Spawn
    BY <2>1, SpawnStep
  <2>2. CASE Return
    BY <2>2, ReturnStep
  <2>3. ASSUME NEW i \in Endpoints,
               Acquire(i) \/ Probe(i) \/ Lock(i) \/ Unlock(i) \/ Leave(i)
        PROVE  ProbeInv'
    BY <2>3, AcquireStep, ProbeStep, LockStep, UnlockStep, LeaveStep
  <2>4. CASE UNCHANGED vars
    <3>1. Appended' = Appended /\ Holding' = Holding
      BY <2>4 DEF vars, Appended, Holding
    <3>2. TypeOK' /\ Appending' /\ Spawned'
      BY <2>4, <3>1 DEF vars, ProbeInv, TypeOK, Appending, Spawned
    <3>3. Failures' /\ Gathered' /\ Finished'
      BY <2>4, <3>1, RowsKept DEF vars
    <3> QED
      BY <3>2, <3>3 DEF ProbeInv
  <2> QED
    BY <2>1, <2>2, <2>3, <2>4 DEF Next
<1> QED
  BY <1>1, <1>2, PTL DEF Spec

\* Every variable has its type, and no more than Concurrency probes hold a slot of
\* the semaphore (tls.go:33,56).
THEOREM ProbeTypeCorrect == Spec => []TypeOK
<1>1. ProbeInv => TypeOK
  BY DEF ProbeInv
<1> QED
  BY <1>1, ProbeInvariance, PTL

\* What Collect returns is what the endpoints presented, once, and the endpoints it
\* names as failed are those that failed (tls.go:38-83,192-223).
THEOREM NothingIsLost == Spec => []NothingLost
<1>1. ProbeInv => NothingLost
  BY DEF ProbeInv, Finished, TypeOK, NothingLost
<1> QED
  BY <1>1, ProbeInvariance, PTL
=============================================================================
