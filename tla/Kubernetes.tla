----------------------------- MODULE Kubernetes -----------------------------
(***************************************************************************)
(* The Kubernetes source (k8s.go, k8scert.go, k8strust.go): TLS Secrets,   *)
(* the cert-manager Certificates whose Secrets they are, the ingresses that *)
(* serve them, and the CAs of webhooks, API services and service meshes.   *)
(* Lists are read one after another with a token that may be forbidden any *)
(* of them, and what one list says is read against what another said       *)
(* earlier.  The cluster may change in between: every list is answered     *)
(* with anything.  Deadlines are "issued" (the date of the certificate or  *)
(* of its status) or "now"; a field that is empty is "none".               *)
(***************************************************************************)
EXTENDS Naturals, Sequences, FiniteSets, SequencesExt

CONSTANTS
    Keys,           \* Secrets that may exist: records [ns, name]
    CAs,            \* CA certificates that may be in a bundle
    Clusters,       \* configurations: [namespaces, skipSecrets, certManager, trust, signing]
    MaxDenied       \* bound: requests that fail in one run

ASSUME KeysAssumption == IsFiniteSet(Keys)
ASSUME CAsAssumption == IsFiniteSet(CAs) /\ "junk" \notin CAs
\* A namespace that is configured twice would be read, and reported, twice.
ASSUME ClustersAssumption ==
    \A k \in Clusters :
        /\ k.namespaces \in Seq(Range(k.namespaces)) /\ IsInjective(k.namespaces)
        /\ "*" \notin Range(k.namespaces)

VARIABLES
    kconf,      \* the configuration of the source
    todo,       \* requests not made yet, in order
    refs,       \* keys an ingress refers to
    secrets,    \* what was learnt of Secrets: parsed, unreadable
    secretNS,   \* namespaces whose Secrets were listed, "*" for all
    certs,      \* the Certificates read, by the key of their Secret
    anchors,    \* the CA accumulator: one entry per CA, in order of discovery
    kitems,     \* the items so far
    kerr,       \* resources named in the error
    denied,     \* failed requests so far
    listed, holders     \* history: keys the Secret lists held, <<ca, owner>> pairs

kvars == <<kconf, todo, refs, secrets, secretNS, certs, anchors, kitems, kerr,
           denied, listed, holders>>

\* Status of a Certificate: has it a notAfter, is it ready, when will it renew.
Statuses == [dated : BOOLEAN, ready : BOOLEAN, renewAt : {"unset", "past", "ahead"}]

\* Mesh anchors: where the CA is, and its keys with the part each plays.  One of
\* the two ConfigMaps that are read by default, and of the three Secrets that
\* are read when asked for the one with two parts.
AnchorKey(key, role) == [key |-> key, role |-> role]

DefaultMeshAnchors ==
    << [name |-> "istio-ca-root-cert", ns |-> "istio-system",
        keys |-> <<AnchorKey("root-cert.pem", "anchor")>>] >>

SigningSecretAnchors ==
    << [name |-> "cacerts", ns |-> "istio-system",
        keys |-> <<AnchorKey("root-cert.pem", "anchor"), AnchorKey("ca-cert.pem", "issuer")>>] >>

MeshAnchors ==
    DefaultMeshAnchors \o IF kconf.signing THEN SigningSecretAnchors ELSE <<>>

Scopes == IF kconf.namespaces = <<>> THEN <<"*">> ELSE kconf.namespaces

InScope(scope) == {k \in Keys : scope \in {"*", k.ns}}

Request(unit, of) == [unit |-> unit, of |-> of]

PerScope(unit) == [n \in DOMAIN Scopes |-> Request(unit, Scopes[n])]

\* Mutant of Requests: ingresses are read after the Secrets they serve.
RequestsSecretsFirst ==
    (IF kconf.skipSecrets THEN <<>> ELSE PerScope("secrets") \o PerScope("ingresses"))
    \o IF kconf.certManager
       THEN Append(PerScope("certificates"), Request("join", "certificates")) ELSE <<>>

\* Collect: the ingresses come first, then the resources in their order.
Requests ==
    (IF kconf.skipSecrets THEN <<>> ELSE PerScope("ingresses") \o PerScope("secrets"))
    \o (IF kconf.certManager
        THEN Append(PerScope("certificates"), Request("join", "certificates")) ELSE <<>>)
    \o (IF kconf.trust
        THEN <<Request("webhooks", "validating"), Request("webhooks", "mutating"),
               Request("apiservices", "apiservices")>>
             \o [n \in DOMAIN MeshAnchors |-> Request("mesh", MeshAnchors[n])]
        ELSE <<>>)
    \o <<Request("finish", "all")>>

KInit ==
    /\ kconf \in Clusters
    /\ todo = Requests
    /\ refs = {} /\ secrets = <<>> /\ secretNS = {} /\ certs = <<>>
    /\ anchors = <<>> /\ kitems = <<>> /\ kerr = {} /\ denied = 0
    /\ listed = {} /\ holders = {}

Now(unit) == todo # <<>> /\ Head(todo).unit = unit

Update(f, g) == [k \in DOMAIN f \cup DOMAIN g |-> IF k \in DOMAIN g THEN g[k] ELSE f[k]]

-----------------------------------------------------------------------------
(* Ingresses and Secrets *)

ReadIngresses ==
    /\ Now("ingresses")
    /\ \E ks \in SUBSET InScope(Head(todo).of) : refs' = refs \cup ks
    /\ todo' = Tail(todo)
    /\ UNCHANGED <<kconf, secrets, secretNS, certs, anchors, kitems, kerr, denied,
                   listed, holders>>

SecretItem(k) == [src |-> "secret", key |-> k, expires |-> "issued", public |-> k \in refs,
                  state |-> "none", renewal |-> "none"]

SecretState(content) ==
    [k \in {k \in DOMAIN content : content[k] # "absent"} |->
        IF content[k] = "good" THEN "parsed" ELSE "unreadable"]

\* tlsSecrets: a Secret is parsed or unreadable, and what is not listed is absent.
ReadSecrets ==
    /\ Now("secrets")
    /\ \E content \in [InScope(Head(todo).of) -> {"absent", "good", "bad"}] :
        LET good == {k \in DOMAIN content : content[k] = "good"}
        IN /\ secrets' = Update(secrets, SecretState(content))
           /\ kitems' = kitems \o SetToSeq({SecretItem(k) : k \in good})
           /\ listed' = listed \cup {k \in DOMAIN content : content[k] # "absent"}
    /\ secretNS' = secretNS \cup {Head(todo).of}
    /\ todo' = Tail(todo)
    /\ UNCHANGED <<kconf, refs, certs, anchors, kerr, denied, holders>>

-----------------------------------------------------------------------------
(* cert-manager *)

ReadCertificates ==
    /\ Now("certificates")
    /\ \E ks \in SUBSET InScope(Head(todo).of) :
        \E status \in [ks -> Statuses] : certs' = Update(certs, status)
    /\ todo' = Tail(todo)
    /\ UNCHANGED <<kconf, refs, secrets, secretNS, anchors, kitems, kerr, denied,
                   listed, holders>>

\* readSecretsIn
ReadSecretsIn(ns) == secretNS \cap {"*", ns} # {}

RenewalState(status) ==
    CASE ~status.ready \/ status.renewAt = "past"      -> "stuck"
      [] status.ready /\ status.renewAt = "unset"       -> "none"
      [] OTHER                                          -> "managed"

\* Mutant of RenewalFor: a Certificate whose Secret is not served is managed.
RenewalForAny(status, state) == RenewalState(status)

\* Without the served certificate, a renewal that goes well proves nothing.
RenewalFor(status, state) ==
    IF state = "missing" THEN "stuck"
    ELSE IF RenewalState(status) = "managed" THEN "none" ELSE RenewalState(status)

CertManagerItem(k, expires, state) ==
    [src |-> "cert-manager", key |-> k, expires |-> expires, public |-> FALSE,
     state |-> state, renewal |-> RenewalFor(certs[k], state)]

\* Mutant of CertificateItems: a Secret in a namespace that could not be read is
\* taken for one that does not exist.
CertificateItemsUnread ==
    LET Unreadable(k) == k \in DOMAIN secrets /\ secrets[k] = "unreadable"
        Seen(k) == k \in DOMAIN secrets
    IN {CertManagerItem(k, "issued", "unreadable") :
            k \in {k \in DOMAIN certs : Unreadable(k) /\ certs[k].dated}}
       \cup {CertManagerItem(k, IF certs[k].dated THEN "issued" ELSE "now", "missing") :
            k \in {k \in DOMAIN certs : ~Seen(k)}}

\* certificateItemFor, for every Certificate read so far: nothing for a Secret
\* that was parsed; the date of the status for one that could not be, and where
\* Secrets were not read; otherwise the Secret is missing, and that is due now.
CertificateItems ==
    LET Unreadable(k) == k \in DOMAIN secrets /\ secrets[k] = "unreadable"
        Unread(k) == k \notin DOMAIN secrets /\ ~ReadSecretsIn(k.ns)
        Missing(k) == k \notin DOMAIN secrets /\ ReadSecretsIn(k.ns)
    IN {CertManagerItem(k, "issued", "unreadable") :
            k \in {k \in DOMAIN certs : Unreadable(k) /\ certs[k].dated}}
       \cup {CertManagerItem(k, "issued", "none") :
            k \in {k \in DOMAIN certs : Unread(k) /\ certs[k].dated}}
       \cup {CertManagerItem(k, IF certs[k].dated THEN "issued" ELSE "now", "missing") :
            k \in {k \in DOMAIN certs : Missing(k)}}

\* certificates, after its lists.
JoinCertificates ==
    /\ Now("join")
    /\ kitems' = kitems \o SetToSeq(CertificateItems)
    /\ todo' = Tail(todo)
    /\ UNCHANGED <<kconf, refs, secrets, secretNS, certs, anchors, kerr, denied,
                   listed, holders>>

-----------------------------------------------------------------------------
(* Trust anchors *)

\* A CA bundle: nothing, something that is no certificate, or certificates.
Bundles == {<<>>, <<"junk">>} \cup {<<c>> : c \in CAs} \cup {SetToSeq(CAs)}

Junk(bundle) == bundle = <<"junk">>

\* What addBundle finds in a bundle: each of its certificates, or nothing.
Found(bundle, src, owner, ns, role) ==
    [n \in IF Junk(bundle) THEN {} ELSE DOMAIN bundle |->
        [ca |-> bundle[n], src |-> src, owner |-> owner, ns |-> ns, role |-> role]]

\* Mutant of AddCA: a CA that is known already is not looked at again.
AddCAOnce(acc, f) ==
    IF \E n \in DOMAIN acc : acc[n].ca = f.ca THEN acc
    ELSE Append(acc, [ca |-> f.ca, src |-> f.src, usedBy |-> {f.owner}, ns |-> f.ns,
                      role |-> f.role])

\* caAccumulator.add: one entry per CA, which collects its owners, and the first
\* namespace and role anybody knows.
AddCA(acc, f) ==
    IF \E n \in DOMAIN acc : acc[n].ca = f.ca
    THEN [n \in DOMAIN acc |->
            IF acc[n].ca # f.ca THEN acc[n]
            ELSE [acc[n] EXCEPT !.usedBy = @ \cup {f.owner},
                                !.ns = IF @ = "none" THEN f.ns ELSE @,
                                !.role = IF @ = "none" THEN f.role ELSE @]]
    ELSE Append(acc, [ca |-> f.ca, src |-> f.src, usedBy |-> {f.owner}, ns |-> f.ns,
                      role |-> f.role])

AddAll(acc, found) ==
    LET after[n \in 0..Len(found)] ==
            IF n = 0 THEN acc ELSE AddCA(after[n - 1], found[n])
    IN  after[Len(found)]

Add(found) ==
    /\ anchors' = AddAll(anchors, found)
    /\ holders' = holders \cup {<<found[n].ca, found[n].owner>> : n \in DOMAIN found}

\* webhookCAs, apiServiceCAs: one object per list; an API service without a
\* Service is served by the API server and left out, like an empty list.
ReadBundles(unit) ==
    /\ Now(unit)
    /\ \E bundle \in Bundles :
        /\ Add(Found(bundle, unit, <<Head(todo).of>>, "none", "none"))
        /\ kerr' = IF Junk(bundle) THEN kerr \cup {unit} ELSE kerr
    /\ todo' = Tail(todo)
    /\ UNCHANGED <<kconf, refs, secrets, secretNS, certs, kitems, denied, listed>>

\* meshAnchors: the keys of one object, each with a bundle; none at all is an
\* error, an anchor with an empty key is one without it.
ReadMesh ==
    /\ Now("mesh")
    /\ LET a == Head(todo).of
       IN \E data \in [DOMAIN a.keys -> Bundles] :
            /\ Add(FlattenSeq([n \in DOMAIN a.keys |->
                       Found(data[n], "mesh", <<a.name, a.keys[n].key>>, a.ns,
                             a.keys[n].role)]))
            /\ kerr' = IF \/ \A n \in DOMAIN data : data[n] = <<>>
                          \/ \E n \in DOMAIN data : Junk(data[n])
                       THEN kerr \cup {"mesh"} ELSE kerr
    /\ todo' = Tail(todo)
    /\ UNCHANGED <<kconf, refs, secrets, secretNS, certs, kitems, denied, listed>>

-----------------------------------------------------------------------------

\* A request is forbidden, broken or not decodable: the other scopes go on.
Forbidden ==
    /\ todo # <<>> /\ Head(todo).unit \notin {"join", "finish"} /\ denied < MaxDenied
    /\ kerr' = kerr \cup {Head(todo).unit}
    /\ denied' = denied + 1
    /\ todo' = Tail(todo)
    /\ UNCHANGED <<kconf, refs, secrets, secretNS, certs, anchors, kitems, listed, holders>>

\* errNotFound: what is optional is not installed in this cluster.
NotInstalled ==
    /\ todo # <<>> /\ Head(todo).unit \in {"certificates", "mesh"} /\ denied < MaxDenied
    /\ denied' = denied + 1
    /\ todo' = Tail(todo)
    /\ UNCHANGED <<kconf, refs, secrets, secretNS, certs, anchors, kitems, kerr,
                   listed, holders>>

AnchorItem(a) == [src |-> a.src, ca |-> a.ca, usedBy |-> a.usedBy, ns |-> a.ns,
                  role |-> a.role, renewal |-> "none"]

\* annotateRenewal: a Secret that a Certificate manages takes its renewal.
AnnotateRenewal(i) ==
    IF i.src = "secret" /\ i.key \in DOMAIN certs
    THEN [i EXCEPT !.renewal = RenewalState(certs[i.key])] ELSE i

\* The end of Collect: anchors are appended, then renewals annotated.
Finish ==
    /\ Now("finish")
    /\ kitems' = [n \in DOMAIN kitems |-> AnnotateRenewal(kitems[n])]
                 \o [n \in DOMAIN anchors |-> AnchorItem(anchors[n])]
    /\ todo' = <<>>
    /\ UNCHANGED <<kconf, refs, secrets, secretNS, certs, anchors, kerr, denied,
                   listed, holders>>

KNext == \/ ReadIngresses \/ ReadSecrets \/ ReadCertificates \/ JoinCertificates
         \/ ReadBundles("webhooks") \/ ReadBundles("apiservices") \/ ReadMesh
         \/ Forbidden \/ NotInstalled \/ Finish

KSpec == KInit /\ [][KNext]_kvars

-----------------------------------------------------------------------------

\* "We have not earned the word missing": a Certificate is said to be without its
\* Secret only where the Secrets of its namespace were listed and the list did
\* not have it, readable or not (k8scert.go:119).
MissingWasLookedFor ==
    \A i \in Range(kitems) :
        i.src = "cert-manager" /\ i.state = "missing" =>
            /\ \E scope \in secretNS : i.key \in InScope(scope)
            /\ i.key \notin listed

\* A certificate is one row: its Secret when that was read, its Certificate
\* otherwise, and never neither when one of them has a date (k8scert.go:99); and
\* the Secret an ingress refers to is public (k8s.go:121).
CertificateOnce ==
    todo = <<>> =>
        \A k \in Keys :
            LET rows == {n \in DOMAIN kitems : /\ kitems[n].src \in {"secret", "cert-manager"}
                                              /\ kitems[n].key = k}
                parsed == k \in DOMAIN secrets /\ secrets[k] = "parsed"
                dated == k \in DOMAIN certs /\ certs[k].dated
            IN /\ \A m, n \in rows : m = n
               /\ parsed \/ dated => rows # {}
               /\ parsed => \A n \in rows : /\ kitems[n].src = "secret"
                                            /\ kitems[n].public <=> k \in refs

\* "managed" takes three quarters off the rank of a row, so it is only said of a
\* certificate that was read and whose renewal is ahead; a renewal that is stuck
\* is said of whatever row the certificate has (k8scert.go:143).
NeverFalselyCalm ==
    todo = <<>> =>
        \A i \in Range(kitems) :
            /\ i.renewal = "managed" =>
                  /\ i.src = "secret" /\ secrets[i.key] = "parsed"
                  /\ certs[i.key].ready /\ certs[i.key].renewAt = "ahead"
            /\ (/\ i.src \in {"secret", "cert-manager"} /\ i.key \in DOMAIN certs
                /\ (~certs[i.key].ready \/ certs[i.key].renewAt = "past")) =>
                  i.renewal = "stuck"

\* A CA that a dozen webhooks pin is one row, and the row names every object that
\* holds it; a CA that was read is never left out (k8strust.go:318).
AnchorsMerged ==
    todo = <<>> =>
        LET rows == {n \in DOMAIN kitems : kitems[n].src \notin {"secret", "cert-manager"}}
        IN /\ UNION {{<<kitems[n].ca, o>> : o \in kitems[n].usedBy} : n \in rows} = holders
           /\ \A m, n \in rows : kitems[m].ca = kitems[n].ca => m = n
=============================================================================
