---------------------------- MODULE ConfigFile ----------------------------
(***************************************************************************)
(* From the config file to the sources that run: Load decodes the file,    *)
(* checks it and takes the credentials from the environment (config.go,    *)
(* validate.go), Sources builds what is enabled (sources.go), and every    *)
(* source checks once more what it was given before it reads anything.     *)
(* The two sets of checks are far apart in the code and must agree.  Which *)
(* of several errors is the reported one is left out.                      *)
(***************************************************************************)
EXTENDS Integers, Sequences, SequencesExt, TLC, Ordering

CONSTANTS
    Written,    \* config files: [enabled, given, overrides, k8s, manual]
    Kinds       \* the kinds an item can be

VARIABLES
    config,     \* the file, and what it and the environment give
    stage,      \* "written", "refused", "loaded", "collected"
    built,      \* the sections Sources built a source or a provider for
    refusing,   \* those of them that refused to read for want of a field
    mesh,       \* what of k8s.meshAnchors and meshSigningSecrets was read
    dated       \* the rows of the manual source: [entry, expires, policy]

fileVars == <<config, stage, built, refusing, mesh, dated>>

FileInit ==
    /\ config \in Written
    /\ stage = "written"
    /\ built = {} /\ refusing = {} /\ mesh = {} /\ dated = <<>>

-----------------------------------------------------------------------------
(* Sections.  The providers in the lists registrars, rotation and          *)
(* federation are sections like the others.  A field is a pair: its        *)
(* section and its name in it.                                             *)

OneToken == {"cloudflare", "gitlab", "fastly", "hetzner", "github", "digitalocean",
             "gandi", "anthropic", "openai", "dockerhub", "dnsimple", "jfrog", "okta"}
TwoTokens == {"porkbun", "godaddy"}

\* What an enabled section needs and the file may hold.
InFile ==
    ({"anthropic", "openai", "dockerhub"} \X {"maxKeyAgeDays"})
    \cup ({"azure"} \X {"tenantId", "clientId"})
    \cup ({"harbor"} \X {"baseUrl", "username"})
    \cup ({"apple"} \X {"issuerId", "keyId", "privateKeyFile"})
    \cup ({"namecheap"} \X {"apiUser", "userName", "clientIp"})
    \cup {<<"dnsimple", "account">>, <<"federation", "url">>, <<"jfrog", "baseUrl">>,
          <<"okta", "orgUrl">>, <<"gcp", "projects">>, <<"vault", "addr">>}

\* What it needs and takes from the environment: a credential is no field of the
\* file (json:"-").
InEnv ==
    (OneToken \X {"token"}) \cup (TwoTokens \X {"token", "secret"})
    \cup {<<"scaleway", "secretKey">>, <<"azure", "clientSecret">>,
          <<"harbor", "password">>, <<"namecheap", "apiKey">>,
          <<"apple", "privateKeyFile">>, <<"vault", "addr">>, <<"vault", "token">>}

Required == InFile \cup InEnv

\* AWS needs nothing.
Sections == {f[1] : f \in Required} \cup {"aws"}

\* What is given is used where the section looks for it.
Used(g) == \/ g.place = "file" /\ g.field \in InFile
           \/ g.place = "env" /\ g.field \in InEnv

\* DisallowUnknownFields, and the names of the providers.
Decodes ==
    /\ config.enabled \subseteq Sections
    /\ \A g \in config.given : g.place = "file" => g.field \in InFile

\* A field of the section that was given in none of its places.
Missing(s) ==
    {f \in Required : f[1] = s /\ \A g \in config.given : Used(g) => g.field # f}

\* K8s.validate, whether the section is enabled or not.
MeshRefused ==
    \/ config.k8s.anchors = "misspelt"
    \/ ~config.k8s.trust /\ (config.k8s.anchors # "none" \/ config.k8s.signing)

-----------------------------------------------------------------------------
(* Manual entries: [name, kind, expires, created, age].  A date is a day.  *)

Absent    == -1
Malformed == -2

\* What a file can say: a date is a day, none, or no date at all; the mesh anchors
\* are none, all well written, or one of them is misspelt.
ASSUME WrittenAssumption ==
    \A c \in Written :
        /\ c.manual \in Seq(Range(c.manual))
        /\ \A m \in Range(c.manual) :
              /\ {m.expires, m.created} \subseteq Nat \cup {Absent, Malformed}
              /\ m.age \in Int
        /\ c.k8s.anchors \in {"none", "whole", "misspelt"}

\* deadline; the policy is in days and so is the date.
Deadline(m) ==
    IF m.expires # Absent THEN m.expires
    ELSE IF m.created < 0 THEN Malformed
    ELSE m.created + m.age

\* Mutant of EntryRefused: dates are not parsed at load.
EntryRefusedUnparsed(m) ==
    \/ m.name = "" \/ m.kind \notin Kinds
    \/ m.expires = Absent /\ (m.age <= 0 \/ m.created = Absent)
    \/ m.expires # Absent /\ (m.age > 0 \/ m.created # Absent)

\* ValidateManual
EntryRefused(m) ==
    \/ m.name = "" \/ m.kind \notin Kinds
    \/ m.expires = Absent /\ (m.age <= 0 \/ m.created = Absent)
    \/ m.expires # Absent /\ (m.age > 0 \/ m.created # Absent)
    \/ Deadline(m) = Malformed

-----------------------------------------------------------------------------

\* Load
Load ==
    /\ stage = "written"
    /\ stage' =
        IF /\ Decodes
           /\ config.overrides
           /\ \A n \in DOMAIN config.manual : ~EntryRefused(config.manual[n])
           /\ ~MeshRefused
           /\ \A s \in config.enabled : Missing(s) = {}
        THEN "loaded" ELSE "refused"
    /\ UNCHANGED <<config, built, refusing, mesh, dated>>

\* What a source, or one provider of it, refuses to collect without.
Guarded ==
    (OneToken \X {"token"}) \cup (TwoTokens \X {"token", "secret"})
    \cup ({"azure"} \X {"tenantId", "clientId", "clientSecret"})
    \cup ({"harbor"} \X {"baseUrl", "username", "password"})
    \cup ({"apple"} \X {"issuerId", "keyId", "privateKeyFile"})
    \cup ({"namecheap"} \X {"apiUser", "userName", "clientIp", "apiKey"})
    \cup {<<"scaleway", "secretKey">>, <<"jfrog", "baseUrl">>, <<"okta", "orgUrl">>,
          <<"gcp", "projects">>, <<"vault", "addr">>, <<"vault", "token">>}

\* What load left in the sections: a field of the file, or the environment's.
Has == {g.field : g \in config.given}

\* ManualSource.Collect: one row an entry, but none without a date.
ManualRows ==
    LET rows == [n \in DOMAIN config.manual |->
                    [entry |-> n, expires |-> Deadline(config.manual[n]),
                     policy |-> config.manual[n].expires = Absent]]
    IN ElementsAt(rows, {n \in DOMAIN rows : rows[n].expires # Malformed})

\* Sources, and the first lines of every Collect.
Collect ==
    /\ stage = "loaded" /\ stage' = "collected"
    /\ built' = config.enabled
                \cup (IF config.manual = <<>> THEN {} ELSE {"manual"})
                \cup (IF config.k8s.enabled THEN {"k8s"} ELSE {})
    /\ refusing' = {s \in config.enabled : \E f \in Guarded : f[1] = s /\ f \notin Has}
    /\ mesh' = IF ~config.k8s.enabled \/ ~config.k8s.trust THEN {}
               ELSE {config.k8s.anchors} \cup (IF config.k8s.signing THEN {"signing"} ELSE {})
    /\ dated' = ManualRows
    /\ UNCHANGED config

FileNext == Load \/ Collect

FileSpec == FileInit /\ [][FileNext]_fileVars

-----------------------------------------------------------------------------

\* "refusing one it cannot act on rather than silently watching nothing"
\* (config.go:296): of a file that loads, no source turns out to lack a field when
\* it is to read; the mesh anchors and signing Secrets it asks for are read; and
\* every manual entry is a row of its own, in order, dated by what it expires or
\* by its policy, and marked as the latter: it "must never go missing later"
\* (manual.go:142).
LoadedMeansWatched ==
    stage = "collected" =>
        /\ refusing = {}
        /\ config.k8s.enabled =>
              /\ config.k8s.anchors # "none" => "whole" \in mesh
              /\ config.k8s.signing => "signing" \in mesh
        /\ Len(dated) = Len(config.manual)
        /\ \A n \in DOMAIN dated :
              LET m == config.manual[n]
              IN /\ dated[n].entry = n
                 /\ dated[n].expires >= 0
                 /\ dated[n].policy => dated[n].expires > m.created /\ m.expires = Absent
                 /\ ~dated[n].policy => dated[n].expires = m.expires /\ m.age <= 0
=============================================================================
