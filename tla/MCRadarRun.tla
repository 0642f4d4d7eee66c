----------------------------- MODULE MCRadarRun -----------------------------
(***************************************************************************)
(* RadarRun with three sources under every command line, whose items tie   *)
(* in every way Rank can see: on priority alone (cert, zone), on priority  *)
(* and days (zone, lease), and one is hidden by each of -within and        *)
(* -min-priority.  And two sources with an item each under the plain       *)
(* command line, which between them pair every piece of evidence with      *)
(* every other at dates on all parts of the urgency curve.                 *)
(***************************************************************************)
EXTENDS RadarRun

MCConfigs == {<<>>, <<"tls", "vault", "aws">>, <<"tls", "vault">>, <<"one", "other">>}

Plain(n, k, d) ==
    [name |-> n, kind |-> k, days |-> d, overrides |-> <<>>, label |-> <<>>,
     public |-> FALSE, class |-> "none", tokens |-> {}, hosts |-> 1,
     wildcard |-> FALSE, rps |-> 0, unused |-> FALSE, renewal |-> "none"]

\* Cert, Zone and Lease score 51, Key 20, Old 87.
Cert  == [Plain("cert", "tls_cert", 13) EXCEPT !.wildcard = TRUE, !.hosts = 5]
Old   == [Plain("old", "tls_cert", -2) EXCEPT !.tokens = {"prod"}]
Zone  == Plain("zone", "domain", 20)
Lease == [Plain("lease", "vault_lease", 20) EXCEPT !.overrides = <<85, 20>>]
Key   == [Plain("key", "iam_access_key", 20) EXCEPT !.unused = TRUE]

\* What one piece of evidence makes of an item, and a few that add up.
With(it) ==
    {it}
    \cup {[it EXCEPT !.kind = k] : k \in DOMAIN BaseByKind \cup {"something_new"}}
    \cup {[it EXCEPT !.overrides = o] : o \in {<<0>>, <<100>>, <<100, 0>>}}
    \cup {[it EXCEPT !.label = l] : l \in {<<0>>, <<100>>}}
    \cup {[it EXCEPT !.class = c] : c \in {"internal", "other"}}
    \cup {[it EXCEPT !.public = TRUE], [it EXCEPT !.public = TRUE, !.class = "internal"]}
    \cup {[it EXCEPT !.tokens = t] : t \in SUBSET {"prod", "nonprod"}}
    \cup {[it EXCEPT !.hosts = 5], [it EXCEPT !.hosts = 5, !.wildcard = TRUE]}
    \cup {[it EXCEPT !.rps = r] : r \in {1, 3, 5}}
    \cup {[it EXCEPT !.renewal = r] : r \in {"managed", "stuck"}}
    \cup {[it EXCEPT !.unused = TRUE], [it EXCEPT !.unused = TRUE, !.renewal = "managed"]}
    \cup {[it EXCEPT !.public = TRUE, !.tokens = {"prod"}, !.rps = 5],
          [it EXCEPT !.class = "internal", !.tokens = {"nonprod"}, !.unused = TRUE]}

Answer(items, err) == [items |-> items, err |-> err]
MCAnswers ==
    [s \in {"tls", "vault", "aws", "one", "other"} |->
        CASE s = "tls"   -> {Answer(<<>>, TRUE), Answer(<<Zone, Cert>>, FALSE),
                             Answer(<<Zone>>, TRUE)}
          [] s = "vault" -> {Answer(<<>>, FALSE), Answer(<<Lease>>, FALSE),
                             Answer(<<Lease, Old>>, TRUE)}
          [] s = "aws"   -> {Answer(<<Key>>, FALSE), Answer(<<>>, TRUE)}
          [] s = "one"   -> {Answer(<<it>>, FALSE) : it \in
                             UNION {With(Plain(s, "tls_cert", d)) : d \in {2, 8, 40}}}
          [] s = "other" -> {Answer(<<it>>, FALSE) : it \in
                             UNION {With(Plain(s, "tls_cert", d)) : d \in {-2, 2, 8, 100}}}]

MCOptions ==
    [only : {{}, {"vault"}, {"vault", "tls"}, {"ghost", "tls"}},
     within : {0, 13}, minPriority : {0, 50}, failWithin : {0, 20},
     format : {"known", "unknown"}, out : {"stdout", "file"}, verify : {FALSE}]
    \cup
    [only : {{}, {"tls"}}, within : {0}, minPriority : {0}, failWithin : {0},
     format : {"known"}, out : {"stdout"}, verify : {TRUE}]

\* CONSTRAINT: the pairs are ranked under one command line.
PairsPlainly ==
    Range(sources) \subseteq {"one", "other"} /\ sources # <<>> =>
        opts = [only |-> {}, within |-> 0, minPriority |-> 0, failWithin |-> 0,
                format |-> "known", out |-> "stdout", verify |-> FALSE]
=============================================================================
