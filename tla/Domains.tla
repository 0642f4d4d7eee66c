------------------------------ MODULE Domains ------------------------------
(***************************************************************************)
(* The domain source (rdap.go): one domain after another over RDAP, and     *)
(* over WHOIS where the TLD has no RDAP service.  The WHOIS server of a TLD *)
(* is asked of IANA and remembered for the run.                            *)
(***************************************************************************)
EXTENDS Naturals, Sequences, FiniteSets, SequencesExt

CONSTANTS
    Configured,     \* the domains of the config, in order
    TLDs            \* the TLDs they may have; "none" for a name without a dot

ASSUME ConfiguredAssumption == Configured \in Seq(Range(Configured))

VARIABLES
    tldOf,      \* the TLD of each domain
    at,         \* the domain being looked up
    ask,        \* whom it asks next: "rdap", "iana", "whois"
    servers,    \* TLDs whose WHOIS server is known
    ditems,     \* the items: [domain, src]
    derrs,      \* the domains that failed, in order
    noRDAP      \* history: domains RDAP answered 404 for

dvars == <<tldOf, at, ask, servers, ditems, derrs, noRDAP>>

DInit ==
    /\ tldOf \in [DOMAIN Configured -> TLDs]
    /\ at = 1 /\ ask = "rdap" /\ servers = {}
    /\ ditems = <<>> /\ derrs = <<>>
    /\ noRDAP = {}

Looking(whom) == at <= Len(Configured) /\ ask = whom

Advance == at' = at + 1 /\ ask' = "rdap"

Dated(src) ==
    /\ ditems' = Append(ditems, [domain |-> at, src |-> src])
    /\ UNCHANGED derrs
    /\ Advance

\* Mutant of Failing: the end of a domain is the end of the source.
FailingAll == derrs' = Append(derrs, at) /\ at' = Len(Configured) + 1 /\ ask' = "rdap"

Failing == derrs' = Append(derrs, at) /\ Advance

\* lookup: a date; or an answer without one, an error, no answer.
RDAPAnswers ==
    /\ Looking("rdap")
    /\ \/ Dated("rdap")
       \/ Failing /\ UNCHANGED ditems
    /\ UNCHANGED <<tldOf, servers, noRDAP>>

\* whoisLookup, until its first query.
Fallback ==
    IF tldOf[at] = "none" THEN Failing
    ELSE /\ ask' = IF tldOf[at] \in servers THEN "whois" ELSE "iana"
         /\ UNCHANGED <<at, derrs>>

\* errNoRDAP: only a 404 means that the TLD has no RDAP service.
NoRDAP ==
    /\ Looking("rdap")
    /\ Fallback
    /\ noRDAP' = noRDAP \cup {at}
    /\ UNCHANGED <<tldOf, servers, ditems>>

\* IANA names a server, or none, or does not answer.
IANAAnswers ==
    /\ Looking("iana")
    /\ \/ /\ servers' = servers \cup {tldOf[at]}
          /\ ask' = "whois"
          /\ UNCHANGED <<at, derrs>>
       \/ Failing /\ UNCHANGED servers
    /\ UNCHANGED <<tldOf, ditems, noRDAP>>

\* The free text has a date that can be parsed, or the domain fails.
WhoisAnswers ==
    /\ Looking("whois")
    /\ \/ Dated("whois")
       \/ Failing /\ UNCHANGED ditems
    /\ UNCHANGED <<tldOf, servers, noRDAP>>

DNext == RDAPAnswers \/ NoRDAP \/ IANAAnswers \/ WhoisAnswers

DSpec == DInit /\ [][DNext]_dvars

-----------------------------------------------------------------------------

\* Every domain of the config ends as one row or as one failure, never as both
\* and never as neither, in the order of the config, whatever happened to the
\* domains before it; and a row says whois only after a 404 (rdap.go:61).
EveryDomainAnswered ==
    at > Len(Configured) =>
        /\ {ditems[n].domain : n \in DOMAIN ditems} \cup Range(derrs) = DOMAIN Configured
        /\ Len(ditems) + Len(derrs) = Len(Configured)
        /\ \A m, n \in DOMAIN ditems : m < n => ditems[m].domain < ditems[n].domain
        /\ \A n \in DOMAIN ditems : ditems[n].src = "whois" <=> ditems[n].domain \in noRDAP
=============================================================================
