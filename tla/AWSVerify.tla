----------------------------- MODULE AWSVerify -----------------------------
(***************************************************************************)
(* -verify-aws (awsverify.go): the verdict on the AWS adapters, drawn from *)
(* one collection.  A check is "passed", "failed" or "open": the run could *)
(* not decide it.                                                          *)
(***************************************************************************)
EXTENDS SourceUnits

CONSTANT AWSPage    \* items of one unit that prove a second page (100)

\* Every AWS call site compares, and drops no error.
ASSUME AWSAssumption ==
    /\ AWSPage \in Nat
    /\ "aws" \in DOMAIN Programs =>
          \A u \in Range(Programs["aws"].units) : \A l \in ListsOf(u) :
              l.get.tells # "nothing" /\ l.onErr # "silent"

Outcomes == {"passed", "failed", "open"}

\* Mutant of AdapterRan: whatever has not failed has passed.
AdapterRanUnlessFailed(r) == IF r.failed THEN "failed" ELSE "passed"

AdapterRan(r) ==
    IF r.skipped THEN "open"
    ELSE IF r.failed THEN "failed"
    ELSE IF r.items = 0 THEN "open" ELSE "passed"

\* Which of the failed units were denied, rather than broken, is read off the
\* text of the error.
DenialDegrades(denied) ==
    LET worked == {n \in DOMAIN results : ~results[n].skipped /\ ~results[n].failed
                                          /\ results[n].items > 0}
    IN IF denied = {} THEN "open" ELSE IF worked # {} THEN "passed" ELSE "failed"

\* The adapters leave out what has no date, so no item is undated here.
NothingUndated == IF items = <<>> THEN "open" ELSE "passed"

Pagination ==
    IF \E n \in DOMAIN results : results[n].items > AWSPage THEN "passed" ELSE "open"

\* horizonDays sorts what checkRanking then finds sorted.
RankingChecked == IF Len(items) <= 1 THEN "open" ELSE "passed"

Checks(denied) ==
    [n \in DOMAIN results |-> AdapterRan(results[n])]
    \o <<DenialDegrades(denied), NothingUndated, Pagination, RankingChecked>>

OK(denied) == \A n \in DOMAIN Checks(denied) : Checks(denied)[n] # "failed"

\* runVerifyAWS
VerifyExit(denied) == IF OK(denied) THEN 0 ELSE 1

-----------------------------------------------------------------------------

\* "An inconclusive check is not a pass" (docs/sources.md:688): an account with
\* nothing in it, or a run that skipped everything, passes no check at all; exit 0
\* means that every adapter that ran was read whole; and the check of an adapter
\* passes only if items of that adapter are in the result.
VerdictIsEvidence ==
    pc = "done" /\ conf.src = "aws" /\ unit > 0 =>
        \A denied \in SUBSET {n \in DOMAIN results : results[n].failed} :
            /\ items = <<>> => \A n \in DOMAIN Checks(denied) : Checks(denied)[n] # "passed"
            /\ VerifyExit(denied) = 0 => err = {} /\ unread = {}
            /\ \A n \in DOMAIN results :
                  Checks(denied)[n] = "passed" =>
                      \E i \in Range(items) : i.unit = n /\ i \in whole
=============================================================================
