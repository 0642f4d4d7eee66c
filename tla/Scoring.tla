------------------------------ MODULE Scoring ------------------------------
(***************************************************************************)
(* How an item gets its priority (src/internal/rank/rank.go).  Scores are  *)
(* in hundredths and days are whole.  An item is a record with             *)
(*     kind, days     what it is, and the days left, negative once expired *)
(*     overrides      the values of the overrides that match it, in order  *)
(*     label          <<value>> of its blast-radius label, or <<>>         *)
(*     public, class  the public label; ingress class "none", "internal",  *)
(*                    "other"                                              *)
(*     tokens         "prod" and "nonprod", as its name and namespace and  *)
(*                    environment labels have them                         *)
(*     hosts, wildcard    hosts a certificate covers, one with a wildcard  *)
(*     rps            the power of ten of its traffic                      *)
(*     unused, renewal    in-use=false; "none", "managed", "stuck"         *)
(***************************************************************************)
EXTENDS Integers, Sequences

Horizon == 90

\* Of a hundred, what the urgency and the blast radius weigh.
WeightUrgency == 55
WeightBlast   == 45

BaseByKind ==
    [trust_anchor |-> 95, domain |-> 85, intermediate_ca |-> 80, tls_cert |-> 50,
     iam_access_key |-> 50, secret |-> 45, vault_lease |-> 40]

Clamp01(x) == IF x < 0 THEN 0 ELSE IF x > 100 THEN 100 ELSE x

-----------------------------------------------------------------------------
(* Urgency, in hundredths of a hundredth *)

\* exp(-n/14), in 200,000ths.
Decay ==
    LET decay[n \in 0..Horizon] ==
            IF n = 0 THEN 200000 ELSE (decay[n - 1] * 9311) \div 10000
    IN  [n \in 0..Horizon |-> decay[n]]

\* Mutant of Urgency: a straight ramp.
UrgencyLinear(days) ==
    IF days <= 0 THEN 10000
    ELSE IF days >= Horizon THEN 0
    ELSE (10000 * (Horizon - days)) \div Horizon

Urgency(days) ==
    IF days <= 0 THEN 10000
    ELSE IF days >= Horizon THEN 0
    ELSE (10000 * (Decay[days] - Decay[Horizon])) \div (200000 - Decay[Horizon])

-----------------------------------------------------------------------------
(* Blast radius *)

Exposure(it) ==
    IF it.public \/ it.class = "other" THEN 20
    ELSE IF it.class = "internal" THEN -15 ELSE 0

\* Non-production wins ties.
Environment(it) ==
    IF "nonprod" \in it.tokens THEN -30 ELSE IF "prod" \in it.tokens THEN 20 ELSE 0

Coverage(it) ==
    (IF it.wildcard THEN 10 ELSE 0) + (IF it.hosts >= 5 THEN 5 ELSE 0)

\* log10 of the requests, a tenth each, capped.
Traffic(it) == IF it.rps > 3 THEN 30 ELSE 10 * it.rps

Unused(it)  == IF it.unused THEN -35 ELSE 0
Renewal(it) == IF it.renewal = "managed" THEN -25 ELSE 0

\* An override is the last word, a label on the resource the next best.
BlastRadius(it) ==
    IF it.overrides # <<>> THEN Clamp01(it.overrides[1])
    ELSE IF it.label # <<>> THEN Clamp01(it.label[1])
    ELSE Clamp01(
            (IF it.kind \in DOMAIN BaseByKind THEN BaseByKind[it.kind] ELSE 40)
            + Exposure(it) + Environment(it) + Coverage(it) + Traffic(it)
            + Unused(it) + Renewal(it))

\* The weighted sum, rounded to two places.
Priority(it) ==
    (WeightUrgency * Urgency(it.days) + WeightBlast * 100 * BlastRadius(it) + 5000) \div 10000
=============================================================================
