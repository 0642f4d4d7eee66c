------------------------------ MODULE RadarRun ------------------------------
(***************************************************************************)
(* One run of the command (src/cmd/expiry-radar/main.go, run): flags,      *)
(* config, -only, the collection, ranking, the report on the sink, the     *)
(* -fail-within gate and the exit code.  The collection is one step that   *)
(* returns what Collection.tla promises and CollectAll.tla implements; a   *)
(* signal or the -timeout shows in what the sources answer.  The editors   *)
(* kill a run that outlives its grace period, so a run may end anywhere.   *)
(***************************************************************************)
EXTENDS Ranking

CONSTANTS
    Configs,     \* the source lists a config can build, in configured order
    Options,     \* the command lines: records [only, within, minPriority,
                 \*   failWithin, format, out, verify]
    Answers,     \* Answers[s]: the readings [items, err] source s may return
    AWS,         \* the name of the AWS source
    None

Names == UNION {Range(c) : c \in Configs}
Items == UNION {UNION {Range(r.items) : r \in Answers[n]} : n \in DOMAIN Answers}

ASSUME ConfigsAssumption == \A c \in Configs : c \in Seq(Names)
ASSUME OptionsAssumption ==
    \A o \in Options : o.within \in Int /\ o.minPriority \in Int /\ o.failWithin \in Int
ASSUME AnswersAssumption ==
    \A n \in Names : \A r \in Answers[n] : r.items \in Seq(Items) /\ r.err \in BOOLEAN
ASSUME ItemsAssumption ==
    \A it \in Items :
        /\ {"kind", "days", "overrides", "label", "public", "class", "tokens",
            "hosts", "wildcard", "rps", "unused", "renewal"} \subseteq DOMAIN it
        /\ it.days \in Int /\ it.overrides \in Seq(Int) /\ it.label \in Seq(Int)
        /\ it.hosts \in Nat /\ it.rps \in Nat
ASSUME NoneAssumption == None \notin 0..3

VARIABLES
    pc,          \* the next stage of run
    opts,        \* the parsed flags
    sources,     \* configured, then picked, sources
    answers,     \* answers[i]: the reading of sources[i], None before
    scored,      \* the ranked and filtered report
    stderr,      \* the sources warned about, and the item of a breach
    sink,        \* what -out, or stdout, holds: [state, rows]
    code         \* the exit code, None before the end

vars == <<pc, opts, sources, answers, scored, stderr, sink, code>>

Quiet == [warned |-> <<>>, breach |-> None]

\* What was there before the run: an earlier report, if the sink is a file.
Previous == [state |-> "previous", rows |-> <<>>]

Init ==
    /\ pc = "load"
    /\ opts \in Options
    /\ sources = <<>>
    /\ answers = None
    /\ scored = <<>>
    /\ stderr = Quiet
    /\ sink = Previous
    /\ code = None

\* Mutant of Exit: the code is kept and the run goes on, a return is missing.
NoReturn(c) == code' = c /\ UNCHANGED pc

Exit(c) == pc' = "exited" /\ code' = c

\* Flags that do not parse, or a config that does not load: exit 2.
Refuse ==
    /\ pc = "load"
    /\ Exit(2)
    /\ UNCHANGED <<opts, sources, answers, scored, stderr, sink>>

\* config.Load and File.Sources; what the flags add is part of the config.
Load ==
    /\ pc = "load"
    /\ sources' \in Configs
    /\ pc' = "pick"
    /\ UNCHANGED <<opts, answers, scored, stderr, sink, code>>

\* pick: an unknown name in -only is an error, and each name picks one source.
UnknownNames == IF sources = <<>> THEN {} ELSE opts.only \ Range(sources)
Picked == IF opts.only = {} THEN sources
          ELSE ElementsAt(sources, {i \in DOMAIN sources :
                                       /\ sources[i] \in opts.only
                                       /\ \A j \in 1..(i - 1) : sources[j] # sources[i]})

Pick ==
    /\ pc = "pick"
    /\ IF UnknownNames # {}
       THEN Exit(2) /\ UNCHANGED sources
       ELSE /\ sources' = Picked
            /\ pc' = IF opts.verify THEN "verify" ELSE "collect"
            /\ UNCHANGED code
    /\ UNCHANGED <<opts, answers, scored, stderr, sink>>

\* runVerifyAWS: no AWS source or no credentials 2, a failed check 1, else 0.
VerifyAWS ==
    /\ pc = "verify"
    /\ \/ Exit(2)
       \/ AWS \in Range(sources) /\ \E c \in {0, 1} : Exit(c)
    /\ UNCHANGED <<opts, sources, answers, scored, stderr, sink>>

\* No source at all is a usage error, never an empty report.
NoSources ==
    /\ pc = "collect"
    /\ sources = <<>>
    /\ Exit(2)
    /\ UNCHANGED <<opts, sources, answers, scored, stderr, sink>>

\* Mutant of Failed: a source that read something did not fail.
FailedEmpty(as) ==
    Ascending({i \in DOMAIN as : as[i].err /\ as[i].items = <<>>})

\* The positions of the sources that failed, in configured order.
Failed(as) == Ascending({i \in DOMAIN as : as[i].err})
Merged(as) == FlattenSeq([i \in DOMAIN as |-> as[i].items])

\* CollectAll, and one warning line for each error it returned.
Collect ==
    /\ pc = "collect"
    /\ sources # <<>>
    /\ \E as \in [DOMAIN sources -> UNION {Answers[s] : s \in Range(sources)}] :
            /\ \A i \in DOMAIN sources : as[i] \in Answers[sources[i]]
            /\ answers' = as
    /\ LET bad == Failed(answers') IN
         stderr' = [stderr EXCEPT
            !.warned = [k \in DOMAIN bad |-> sources[bad[k]]]]
    /\ pc' = "rank"
    /\ UNCHANGED <<opts, sources, scored, sink, code>>

RankAndFilter ==
    /\ pc = "rank"
    /\ scored' = Filter(Rank(Merged(answers)), opts.within, opts.minPriority)
    /\ pc' = "open"
    /\ UNCHANGED <<opts, sources, answers, stderr, sink, code>>

\* os.Create: the file of -out is emptied before anything is rendered.
Open ==
    /\ pc = "open"
    /\ IF opts.out = "stdout"
       THEN pc' = "render" /\ UNCHANGED <<sink, code>>
       ELSE \/ pc' = "render" /\ sink' = [state |-> "partial", rows |-> <<>>]
               /\ UNCHANGED code
            \/ Exit(2) /\ UNCHANGED sink
    /\ UNCHANGED <<opts, sources, answers, scored, stderr>>

\* RenderAt: an unknown format is noticed here; a write may fail half way.  The
\* file is closed after either.
Render ==
    /\ pc = "render"
    /\ \/ /\ opts.format = "known"
          /\ sink' = [state |-> "written", rows |-> scored]
          /\ pc' = "close" /\ UNCHANGED code
       \/ /\ opts.format = "known"
          /\ sink' = [state |-> "partial", rows |-> <<>>]
          /\ Exit(2)
       \/ /\ opts.format = "unknown"
          /\ UNCHANGED sink
          /\ Exit(2)
    /\ UNCHANGED <<opts, sources, answers, scored, stderr>>

\* Mutant of Close: the error of the final flush is not looked at.
CloseUnchecked ==
    /\ pc = "close"
    /\ pc' = "gate"
    /\ \/ UNCHANGED sink
       \/ opts.out = "file" /\ sink' = [state |-> "partial", rows |-> <<>>]
    /\ UNCHANGED <<opts, sources, answers, scored, stderr, code>>

\* Closing a file reports the final flush; stdout is not closed.
Close ==
    /\ pc = "close"
    /\ \/ pc' = "gate" /\ UNCHANGED <<sink, code>>
       \/ /\ opts.out = "file"
          /\ sink' = [state |-> "partial", rows |-> <<>>]
          /\ Exit(2)
    /\ UNCHANGED <<opts, sources, answers, scored, stderr>>

\* Mutant of Breaching: the last day of the window is outside it.
BreachingStrictly == IF opts.failWithin <= 0 THEN <<>>
                     ELSE ElementsAt(scored, {k \in DOMAIN scored :
                                                scored[k].days < opts.failWithin})

\* breached: the rows inside the -fail-within window.
Breaching == IF opts.failWithin <= 0 THEN <<>>
             ELSE ElementsAt(scored, {k \in DOMAIN scored :
                                        scored[k].days <= opts.failWithin})

Gate ==
    /\ pc = "gate"
    /\ IF Breaching # <<>>
       THEN Exit(1) /\ stderr' = [stderr EXCEPT !.breach = Breaching[1]]
       ELSE /\ Exit(IF Failed(answers) # <<>> THEN 3 ELSE 0)
            /\ UNCHANGED stderr
    /\ UNCHANGED <<opts, sources, answers, scored, sink>>

\* SIGKILL: no exit code, the sink stays as it is.
Killed ==
    /\ pc \notin {"exited", "killed"}
    /\ pc' = "killed"
    /\ UNCHANGED <<opts, sources, answers, scored, stderr, sink, code>>

Next ==
    \/ Refuse \/ Load \/ Pick \/ VerifyAWS \/ NoSources \/ Collect
    \/ RankAndFilter \/ Open \/ Render \/ Close \/ Gate \/ Killed

Spec == Init /\ [][Next]_vars

-----------------------------------------------------------------------------
(* Properties *)

Row == {Scored(it) : it \in Items}

TypeOK ==
    /\ pc \in {"load", "pick", "verify", "collect", "rank", "open", "render",
               "close", "gate", "exited", "killed"}
    /\ opts \in Options
    /\ Range(sources) \subseteq Names
    /\ answers # None => DOMAIN answers = DOMAIN sources
    /\ Range(scored) \subseteq Row
    /\ Range(stderr.warned) \subseteq Names
    /\ stderr.breach \in Row \cup {None}
    /\ sink.state \in {"previous", "partial", "written"}
    /\ Range(sink.rows) \subseteq Row
    /\ code \in {None, 0, 1, 2, 3}
    /\ pc = "exited" <=> code # None

\* The run produced a report: the exit codes a caller reads one after.
Reported == code \in {0, 1, 3} /\ ~opts.verify

Positions == UNION {{<<i, k>> : k \in DOMAIN answers[i].items} :
                        i \in DOMAIN answers}
RowOf(p) == Scored(answers[p[1]].items[p[2]])

\* Whenever a run says it reported, the sink holds all of the report, and the
\* report holds every item of every picked source that the flags let through,
\* the items of failed sources too (main.go:99-112,187-188; architecture.md).
NothingLost ==
    Reported =>
        /\ sink.state = "written"
        /\ \A p \in Positions :
            Kept(opts.within, opts.minPriority, RowOf(p)) =>
                \E k \in DOMAIN sink.rows : sink.rows[k] = RowOf(p)

\* Exit 0 is a clean bill (main.go:38-43): something was asked, and of -only every
\* name and no other, everything asked answered, and no row of the report is
\* inside the -fail-within window.
ZeroIsClean ==
    Reported /\ code = 0 =>
        /\ sources # <<>>
        /\ opts.only # {} => Range(sources) = opts.only
        /\ \A i \in DOMAIN answers : ~answers[i].err
        /\ \A s \in Range(sink.rows) :
                opts.failWithin > 0 => s.days > opts.failWithin

\* Partial failures are reported, never swallowed (main.go:100-104): a run that
\* reports, a breached one too, has warned of exactly the sources that failed.
FailuresWarned ==
    Reported => Range(stderr.warned)
                  = {sources[i] : i \in {j \in DOMAIN answers : answers[j].err}}

\* Rows come out by priority, then days, and ties in configured order, so two
\* runs of one config cannot disagree (source.go:114-116, main.go:122-125).
RankedStably ==
    Reported =>
        \A k, l \in DOMAIN sink.rows : k < l =>
            /\ ~Before(sink.rows[l], sink.rows[k])
            /\ ~Before(sink.rows[k], sink.rows[l]) =>
                \E p, q \in Positions :
                    /\ RowOf(p) = sink.rows[k] /\ RowOf(q) = sink.rows[l]
                    /\ p[1] < q[1] \/ (p[1] = q[1] /\ p[2] < q[2])

\* The evidence on x points the same way as that on y or further, and it is due no
\* later; nobody pinned the score of either.
AsBad(x, y) ==
    /\ x.overrides = <<>> /\ y.overrides = <<>> /\ x.label = <<>> /\ y.label = <<>>
    /\ x.days <= y.days
    /\ x.kind = y.kind
    /\ y.public => x.public
    /\ y.class = "other" => x.class = "other" \/ x.public
    /\ x.class = "internal" => y.class = "internal" \/ x.public
    /\ "prod" \in y.tokens => "prod" \in x.tokens
    /\ "nonprod" \in x.tokens => "nonprod" \in y.tokens
    /\ y.wildcard => x.wildcard
    /\ x.hosts >= y.hosts /\ x.rps >= y.rps
    /\ x.unused => y.unused
    /\ x.renewal = "managed" => y.renewal = "managed"

\* "This ranking IS the product": no row comes before one that is as bad on every
\* count, unless they tie; what an operator pins decides among rows of one date;
\* the last fortnight is where dates win, so two days left beats a blast radius
\* bigger by a fifth eight days out; and before that consequence wins, so what
\* takes production down 100 days out is above what staging loses in 40
\* (rank.go:39-42,89-97; rank_test.go:158-160).
ConsequenceFirst ==
    Reported =>
        \A k, l \in DOMAIN sink.rows :
            LET above == sink.rows[k]
                below == sink.rows[l]
            IN k < l =>
                /\ AsBad(below, above) => above.prio = below.prio /\ above.days = below.days
                /\ above.days = below.days /\ above.overrides # <<>> /\ below.overrides # <<>> =>
                      above.overrides[1] >= below.overrides[1] \/ above.prio = below.prio
                /\ above.days = 8 /\ below.days <= 2 => above.blast > below.blast + 20
                /\ above.days = 40 /\ below.days = 100 => below.blast < 90 \/ above.blast > 20

\* The failure message names the row of the window worth naming: none in the
\* window ranks above it (main.go:195-196).
WorstNamed ==
    code = 1 /\ ~opts.verify =>
        /\ stderr.breach \in Range(sink.rows)
        /\ stderr.breach.days <= opts.failWithin
        /\ \A s \in Range(sink.rows) :
                s.days <= opts.failWithin => ~Before(s, stderr.breach)
=============================================================================
