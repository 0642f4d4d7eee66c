------------------------------ MODULE MCConfig ------------------------------
\* Small config files in the layouts people write, with names that occur within
\* one another, twice, and in two arrays.
EXTENDS ConfigEdit, ConfigFile, SequencesExt

VARIABLE running    \* "edit": a file and its editors; "load": a file and the CLI

\* --- texts -----------------------------------------------------------------

Host(n)    == <<"lbrace", "sp", "host", "colon", "sp", n, "sp", "rbrace">>
Manual(n, ns) == <<"lbrace", "name", "colon", n, "comma", "namespace", "colon", ns, "rbrace">>

Comma(parts, between) ==
    FlattenSeq([n \in DOMAIN parts |-> (IF n = 1 THEN <<>> ELSE between) \o parts[n]])

\* `key: [ ... ]` on one line, or with an entry on each.
Inline(key, es) == <<key, "colon", "sp", "lbrack">> \o Comma(es, <<"comma", "sp">>) \o <<"rbrack">>
Lines(key, es) ==
    <<key, "colon", "sp", "lbrack", "nl", "sp", "sp">> \o Comma(es, <<"comma", "nl", "sp", "sp">>)
    \o <<"nl", "sp", "rbrack">>

Document(arrays) ==
    <<"lbrace", "nl", "sp">> \o Comma(arrays, <<"comma", "nl", "sp">>) \o <<"nl", "rbrace", "nl">>
OneLine(arrays) == <<"lbrace">> \o Comma(arrays, <<"comma", "sp">>) \o <<"rbrace">>

\* What an operator saves over a file: the same names on other lines.
SomeSaves ==
    { Document(<<Lines("endpoints", <<Host("b"), Host("a")>>),
                 <<"domains", "colon", "sp", "lbrack", "nl", "sp", "rbrack">>>>),
      Document(<<Lines("domains", <<<<"b">>, <<"a">>>>), Inline("endpoints", <<Host("ba")>>)>>),
      Document(<<Lines("manual", <<Manual("a", "b"), Manual("b", "a"), Manual("a", "c")>>)>>),
      \* The name at the start of a short line, and another entry on the next.
      <<"lbrace", "nl", "endpoints", "colon", "lbrack", "nl">>
          \o <<"lbrace", "host", "colon", "nl", "a", "rbrace", "comma", "nl">>
          \o Host("b") \o <<"rbrack", "rbrace">>,
      <<"lbrace", "nl", "sp", "endpoints", "colon", "sp", "lbrack", "nl", "sp", "sp">> \o Host("a")
          \o <<"comma", "nl", "rbrace", "nl">> }

SomeTexts == SomeSaves \cup
    { <<>>, <<"lbrace", "rbrace">>,
      Document(<<Lines("endpoints", <<Host("a"), Host("b")>>), Lines("domains", <<<<"a">>>>)>>),
      Document(<<Inline("endpoints", <<Host("a"), Host("b")>>), Inline("domains", <<>>)>>),
      OneLine(<<Inline("domains", <<<<"b">>, <<"a">>>>)>>) }

SomeAdditions == {[key |-> "domains", entry |-> <<"c">>], [key |-> "manual", entry |-> Manual("c", "a")]}

AInsideBA == {<<"a", "ba">>, <<"b", "ba">>}
\* --- files -----------------------------------------------------------------

KnownKinds == {"tls_cert", "secret"}

\* All that sections can be given, and a token in the file.
Everything(enabled) ==
    LET Of(fields) == {f \in fields : f[1] \in enabled}
    IN [field : Of(InFile), place : {"file"}] \cup [field : Of(InEnv), place : {"env"}]
InGit == [field |-> <<"vault", "token">>, place |-> "file"]

NoK8s == [enabled |-> FALSE, trust |-> FALSE, signing |-> FALSE, anchors |-> "none"]
Valid == [name |-> "m", kind |-> "secret", expires |-> 5, created |-> Absent, age |-> 0]

\* One or two sections, with at most two things missing or a token written down.
SectionFiles ==
    LET Given(all) == {all \ {x, y} : x, y \in all \cup {InGit}}
                      \cup (IF "vault" \in {g.field[1] : g \in all} THEN {all \cup {InGit}} ELSE {})
        Files(enabled) ==
            [enabled : {enabled}, given : Given(Everything(enabled)),
             overrides : {TRUE}, k8s : {NoK8s}, manual : {<<>>}]
    IN UNION {Files({s, t}) : s, t \in Sections}

SomeFiles ==
    SectionFiles
    \cup [enabled : {{}, {"typo"}}, given : {{}}, overrides : BOOLEAN,
          k8s : [enabled : BOOLEAN, trust : BOOLEAN, signing : BOOLEAN,
                 anchors : {"none", "whole", "misspelt"}],
          manual : {<<>>, <<Valid>>}]
    \cup [enabled : {{}}, given : {{}}, overrides : {TRUE}, k8s : {NoK8s},
          manual : {<<Valid, m>> : m \in
              [name : {"", "m"}, kind : {"", "secret", "tls-cert"}, expires : {Absent, Malformed, 5},
               created : {Absent, Malformed, 3}, age : {-1, 0, 2}]}]

\* --- the two together --------------------------------------------------------

EditIdle == EditInit /\ file = <<>>
FileIdle ==
    /\ config = [enabled |-> {}, given |-> {}, overrides |-> TRUE, k8s |-> NoK8s, manual |-> <<>>]
    /\ stage = "written" /\ built = {} /\ refusing = {} /\ mesh = {} /\ dated = <<>>

MCInit ==
    \/ running = "edit" /\ EditInit /\ FileIdle
    \/ running = "load" /\ FileInit /\ EditIdle

MCNext ==
    /\ UNCHANGED running
    /\ \/ running = "edit" /\ EditNext /\ UNCHANGED fileVars
       \/ running = "load" /\ FileNext /\ UNCHANGED editVars

MCSpec == MCInit /\ [][MCNext]_<<editVars, fileVars, running>>
=============================================================================
