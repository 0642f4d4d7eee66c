---------------------------- MODULE ConfigText ----------------------------
(***************************************************************************)
(* The text of a config file, and what the editors do to it: find where an *)
(* item is declared (locate.ts), append an entry to an array and remove    *)
(* one (splice.ts).  A text is a sequence of tokens: a string is one, and  *)
(* so is each brace and bracket, the indentation of a line, "sp", and its  *)
(* end, "nl".  Escapes, and the width of a token, are left out.  edit.lua  *)
(* has the same functions for Neovim; where they differ, an operator takes *)
(* the editor.  They differ in strings with escapes too: see the README.   *)
(***************************************************************************)
EXTENDS Integers, Sequences, FiniteSets

Space   == {"sp", "nl"}
Opening == {"lbrace", "lbrack"}
Closing == {"rbrace", "rbrack"}
IsString(t) == t \notin Space \cup Opening \cup Closing \cup {"comma", "colon", "eof"}

At(text, k) == IF k \in DOMAIN text THEN text[k] ELSE "eof"

Solid(text) == {k \in DOMAIN text : text[k] \notin Space}

Least(S)    == CHOOSE k \in S : \A j \in S : k <= j
Greatest(S) == CHOOSE k \in S : \A j \in S : k >= j

\* The first token after k, and the last one before it, that is no space.
After(text, k)  == Least({j \in Solid(text) : j > k} \cup {Len(text) + 1})
Before(text, k) == Greatest({j \in Solid(text) : j < k} \cup {0})

-----------------------------------------------------------------------------
(* Positions *)

LineStart(text, k) == Greatest({j \in DOMAIN text : j < k /\ text[j] = "nl"} \cup {0}) + 1

PositionOf(text, k) ==
    [line |-> 1 + Cardinality({j \in DOMAIN text : j < k /\ text[j] = "nl"}),
     column |-> k - LineStart(text, k) + 1]

\* The first tokens of the lines.
LineStarts(text) ==
    LET ends == {k \in DOMAIN text : text[k] = "nl"}
    IN <<1>> \o [n \in 1..Cardinality(ends) |->
                   1 + CHOOSE k \in ends : Cardinality({j \in ends : j <= k}) = n]

\* offsetOf; 0 for a line there is not.  A column may lead past its line.
OffsetOf(text, p) ==
    IF p.line > Len(LineStarts(text)) THEN 0 ELSE LineStarts(text)[p.line] + p.column - 1

OnLine(text, line) == {k \in DOMAIN text : PositionOf(text, k).line = line}

-----------------------------------------------------------------------------
(* Arrays *)

Depth(text, open, k) ==
    Cardinality({j \in open..k : text[j] \in Opening})
    - Cardinality({j \in open..k : text[j] \in Closing})

NoSpan == [open |-> 0, close |-> 0]

\* What looks like an array under a key, wherever it is in the text.
Keyed(text, key) ==
    {k \in DOMAIN text :
        /\ text[k] = key
        /\ At(text, After(text, k)) = "colon"
        /\ At(text, After(text, After(text, k))) = "lbrack"}

\* arraySpan: the first of them, to where its bracket closes; nothing when it does
\* not, for then the file is in the middle of an edit.
ArraySpan(text, key) ==
    LET keys == Keyed(text, key)
        open == After(text, After(text, Least(keys)))
        ends == {k \in open..Len(text) : text[k] \in Closing /\ Depth(text, open, k) = 0}
    IN IF keys = {} \/ ends = {} THEN NoSpan
       ELSE [open |-> open, close |-> Least(ends)]

\* Where the elements of an array end: its brackets and the commas at its depth.
Cuts(text, span) ==
    {span.open, span.close}
    \cup {k \in span.open..span.close : text[k] = "comma" /\ Depth(text, span.open, k) = 1}

\* elementSpans: what is between one cut and the next, without the space around
\* it, as <<first token, last token>>.
Elements(text, span) ==
    LET Between(a, b) == <<After(text, a), Before(text, b)>>
        Next(a, b) == a < b /\ \A k \in Cuts(text, span) : ~(a < k /\ k < b)
    IN {e \in {Between(p[1], p[2]) :
                   p \in {p \in Cuts(text, span) \X Cuts(text, span) : Next(p[1], p[2])}} :
           e[1] <= e[2]}

-----------------------------------------------------------------------------
(* Where items are declared *)

Arrays == {"endpoints", "manual", "domains"}

\* The field that names an entry; a domain is its own name.
NameField == [endpoints |-> "host", manual |-> "name", domains |-> ""]

\* The tokens in the array that declare a name, a field at any depth.
Declaring(text, key) ==
    LET span == ArraySpan(text, key)
    IN {k \in span.open..span.close :
          /\ k > 0 /\ IsString(text[k])
          /\ \/ key = "domains"
             \/ /\ text[Before(text, k)] = "colon"
                /\ text[Before(text, Before(text, k))] = NameField[key]}

\* declaredIn: the endpoints, then the manual entries, then the domains; of two
\* declarations of a name the first one counts.
DeclaredIn(text) ==
    LET of(key, name) == {k \in Declaring(text, key) : text[k] = name}
        names == UNION {{text[k] : k \in Declaring(text, key)} : key \in Arrays}
        first(name) ==
            IF of("endpoints", name) # {} THEN Least(of("endpoints", name))
            ELSE IF of("manual", name) # {} THEN Least(of("manual", name))
            ELSE Least(of("domains", name))
    IN [name \in names |-> PositionOf(text, first(name))]

-----------------------------------------------------------------------------
(* Adding *)

\* The indentation of the line of k, as far as k.
IndentAt(text, k) ==
    LET start == LineStart(text, k)
        deep == {n \in 0..(k - start) : \A j \in start..(start + n - 1) : text[j] = "sp"}
    IN [n \in 1..Greatest(deep \cup {0}) |-> "sp"]

\* The new entry of an array that has one element to a line: after its last
\* token, indented like the line the text before it begins on.
AppendToLines(text, span, entry) ==
    LET last == Before(text, span.close)
        first == After(text, span.open)
        line == IF LineStart(text, last) < first THEN first ELSE LineStart(text, last)
    IN SubSeq(text, 1, last) \o <<"comma", "nl">> \o IndentAt(text, line) \o entry
       \o SubSeq(text, last + 1, Len(text))

\* appendToExisting: an array on one line stays on one line.
AppendToExisting(text, span, entry) ==
    LET body == SubSeq(text, span.open + 1, span.close - 1)
        empty == Solid(body) = {}
        inline == \A k \in DOMAIN body : body[k] # "nl"
        head == SubSeq(text, 1, span.close - 1)
        tail == SubSeq(text, span.close, Len(text))
    IN IF inline
       THEN head \o (IF empty THEN <<>> ELSE <<"comma", "sp">>) \o entry \o tail
       ELSE IF empty
            THEN SubSeq(text, 1, span.open) \o <<"nl">> \o IndentAt(text, span.open) \o <<"sp">>
                 \o entry \o <<"nl">> \o IndentAt(text, span.close) \o tail
            ELSE AppendToLines(text, span, entry)

\* addKey: there is no such array; a text that is no object is replaced by one.
\* Without a brace the index is -1, which slice takes for the last character.
AddKey(text, key, entry) ==
    LET array == <<"sp", key, "colon", "sp", "lbrack">> \o entry \o <<"rbrack", "nl">>
        ends == {k \in DOMAIN text : text[k] = "rbrace"}
        close == IF ends = {} THEN Len(text) ELSE Greatest(ends)
        last == Before(text, close)
        none == At(text, last) = "lbrace" /\ last = After(text, 0)
        comma == IF At(text, last) = "comma" \/ none THEN <<>> ELSE <<"comma">>
    IN IF At(text, After(text, 0)) # "lbrace"
       THEN <<"lbrace", "nl">> \o array \o <<"rbrace", "nl">>
       ELSE SubSeq(text, 1, last) \o comma \o <<"nl">> \o IndentAt(text, close)
            \o array \o SubSeq(text, close, Len(text))

NoText == <<"eof">>

\* An object that is not closed, where edit.lua raises an error instead.
Unclosed(text) ==
    At(text, After(text, 0)) = "lbrace" /\ \A k \in DOMAIN text : text[k] # "rbrace"

AddToArray(editor, text, key, entry) ==
    IF ArraySpan(text, key) # NoSpan THEN AppendToExisting(text, ArraySpan(text, key), entry)
    ELSE IF editor = "nvim" /\ Unclosed(text) THEN NoText
    ELSE AddKey(text, key, entry)

-----------------------------------------------------------------------------
(* Removing *)

\* The element the position is in or, in VS Code, right behind.
ElementAt(editor, text, key, p) ==
    LET span == ArraySpan(text, key)
        offset == OffsetOf(text, p)
    IN IF span = NoSpan \/ offset = 0 THEN {}
       ELSE {e \in Elements(text, span) :
               /\ e[1] <= offset /\ offset <= e[2] + 1
               /\ editor = "nvim" => offset # e[2] + 1}

\* Mutant of Cut: the comma behind the element goes, the one before it stays.
CutCommaBehind(text, e) ==
    LET to == IF At(text, After(text, e[2])) = "comma" THEN After(text, e[2]) ELSE e[2]
    IN SubSeq(text, 1, e[1] - 1) \o SubSeq(text, to + 1, Len(text))

\* The text without element e: with the comma behind it and the rest of that
\* line, or, if it is the last one, with the comma before it; and without the
\* indentation before that.
Cut(text, e) ==
    LET comma == After(text, e[2])
        behind == At(text, comma) = "comma"
        rest == {n \in comma..Len(text) : \A j \in (comma + 1)..n : text[j] = "sp"}
        eol == Greatest(rest)
        to == IF ~behind THEN e[2] ELSE IF At(text, eol + 1) = "nl" THEN eol + 1 ELSE eol
        before == Before(text, e[1])
        cut == IF ~behind /\ text[before] = "comma" THEN before ELSE e[1]
        from == Least({n \in 1..cut : \A j \in n..(cut - 1) : text[j] = "sp"})
    IN SubSeq(text, 1, from - 1) \o SubSeq(text, to + 1, Len(text))

\* removeEntry
RemoveEntry(editor, text, key, p) ==
    LET es == ElementAt(editor, text, key, p)
    IN IF es = {} THEN NoText
       ELSE Cut(text, CHOOSE e \in es : \A f \in es : e[1] <= f[1])

-----------------------------------------------------------------------------
(* What the CLI reads: the reference the edits are checked against *)

\* encoding/json: how far the decoder is.  `stack` are the brackets that are open,
\* the innermost last, `prev` the kind of the token before, `key` the key of the
\* object read last, `entry` what is being read under it, and `entries` what was
\* read under each key, an object or a string counting as one.
Start ==
    [stack |-> <<>>, prev |-> "start", key |-> "", entry |-> <<>>, entries |-> [k \in {} |-> <<>>]]

Level(st) == Len(st.stack)
In(st)    == IF st.stack = <<>> THEN "top" ELSE st.stack[Level(st)]

\* A value is to come, or a key.
Due(st)    == st.prev \in {"start", "colon"} \/ (In(st) = "lbrack" /\ st.prev \in {"open", "comma"})
KeyDue(st) == In(st) = "lbrace" /\ st.prev \in {"open", "comma"}

Fits(st, t) ==
    \/ t \in Opening /\ Due(st) /\ (st.stack = <<>> => t = "lbrace")
    \/ t = "rbrace" /\ In(st) = "lbrace" /\ st.prev \in {"open", "value"}
    \/ t = "rbrack" /\ In(st) = "lbrack" /\ st.prev \in {"open", "value"}
    \/ t = "comma" /\ st.prev = "value"
    \/ t = "colon" /\ st.prev = "key"
    \/ IsString(t) /\ st.stack # <<>> /\ (KeyDue(st) \/ Due(st))

\* The decoder stops after the first value, and at what it cannot read.
Over(st) == st.prev = "bad" \/ (st.stack = <<>> /\ st.prev = "value")

\* A token that fits begins a field of the object, or ends an element of an
\* array, or the object that is all there is under a key.
NewKey(st, t) == KeyDue(st) /\ Level(st) = 1 /\ IsString(t)
Ends(st, t)   == Level(st) = 2 /\ (t \in Closing \/ (t = "comma" /\ In(st) = "lbrack"))

ReadEntries(st, t) ==
    IF NewKey(st, t)
    THEN [k \in DOMAIN st.entries \cup {t} |-> IF k = t THEN <<>> ELSE st.entries[k]]
    ELSE IF Ends(st, t) /\ st.entry # <<>> THEN [st.entries EXCEPT ![st.key] = Append(@, st.entry)]
    ELSE IF Level(st) = 1 /\ IsString(t) THEN [st.entries EXCEPT ![st.key] = <<<<t>>>>]
    ELSE st.entries

\* One token further.
ReadToken(st, t) ==
    IF t \in Space \/ Over(st) THEN st
    ELSE IF ~Fits(st, t) THEN [st EXCEPT !.prev = "bad"]
    ELSE [stack |-> IF t \in Opening THEN Append(st.stack, t)
                    ELSE IF t \in Closing THEN SubSeq(st.stack, 1, Level(st) - 1) ELSE st.stack,
          prev |-> IF t \in Opening THEN "open" ELSE IF t = "comma" THEN "comma"
                   ELSE IF t = "colon" THEN "colon"
                   ELSE IF IsString(t) /\ KeyDue(st) THEN "key" ELSE "value",
          key |-> IF NewKey(st, t) THEN t ELSE st.key,
          entry |-> IF Level(st) < 2 \/ Ends(st, t) THEN <<>> ELSE Append(st.entry, t),
          entries |-> ReadEntries(st, t)]

\* The states of the decoder that begins in st, one behind each token.
Steps(st, text) ==
    LET at[n \in 0..Len(text)] == IF n = 0 THEN st ELSE ReadToken(at[n - 1], text[n])
    IN at

Reading(text) == Steps(Start, text)[Len(text)]

Parses(text) == LET r == Reading(text) IN r.stack = <<>> /\ r.prev = "value"

\* The entries of an array, each the sequence of its tokens.
Entries(text, key) ==
    LET entries == Reading(text).entries
    IN IF key \in DOMAIN entries THEN entries[key] ELSE <<>>

\* The name the CLI gives the item of an entry.
NameOf(key, entry) ==
    IF key = "domains" THEN entry[1]
    ELSE entry[2 + CHOOSE k \in DOMAIN entry :
                       entry[k] = NameField[key] /\ At(entry, k + 1) = "colon"]
=============================================================================
