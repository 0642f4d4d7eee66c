----------------------------- MODULE ConfigProofs -----------------------------
(***************************************************************************)
(* Theorems about the config file.  Of ConfigEdit, for any texts the file  *)
(* may have, any text that is saved over it, any additions and any number  *)
(* of commands: what an edit of the editors makes of what the CLI reads    *)
(* (OneEntryEdited), and that what is removed has the name of the row      *)
(* (NamedRemoved).  Of ConfigFile, for any file: what loads is watched     *)
(* whole (LoadedIsWatched).                                                *)
(*                                                                         *)
(* The decoder runs over the text before and the text after an edit.  The  *)
(* two runs are alike up to the entry, differ by it in one place behind    *)
(* it (Twin), and stay so to the end, because the array is there once.     *)
(***************************************************************************)
EXTENDS ConfigEdit, ConfigFile, SequenceLemmas

-----------------------------------------------------------------------------
(* Texts *)

\* The provers do not know of a literal that it is a string.
Tokens == STRING \cup Space \cup Opening \cup Closing \cup Arrays
          \cup {"comma", "colon", "", "host", "name"}

-----------------------------------------------------------------------------
(* Places in a text *)

\* What the editors search for, when there is one.
LEMMA LeastIs ==
    ASSUME NEW S \in SUBSET Nat, S # {}
    PROVE  Least(S) \in S /\ \A j \in S : Least(S) <= j
BY LeastNat DEF Least

LEMMA GreatestIs ==
    ASSUME NEW S \in SUBSET Nat, S # {}, NEW n \in Nat, \A k \in S : k <= n
    PROVE  Greatest(S) \in S /\ \A j \in S : j <= Greatest(S)
<1> DEFINE T == {n - k : k \in S}
<1>1. T \in SUBSET Nat /\ T # {}
  <2>1. \A k \in S : n - k \in Nat
    OBVIOUS
  <2> QED
    BY <2>1
<1>2. PICK m \in T : \A k \in T : m <= k
  BY <1>1, LeastNat
<1>3. PICK g \in S : m = n - g
  BY <1>2
<1>4. \A j \in S : n - g <= n - j
  BY <1>2, <1>3
<1>5. \A j \in S : j <= g
  BY <1>4
<1>6. \E k \in S : \A j \in S : k >= j
  BY <1>5
<1> QED
  BY <1>6 DEF Greatest

\* The first token after k that is no space.
LEMMA AfterIs ==
    ASSUME NEW text \in Seq(Tokens), NEW k \in 0..Len(text)
    PROVE  /\ After(text, k) \in (k + 1)..(Len(text) + 1)
           /\ After(text, k) <= Len(text) => After(text, k) \in Solid(text)
           /\ \A j \in (k + 1)..(After(text, k) - 1) : text[j] \in Space
<1> DEFINE S == {j \in Solid(text) : j > k} \cup {Len(text) + 1}
<1>1. Len(text) \in Nat /\ DOMAIN text = 1..Len(text)
  OBVIOUS
<1>2. S \in SUBSET Nat /\ S # {}
  BY <1>1 DEF Solid
<1>3. Least(S) \in S /\ \A j \in S : Least(S) <= j
  BY <1>2, LeastIs
<1>4. After(text, k) = Least(S)
  BY DEF After
<1>5. After(text, k) \in S /\ \A j \in S : After(text, k) <= j
  BY <1>3, <1>4
<1>6. After(text, k) \in (k + 1)..(Len(text) + 1)
  BY <1>1, <1>5 DEF Solid
<1>7. ASSUME NEW j \in (k + 1)..(After(text, k) - 1) PROVE text[j] \in Space
  <2>1. j \in DOMAIN text /\ j > k /\ ~(After(text, k) <= j)
    BY <1>1, <1>6
  <2> QED
    BY <1>5, <2>1 DEF Solid
<1> QED
  BY <1>1, <1>5, <1>6, <1>7

LEMMA BeforeIs ==
    ASSUME NEW text \in Seq(Tokens), NEW k \in 1..(Len(text) + 1)
    PROVE  /\ Before(text, k) \in 0..(k - 1)
           /\ Before(text, k) >= 1 => Before(text, k) \in Solid(text)
           /\ \A j \in (Before(text, k) + 1)..(k - 1) : text[j] \in Space
<1> DEFINE S == {j \in Solid(text) : j < k} \cup {0}
<1>1. Len(text) \in Nat /\ DOMAIN text = 1..Len(text)
  OBVIOUS
<1>2. S \in SUBSET Nat /\ S # {} /\ \A j \in S : j <= k
  BY <1>1 DEF Solid
<1>3. Greatest(S) \in S /\ \A j \in S : j <= Greatest(S)
  <2>1. k \in Nat
    BY <1>1
  <2> HIDE DEF S
  <2> QED
    BY <1>2, <2>1, GreatestIs
<1>4. Before(text, k) = Greatest(S)
  BY DEF Before
<1>5. Before(text, k) \in S /\ \A j \in S : j <= Before(text, k)
  BY <1>3, <1>4
<1>6. Before(text, k) \in 0..(k - 1)
  BY <1>1, <1>5 DEF Solid
<1>7. ASSUME NEW j \in (Before(text, k) + 1)..(k - 1) PROVE text[j] \in Space
  <2>1. j \in DOMAIN text /\ j < k /\ ~(j <= Before(text, k))
    BY <1>1, <1>6
  <2> QED
    BY <1>5, <2>1 DEF Solid
<1> QED
  BY <1>1, <1>5, <1>6, <1>7

-----------------------------------------------------------------------------
(* The steps of the decoder *)

\* A run of the decoder is the state it begins in and one step a token.
LEMMA StepsAre ==
    ASSUME NEW text \in Seq(Tokens), NEW st
    PROVE  /\ Steps(st, text)[0] = st
           /\ \A n \in 1..Len(text) :
                 Steps(st, text)[n] = ReadToken(Steps(st, text)[n - 1], text[n])
<1> DEFINE Fix(g, n) == g = [i \in 0..n |-> IF i = 0 THEN st ELSE ReadToken(g[i - 1], text[i])]
<1>1. Len(text) \in Nat /\ DOMAIN text = 1..Len(text)
  OBVIOUS
<1>2. \E g : Fix(g, Len(text))
  <2> DEFINE M == {n \in Nat : \E g : Fix(g, n)}
  <2>1. 0 \in M
    <3>1. Fix([i \in {0} |-> st], 0)
      OBVIOUS
    <3> QED
      BY <3>1
  <2>2. ASSUME NEW n \in Nat, n \in M PROVE n + 1 \in M
    <3>1. PICK g : Fix(g, n)
      BY <2>2
    <3> DEFINE h == [i \in 0..(n + 1) |-> IF i = 0 THEN st ELSE ReadToken(g[i - 1], text[i])]
    <3>2. \A i \in 0..n : h[i] = g[i]
      <4>1. \A i \in 0..n : g[i] = IF i = 0 THEN st ELSE ReadToken(g[i - 1], text[i])
        BY <3>1
      <4>2. \A i \in 0..n : i \in 0..(n + 1)
        OBVIOUS
      <4> QED
        BY <4>1, <4>2
    <3>3. \A i \in 0..(n + 1) : i # 0 => i - 1 \in 0..n
      OBVIOUS
    <3>4. \A i \in 0..(n + 1) : i # 0 => g[i - 1] = h[i - 1]
      BY <3>2, <3>3
    <3>5. h = [i \in 0..(n + 1) |-> IF i = 0 THEN st ELSE ReadToken(h[i - 1], text[i])]
      BY <3>4
    <3> HIDE DEF h
    <3>6. Fix(h, n + 1)
      BY <3>5
    <3> HIDE DEF Fix
    <3> QED
      BY <3>6
  <2> HIDE DEF M
  <2>3. \A n \in Nat : n \in M
    BY <2>1, <2>2, NatInduct
  <2> QED
    BY <1>1, <2>3 DEF M
<1>3. Fix(Steps(st, text), Len(text))
  BY <1>2 DEF Steps
<1>4. \A i \in 0..Len(text) :
         Steps(st, text)[i] = IF i = 0 THEN st ELSE ReadToken(Steps(st, text)[i - 1], text[i])
  BY <1>3
<1>5. 0 \in 0..Len(text) /\ \A n \in 1..Len(text) : n \in 0..Len(text) /\ n # 0
  BY <1>1
<1> QED
  BY <1>4, <1>5

\* What is true of one state and stays true from token to token is true of the
\* states behind.
LEMMA AlongSteps ==
    ASSUME NEW text \in Seq(Tokens), NEW i \in 0..Len(text), NEW j \in i..Len(text),
           NEW T, i \in T, \A n \in i..(j - 1) : n \in T => n + 1 \in T
    PROVE  \A n \in i..j : n \in T
<1> DEFINE M == {n \in Nat : i + n <= j => i + n \in T}
<1>1. 0 \in M
  OBVIOUS
<1>2. ASSUME NEW n \in Nat, n \in M PROVE n + 1 \in M
  <2> SUFFICES ASSUME i + (n + 1) <= j PROVE i + (n + 1) \in T
    OBVIOUS
  <2>1. i + n \in i..(j - 1) /\ (i + n) + 1 = i + (n + 1)
    OBVIOUS
  <2> QED
    BY <1>2, <2>1
<1> HIDE DEF M
<1>3. \A n \in Nat : n \in M
  BY <1>1, <1>2, NatInduct
<1>4. ASSUME NEW n \in i..j PROVE n \in T
  <2>1. n - i \in Nat /\ i + (n - i) = n
    OBVIOUS
  <2>2. n - i \in M
    BY <1>3, <2>1
  <2> QED
    BY <2>1, <2>2 DEF M
<1> QED
  BY <1>4

LEMMA SpaceReads == \A st : \A t \in Space : ReadToken(st, t) = st
BY DEF ReadToken

\* Space changes nothing.
LEMMA OverSpace ==
    ASSUME NEW text \in Seq(Tokens), NEW st, NEW i \in 0..Len(text), NEW j \in i..Len(text),
           \A n \in (i + 1)..j : text[n] \in Space
    PROVE  \A n \in i..j : Steps(st, text)[n] = Steps(st, text)[i]
<1> DEFINE T == {n \in i..j : Steps(st, text)[n] = Steps(st, text)[i]}
<1>1. i \in T
  OBVIOUS
<1>2. ASSUME NEW n \in i..(j - 1), n \in T PROVE n + 1 \in T
  <2>1. n + 1 \in 1..Len(text) /\ (n + 1) - 1 = n /\ n + 1 \in (i + 1)..j /\ n + 1 \in i..j
    OBVIOUS
  <2>2. Steps(st, text)[n + 1] = ReadToken(Steps(st, text)[n], text[n + 1])
    BY <2>1, StepsAre
  <2> QED
    BY <1>2, <2>1, <2>2, SpaceReads
<1> HIDE DEF T
<1>3. \A n \in i..j : n \in T
  BY <1>1, <1>2, AlongSteps
<1> QED
  BY <1>3 DEF T

\* Reading a text that begins like this one, and goes on like that one from
\* there: the same states.
LEMMA SameSteps ==
    ASSUME NEW a \in Seq(Tokens), NEW b \in Seq(Tokens), NEW st, NEW u,
           NEW i \in 0..Len(a), NEW j \in 0..Len(b), NEW n \in Nat,
           i + n <= Len(a), j + n <= Len(b),
           \A k \in 1..n : a[i + k] = b[j + k],
           Steps(st, a)[i] = Steps(u, b)[j]
    PROVE  \A k \in 0..n : Steps(st, a)[i + k] = Steps(u, b)[j + k]
<1> DEFINE M == {k \in Nat : k <= n => Steps(st, a)[i + k] = Steps(u, b)[j + k]}
<1>1. 0 \in M
  OBVIOUS
<1>2. ASSUME NEW k \in Nat, k \in M PROVE k + 1 \in M
  <2> SUFFICES ASSUME k + 1 <= n PROVE Steps(st, a)[i + (k + 1)] = Steps(u, b)[j + (k + 1)]
    OBVIOUS
  <2>1. /\ i + (k + 1) \in 1..Len(a) /\ (i + (k + 1)) - 1 = i + k
        /\ j + (k + 1) \in 1..Len(b) /\ (j + (k + 1)) - 1 = j + k
        /\ k + 1 \in 1..n
    OBVIOUS
  <2>2. /\ Steps(st, a)[i + (k + 1)] = ReadToken(Steps(st, a)[i + k], a[i + (k + 1)])
        /\ Steps(u, b)[j + (k + 1)] = ReadToken(Steps(u, b)[j + k], b[j + (k + 1)])
    BY <2>1, StepsAre
  <2> QED
    <3>1. Steps(st, a)[i + k] = Steps(u, b)[j + k] /\ a[i + (k + 1)] = b[j + (k + 1)]
      <4>1. a[i + (k + 1)] = b[j + (k + 1)]
        BY <2>1
      <4>2. Steps(st, a)[i + k] = Steps(u, b)[j + k]
        BY <1>2, <2>1
      <4> QED
        BY <4>1, <4>2
    <3> QED
      BY <2>2, <3>1
<1> HIDE DEF M
<1>3. \A k \in Nat : k \in M
  BY <1>1, <1>2, NatInduct
<1> QED
  BY <1>3 DEF M

-----------------------------------------------------------------------------
(* The states of the decoder *)

Previous == {"start", "open", "comma", "colon", "key", "value", "bad"}

\* Entries under keys.
Table == UNION {[D -> Seq(Seq(Tokens))] : D \in SUBSET Tokens}

\* Nothing is read of an entry before it begins and behind it, something is
\* within it; below the object there is a key.
Sound(st) ==
    /\ st \in [stack : Seq(Opening), prev : Previous, key : Tokens, entry : Seq(Tokens),
               entries : Table]
    /\ st.stack # <<>> => st.stack[1] = "lbrace"
    /\ st.stack = <<>> => st.prev \in {"start", "value", "bad"}
    /\ st.prev = "start" => st.stack = <<>>
    /\ Level(st) < 2 => st.entry = <<>>
    /\ Level(st) = 2 /\ (st.prev = "open" \/ (In(st) = "lbrack" /\ st.prev = "comma")) =>
          st.entry = <<>>
    /\ Level(st) > 2 \/ (Level(st) = 2 /\ st.prev \in {"key", "colon", "value"}) =>
          st.entry # <<>>
    /\ Level(st) > 1 \/ (Level(st) = 1 /\ st.prev \in {"key", "colon", "value", "comma"}) =>
          st.key \in DOMAIN st.entries

LEMMA TableIs ==
    \A f : f \in Table => /\ DOMAIN f \subseteq Tokens /\ f \in [DOMAIN f -> Seq(Seq(Tokens))]
BY DEF Table

LEMMA TableOf ==
    ASSUME NEW D \in SUBSET Tokens, NEW f \in [D -> Seq(Seq(Tokens))]
    PROVE  f \in Table
BY DEF Table

\* The brackets that are open, after one more and after one less.
LEMMA StackIs ==
    ASSUME NEW s \in Seq(Opening)
    PROVE  /\ Len(s) \in Nat /\ (s = <<>> <=> Len(s) = 0) /\ DOMAIN s = 1..Len(s)
           /\ \A i \in 1..Len(s) : s[i] \in Opening
           /\ \A t \in Opening :
                 /\ Append(s, t) \in Seq(Opening) /\ Len(Append(s, t)) = Len(s) + 1
                 /\ Append(s, t)[Len(s) + 1] = t
                 /\ \A i \in 1..Len(s) : Append(s, t)[i] = s[i]
           /\ Len(s) > 0 =>
                 LET p == SubSeq(s, 1, Len(s) - 1) IN
                 /\ p \in Seq(Opening) /\ Len(p) = Len(s) - 1
                 /\ \A i \in 1..(Len(s) - 1) : p[i] = s[i]
<1>1. /\ Len(s) \in Nat /\ DOMAIN s = 1..Len(s)
      /\ \A i \in 1..Len(s) : s[i] \in Opening
  OBVIOUS
<1>2. s = <<>> <=> Len(s) = 0
  OBVIOUS
<1>3. ASSUME NEW t \in Opening
      PROVE  /\ Append(s, t) \in Seq(Opening) /\ Len(Append(s, t)) = Len(s) + 1
             /\ Append(s, t)[Len(s) + 1] = t
             /\ \A i \in 1..Len(s) : Append(s, t)[i] = s[i]
  OBVIOUS
<1>4. ASSUME Len(s) > 0
      PROVE  LET p == SubSeq(s, 1, Len(s) - 1) IN
             /\ p \in Seq(Opening) /\ Len(p) = Len(s) - 1
             /\ \A i \in 1..(Len(s) - 1) : p[i] = s[i]
  <2> DEFINE p == SubSeq(s, 1, Len(s) - 1)
  <2>1. p \in Seq(Opening)
    BY <1>1
  <2>2. Len(p) = Len(s) - 1
    BY <1>1, <1>4
  <2>3. \A i \in 1..(Len(s) - 1) : p[i] = s[i]
    BY <1>1, <1>4
  <2> QED
    BY <2>1, <2>2, <2>3
<1> QED
  BY <1>1, <1>2, <1>3, <1>4

\* Entries with one more under a key.
Longer(f, k, e) == [f EXCEPT ![k] = Append(@, e)]

\* One token of each kind that fits.
LEMMA OpeningRead ==
    ASSUME NEW st, NEW t \in Opening, Sound(st), ~Over(st), Fits(st, t)
    PROVE  LET next == ReadToken(st, t) IN
           /\ Due(st)
           /\ st.stack = <<>> => t = "lbrace"
           /\ next = [stack |-> Append(st.stack, t), prev |-> "open", key |-> st.key,
                      entry |-> IF Level(st) < 2 THEN <<>> ELSE Append(st.entry, t),
                      entries |-> st.entries]
<1>1. t \notin Space /\ t \notin Closing /\ t \notin {"comma", "colon"} /\ ~IsString(t)
  BY DEF Opening, Space, Closing, IsString
<1> QED
  BY <1>1 DEF ReadToken, Fits, NewKey, Ends, ReadEntries, Opening

LEMMA ClosingRead ==
    ASSUME NEW st, NEW t \in Closing, Sound(st), ~Over(st), Fits(st, t)
    PROVE  LET next == ReadToken(st, t) IN
           /\ st.prev \in {"open", "value"} /\ st.stack # <<>>
           /\ (t = "rbrace" => In(st) = "lbrace") /\ (t = "rbrack" => In(st) = "lbrack")
           /\ next = [stack |-> SubSeq(st.stack, 1, Level(st) - 1), prev |-> "value", key |-> st.key,
                      entry |-> IF Level(st) <= 2 THEN <<>> ELSE Append(st.entry, t),
                      entries |-> IF Level(st) = 2 /\ st.entry # <<>>
                                  THEN Longer(st.entries, st.key, st.entry)
                                  ELSE st.entries]
<1>1. t \notin Space /\ t \notin Opening /\ t \notin {"comma", "colon"} /\ ~IsString(t)
  BY DEF Opening, Space, Closing, IsString
<1>2. /\ st.prev \in {"open", "value"} /\ In(st) # "top"
      /\ (t = "rbrace" => In(st) = "lbrace") /\ (t = "rbrack" => In(st) = "lbrack")
  BY <1>1 DEF Fits
<1>3. st.stack # <<>> /\ Level(st) \in Nat
  <2>1. st.stack \in Seq(Opening)
    BY DEF Sound
  <2>2. Len(st.stack) \in Nat
    BY <2>1, StackIs
  <2> QED
    BY <1>2, <2>2 DEF In, Level
<1>4. Ends(st, t) <=> Level(st) = 2
  BY DEF Ends
<1>5. (Level(st) < 2 \/ Ends(st, t)) <=> Level(st) <= 2
  BY <1>3, <1>4
<1>6. ReadEntries(st, t) = IF Level(st) = 2 /\ st.entry # <<>>
                          THEN Longer(st.entries, st.key, st.entry)
                          ELSE st.entries
  BY <1>1, <1>4 DEF NewKey, ReadEntries, Longer
<1>7. ReadToken(st, t) =
         [stack |-> SubSeq(st.stack, 1, Level(st) - 1), prev |-> "value", key |-> st.key,
          entry |-> IF Level(st) < 2 \/ Ends(st, t) THEN <<>> ELSE Append(st.entry, t),
          entries |-> ReadEntries(st, t)]
  BY <1>1 DEF ReadToken, NewKey
<1> QED
  BY <1>2, <1>3, <1>5, <1>6, <1>7

LEMMA CommaRead ==
    ASSUME NEW st, Sound(st), ~Over(st), Fits(st, "comma")
    PROVE  LET next == ReadToken(st, "comma") IN
           /\ st.prev = "value" /\ st.stack # <<>>
           /\ next = [stack |-> st.stack, prev |-> "comma", key |-> st.key,
                      entry |-> IF Level(st) < 2 \/ (Level(st) = 2 /\ In(st) = "lbrack")
                                THEN <<>> ELSE Append(st.entry, "comma"),
                      entries |-> IF Level(st) = 2 /\ In(st) = "lbrack" /\ st.entry # <<>>
                                  THEN Longer(st.entries, st.key, st.entry)
                                  ELSE st.entries]
<1>1. "comma" \notin Space /\ "comma" \notin Opening /\ "comma" \notin Closing /\ "comma" # "colon" /\ ~IsString("comma")
  BY DEF Opening, Space, Closing, IsString
<1>2. st.prev = "value" /\ st.stack # <<>>
  BY <1>1 DEF Fits, Over
<1> QED
  BY <1>1, <1>2 DEF ReadToken, NewKey, Ends, ReadEntries, Longer

LEMMA ColonRead ==
    ASSUME NEW st, Sound(st), ~Over(st), Fits(st, "colon")
    PROVE  LET next == ReadToken(st, "colon") IN
           /\ st.prev = "key" /\ st.stack # <<>>
           /\ next = [stack |-> st.stack, prev |-> "colon", key |-> st.key,
                      entry |-> IF Level(st) < 2 THEN <<>> ELSE Append(st.entry, "colon"),
                      entries |-> st.entries]
<1>1. "colon" \notin Space /\ "colon" \notin Opening /\ "colon" \notin Closing /\ "comma" # "colon" /\ ~IsString("colon")
  BY DEF Opening, Space, Closing, IsString
<1>2. st.prev = "key" /\ st.stack # <<>>
  BY <1>1 DEF Fits, Sound
<1> QED
  BY <1>1, <1>2 DEF ReadToken, NewKey, Ends, ReadEntries

LEMMA StringRead ==
    ASSUME NEW st, NEW t \in Tokens, IsString(t), Sound(st), ~Over(st), Fits(st, t)
    PROVE  LET next == ReadToken(st, t) IN
           /\ st.stack # <<>> /\ (KeyDue(st) \/ Due(st))
           /\ next = [stack |-> st.stack, prev |-> IF KeyDue(st) THEN "key" ELSE "value",
                      key |-> IF NewKey(st, t) THEN t ELSE st.key,
                      entry |-> IF Level(st) < 2 THEN <<>> ELSE Append(st.entry, t),
                      entries |-> IF NewKey(st, t)
                                  THEN [k \in DOMAIN st.entries \cup {t} |->
                                           IF k = t THEN <<>> ELSE st.entries[k]]
                                  ELSE IF Level(st) = 1
                                  THEN [st.entries EXCEPT ![st.key] = <<<<t>>>>] ELSE st.entries]
<1>1. t \notin Space /\ t \notin Opening /\ t \notin Closing /\ t # "comma" /\ t # "colon"
  BY DEF Opening, Space, Closing, IsString
<1>2. st.stack # <<>> /\ (KeyDue(st) \/ Due(st))
  BY <1>1 DEF Fits, Closing
<1>3. ~Ends(st, t)
  BY <1>1 DEF Ends
<1> QED
  BY <1>1, <1>2, <1>3 DEF ReadToken, ReadEntries

\* There are no other tokens.
LEMMA TokenKinds ==
    \A t : \/ t \in Space \/ t \in Opening \/ t \in Closing
          \/ t = "comma" \/ t = "colon" \/ t = "eof" \/ IsString(t)
BY DEF IsString

LEMMA NoFit == \A st, t : t = "eof" => ~Fits(st, t)
<1> SUFFICES ASSUME NEW st, NEW t, t = "eof" PROVE ~Fits(st, t)
  OBVIOUS
<1>1. t \notin Opening /\ t \notin Closing /\ ~IsString(t)
  BY DEF Opening, Closing, IsString
<1> QED
  BY <1>1 DEF Fits

\* Sound, of a state that is given field by field.
LEMMA SoundOf ==
    ASSUME NEW stack \in Seq(Opening), NEW prev \in Previous, NEW key \in Tokens,
           NEW entry \in Seq(Tokens), NEW entries \in Table,
           NEW d, d = Len(stack), NEW top, top = IF d = 0 THEN "top" ELSE stack[d],
           d > 0 => stack[1] = "lbrace",
           d = 0 => prev \in {"start", "value", "bad"},
           prev = "start" => d = 0,
           d < 2 => entry = <<>>,
           d = 2 /\ (prev = "open" \/ (top = "lbrack" /\ prev = "comma")) => entry = <<>>,
           d > 2 \/ (d = 2 /\ prev \in {"key", "colon", "value"}) => entry # <<>>,
           d > 1 \/ (d = 1 /\ prev \in {"key", "colon", "value", "comma"}) => key \in DOMAIN entries
    PROVE  Sound([stack |-> stack, prev |-> prev, key |-> key, entry |-> entry, entries |-> entries])
<1> DEFINE st == [stack |-> stack, prev |-> prev, key |-> key, entry |-> entry, entries |-> entries]
<1>1. d \in Nat /\ (stack = <<>> <=> d = 0)
  BY StackIs
<1>2. /\ st.stack = stack /\ st.prev = prev /\ st.key = key /\ st.entry = entry
      /\ st.entries = entries
  OBVIOUS
<1>3. st \in [stack : Seq(Opening), prev : Previous, key : Tokens, entry : Seq(Tokens),
              entries : Table]
  OBVIOUS
<1> HIDE DEF st
<1>4. Level(st) = d /\ In(st) = top
  BY <1>1, <1>2 DEF Level, In
<1>5. Sound(st)
  BY <1>1, <1>2, <1>3, <1>4 DEF Sound
<1> QED
  BY <1>5 DEF st

\* What Sound says, of the depth and the innermost bracket.
LEMMA SoundIs ==
    ASSUME NEW st, Sound(st)
    PROVE  /\ st.stack \in Seq(Opening) /\ st.prev \in Previous /\ st.key \in Tokens
           /\ st.entry \in Seq(Tokens) /\ st.entries \in Table
           /\ Level(st) \in Nat /\ Level(st) = Len(st.stack) /\ (st.stack = <<>> <=> Level(st) = 0)
           /\ In(st) = IF Level(st) = 0 THEN "top" ELSE st.stack[Level(st)]
           /\ Level(st) > 0 => st.stack[1] = "lbrace" /\ In(st) \in Opening
           /\ Level(st) = 1 => In(st) = "lbrace"
<1>1. /\ st.stack \in Seq(Opening) /\ st.prev \in Previous /\ st.key \in Tokens
      /\ st.entry \in Seq(Tokens) /\ st.entries \in Table
  BY DEF Sound
<1>2. Level(st) \in Nat /\ Level(st) = Len(st.stack) /\ (st.stack = <<>> <=> Level(st) = 0)
      /\ \A i \in 1..Level(st) : st.stack[i] \in Opening
  BY <1>1, StackIs DEF Level
<1>3. In(st) = IF Level(st) = 0 THEN "top" ELSE st.stack[Level(st)]
  BY <1>2 DEF In
<1>4. Level(st) > 0 => st.stack[1] = "lbrace"
  <2>1. st.stack # <<>> => st.stack[1] = "lbrace"
    BY DEF Sound
  <2> QED
    BY <1>2, <2>1
<1>5. Level(st) = 1 => In(st) = "lbrace"
  BY <1>3, <1>4
<1>6. Level(st) > 0 => In(st) \in Opening
  <2>1. Level(st) > 0 => Level(st) \in 1..Level(st)
    BY <1>2
  <2> QED
    BY <1>2, <1>3, <2>1
<1> QED
  BY <1>1, <1>2, <1>3, <1>4, <1>6, <1>5

LEMMA SoundSays ==
    ASSUME NEW st, Sound(st)
    PROVE  /\ Level(st) = 0 => st.prev \in {"start", "value", "bad"}
           /\ st.prev = "start" => Level(st) = 0
           /\ Level(st) < 2 => st.entry = <<>>
           /\ Level(st) = 2 /\ (st.prev = "open" \/ (In(st) = "lbrack" /\ st.prev = "comma")) =>
                 st.entry = <<>>
           /\ Level(st) > 2 => st.entry # <<>>
           /\ Level(st) = 2 /\ st.prev \in {"key", "colon", "value"} => st.entry # <<>>
           /\ Level(st) > 1 => st.key \in DOMAIN st.entries
           /\ Level(st) = 1 /\ st.prev \in {"key", "colon", "value", "comma"} =>
                 st.key \in DOMAIN st.entries
<1>1. st.stack = <<>> <=> Level(st) = 0
  BY SoundIs
<1> QED
  BY <1>1 DEF Sound

LEMMA SoundAfterOpening ==
    ASSUME NEW st, NEW t \in Opening, t \in Tokens, Sound(st), ~Over(st), Fits(st, t)
    PROVE  Sound(ReadToken(st, t))
<1>1. /\ Due(st) /\ (st.stack = <<>> => t = "lbrace")
      /\ ReadToken(st, t) = [stack |-> Append(st.stack, t), prev |-> "open", key |-> st.key,
                             entry |-> IF Level(st) < 2 THEN <<>> ELSE Append(st.entry, t),
                             entries |-> st.entries]
  BY OpeningRead
<1>2. /\ st.stack \in Seq(Opening) /\ st.key \in Tokens /\ st.entry \in Seq(Tokens)
      /\ st.entries \in Table
  BY SoundIs
<1>3. Level(st) \in Nat /\ Level(st) = Len(st.stack) /\ (st.stack = <<>> <=> Level(st) = 0)
  BY SoundIs
<1>4. PICK d \in Nat : d = Level(st)
  BY <1>3
<1>5. /\ Append(st.stack, t) \in Seq(Opening) /\ Len(Append(st.stack, t)) = d + 1
      /\ Append(st.stack, t)[d + 1] = t
      /\ \A i \in 1..d : Append(st.stack, t)[i] = st.stack[i]
  BY <1>2, <1>3, <1>4, StackIs
<1>6. Append(st.stack, t)[1] = "lbrace"
  <2>1. CASE d = 0
    BY <1>1, <1>3, <1>4, <1>5, <2>1
  <2>2. CASE d # 0
    <3>1. 1 \in 1..d
      BY <2>2
    <3>2. st.stack[1] = "lbrace"
      BY <1>3, <1>4, <2>2 DEF Sound
    <3> QED
      BY <1>5, <3>1, <3>2
  <2> QED
    BY <2>1, <2>2
<1>7. d > 0 => st.key \in DOMAIN st.entries
  <2>1. d = 1 => st.prev = "colon"
    <3>1. d = 1 => In(st) = "lbrace"
      BY <1>4, SoundIs
    <3>2. st.prev = "start" => d = 0
      BY <1>4, SoundSays
    <3> QED
      BY <1>1, <3>1, <3>2 DEF Due
  <2>2. Level(st) > 1 => st.key \in DOMAIN st.entries
    BY SoundSays
  <2>3. Level(st) = 1 /\ st.prev = "colon" => st.key \in DOMAIN st.entries
    BY SoundSays
  <2> QED
    BY <1>4, <2>1, <2>2, <2>3
<1> DEFINE e == IF Level(st) < 2 THEN <<>> ELSE Append(st.entry, t)
<1>8. e \in Seq(Tokens) /\ (d < 2 => e = <<>>) /\ (d >= 2 => e # <<>>)
  <2>1. Append(st.entry, t) \in Seq(Tokens) /\ Append(st.entry, t) # <<>>
    BY <1>2
  <2> QED
    BY <1>4, <2>1
<1> HIDE DEF e
<1>9. "open" \in Previous
  BY DEF Previous
<1>10. /\ d + 1 > 0 /\ d + 1 # 0 /\ (d + 1 < 2 => d < 2) /\ (d + 1 = 2 => d < 2)
       /\ (d + 1 > 2 => d >= 2) /\ (d + 1 > 1 => d > 0)
  OBVIOUS
<1>11. Sound([stack |-> Append(st.stack, t), prev |-> "open", key |-> st.key, entry |-> e,
              entries |-> st.entries])
  BY <1>2, <1>5, <1>6, <1>7, <1>8, <1>9, <1>10, SoundOf
<1> QED
  BY <1>1, <1>11 DEF e

\* Entries with one more under a key that there is.
LEMMA MoreEntries ==
    ASSUME NEW f \in Table, NEW k \in DOMAIN f, NEW e \in Seq(Tokens)
    PROVE  /\ Longer(f, k, e) \in Table
           /\ DOMAIN Longer(f, k, e) = DOMAIN f
           /\ Longer(f, k, e)[k] = Append(f[k], e)
           /\ \A j \in DOMAIN f : j # k => Longer(f, k, e)[j] = f[j]
<1>1. DOMAIN f \subseteq Tokens /\ f \in [DOMAIN f -> Seq(Seq(Tokens))]
  BY TableIs
<1>2. f[k] \in Seq(Seq(Tokens))
  BY <1>1
<1>3. Append(f[k], e) \in Seq(Seq(Tokens))
  BY <1>2
<1>4. Longer(f, k, e) \in [DOMAIN f -> Seq(Seq(Tokens))]
  BY <1>1, <1>3 DEF Longer
<1> QED
  BY <1>1, <1>4, TableOf DEF Longer

LEMMA SoundAfterClosing ==
    ASSUME NEW st, NEW t \in Closing, t \in Tokens, Sound(st), ~Over(st), Fits(st, t)
    PROVE  Sound(ReadToken(st, t))
<1>1. /\ st.stack # <<>>
      /\ ReadToken(st, t) =
            [stack |-> SubSeq(st.stack, 1, Level(st) - 1), prev |-> "value", key |-> st.key,
             entry |-> IF Level(st) <= 2 THEN <<>> ELSE Append(st.entry, t),
             entries |-> IF Level(st) = 2 /\ st.entry # <<>>
                         THEN Longer(st.entries, st.key, st.entry) ELSE st.entries]
  BY ClosingRead
<1>2. /\ st.stack \in Seq(Opening) /\ st.key \in Tokens /\ st.entry \in Seq(Tokens)
      /\ st.entries \in Table
  BY SoundIs
<1>3. Level(st) \in Nat /\ Level(st) = Len(st.stack) /\ (st.stack = <<>> <=> Level(st) = 0)
  BY SoundIs
<1>4. PICK d \in Nat : d = Level(st) /\ d > 0
  BY <1>1, <1>3
<1>5. d > 1 => st.key \in DOMAIN st.entries
  BY <1>4, SoundSays
<1> DEFINE f == IF Level(st) = 2 /\ st.entry # <<>>
                THEN Longer(st.entries, st.key, st.entry) ELSE st.entries
           s == SubSeq(st.stack, 1, Level(st) - 1)
<1>6. f \in Table /\ DOMAIN f = DOMAIN st.entries
  <2>1. CASE Level(st) = 2 /\ st.entry # <<>>
    <3>1. st.key \in DOMAIN st.entries
      BY <1>4, <1>5, <2>1
    <3> QED
      BY <1>2, <2>1, <3>1, MoreEntries
  <2>2. CASE ~(Level(st) = 2 /\ st.entry # <<>>)
    BY <1>2, <2>2
  <2> QED
    BY <2>1, <2>2
<1>7. s \in Seq(Opening) /\ Len(s) = d - 1 /\ \A i \in 1..(d - 1) : s[i] = st.stack[i]
  <2>1. Len(st.stack) > 0
    BY <1>3, <1>4
  <2> QED
    BY <1>2, <1>3, <1>4, <2>1, StackIs
<1> DEFINE e == IF Level(st) <= 2 THEN <<>> ELSE Append(st.entry, t)
<1>8. e \in Seq(Tokens) /\ (d <= 2 => e = <<>>) /\ (d > 2 => e # <<>>)
  <2>1. Append(st.entry, t) \in Seq(Tokens) /\ Append(st.entry, t) # <<>>
    BY <1>2
  <2> QED
    BY <1>4, <2>1
<1>9. "value" \in Previous
  BY DEF Previous
<1>10. d - 1 > 0 => s[1] = "lbrace"
  <2>1. d - 1 > 0 => 1 \in 1..(d - 1)
    OBVIOUS
  <2>2. st.stack[1] = "lbrace"
    BY <1>1 DEF Sound
  <2> QED
    BY <1>7, <2>1, <2>2
<1>11. /\ (d - 1 < 2 => d <= 2) /\ (d - 1 = 2 => d > 2) /\ (d - 1 > 2 => d > 2)
       /\ (d - 1 > 1 => d > 1) /\ (d - 1 = 1 => d > 1)
  OBVIOUS
<1> HIDE DEF e, f, s
<1>12. Sound([stack |-> s, prev |-> "value", key |-> st.key, entry |-> e, entries |-> f])
  BY <1>2, <1>5, <1>6, <1>7, <1>8, <1>9, <1>10, <1>11, SoundOf
<1> QED
  BY <1>1, <1>12 DEF e, f, s

LEMMA SoundAfterComma ==
    ASSUME NEW st, "comma" \in Tokens, Sound(st), ~Over(st), Fits(st, "comma")
    PROVE  Sound(ReadToken(st, "comma"))
<1> DEFINE closes == Level(st) = 2 /\ In(st) = "lbrack"
           e == IF Level(st) < 2 \/ closes THEN <<>> ELSE Append(st.entry, "comma")
           f == IF closes /\ st.entry # <<>>
                THEN Longer(st.entries, st.key, st.entry) ELSE st.entries
<1>1. /\ st.prev = "value" /\ st.stack # <<>>
      /\ ReadToken(st, "comma") =
            [stack |-> st.stack, prev |-> "comma", key |-> st.key, entry |-> e, entries |-> f]
  BY CommaRead
<1>2. /\ st.stack \in Seq(Opening) /\ st.key \in Tokens /\ st.entry \in Seq(Tokens)
      /\ st.entries \in Table
  BY SoundIs
<1>3. Level(st) \in Nat /\ Level(st) # 0
  BY <1>1, SoundIs
<1>4. PICK d \in Nat : d = Level(st)
  BY SoundIs
<1>5. d = Len(st.stack)
  BY <1>4, SoundIs
<1>6. In(st) = IF Level(st) = 0 THEN "top" ELSE st.stack[Level(st)]
  BY SoundIs
<1>7. st.stack[1] = "lbrace"
  BY <1>1 DEF Sound
<1>8. st.key \in DOMAIN st.entries
  <2>1. Level(st) > 1 => st.key \in DOMAIN st.entries
    BY SoundSays
  <2>2. Level(st) = 1 /\ st.prev = "value" => st.key \in DOMAIN st.entries
    BY SoundSays
  <2>3. Level(st) = 1 \/ Level(st) > 1
    BY <1>3
  <2>4. st.prev = "value"
    BY <1>1
  <2> QED
    BY <2>1, <2>2, <2>3, <2>4
<1>9. f \in Table /\ DOMAIN f = DOMAIN st.entries
  <2>1. CASE closes /\ st.entry # <<>>
    BY <1>2, <1>8, <2>1, MoreEntries
  <2>2. CASE ~(closes /\ st.entry # <<>>)
    BY <1>2, <2>2
  <2> QED
    BY <2>1, <2>2
<1>10. e \in Seq(Tokens) /\ (d < 2 => e = <<>>) /\ (closes => e = <<>>)
      /\ (d > 2 \/ (d = 2 /\ ~closes) => e # <<>>)
  <2>1. Append(st.entry, "comma") \in Seq(Tokens) /\ Append(st.entry, "comma") # <<>>
    BY <1>2
  <2> HIDE DEF closes
  <2>2. CASE Level(st) < 2 \/ closes
    <3>1. e = <<>>
      BY <2>2
    <3>2. ~(d > 2 \/ (d = 2 /\ ~closes))
      BY <1>4, <2>2 DEF closes
    <3> HIDE DEF e
    <3> QED
      BY <3>1, <3>2
  <2>3. CASE ~(Level(st) < 2 \/ closes)
    <3>1. e = Append(st.entry, "comma")
      BY <2>3
    <3>2. ~(d < 2) /\ ~closes
      BY <1>4, <2>3
    <3> HIDE DEF e
    <3> QED
      BY <2>1, <3>1, <3>2
  <2> QED
    BY <2>2, <2>3
<1>11. "comma" \in Previous
  BY DEF Previous
<1> HIDE DEF e, f
<1>12. /\ d # 0 /\ (d = 2 /\ In(st) = "lbrack" <=> closes)
       /\ In(st) = IF d = 0 THEN "top" ELSE st.stack[d]
  BY <1>3, <1>4, <1>6
<1> HIDE DEF closes
<1>13. Sound([stack |-> st.stack, prev |-> "comma", key |-> st.key, entry |-> e, entries |-> f])
  BY <1>2, <1>4, <1>5, <1>7, <1>8, <1>9, <1>10, <1>11, <1>12, SoundOf
<1> QED
  BY <1>1, <1>13

LEMMA SoundAfterColon ==
    ASSUME NEW st, "colon" \in Tokens, Sound(st), ~Over(st), Fits(st, "colon")
    PROVE  Sound(ReadToken(st, "colon"))
<1> DEFINE e == IF Level(st) < 2 THEN <<>> ELSE Append(st.entry, "colon")
<1>1. /\ st.prev = "key" /\ st.stack # <<>>
      /\ ReadToken(st, "colon") =
            [stack |-> st.stack, prev |-> "colon", key |-> st.key, entry |-> e,
             entries |-> st.entries]
  BY ColonRead
<1>2. /\ st.stack \in Seq(Opening) /\ st.key \in Tokens /\ st.entry \in Seq(Tokens)
      /\ st.entries \in Table
  BY SoundIs
<1>3. Level(st) \in Nat /\ Level(st) # 0
  BY <1>1, SoundIs
<1>4. PICK d \in Nat : d = Level(st)
  BY SoundIs
<1>5. d = Len(st.stack)
  BY <1>4, SoundIs
<1>6. In(st) = IF Level(st) = 0 THEN "top" ELSE st.stack[Level(st)]
  BY SoundIs
<1>7. st.stack[1] = "lbrace"
  BY <1>1 DEF Sound
<1>8. st.key \in DOMAIN st.entries
  <2>1. Level(st) > 1 => st.key \in DOMAIN st.entries
    BY SoundSays
  <2>2. Level(st) = 1 /\ st.prev = "key" => st.key \in DOMAIN st.entries
    BY SoundSays
  <2>3. Level(st) = 1 \/ Level(st) > 1
    BY <1>3
  <2>4. st.prev = "key"
    BY <1>1
  <2> QED
    BY <2>1, <2>2, <2>3, <2>4
<1>9. e \in Seq(Tokens) /\ (Level(st) < 2 => e = <<>>) /\ (~(Level(st) < 2) => e # <<>>)
  <2>1. Append(st.entry, "colon") \in Seq(Tokens) /\ Append(st.entry, "colon") # <<>>
    BY <1>2
  <2> QED
    BY <2>1
<1>10. "colon" \in Previous
  BY DEF Previous
<1> HIDE DEF e
<1>11. Sound([stack |-> st.stack, prev |-> "colon", key |-> st.key, entry |-> e,
             entries |-> st.entries])
  BY <1>2, <1>3, <1>4, <1>5, <1>6, <1>7, <1>8, <1>9, <1>10, SoundOf
<1> QED
  BY <1>1, <1>11

\* What a string does to the entries.
LEMMA NewEntries ==
    ASSUME NEW f \in Table, NEW t \in Tokens
    PROVE  /\ [k \in DOMAIN f \cup {t} |-> IF k = t THEN <<>> ELSE f[k]] \in Table
           /\ \A k \in DOMAIN f : [f EXCEPT ![k] = <<<<t>>>>] \in Table
<1>1. DOMAIN f \subseteq Tokens /\ f \in [DOMAIN f -> Seq(Seq(Tokens))]
  BY TableIs
<1>2. [k \in DOMAIN f \cup {t} |-> IF k = t THEN <<>> ELSE f[k]]
         \in [DOMAIN f \cup {t} -> Seq(Seq(Tokens))]
  BY <1>1
<1>3. DOMAIN f \cup {t} \in SUBSET Tokens
  BY <1>1
<1>4. ASSUME NEW k \in DOMAIN f PROVE [f EXCEPT ![k] = <<<<t>>>>] \in Table
  <2>1. <<t>> \in Seq(Tokens)
    OBVIOUS
  <2>2. <<<<t>>>> \in Seq(Seq(Tokens))
    BY <2>1
  <2>3. [f EXCEPT ![k] = <<<<t>>>>] \in [DOMAIN f -> Seq(Seq(Tokens))]
    BY <1>1, <2>2
  <2> QED
    BY <1>1, <2>3, TableOf
<1> QED
  BY <1>2, <1>3, <1>4, TableOf

LEMMA SoundAfterString ==
    ASSUME NEW st, NEW t \in Tokens, IsString(t), Sound(st), ~Over(st), Fits(st, t)
    PROVE  Sound(ReadToken(st, t))
<1> DEFINE e == IF Level(st) < 2 THEN <<>> ELSE Append(st.entry, t)
           f == IF NewKey(st, t)
                THEN [k \in DOMAIN st.entries \cup {t} |-> IF k = t THEN <<>> ELSE st.entries[k]]
                ELSE IF Level(st) = 1
                THEN [st.entries EXCEPT ![st.key] = <<<<t>>>>] ELSE st.entries
           p == IF KeyDue(st) THEN "key" ELSE "value"
           k == IF NewKey(st, t) THEN t ELSE st.key
<1>1. /\ st.stack # <<>> /\ (KeyDue(st) \/ Due(st))
      /\ ReadToken(st, t) = [stack |-> st.stack, prev |-> p, key |-> k, entry |-> e, entries |-> f]
  BY StringRead
<1>2. /\ st.stack \in Seq(Opening) /\ st.key \in Tokens /\ st.entry \in Seq(Tokens)
      /\ st.entries \in Table
  BY SoundIs
<1>3. Level(st) \in Nat /\ Level(st) # 0
  BY <1>1, SoundIs
<1>4. PICK d \in Nat : d = Level(st)
  BY SoundIs
<1>5. d = Len(st.stack)
  BY <1>4, SoundIs
<1>6. In(st) = IF Level(st) = 0 THEN "top" ELSE st.stack[Level(st)]
  BY SoundIs
<1>7. st.stack[1] = "lbrace"
  BY <1>1 DEF Sound
<1>8. Level(st) = 1 /\ ~NewKey(st, t) => st.prev = "colon"
  <2>1. Level(st) = 1 => In(st) = "lbrace"
    BY SoundIs
  <2>2. st.prev = "start" => Level(st) = 0
    BY SoundSays
  <2> QED
    BY <1>1, <2>1, <2>2 DEF NewKey, Due
<1>9. ~NewKey(st, t) => st.key \in DOMAIN st.entries
  <2>1. Level(st) > 1 => st.key \in DOMAIN st.entries
    BY SoundSays
  <2>2. Level(st) = 1 /\ st.prev = "colon" => st.key \in DOMAIN st.entries
    BY SoundSays
  <2>3. Level(st) = 1 \/ Level(st) > 1
    BY <1>3
  <2> QED
    BY <1>8, <2>1, <2>2, <2>3
<1>10. f \in Table /\ k \in DOMAIN f /\ k \in Tokens
  <2>1. CASE NewKey(st, t)
    BY <1>2, <2>1, NewEntries
  <2>2. CASE ~NewKey(st, t)
    <3>1. DOMAIN [st.entries EXCEPT ![st.key] = <<<<t>>>>] = DOMAIN st.entries
      OBVIOUS
    <3> QED
      BY <1>2, <1>9, <2>2, <3>1, NewEntries
  <2> QED
    BY <2>1, <2>2
<1>11. e \in Seq(Tokens) /\ (Level(st) < 2 => e = <<>>) /\ (~(Level(st) < 2) => e # <<>>)
  <2>1. Append(st.entry, t) \in Seq(Tokens) /\ Append(st.entry, t) # <<>>
    BY <1>2
  <2> QED
    BY <2>1
<1>12. p \in Previous /\ p \in {"key", "value"}
  BY DEF Previous
<1> HIDE DEF e, f, p, k
<1>13. Sound([stack |-> st.stack, prev |-> p, key |-> k, entry |-> e, entries |-> f])
  BY <1>2, <1>3, <1>4, <1>5, <1>6, <1>7, <1>10, <1>11, <1>12, SoundOf
<1> QED
  BY <1>1, <1>13

\* Whatever the token, the state behind it is sound.
LEMMA SoundStep ==
    ASSUME NEW st, Sound(st), NEW t \in Tokens
    PROVE  Sound(ReadToken(st, t))
<1>1. CASE t \in Space \/ Over(st)
  BY <1>1 DEF ReadToken
<1>2. CASE ~(t \in Space \/ Over(st)) /\ ~Fits(st, t)
  <2>1. ReadToken(st, t) = [st EXCEPT !.prev = "bad"]
    BY <1>2 DEF ReadToken
  <2> DEFINE next == [st EXCEPT !.prev = "bad"]
  <2>2. /\ next.stack = st.stack /\ next.prev = "bad" /\ next.key = st.key
        /\ next.entry = st.entry /\ next.entries = st.entries
        /\ next \in [stack : Seq(Opening), prev : Previous, key : Tokens, entry : Seq(Tokens),
                     entries : Table]
    BY DEF Previous, Sound
  <2> HIDE DEF next
  <2>3. Sound(next)
    BY <2>2 DEF Sound, Level, In
  <2> QED
    BY <2>1, <2>3 DEF next
<1>3. CASE ~Over(st) /\ Fits(st, t)
  <2>1. t \in Opening \/ t \in Closing \/ t = "comma" \/ t = "colon" \/ IsString(t)
    BY <1>3 DEF Fits, Closing
  <2> QED
    BY <1>3, <2>1, SoundAfterOpening, SoundAfterClosing, SoundAfterComma, SoundAfterColon,
       SoundAfterString
<1> QED
  BY <1>1, <1>2, <1>3

LEMMA StartSound == Sound(Start)
<1>1. [k \in {} |-> <<>>] \in Table
  <2>1. [k \in {} |-> <<>>] \in [{} -> Seq(Seq(Tokens))]
    OBVIOUS
  <2>2. {} \in SUBSET Tokens
    OBVIOUS
  <2> QED
    BY <2>1, <2>2, TableOf
<1>2. <<>> \in Seq(Opening) /\ <<>> \in Seq(Tokens) /\ Len(<<>>) = 0
  OBVIOUS
<1>3. "start" \in Previous /\ "" \in Tokens
  BY DEF Previous, Tokens
<1> DEFINE f == [k \in {} |-> <<>>]
<1> HIDE DEF f
<1>4. f \in Table
  BY <1>1 DEF f
<1>5. \A d \in Nat : d = Len(<<>>) => ~(d > 0) /\ d < 2 /\ d = 0
  BY <1>2
<1>6. Sound([stack |-> <<>>, prev |-> "start", key |-> "", entry |-> <<>>, entries |-> f])
  <2> DEFINE st == [stack |-> <<>>, prev |-> "start", key |-> "", entry |-> <<>>, entries |-> f]
  <2>1. /\ st.stack = <<>> /\ st.prev = "start" /\ st.entry = <<>>
        /\ st \in [stack : Seq(Opening), prev : Previous, key : Tokens, entry : Seq(Tokens),
                   entries : Table]
    BY <1>2, <1>3, <1>4
  <2> HIDE DEF st
  <2>2. Level(st) = 0
    BY <2>1 DEF Level
  <2>3. Sound(st)
    BY <2>1, <2>2 DEF Sound
  <2> QED
    BY <2>3 DEF st
<1> QED
  BY <1>6 DEF Start, f

\* So every state of a run is sound.
LEMMA SoundSteps ==
    ASSUME NEW text \in Seq(Tokens), NEW st, Sound(st)
    PROVE  \A n \in 0..Len(text) : Sound(Steps(st, text)[n])
<1> DEFINE T == {n \in 0..Len(text) : Sound(Steps(st, text)[n])}
<1>1. Len(text) \in Nat /\ \A n \in 1..Len(text) : text[n] \in Tokens
  OBVIOUS
<1>2. 0 \in T
  BY <1>1, StepsAre
<1>3. ASSUME NEW n \in 0..(Len(text) - 1), n \in T PROVE n + 1 \in T
  <2>1. n + 1 \in 1..Len(text) /\ (n + 1) - 1 = n /\ n + 1 \in 0..Len(text)
    BY <1>1
  <2>2. Steps(st, text)[n + 1] = ReadToken(Steps(st, text)[n], text[n + 1])
    BY <2>1, StepsAre
  <2>3. Sound(Steps(st, text)[n])
    BY <1>3
  <2>4. Sound(Steps(st, text)[n + 1])
    BY <1>1, <2>1, <2>2, <2>3, SoundStep
  <2> QED
    BY <2>1, <2>4
<1>4. 0 \in 0..Len(text) /\ Len(text) \in 0..Len(text)
  BY <1>1
<1> HIDE DEF T
<1>5. \A n \in 0..Len(text) : n \in T
  BY <1>1, <1>2, <1>3, <1>4, AlongSteps
<1> QED
  BY <1>5 DEF T

\* A decoder that stopped reads no further.
LEMMA OverStays ==
    ASSUME NEW text \in Seq(Tokens), NEW st, NEW i \in 0..Len(text), Over(Steps(st, text)[i])
    PROVE  \A n \in i..Len(text) : Steps(st, text)[n] = Steps(st, text)[i]
<1> DEFINE T == {n \in i..Len(text) : Steps(st, text)[n] = Steps(st, text)[i]}
<1>1. Len(text) \in Nat
  OBVIOUS
<1>2. i \in T /\ Len(text) \in i..Len(text)
  BY <1>1
<1>3. ASSUME NEW n \in i..(Len(text) - 1), n \in T PROVE n + 1 \in T
  <2>1. n + 1 \in 1..Len(text) /\ (n + 1) - 1 = n /\ n + 1 \in i..Len(text)
    BY <1>1
  <2>2. Steps(st, text)[n + 1] = ReadToken(Steps(st, text)[n], text[n + 1])
    BY <2>1, StepsAre
  <2>3. Steps(st, text)[n] = Steps(st, text)[i]
    BY <1>3
  <2>4. \A t : ReadToken(Steps(st, text)[i], t) = Steps(st, text)[i]
    BY DEF ReadToken
  <2> QED
    BY <2>1, <2>2, <2>3, <2>4
<1> HIDE DEF T
<1>4. \A n \in i..Len(text) : n \in T
  BY <1>1, <1>2, <1>3, AlongSteps
<1> QED
  BY <1>4 DEF T

\* What a token that does not fit makes of the state, and one that fits does not.
LEMMA BadRead ==
    ASSUME NEW st, NEW t, Sound(st), t \notin Space, ~Over(st)
    PROVE  ReadToken(st, t).prev = "bad" <=> ~Fits(st, t)
<1>1. CASE Fits(st, t)
  BY <1>1 DEF ReadToken
<1>2. CASE ~Fits(st, t)
  BY <1>2 DEF ReadToken
<1> QED
  BY <1>1, <1>2

-----------------------------------------------------------------------------
(* Plain texts *)

\* The decoder reads every token of a plain text: it takes none for an error,
\* and there is none behind the object.
LEMMA PlainReads ==
    ASSUME NEW text \in Seq(Tokens), Plain(text),
           NEW R, R = Steps(Start, text)
    PROVE  /\ \A n \in 0..Len(text) : Sound(R[n]) /\ R[n].prev # "bad"
           /\ R[0] = Start
           /\ \A n \in 1..Len(text) :
                 /\ R[n] = ReadToken(R[n - 1], text[n])
                 /\ text[n] \in Tokens
                 /\ text[n] \notin Space => ~Over(R[n - 1]) /\ Fits(R[n - 1], text[n])
           /\ R[Len(text)].stack = <<>> /\ R[Len(text)].prev = "value"
<1>1. Len(text) \in Nat /\ DOMAIN text = 1..Len(text) /\ \A n \in 1..Len(text) : text[n] \in Tokens
  OBVIOUS
<1>2. \A n \in 0..Len(text) : Sound(R[n])
  BY StartSound, SoundSteps
<1>3. R[0] = Start /\ \A n \in 1..Len(text) : R[n] = ReadToken(R[n - 1], text[n])
  BY StepsAre
<1>4. R[Len(text)].stack = <<>> /\ R[Len(text)].prev = "value"
  BY DEF Plain, Parses, Reading
<1>5. ASSUME NEW n \in 0..Len(text) PROVE R[n].prev # "bad"
  <2> SUFFICES ASSUME R[n].prev = "bad" PROVE FALSE
    OBVIOUS
  <2>1. Over(R[n])
    BY DEF Over
  <2>2. R[Len(text)] = R[n]
    <3>1. Len(text) \in n..Len(text)
      BY <1>1
    <3> QED
      BY <2>1, <3>1, OverStays
  <2> QED
    BY <1>4, <2>2
<1>6. ASSUME NEW n \in 1..Len(text), text[n] \notin Space PROVE ~Over(R[n - 1])
  <2> SUFFICES ASSUME Over(R[n - 1]) PROVE FALSE
    OBVIOUS
  <2> DEFINE k == Before(text, n)
  <2>1. /\ k \in 0..(n - 1) /\ (k >= 1 => k \in Solid(text))
        /\ \A j \in (k + 1)..(n - 1) : text[j] \in Space
    <3>1. n \in 1..(Len(text) + 1)
      BY <1>1
    <3> QED
      BY <3>1, BeforeIs
  <2> HIDE DEF k
  <2>2. R[n - 1] = R[k]
    <3>1. k \in 0..Len(text) /\ n - 1 \in k..Len(text) /\ n - 1 \in k..(n - 1)
      BY <1>1, <2>1
    <3>2. \A j \in k..(n - 1) : R[j] = R[k]
      BY <2>1, <3>1, OverSpace
    <3> QED
      BY <3>1, <3>2
  <2>3. k # 0
    <3>1. ~Over(Start)
      BY DEF Over, Start
    <3> QED
      BY <1>3, <2>2, <3>1
  <2>4. k \in Solid(text) /\ n \in Solid(text)
    BY <1>1, <1>6, <2>1, <2>3 DEF Solid
  <2>5. \A i \in Solid(text) : Over(R[i]) => \A j \in Solid(text) : j <= i
    BY DEF Plain
  <2>6. n <= k
    BY <2>2, <2>4, <2>5
  <2> QED
    BY <2>1, <2>6
<1>7. ASSUME NEW n \in 1..Len(text), text[n] \notin Space PROVE Fits(R[n - 1], text[n])
  <2>1. n - 1 \in 0..Len(text) /\ n \in 0..Len(text)
    BY <1>1
  <2>2. R[n].prev # "bad" /\ Sound(R[n - 1])
    BY <1>2, <1>5, <2>1
  <2>3. ~Over(R[n - 1])
    BY <1>6, <1>7
  <2> QED
    BY <1>3, <1>7, <2>2, <2>3, BadRead
<1> QED
  BY <1>1, <1>2, <1>3, <1>4, <1>5, <1>6, <1>7

\* How a token that is read moves the stack.
Moves(st, next, t) ==
    /\ t \in Opening => Level(next) = Level(st) + 1 /\ next.stack[Level(next)] = t
    /\ t \in Closing => Level(next) = Level(st) - 1
    /\ t \notin Opening \cup Closing => next.stack = st.stack
    /\ \A i \in 1..Level(next) : i <= Level(st) => next.stack[i] = st.stack[i]

\* The decoder opens and closes one bracket at a time.
LEMMA StackMoves ==
    ASSUME NEW st, NEW t \in Tokens, Sound(st), t \in Space \/ (~Over(st) /\ Fits(st, t)),
           NEW next, next = ReadToken(st, t)
    PROVE  Moves(st, next, t)
<1>1. st.stack \in Seq(Opening)
  BY SoundIs
<1>2. Opening \cap Closing = {} /\ Space \cap (Opening \cup Closing) = {}
  BY DEF Opening, Closing, Space
<1>3. CASE t \in Opening /\ ~(t \in Space)
  <2>1. next.stack = Append(st.stack, t)
    BY <1>2, <1>3, OpeningRead
  <2>2. /\ Len(Append(st.stack, t)) = Len(st.stack) + 1
        /\ Append(st.stack, t)[Len(st.stack) + 1] = t
        /\ \A i \in 1..Len(st.stack) : Append(st.stack, t)[i] = st.stack[i]
        /\ Len(st.stack) \in Nat
    BY <1>1, <1>3, StackIs
  <2>3. /\ Level(next) = Level(st) + 1 /\ next.stack[Level(st) + 1] = t
        /\ \A i \in 1..Level(st) : next.stack[i] = st.stack[i]
        /\ Level(st) \in Nat
    BY <2>1, <2>2 DEF Level
  <2>4. next.stack[Level(next)] = t
    BY <2>3
  <2>5. \A i \in 1..Level(next) : i <= Level(st) => next.stack[i] = st.stack[i]
    BY <2>3
  <2> QED
    BY <1>2, <1>3, <2>3, <2>4, <2>5 DEF Moves
<1>4. CASE t \in Closing /\ ~(t \in Space)
  <2>1. next.stack = SubSeq(st.stack, 1, Len(st.stack) - 1) /\ st.stack # <<>>
    BY <1>2, <1>4, ClosingRead DEF Level
  <2>2. Len(st.stack) \in Nat /\ Len(st.stack) > 0
    BY <1>1, <2>1, StackIs
  <2>3. /\ Len(next.stack) = Len(st.stack) - 1
        /\ \A i \in 1..(Len(st.stack) - 1) : next.stack[i] = st.stack[i]
    BY <1>1, <2>1, <2>2, StackIs
  <2>4. /\ Level(next) = Level(st) - 1
        /\ \A i \in 1..(Level(st) - 1) : next.stack[i] = st.stack[i]
    BY <2>3 DEF Level
  <2>5. \A i \in 1..Level(next) : i <= Level(st) => next.stack[i] = st.stack[i]
    BY <2>4
  <2> QED
    BY <1>2, <1>4, <2>4, <2>5 DEF Moves
<1>5. CASE t \notin Opening \cup Closing
  <2>1. next.stack = st.stack
    BY <1>5 DEF ReadToken
  <2>2. Level(next) = Level(st)
    BY <2>1 DEF Level
  <2>3. \A i \in 1..Level(next) : i <= Level(st) => next.stack[i] = st.stack[i]
    BY <2>1
  <2> QED
    BY <1>5, <2>1, <2>3 DEF Moves
<1> QED
  BY <1>2, <1>3, <1>4, <1>5

\* What a token adds to the depth.
Deeper(t) == IF t \in Opening THEN 1 ELSE IF t \in Closing THEN 0 - 1 ELSE 0

Count(text, i, k, S) == Cardinality({j \in i..k : text[j] \in S})

\* One token more among those of a kind.
LEMMA CountOne ==
    ASSUME NEW text, NEW i \in Nat, NEW k \in Nat, i <= k, NEW S
    PROVE  /\ Count(text, i, k, S) \in Nat /\ Count(text, i, k - 1, S) \in Nat
           /\ Count(text, i, k, S) =
                 IF text[k] \in S THEN Count(text, i, k - 1, S) + 1 ELSE Count(text, i, k - 1, S)
<1> DEFINE A == {j \in i..k : text[j] \in S}
           B == {j \in i..(k - 1) : text[j] \in S}
<1>1. IsFiniteSet(A) /\ IsFiniteSet(B)
  <2>1. IsFiniteSet(i..k) /\ IsFiniteSet(i..(k - 1))
    BY FS_Interval
  <2>2. A \in SUBSET (i..k) /\ B \in SUBSET (i..(k - 1))
    OBVIOUS
  <2> HIDE DEF A, B
  <2> QED
    BY <2>1, <2>2, FS_Subset
<1>2. A = (IF text[k] \in S THEN B \cup {k} ELSE B) /\ k \notin B
  OBVIOUS
<1> HIDE DEF A, B
<1>3. Cardinality(A) \in Nat /\ Cardinality(B) \in Nat
  BY <1>1, FS_CardinalityType
<1>4. Cardinality(A) = IF text[k] \in S THEN Cardinality(B) + 1 ELSE Cardinality(B)
  BY <1>1, <1>2, FS_AddElement
<1> QED
  BY <1>3, <1>4 DEF A, B, Count

LEMMA DepthGrows ==
    ASSUME NEW text, NEW open \in Nat \ {0}, NEW k \in Nat, open <= k
    PROVE  /\ Depth(text, open, open - 1) = 0
           /\ Depth(text, open, k - 1) \in Int
           /\ Depth(text, open, k) = Depth(text, open, k - 1) + Deeper(text[k])
<1>1. Depth(text, open, open - 1) = 0
  <2>1. {j \in open..(open - 1) : text[j] \in Opening} = {}
        /\ {j \in open..(open - 1) : text[j] \in Closing} = {}
    OBVIOUS
  <2> QED
    BY <2>1, FS_EmptySet DEF Depth
<1> DEFINE A(n) == Count(text, open, n, Opening)
           B(n) == Count(text, open, n, Closing)
<1>2. /\ A(k) \in Nat /\ A(k - 1) \in Nat
      /\ A(k) = IF text[k] \in Opening THEN A(k - 1) + 1 ELSE A(k - 1)
  BY CountOne
<1>3. /\ B(k) \in Nat /\ B(k - 1) \in Nat
      /\ B(k) = IF text[k] \in Closing THEN B(k - 1) + 1 ELSE B(k - 1)
  BY CountOne
<1>4. ~(text[k] \in Opening /\ text[k] \in Closing)
  BY DEF Opening, Closing
<1>5. Depth(text, open, k) = A(k) - B(k) /\ Depth(text, open, k - 1) = A(k - 1) - B(k - 1)
  BY DEF Depth, Count
<1> HIDE DEF A, B
<1> QED
  BY <1>1, <1>2, <1>3, <1>4, <1>5 DEF Deeper

\* The depth in an array is how many more brackets are open for the decoder.
LEMMA LevelIsDepth ==
    ASSUME NEW text \in Seq(Tokens), Plain(text), NEW R, R = Steps(Start, text),
           NEW open \in 1..Len(text)
    PROVE  \A k \in (open - 1)..Len(text) :
              /\ Level(R[k]) \in Nat /\ Depth(text, open, k) \in Int
              /\ Level(R[k]) = Level(R[open - 1]) + Depth(text, open, k)
<1>1. Len(text) \in Nat
  OBVIOUS
<1>2. \A k \in 0..Len(text) : Sound(R[k]) /\ Level(R[k]) \in Nat
  BY PlainReads, SoundIs
<1> DEFINE T == {k \in (open - 1)..Len(text) :
                   /\ Depth(text, open, k) \in Int
                   /\ Level(R[k]) = Level(R[open - 1]) + Depth(text, open, k)}
<1>3. open - 1 \in T
  <2>1. open - 1 \in 0..Len(text) /\ open - 1 \in (open - 1)..Len(text)
    BY <1>1
  <2>2. open \in Nat \ {0} /\ open <= open
    BY <1>1
  <2>3. Depth(text, open, open - 1) = 0
    BY <2>2, DepthGrows
  <2> QED
    BY <1>2, <2>1, <2>3
<1>4. ASSUME NEW k \in (open - 1)..(Len(text) - 1), k \in T PROVE k + 1 \in T
  <2>1. /\ k + 1 \in 1..Len(text) /\ (k + 1) - 1 = k /\ k + 1 \in (open - 1)..Len(text)
        /\ k \in 0..Len(text) /\ k + 1 \in Nat /\ open \in Nat \ {0} /\ open <= k + 1
        /\ k + 1 \in 0..Len(text) /\ open - 1 \in 0..Len(text)
    BY <1>1
  <2>2. R[k + 1] = ReadToken(R[k], text[k + 1]) /\ text[k + 1] \in Tokens
        /\ (text[k + 1] \notin Space => ~Over(R[k]) /\ Fits(R[k], text[k + 1]))
    BY <2>1, PlainReads
  <2>3. Moves(R[k], R[k + 1], text[k + 1])
    BY <1>2, <2>1, <2>2, StackMoves
  <2>4. Level(R[k + 1]) = Level(R[k]) + Deeper(text[k + 1])
    <3>1. Level(R[k]) \in Nat
      BY <1>2, <2>1
    <3>2. text[k + 1] \notin Opening \cup Closing => Level(R[k + 1]) = Level(R[k])
      BY <2>3 DEF Moves, Level
    <3>3. text[k + 1] \in Opening => text[k + 1] \notin Closing
      BY DEF Opening, Closing
    <3> QED
      BY <2>3, <3>1, <3>2, <3>3 DEF Moves, Deeper
  <2>5. Depth(text, open, k + 1) = Depth(text, open, k) + Deeper(text[k + 1])
    BY <2>1, DepthGrows
  <2>6. Level(R[k]) = Level(R[open - 1]) + Depth(text, open, k) /\ Depth(text, open, k) \in Int
    BY <1>4
  <2>7. Level(R[open - 1]) \in Nat /\ Deeper(text[k + 1]) \in Int
    BY <1>2, <2>1 DEF Deeper
  <2> QED
    BY <2>1, <2>4, <2>5, <2>6, <2>7
<1>5. open - 1 \in 0..Len(text) /\ Len(text) \in (open - 1)..Len(text)
  BY <1>1
<1> HIDE DEF T
<1>6. \A k \in (open - 1)..Len(text) : k \in T
  BY <1>1, <1>3, <1>4, <1>5, AlongSteps
<1> QED
  <2>1. \A k \in (open - 1)..Len(text) : k \in 0..Len(text)
    BY <1>1
  <2> QED
    BY <1>2, <1>6, <2>1 DEF T

-----------------------------------------------------------------------------
(* In an array *)

\* Somewhere in the array under a key of the object.
InArray(st, key) ==
    /\ Level(st) >= 2 /\ st.stack[1] = "lbrace" /\ st.stack[2] = "lbrack"
    /\ st.key = key

LEMMA OneLeft ==
    ASSUME NEW s \in Seq(Opening), Len(s) = 2
    PROVE  SubSeq(s, 1, 1) = <<s[1]>>
<1> DEFINE a == SubSeq(s, 1, 1)
           b == <<s[1]>>
<1>1. s[1] \in Opening
  OBVIOUS
<1>2. a \in Seq(Opening) /\ Len(a) = 1 /\ a[1] = s[1]
  OBVIOUS
<1>3. b \in Seq(Opening) /\ Len(b) = 1 /\ b[1] = s[1]
  BY <1>1
<1> HIDE DEF a, b
<1>4. \A i \in 1..Len(a) : a[i] = b[i]
  BY <1>2, <1>3
<1>5. a = b
  BY <1>2, <1>3, <1>4, SeqEqual
<1> QED
  BY <1>5 DEF a, b

\* The tokens that end an element, and the one that ends the array.
EndsElement(st, t) == Level(st) = 2 /\ t \in {"comma", "rbrack"}
EndsArray(st, t)   == Level(st) = 2 /\ t = "rbrack"

LEMMA InArrayEntries ==
    ASSUME NEW st, NEW t \in Tokens, Sound(st), NEW key, InArray(st, key),
           t \in Space \/ (~Over(st) /\ Fits(st, t)), NEW next, next = ReadToken(st, t)
    PROVE  /\ next.key = key
           /\ next.entries = IF EndsElement(st, t) /\ st.entry # <<>>
                             THEN Longer(st.entries, key, st.entry)
                             ELSE st.entries
<1>1. st.key = key /\ Level(st) >= 2 /\ Level(st) \in Nat
  BY SoundIs DEF InArray
<1>2. Level(st) = 2 => In(st) = "lbrack"
  BY SoundIs DEF InArray
<1>3. Level(st) # 1
  BY <1>1
<1>4. CASE t \in Space
  <2>1. next = st /\ ~EndsElement(st, t)
    BY <1>4 DEF ReadToken, EndsElement, Space
  <2> QED
    BY <1>1, <2>1
<1>5. CASE t \notin Space /\ t \in Opening
  <2>1. next.key = st.key /\ next.entries = st.entries
    BY <1>5, OpeningRead
  <2>2. ~EndsElement(st, t)
    BY <1>5 DEF EndsElement, Opening
  <2> QED
    BY <1>1, <2>1, <2>2
<1>6. CASE t \notin Space /\ t \in Closing
  <2>1. /\ t = "rbrace" => In(st) = "lbrace"
        /\ next.key = st.key
        /\ next.entries = IF Level(st) = 2 /\ st.entry # <<>>
                          THEN Longer(st.entries, st.key, st.entry) ELSE st.entries
    <3> DEFINE e == IF Level(st) <= 2 THEN <<>> ELSE Append(st.entry, t)
               f == IF Level(st) = 2 /\ st.entry # <<>>
                    THEN Longer(st.entries, st.key, st.entry) ELSE st.entries
    <3>1. /\ t = "rbrace" => In(st) = "lbrace"
          /\ next = [stack |-> SubSeq(st.stack, 1, Level(st) - 1), prev |-> "value",
                     key |-> st.key, entry |-> e, entries |-> f]
      BY <1>6, ClosingRead
    <3> HIDE DEF e, f
    <3>2. (t = "rbrace" => In(st) = "lbrace") /\ next.key = st.key /\ next.entries = f
      BY <3>1
    <3> QED
      BY <3>2 DEF f
  <2>2. EndsElement(st, t) <=> Level(st) = 2
    BY <1>2, <1>6, <2>1 DEF EndsElement, Closing
  <2> QED
    BY <1>1, <2>1, <2>2
<1>7. CASE t \notin Space /\ t = "comma"
  <2>1. /\ next.key = st.key
        /\ next.entries = IF Level(st) = 2 /\ In(st) = "lbrack" /\ st.entry # <<>>
                          THEN Longer(st.entries, st.key, st.entry) ELSE st.entries
    BY <1>7, CommaRead
  <2>2. EndsElement(st, t) <=> Level(st) = 2
    BY <1>7 DEF EndsElement
  <2> QED
    BY <1>1, <1>2, <2>1, <2>2
<1>8. CASE t \notin Space /\ t = "colon"
  <2>1. next.key = st.key /\ next.entries = st.entries
    BY <1>8, ColonRead
  <2>2. ~EndsElement(st, t)
    BY <1>8 DEF EndsElement
  <2> QED
    BY <1>1, <2>1, <2>2
<1>9. CASE t \notin Space /\ IsString(t)
  <2>1. ~NewKey(st, t)
    BY <1>3 DEF NewKey
  <2>2. next.key = st.key /\ next.entries = st.entries
    <3> DEFINE f == IF NewKey(st, t)
                    THEN [k \in DOMAIN st.entries \cup {t} |->
                             IF k = t THEN <<>> ELSE st.entries[k]]
                    ELSE IF Level(st) = 1
                    THEN [st.entries EXCEPT ![st.key] = <<<<t>>>>] ELSE st.entries
    <3>1. next = [stack |-> st.stack, prev |-> IF KeyDue(st) THEN "key" ELSE "value",
                  key |-> IF NewKey(st, t) THEN t ELSE st.key,
                  entry |-> IF Level(st) < 2 THEN <<>> ELSE Append(st.entry, t), entries |-> f]
      BY <1>9, StringRead
    <3>2. f = st.entries
      BY <1>3, <2>1
    <3> HIDE DEF f
    <3> QED
      BY <2>1, <3>1, <3>2
  <2>3. ~EndsElement(st, t)
    BY <1>9 DEF EndsElement, IsString, Closing
  <2> QED
    BY <1>1, <2>2, <2>3
<1> QED
  <2>1. t \notin Space =>
           t \in Opening \/ t \in Closing \/ t = "comma" \/ t = "colon" \/ IsString(t)
    BY DEF Fits, Closing
  <2> QED
    BY <1>4, <1>5, <1>6, <1>7, <1>8, <1>9, <2>1

\* Within the array of key, until its bracket closes.
LEMMA InArrayRead ==
    ASSUME NEW st, NEW t \in Tokens, Sound(st), NEW key, InArray(st, key),
           t \in Space \/ (~Over(st) /\ Fits(st, t)), NEW next, next = ReadToken(st, t)
    PROVE  IF EndsArray(st, t)
           THEN next.stack = <<"lbrace">> /\ next.prev = "value" /\ next.entry = <<>>
           ELSE InArray(next, key)
<1>1. st.key = key /\ Level(st) >= 2 /\ Level(st) \in Nat /\ next.key = key
  <2>1. Level(st) \in Nat /\ st.key = key /\ Level(st) >= 2
    BY SoundIs DEF InArray
  <2>2. next.key = key
    BY InArrayEntries
  <2> QED
    BY <2>1, <2>2
<1>2. Level(st) = 2 => In(st) = "lbrack"
  BY SoundIs DEF InArray
<1>3. CASE EndsArray(st, t)
  <2>1. t \in Closing /\ t \notin Space
    BY <1>3 DEF EndsArray, Closing, Space
  <2>2. next.stack = SubSeq(st.stack, 1, Level(st) - 1) /\ next.prev = "value"
        /\ next.entry = IF Level(st) <= 2 THEN <<>> ELSE Append(st.entry, t)
    <3> DEFINE e == IF Level(st) <= 2 THEN <<>> ELSE Append(st.entry, t)
               f == IF Level(st) = 2 /\ st.entry # <<>>
                    THEN Longer(st.entries, st.key, st.entry) ELSE st.entries
               s == SubSeq(st.stack, 1, Level(st) - 1)
    <3>1. next = [stack |-> s, prev |-> "value", key |-> st.key, entry |-> e, entries |-> f]
      BY <2>1, ClosingRead
    <3> HIDE DEF e, f, s
    <3>2. next.stack = s /\ next.prev = "value" /\ next.entry = e
      BY <3>1
    <3> QED
      BY <3>2 DEF e, s
  <2>3. Level(st) = 2
    BY <1>3 DEF EndsArray
  <2>4. next.stack = SubSeq(st.stack, 1, 1) /\ next.entry = <<>>
    BY <2>2, <2>3
  <2>5. st.stack \in Seq(Opening) /\ Len(st.stack) = 2
    BY <2>3, SoundIs DEF Level
  <2>6. next.stack = <<st.stack[1]>>
    BY <2>4, <2>5, OneLeft
  <2> QED
    BY <1>3, <2>2, <2>4, <2>6 DEF InArray
<1>4. CASE ~EndsArray(st, t)
  <2>1. Moves(st, next, t)
    BY StackMoves
  <2>2. t \in Closing /\ Level(st) = 2 => t = "rbrack"
    <3> SUFFICES ASSUME t \in Closing, Level(st) = 2, t = "rbrace" PROVE FALSE
      BY DEF Closing
    <3>1. t \notin Space
      BY DEF Closing, Space
    <3>2. In(st) = "lbrace"
      BY <3>1, ClosingRead
    <3> QED
      BY <1>2, <3>2
  <2>3. t \in Closing => Level(st) > 2
    BY <1>1, <1>4, <2>2 DEF EndsArray
  <2>4. Level(next) >= 2
    <3>1. t \notin Opening \cup Closing => Level(next) = Level(st)
      BY <2>1 DEF Moves, Level
    <3> QED
      BY <1>1, <2>1, <2>3, <3>1 DEF Moves
  <2>5. Level(next) \in Nat
    BY SoundStep, SoundIs
  <2>6. next.stack[1] = st.stack[1] /\ next.stack[2] = st.stack[2]
    <3>1. \A i \in 1..Level(next) : i <= Level(st) => next.stack[i] = st.stack[i]
      BY <2>1 DEF Moves
    <3>2. 1 \in 1..Level(next) /\ 2 \in 1..Level(next) /\ 1 <= Level(st) /\ 2 <= Level(st)
      BY <1>1, <2>4, <2>5
    <3> QED
      BY <3>1, <3>2
  <2> QED
    BY <1>1, <1>4, <2>4, <2>6 DEF InArray
<1> QED
  BY <1>3, <1>4

LEMMA ArraysAreStrings ==
    ASSUME NEW key \in Arrays
    PROVE  IsString(key) /\ key \notin Space /\ key \in Tokens
BY DEF Arrays, IsString, Space, Opening, Closing, Tokens

\* What is at the place after k, when it is no end of the text.
LEMMA NextIs ==
    ASSUME NEW text \in Seq(Tokens), NEW st, NEW R, R = Steps(st, text), NEW k \in 0..Len(text),
           At(text, After(text, k)) # "eof"
    PROVE  /\ After(text, k) \in (k + 1)..Len(text)
           /\ text[After(text, k)] = At(text, After(text, k))
           /\ text[After(text, k)] \notin Space
           /\ R[After(text, k) - 1] = R[k]
<1>1. Len(text) \in Nat /\ DOMAIN text = 1..Len(text)
  OBVIOUS
<1>2. After(text, k) \in DOMAIN text
  BY DEF At
<1>3. After(text, k) \in (k + 1)..Len(text)
  BY <1>1, <1>2, AfterIs
<1>4. text[After(text, k)] \notin Space
  BY <1>1, <1>2, AfterIs DEF Solid
<1>5. R[After(text, k) - 1] = R[k]
  <2>1. After(text, k) - 1 \in k..Len(text) /\ After(text, k) - 1 \in k..(After(text, k) - 1)
    BY <1>1, <1>3
  <2>2. \A j \in (k + 1)..(After(text, k) - 1) : text[j] \in Space
    BY AfterIs
  <2> QED
    BY <2>1, <2>2, OverSpace
<1> QED
  BY <1>2, <1>3, <1>4, <1>5 DEF At

\* Where a key that names an array is read.
LEMMA KeyRead ==
    ASSUME NEW text \in Seq(Tokens), Plain(text), NEW R, R = Steps(Start, text),
           NEW key \in Arrays, NEW p \in Keyed(text, key)
    PROVE  /\ p \in 1..Len(text) /\ NewKey(R[p - 1], key)
           /\ Level(R[p]) = 1 /\ R[p].key = key
           /\ key \in DOMAIN R[p].entries /\ R[p].entries[key] = <<>>
<1>1. Len(text) \in Nat /\ DOMAIN text = 1..Len(text)
  OBVIOUS
<1>2. p \in 1..Len(text) /\ text[p] = key /\ R[p].prev = "key" /\ Level(R[p]) = 1
  <2>1. Keyed(text, key) = Fields(text, key)
    BY DEF Plain
  <2> QED
    BY <1>1, <2>1 DEF Fields
<1>3. p - 1 \in 0..Len(text)
  BY <1>1, <1>2
<1>4. IsString(key) /\ key \notin Space /\ key \in Tokens
  BY ArraysAreStrings
<1>5. R[p] = ReadToken(R[p - 1], key) /\ ~Over(R[p - 1]) /\ Fits(R[p - 1], key) /\ Sound(R[p - 1])
  BY <1>2, <1>3, <1>4, PlainReads
<1> DEFINE st == R[p - 1]
           f == IF NewKey(st, key)
                THEN [k \in DOMAIN st.entries \cup {key} |->
                         IF k = key THEN <<>> ELSE st.entries[k]]
                ELSE IF Level(st) = 1
                THEN [st.entries EXCEPT ![st.key] = <<<<key>>>>] ELSE st.entries
           e == IF Level(st) < 2 THEN <<>> ELSE Append(st.entry, key)
<1>6. R[p] = [stack |-> st.stack, prev |-> IF KeyDue(st) THEN "key" ELSE "value",
              key |-> IF NewKey(st, key) THEN key ELSE st.key, entry |-> e, entries |-> f]
  BY <1>4, <1>5, StringRead
<1> HIDE DEF e, f
<1>7. KeyDue(st) /\ R[p].stack = st.stack
  BY <1>2, <1>6
<1>8. NewKey(st, key)
  BY <1>2, <1>4, <1>7 DEF NewKey, Level
<1>9. R[p].key = key /\ R[p].entries = f
  BY <1>6, <1>8
<1>10. key \in DOMAIN f /\ f[key] = <<>>
  BY <1>8 DEF f
<1> QED
  BY <1>2, <1>8, <1>9, <1>10

\* The bracket behind a key opens the array of that key.
LEMMA OpenRead ==
    ASSUME NEW text \in Seq(Tokens), Plain(text), NEW R, R = Steps(Start, text),
           NEW key \in Arrays, NEW p \in Keyed(text, key),
           NEW open, open = After(text, After(text, p))
    PROVE  /\ open \in (p + 1)..Len(text) /\ text[open] = "lbrack"
           /\ Level(R[open - 1]) = 1
           /\ InArray(R[open], key) /\ Level(R[open]) = 2
           /\ R[open].prev = "open" /\ R[open].entry = <<>>
           /\ R[open].entries = R[p].entries
<1>1. Len(text) \in Nat /\ DOMAIN text = 1..Len(text)
  OBVIOUS
<1>2. p \in 1..Len(text) /\ Level(R[p]) = 1 /\ R[p].key = key
  BY KeyRead
<1> DEFINE q == After(text, p)
<1>3. At(text, q) = "colon" /\ At(text, open) = "lbrack"
  BY DEF Keyed
<1>4. q \in (p + 1)..Len(text) /\ text[q] = "colon" /\ text[q] \notin Space /\ R[q - 1] = R[p]
  <2>1. p \in 0..Len(text)
    BY <1>1, <1>2
  <2> QED
    BY <1>3, <2>1, NextIs
<1> HIDE DEF q
<1>5. /\ open \in (q + 1)..Len(text) /\ text[open] = "lbrack" /\ text[open] \notin Space
      /\ R[open - 1] = R[q]
  <2>1. q \in 0..Len(text)
    BY <1>1, <1>2, <1>4
  <2>2. open = After(text, q)
    BY DEF q
  <2> QED
    BY <1>3, <2>1, <2>2, NextIs
<1>6. q \in 1..Len(text) /\ open \in 1..Len(text) /\ open \in (p + 1)..Len(text)
  BY <1>1, <1>2, <1>4, <1>5
<1>7. p \in 0..Len(text) /\ q \in 0..Len(text) /\ open \in 0..Len(text)
  BY <1>1, <1>2, <1>6
<1>8. Sound(R[p]) /\ Sound(R[q])
  BY <1>7, PlainReads
<1>9. R[q].stack = R[p].stack /\ R[q].key = R[p].key /\ R[q].entries = R[p].entries
  <2>1. R[q] = ReadToken(R[p], "colon") /\ ~Over(R[p]) /\ Fits(R[p], "colon")
    BY <1>4, <1>6, PlainReads
  <2> QED
    BY <1>8, <2>1, ColonRead
<1>10. Level(R[q]) = 1
  BY <1>2, <1>9 DEF Level
<1>11. /\ R[open].stack = Append(R[q].stack, "lbrack") /\ R[open].prev = "open"
       /\ R[open].key = R[q].key /\ R[open].entries = R[q].entries
       /\ R[open].entry = IF Level(R[q]) < 2 THEN <<>> ELSE Append(R[q].entry, "lbrack")
  <2>1. R[open] = ReadToken(R[q], "lbrack") /\ ~Over(R[q]) /\ Fits(R[q], "lbrack")
    BY <1>5, <1>6, PlainReads
  <2>2. "lbrack" \in Opening
    BY DEF Opening
  <2> DEFINE e == IF Level(R[q]) < 2 THEN <<>> ELSE Append(R[q].entry, "lbrack")
             s == Append(R[q].stack, "lbrack")
  <2>3. R[open] = [stack |-> s, prev |-> "open", key |-> R[q].key, entry |-> e,
                   entries |-> R[q].entries]
    BY <1>8, <2>1, <2>2, OpeningRead
  <2> HIDE DEF e, s
  <2>4. /\ R[open].stack = s /\ R[open].prev = "open" /\ R[open].key = R[q].key
        /\ R[open].entries = R[q].entries /\ R[open].entry = e
    BY <2>3
  <2> QED
    BY <2>4 DEF e, s
<1>12. R[open].entry = <<>>
  BY <1>10, <1>11
<1>13. R[q].stack \in Seq(Opening) /\ R[q].stack[1] = "lbrace"
  BY <1>8, <1>10, SoundIs
<1>14. Len(R[q].stack) = 1
  BY <1>10 DEF Level
<1>15. Len(R[open].stack) = 2 /\ R[open].stack[1] = "lbrace" /\ R[open].stack[2] = "lbrack"
  BY <1>11, <1>13, <1>14, StackIs DEF Opening
<1>16. Level(R[open]) = 2
  BY <1>15 DEF Level
<1>17. InArray(R[open], key)
  BY <1>2, <1>9, <1>11, <1>15, <1>16 DEF InArray
<1>18. Level(R[open - 1]) = 1
  BY <1>5, <1>10
<1> QED
  BY <1>5, <1>6, <1>9, <1>11, <1>12, <1>16, <1>17, <1>18

\* The array the editors find is the one the decoder reads: it closes where the
\* decoder leaves it.
LEMMA ArrayFound ==
    ASSUME NEW text \in Seq(Tokens), Plain(text), NEW R, R = Steps(Start, text),
           NEW key \in Arrays, NEW p \in Keyed(text, key),
           NEW open, open = After(text, After(text, p)),
           NEW span, span = ArraySpan(text, key)
    PROVE  /\ span.open = open /\ span # NoSpan
           /\ span.close \in (open + 1)..Len(text)
           /\ text[span.close] = "rbrack"
           /\ \A k \in open..(span.close - 1) :
                 InArray(R[k], key) /\ (EndsArray(R[k], text[k + 1]) => k = span.close - 1)
           /\ EndsArray(R[span.close - 1], text[span.close])
<1>1. Len(text) \in Nat /\ DOMAIN text = 1..Len(text)
  OBVIOUS
<1>2. /\ open \in (p + 1)..Len(text) /\ Level(R[open - 1]) = 1 /\ InArray(R[open], key)
      /\ p \in 1..Len(text)
  BY KeyRead, OpenRead
<1>3. open \in 1..Len(text)
  BY <1>1, <1>2
<1> DEFINE S == {k \in open..Len(text) : ~InArray(R[k], key)}
<1>4. S \in SUBSET Nat /\ Len(text) \in S
  <2>1. R[Len(text)].stack = <<>>
    BY PlainReads
  <2>2. Level(R[Len(text)]) = 0
    BY <2>1 DEF Level
  <2>3. ~InArray(R[Len(text)], key)
    BY <2>2 DEF InArray
  <2> QED
    BY <1>1, <1>3, <2>3
<1>5. PICK m \in S : \A k \in S : m <= k
  BY <1>4, LeastNat
<1>6. m \in open..Len(text) /\ ~InArray(R[m], key) /\ m # open
  BY <1>2, <1>5
<1>7. m \in (open + 1)..Len(text) /\ m - 1 \in open..Len(text) /\ m \in 1..Len(text)
      /\ m - 1 \in 0..Len(text)
  BY <1>3, <1>6
<1>8. \A k \in open..(m - 1) : InArray(R[k], key)
  BY <1>1, <1>3, <1>5, <1>7
<1> HIDE DEF S
<1>9. InArray(R[m - 1], key)
  BY <1>7, <1>8
<1>10. /\ R[m] = ReadToken(R[m - 1], text[m]) /\ text[m] \in Tokens /\ Sound(R[m - 1])
       /\ text[m] \in Space \/ (~Over(R[m - 1]) /\ Fits(R[m - 1], text[m]))
  BY <1>7, PlainReads
<1>11. EndsArray(R[m - 1], text[m]) /\ R[m].stack = <<"lbrace">>
  BY <1>6, <1>9, <1>10, InArrayRead
<1>12. text[m] = "rbrack" /\ Level(R[m]) = 1
  BY <1>11 DEF EndsArray, Level
<1> DEFINE ends == {k \in open..Len(text) : text[k] \in Closing /\ Depth(text, open, k) = 0}
<1>13. ASSUME NEW k \in open..Len(text)
       PROVE  Level(R[k]) \in Nat /\ Depth(text, open, k) \in Int
              /\ Level(R[k]) = 1 + Depth(text, open, k)
  <2>1. k \in (open - 1)..Len(text)
    BY <1>3
  <2> QED
    BY <1>2, <1>3, <2>1, LevelIsDepth
<1>14. m \in ends
  <2>1. m \in open..Len(text)
    BY <1>6
  <2>2. Depth(text, open, m) = 0
    BY <1>12, <1>13, <2>1
  <2> QED
    BY <1>12, <2>1, <2>2 DEF Closing
<1>15. \A k \in ends : m <= k
  <2> SUFFICES ASSUME NEW k \in open..Len(text), Depth(text, open, k) = 0, ~(m <= k) PROVE FALSE
    OBVIOUS
  <2>1. k \in open..(m - 1)
    BY <1>3, <1>7
  <2>2. Level(R[k]) >= 2
    BY <1>8, <2>1 DEF InArray
  <2> QED
    BY <1>13, <2>2
<1>16. Least(ends) = m
  <2>1. ends \in SUBSET Nat /\ ends # {}
    BY <1>3, <1>14
  <2> HIDE DEF ends
  <2>2. Least(ends) \in ends /\ \A k \in ends : Least(ends) <= k
    BY <2>1, LeastIs
  <2>3. Least(ends) \in Nat /\ m \in Nat
    BY <1>14, <2>1, <2>2
  <2>4. Least(ends) <= m /\ m <= Least(ends)
    BY <1>14, <1>15, <2>2
  <2> QED
    BY <2>3, <2>4
<1>17. Least(Keyed(text, key)) = p
  <2>1. Keyed(text, key) = {p}
    BY DEF Plain
  <2>2. p \in Nat
    BY <1>2
  <2>3. {p} \in SUBSET Nat /\ {p} # {}
    BY <2>2
  <2>4. Least({p}) \in {p}
    BY <2>3, LeastIs
  <2> QED
    BY <2>1, <2>4
<1>18. span = [open |-> open, close |-> m]
  <2>1. Keyed(text, key) # {} /\ ends # {}
    BY <1>14
  <2>2. span = [open |-> open, close |-> Least(ends)]
    BY <1>17, <2>1 DEF ArraySpan
  <2> HIDE DEF ends
  <2> QED
    BY <1>16, <2>2
<1>19. span.open = open /\ span.close = m
  BY <1>18
<1>20. span # NoSpan
  <2>1. NoSpan.open = 0
    BY DEF NoSpan
  <2> QED
    BY <1>3, <1>19, <2>1
<1>21. \A k \in open..(m - 1) : EndsArray(R[k], text[k + 1]) => k = m - 1
  <2> SUFFICES ASSUME NEW k \in open..(m - 1), k # m - 1, EndsArray(R[k], text[k + 1])
               PROVE  FALSE
    OBVIOUS
  <2>1. k + 1 \in open..(m - 1) /\ k + 1 \in 1..Len(text) /\ (k + 1) - 1 = k /\ k \in 0..Len(text)
    BY <1>3, <1>7
  <2>2. InArray(R[k], key) /\ InArray(R[k + 1], key)
    BY <1>8, <2>1
  <2>3. /\ R[k + 1] = ReadToken(R[k], text[k + 1]) /\ text[k + 1] \in Tokens /\ Sound(R[k])
        /\ text[k + 1] \in Space \/ (~Over(R[k]) /\ Fits(R[k], text[k + 1]))
    BY <2>1, PlainReads
  <2>4. R[k + 1].stack = <<"lbrace">>
    BY <2>2, <2>3, InArrayRead
  <2>5. Level(R[k + 1]) = 1
    BY <2>4 DEF Level
  <2> QED
    BY <2>2, <2>5 DEF InArray
<1> QED
  BY <1>7, <1>8, <1>11, <1>12, <1>19, <1>20, <1>21

\* Where the elements end for the editors, they end for the decoder.
LEMMA CutsAre ==
    ASSUME NEW text \in Seq(Tokens), Plain(text), NEW R, R = Steps(Start, text),
           NEW key \in Arrays, Keyed(text, key) # {}, NEW span, span = ArraySpan(text, key)
    PROVE  /\ Cuts(text, span) \subseteq span.open..span.close
           /\ span.open \in Cuts(text, span) /\ span.close \in Cuts(text, span)
           /\ span.open \in 1..Len(text) /\ span.close \in (span.open + 1)..Len(text)
           /\ \A c \in Cuts(text, span) :
                 /\ text[c] \notin Space
                 /\ c # span.close =>
                       /\ InArray(R[c], key) /\ Level(R[c]) = 2 /\ R[c].entry = <<>>
                       /\ R[c].prev = IF c = span.open THEN "open" ELSE "comma"
                 /\ c # span.open => InArray(R[c - 1], key) /\ EndsElement(R[c - 1], text[c])
                 /\ c = span.open => text[c] = "lbrack"
                 /\ c = span.close => text[c] = "rbrack"
                 /\ c # span.open /\ c # span.close => text[c] = "comma"
           /\ \A k \in (span.open + 1)..span.close :
                 EndsElement(R[k - 1], text[k]) => k \in Cuts(text, span)
<1>1. Len(text) \in Nat /\ DOMAIN text = 1..Len(text)
  OBVIOUS
<1>2. PICK p \in Keyed(text, key) : TRUE
  OBVIOUS
<1> DEFINE open == After(text, After(text, p))
           close == span.close
           C == Cuts(text, span)
<1>3. /\ open \in (p + 1)..Len(text) /\ text[open] = "lbrack" /\ Level(R[open - 1]) = 1
      /\ InArray(R[open], key) /\ Level(R[open]) = 2
      /\ R[open].prev = "open" /\ R[open].entry = <<>>
      /\ p \in 1..Len(text)
  BY KeyRead, OpenRead
<1>4. /\ span.open = open /\ close \in (open + 1)..Len(text) /\ text[close] = "rbrack"
      /\ \A k \in open..(close - 1) :
            InArray(R[k], key) /\ (EndsArray(R[k], text[k + 1]) => k = close - 1)
      /\ EndsArray(R[close - 1], text[close])
  BY ArrayFound
<1>5. C = {open, close} \cup {k \in open..close : text[k] = "comma" /\ Depth(text, open, k) = 1}
  BY <1>4 DEF Cuts
<1> HIDE DEF open, close, C
<1>6. open \in 1..Len(text) /\ close \in 1..Len(text)
  BY <1>1, <1>3, <1>4
<1>7. ASSUME NEW k \in open..Len(text)
      PROVE  Level(R[k]) \in Nat /\ Depth(text, open, k) \in Int
             /\ Level(R[k]) = 1 + Depth(text, open, k)
  <2>1. k \in (open - 1)..Len(text)
    BY <1>6
  <2> QED
    BY <1>3, <1>6, <2>1, LevelIsDepth
<1>8. C \subseteq open..close /\ open \in C /\ close \in C
  BY <1>4, <1>5, <1>6
<1>9. ASSUME NEW k \in (open + 1)..(close - 1), text[k] = "comma"
      PROVE  /\ InArray(R[k - 1], key) /\ InArray(R[k], key)
             /\ Level(R[k - 1]) = Level(R[k])
             /\ R[k].prev = "comma"
  <2>1. k - 1 \in open..(close - 1) /\ k \in open..(close - 1) /\ k \in 1..Len(text)
        /\ k - 1 \in 0..Len(text)
    BY <1>6
  <2>2. InArray(R[k - 1], key) /\ InArray(R[k], key)
    BY <1>4, <2>1
  <2>3. text[k] \notin Space
    BY <1>9 DEF Space
  <2>4. /\ R[k] = ReadToken(R[k - 1], "comma") /\ ~Over(R[k - 1]) /\ Fits(R[k - 1], "comma")
        /\ Sound(R[k - 1])
    BY <1>9, <2>1, <2>3, PlainReads
  <2>5. R[k].stack = R[k - 1].stack /\ R[k].prev = "comma"
    BY <2>4, CommaRead
  <2> QED
    BY <2>2, <2>5 DEF Level
<1>10. ASSUME NEW k \in (open + 1)..(close - 1), k \in C
       PROVE  /\ text[k] = "comma" /\ Level(R[k]) = 2 /\ R[k].entry = <<>>
              /\ EndsElement(R[k - 1], text[k])
  <2>1. text[k] = "comma" /\ Depth(text, open, k) = 1
    BY <1>5, <1>6, <1>10
  <2>2. k \in open..Len(text) /\ k \in 0..Len(text)
    BY <1>6
  <2>3. Level(R[k]) = 2
    BY <1>7, <2>1, <2>2
  <2>4. InArray(R[k], key) /\ R[k].prev = "comma" /\ Level(R[k - 1]) = 2
    BY <1>9, <2>1, <2>3
  <2>5. Sound(R[k])
    BY <2>2, PlainReads
  <2>6. In(R[k]) = "lbrack"
    BY <2>3, <2>4, <2>5, SoundIs DEF InArray
  <2>7. R[k].entry = <<>>
    BY <2>3, <2>4, <2>5, <2>6, SoundSays
  <2> QED
    BY <2>1, <2>3, <2>4, <2>7 DEF EndsElement
<1>11. ASSUME NEW c \in C
       PROVE  /\ text[c] \notin Space
              /\ c # close =>
                    /\ InArray(R[c], key) /\ Level(R[c]) = 2 /\ R[c].entry = <<>>
                    /\ R[c].prev = IF c = open THEN "open" ELSE "comma"
              /\ c # open => InArray(R[c - 1], key) /\ EndsElement(R[c - 1], text[c])
              /\ c = open => text[c] = "lbrack"
              /\ c = close => text[c] = "rbrack"
              /\ c # open /\ c # close => text[c] = "comma"
  <2>1. CASE c = open
    <3>1. open # close
      BY <1>4, <1>6
    <3> QED
      BY <1>3, <2>1, <3>1 DEF Space
  <2>2. CASE c = close
    <3>1. close - 1 \in open..(close - 1) /\ open # close
      BY <1>4, <1>6
    <3>2. EndsElement(R[close - 1], text[close])
      BY <1>4 DEF EndsArray, EndsElement
    <3> QED
      BY <1>4, <2>2, <3>1, <3>2 DEF Space
  <2>3. CASE c # open /\ c # close
    <3>1. c \in (open + 1)..(close - 1)
      BY <1>6, <1>8, <2>3
    <3> QED
      BY <1>9, <1>10, <2>3, <3>1 DEF Space
  <2> QED
    BY <2>1, <2>2, <2>3
<1>12. ASSUME NEW k \in (open + 1)..close, EndsElement(R[k - 1], text[k]) PROVE k \in C
  <2>1. CASE k = close
    BY <1>8, <2>1
  <2>2. CASE k # close
    <3>1. k \in (open + 1)..(close - 1) /\ k - 1 \in open..(close - 1) /\ (k - 1) + 1 = k
          /\ k \in open..Len(text) /\ k \in open..close
      BY <1>6, <2>2
    <3>2. Level(R[k - 1]) = 2 /\ text[k] \in {"comma", "rbrack"}
      BY <1>12 DEF EndsElement
    <3>3. text[k] # "rbrack"
      <4>1. EndsArray(R[k - 1], text[k]) => k - 1 = close - 1
        BY <1>4, <3>1
      <4> QED
        BY <1>6, <2>2, <3>1, <3>2, <4>1 DEF EndsArray
    <3>4. Level(R[k]) = 2
      BY <1>9, <3>1, <3>2, <3>3
    <3>5. Depth(text, open, k) = 1
      BY <1>7, <3>1, <3>4
    <3> QED
      BY <1>5, <3>1, <3>2, <3>3, <3>5
  <2> QED
    BY <2>1, <2>2
<1> QED
  BY <1>4, <1>6, <1>8, <1>11, <1>12 DEF C, close

\* Entries change where an element ends and nowhere else.
LEMMA EntriesKept ==
    ASSUME NEW text \in Seq(Tokens), Plain(text), NEW R, R = Steps(Start, text),
           NEW key \in Arrays, NEW i \in 0..Len(text), NEW j \in i..Len(text),
           \A k \in i..(j - 1) : InArray(R[k], key) /\ ~EndsElement(R[k], text[k + 1])
    PROVE  R[j].entries = R[i].entries
<1>1. Len(text) \in Nat
  OBVIOUS
<1> DEFINE T == {k \in i..j : R[k].entries = R[i].entries}
<1>2. i \in T
  OBVIOUS
<1>3. ASSUME NEW k \in i..(j - 1), k \in T PROVE k + 1 \in T
  <2>1. k + 1 \in 1..Len(text) /\ (k + 1) - 1 = k /\ k + 1 \in i..j /\ k \in 0..Len(text)
    BY <1>1
  <2>2. /\ R[k + 1] = ReadToken(R[k], text[k + 1]) /\ text[k + 1] \in Tokens /\ Sound(R[k])
        /\ text[k + 1] \in Space \/ (~Over(R[k]) /\ Fits(R[k], text[k + 1]))
    BY <2>1, PlainReads
  <2>3. R[k + 1].entries = IF EndsElement(R[k], text[k + 1]) /\ R[k].entry # <<>>
                           THEN Longer(R[k].entries, key, R[k].entry) ELSE R[k].entries
    BY <2>2, InArrayEntries
  <2> QED
    BY <1>3, <2>1, <2>3
<1> HIDE DEF T
<1>4. \A k \in i..j : k \in T
  BY <1>2, <1>3, AlongSteps
<1> QED
  BY <1>4 DEF T

\* What the editors take for an element lies between two ends of elements.
LEMMA ElementIs ==
    ASSUME NEW text \in Seq(Tokens), NEW span, NEW e \in Elements(text, span),
           Cuts(text, span) \subseteq 1..Len(text)
    PROVE  \E a, b \in Cuts(text, span) :
              /\ a < b /\ \A k \in Cuts(text, span) : ~(a < k /\ k < b)
              /\ e[1] = After(text, a) /\ e[2] = Before(text, b)
              /\ a < e[1] /\ e[1] <= e[2] /\ e[2] < b
              /\ e[1] \in Solid(text) /\ e[2] \in Solid(text)
              /\ \A k \in (a + 1)..(e[1] - 1) : text[k] \in Space
              /\ \A k \in (e[2] + 1)..(b - 1) : text[k] \in Space
<1>1. Len(text) \in Nat /\ DOMAIN text = 1..Len(text)
  OBVIOUS
<1>2. PICK a \in Cuts(text, span), b \in Cuts(text, span) :
         /\ a < b /\ \A k \in Cuts(text, span) : ~(a < k /\ k < b)
         /\ e = <<After(text, a), Before(text, b)>> /\ e[1] <= e[2]
  BY DEF Elements
<1>3. a \in 0..Len(text) /\ b \in 1..(Len(text) + 1) /\ b <= Len(text)
  BY <1>1
<1>4. /\ After(text, a) \in (a + 1)..(Len(text) + 1)
      /\ After(text, a) <= Len(text) => After(text, a) \in Solid(text)
      /\ \A k \in (a + 1)..(After(text, a) - 1) : text[k] \in Space
  BY <1>3, AfterIs
<1>5. /\ Before(text, b) \in 0..(b - 1)
      /\ Before(text, b) >= 1 => Before(text, b) \in Solid(text)
      /\ \A k \in (Before(text, b) + 1)..(b - 1) : text[k] \in Space
  BY <1>3, BeforeIs
<1>6. e[1] = After(text, a) /\ e[2] = Before(text, b)
  BY <1>2
<1>7. a < e[1] /\ e[2] < b /\ e[1] <= Len(text) /\ e[2] >= 1
  BY <1>1, <1>2, <1>3, <1>4, <1>5, <1>6
<1> QED
  BY <1>2, <1>4, <1>5, <1>6, <1>7

\* And the decoder reads one entry between them.
LEMMA ElementRead ==
    ASSUME NEW text \in Seq(Tokens), Plain(text), NEW R, R = Steps(Start, text),
           NEW key \in Arrays, Keyed(text, key) # {}, NEW span, span = ArraySpan(text, key),
           NEW a \in Cuts(text, span), NEW b \in Cuts(text, span), a < b,
           \A k \in Cuts(text, span) : ~(a < k /\ k < b),
           NEW y \in Nat, a < y, y < b, y \in Solid(text),
           \A k \in (y + 1)..(b - 1) : text[k] \in Space
    PROVE  /\ R[b - 1] = R[y] /\ R[b - 1].prev = "value" /\ R[b - 1].entry # <<>>
           /\ R[b - 1].entries = R[a].entries
           /\ R[b].entries = Longer(R[a].entries, key, R[b - 1].entry)
<1>1. Len(text) \in Nat /\ DOMAIN text = 1..Len(text)
  OBVIOUS
<1>2. /\ Cuts(text, span) \subseteq span.open..span.close
      /\ span.open \in 1..Len(text) /\ span.close \in (span.open + 1)..Len(text)
  BY CutsAre
<1>3. a \in span.open..span.close /\ b \in span.open..span.close /\ a \in 1..Len(text)
      /\ b \in 1..Len(text) /\ y \in 1..Len(text) /\ a # span.close /\ b # span.open
  BY <1>1, <1>2
<1>4. InArray(R[b - 1], key) /\ EndsElement(R[b - 1], text[b]) /\ text[b] \notin Space
  BY <1>3, CutsAre
<1>5. \A k \in span.open..(span.close - 1) : InArray(R[k], key)
  <2>1. PICK p \in Keyed(text, key) : TRUE
    OBVIOUS
  <2> QED
    BY <2>1, ArrayFound
<1>6. R[b - 1].entries = R[a].entries
  <2>1. a \in 0..Len(text) /\ b - 1 \in a..Len(text)
    BY <1>1, <1>3
  <2>3. PICK j \in a..Len(text) : j = b - 1
    BY <2>1
  <2>5. \A k \in (span.open + 1)..span.close :
           EndsElement(R[k - 1], text[k]) => k \in Cuts(text, span)
    BY CutsAre
  <2>2. ASSUME NEW k \in a..(j - 1)
        PROVE  InArray(R[k], key) /\ ~EndsElement(R[k], text[k + 1])
    <3>1. k \in span.open..(span.close - 1) /\ k + 1 \in (span.open + 1)..span.close
          /\ (k + 1) - 1 = k /\ a < k + 1 /\ k + 1 < b
      BY <1>2, <1>3, <2>3
    <3>2. k + 1 \notin Cuts(text, span)
      BY <3>1
    <3>3. EndsElement(R[(k + 1) - 1], text[k + 1]) => k + 1 \in Cuts(text, span)
      BY <2>5, <3>1
    <3> QED
      BY <1>5, <3>1, <3>2, <3>3
  <2>6. \A k \in a..(j - 1) : InArray(R[k], key) /\ ~EndsElement(R[k], text[k + 1])
    BY <2>2
  <2>4. R[j].entries = R[a].entries
    BY <2>1, <2>6, EntriesKept
  <2> QED
    BY <2>3, <2>4
<1>7. R[b - 1] = R[y]
  <2>1. y \in 0..Len(text) /\ b - 1 \in y..Len(text) /\ b - 1 \in y..(b - 1)
    BY <1>1, <1>3
  <2> QED
    BY <2>1, OverSpace
<1>8. Sound(R[b - 1]) /\ Sound(R[y - 1]) /\ Sound(R[b])
  <2>1. b - 1 \in 0..Len(text) /\ y - 1 \in 0..Len(text) /\ b \in 0..Len(text)
    BY <1>1, <1>3
  <2> QED
    BY <2>1, PlainReads
<1>9. /\ R[b] = ReadToken(R[b - 1], text[b]) /\ ~Over(R[b - 1]) /\ Fits(R[b - 1], text[b])
      /\ text[b] \in Tokens
  BY <1>3, <1>4, PlainReads
<1>10. text[b] \in {"comma", "rbrack"} /\ Level(R[b - 1]) = 2
  BY <1>4 DEF EndsElement
<1>11. R[b - 1].prev # "open"
  <2> SUFFICES ASSUME R[y].prev = "open" PROVE FALSE
    BY <1>7
  <2>1. y \in span.open..(span.close - 1) /\ y - 1 \in span.open..(span.close - 1)
    BY <1>2, <1>3
  <2>2. InArray(R[y], key) /\ InArray(R[y - 1], key)
    BY <1>5, <2>1
  <2>3. text[y] \notin Space
    BY DEF Solid
  <2>4. R[y] = ReadToken(R[y - 1], text[y]) /\ ~Over(R[y - 1]) /\ Fits(R[y - 1], text[y])
        /\ text[y] \in Tokens
    BY <1>3, <2>3, PlainReads
  <2>5. text[y] \in Opening
    <3> SUFFICES ASSUME text[y] \notin Opening PROVE FALSE
      OBVIOUS
    <3>1. R[y].prev = IF text[y] = "comma" THEN "comma" ELSE IF text[y] = "colon" THEN "colon"
                      ELSE IF IsString(text[y]) /\ KeyDue(R[y - 1]) THEN "key" ELSE "value"
      BY <2>3, <2>4 DEF ReadToken
    <3> QED
      BY <3>1
  <2>6. Level(R[y]) = Level(R[y - 1]) + 1
    BY <1>8, <2>4, <2>5, StackMoves DEF Moves
  <2>7. Level(R[y - 1]) >= 2 /\ Level(R[y - 1]) \in Nat /\ Level(R[y]) = 2
    BY <1>7, <1>8, <1>10, <2>2, SoundIs DEF InArray
  <2> QED
    BY <2>6, <2>7
<1>12. R[b - 1].prev = "value"
  <2>1. text[b] = "comma" => R[b - 1].prev = "value"
    BY <1>8, <1>9, CommaRead
  <2>2. text[b] = "rbrack" => R[b - 1].prev \in {"open", "value"}
    BY <1>8, <1>9, ClosingRead DEF Closing
  <2> QED
    BY <1>10, <1>11, <2>1, <2>2
<1>13. R[b - 1].entry # <<>>
  BY <1>8, <1>10, <1>12, SoundSays
<1>14. R[b].entries = Longer(R[b - 1].entries, key, R[b - 1].entry)
  BY <1>4, <1>8, <1>9, <1>13, InArrayEntries
<1> QED
  BY <1>6, <1>7, <1>12, <1>13, <1>14

-----------------------------------------------------------------------------
(* Two decoders *)

\* The kind of a token that fits.
Kind(st, t) ==
    IF t \in Opening THEN "open" ELSE IF t = "comma" THEN "comma"
    ELSE IF t = "colon" THEN "colon" ELSE IF IsString(t) /\ KeyDue(st) THEN "key" ELSE "value"

NextStack(st, t) ==
    IF t \in Opening THEN Append(st.stack, t)
    ELSE IF t \in Closing THEN SubSeq(st.stack, 1, Level(st) - 1) ELSE st.stack

NextEntry(st, t) == IF Level(st) < 2 \/ Ends(st, t) THEN <<>> ELSE Append(st.entry, t)

LEMMA FieldsRead ==
    ASSUME NEW st, Sound(st), NEW t, t \notin Space, ~Over(st), NEW next, next = ReadToken(st, t)
    PROVE  IF Fits(st, t)
           THEN /\ next.stack = NextStack(st, t) /\ next.prev = Kind(st, t)
                /\ next.key = IF NewKey(st, t) THEN t ELSE st.key
                /\ next.entry = NextEntry(st, t) /\ next.entries = ReadEntries(st, t)
           ELSE /\ next.stack = st.stack /\ next.prev = "bad" /\ next.key = st.key
                /\ next.entry = st.entry /\ next.entries = st.entries
<1>1. CASE Fits(st, t)
  <2>1. next = [stack |-> NextStack(st, t), prev |-> Kind(st, t),
                key |-> IF NewKey(st, t) THEN t ELSE st.key,
                entry |-> NextEntry(st, t), entries |-> ReadEntries(st, t)]
    BY <1>1 DEF ReadToken, NextStack, Kind, NextEntry
  <2> QED
    BY <1>1, <2>1
<1>2. CASE ~Fits(st, t)
  <2>1. next = [st EXCEPT !.prev = "bad"]
    BY <1>2 DEF ReadToken
  <2> QED
    BY <1>2, <2>1 DEF Sound
<1> QED
  BY <1>1, <1>2

\* They expect the same, but that one is behind the bracket of an array and the
\* other one behind a comma.
Alike(u, v) ==
    /\ u.stack = v.stack /\ u.entry = v.entry
    /\ u.prev = v.prev \/ (In(u) = "lbrack" /\ {u.prev, v.prev} \subseteq {"open", "comma"})

LEMMA AlikeExpect ==
    ASSUME NEW u, NEW v, Sound(u), Sound(v), Alike(u, v),
           NEW t, t \notin Space, u.prev = v.prev \/ t \notin Closing
    PROVE  /\ Level(u) = Level(v) /\ In(u) = In(v)
           /\ Over(u) <=> Over(v)
           /\ KeyDue(u) <=> KeyDue(v)
           /\ NewKey(u, t) <=> NewKey(v, t)
           /\ Ends(u, t) <=> Ends(v, t)
           /\ Fits(u, t) <=> Fits(v, t)
<1>1. u.stack = v.stack /\ Level(u) = Level(v) /\ In(u) = In(v)
  BY DEF Alike, Level, In
<1>2. CASE u.prev = v.prev
  <2>1. (Over(u) <=> Over(v)) /\ (KeyDue(u) <=> KeyDue(v)) /\ (Due(u) <=> Due(v))
    BY <1>1, <1>2 DEF Over, KeyDue, Due
  <2>2. (NewKey(u, t) <=> NewKey(v, t)) /\ (Ends(u, t) <=> Ends(v, t))
    BY <1>1, <2>1 DEF NewKey, Ends
  <2>3. Fits(u, t) <=> Fits(v, t)
    BY <1>1, <1>2, <2>1 DEF Fits
  <2> QED
    BY <1>1, <2>1, <2>2, <2>3
<1>3. CASE u.prev # v.prev
  <2>1. /\ In(u) = "lbrack" /\ u.prev \in {"open", "comma"} /\ v.prev \in {"open", "comma"}
        /\ t \notin Closing
    BY <1>3 DEF Alike
  <2>2. ~Over(u) /\ ~Over(v) /\ ~KeyDue(u) /\ ~KeyDue(v) /\ Due(u) /\ Due(v)
    BY <1>1, <2>1 DEF Over, KeyDue, Due
  <2>3. ~NewKey(u, t) /\ ~NewKey(v, t) /\ (Ends(u, t) <=> Ends(v, t))
    BY <1>1, <2>2 DEF NewKey, Ends
  <2>4. t # "rbrace" /\ t # "rbrack"
    BY <2>1 DEF Closing
  <2>5. Fits(u, t) <=> Fits(v, t)
    BY <1>1, <2>1, <2>2, <2>4 DEF Fits
  <2> QED
    BY <1>1, <2>2, <2>3, <2>5
<1> QED
  BY <1>2, <1>3

\* Decoders that are alike read a token alike.
LEMMA AlikeRead ==
    ASSUME NEW u, NEW v, Sound(u), Sound(v), Alike(u, v),
           NEW t \in Tokens, u.prev = v.prev \/ t \notin Closing,
           NEW x, x = ReadToken(u, t), NEW y, y = ReadToken(v, t)
    PROVE  /\ Alike(x, y)
           /\ t \in Space => x = u /\ y = v
           /\ t \notin Space => x.prev = y.prev
<1>1. CASE t \in Space
  BY <1>1 DEF ReadToken
<1>2. CASE t \notin Space /\ Over(u)
  <2>1. Over(v)
    BY <1>2, AlikeExpect
  <2>2. x = u /\ y = v
    BY <1>2, <2>1 DEF ReadToken
  <2>3. u.prev = v.prev
    <3> SUFFICES ASSUME In(u) = "lbrack", u.prev \in {"open", "comma"} PROVE FALSE
      BY DEF Alike
    <3>1. u.stack # <<>>
      BY DEF In
    <3> QED
      BY <1>2, <3>1 DEF Over
  <2> QED
    BY <1>2, <2>2, <2>3
<1>3. CASE t \notin Space /\ ~Over(u)
  <2>1. /\ Level(u) = Level(v) /\ ~Over(v) /\ (KeyDue(u) <=> KeyDue(v))
        /\ (Ends(u, t) <=> Ends(v, t)) /\ (Fits(u, t) <=> Fits(v, t))
    BY <1>3, AlikeExpect
  <2>2. u.stack = v.stack /\ u.entry = v.entry
    BY DEF Alike
  <2>3. CASE Fits(u, t)
    <3>1. x.stack = NextStack(u, t) /\ x.prev = Kind(u, t) /\ x.entry = NextEntry(u, t)
      BY <1>3, <2>3, FieldsRead
    <3>2. y.stack = NextStack(v, t) /\ y.prev = Kind(v, t) /\ y.entry = NextEntry(v, t)
      BY <1>3, <2>1, <2>3, FieldsRead
    <3>3. NextStack(u, t) = NextStack(v, t)
      BY <2>1, <2>2 DEF NextStack
    <3>4. Kind(u, t) = Kind(v, t)
      BY <2>1 DEF Kind
    <3>5. NextEntry(u, t) = NextEntry(v, t)
      BY <2>1, <2>2 DEF NextEntry
    <3> QED
      BY <1>3, <3>1, <3>2, <3>3, <3>4, <3>5 DEF Alike
  <2>4. CASE ~Fits(u, t)
    <3>1. x.stack = u.stack /\ x.prev = "bad" /\ x.entry = u.entry
      BY <1>3, <2>4, FieldsRead
    <3>2. y.stack = v.stack /\ y.prev = "bad" /\ y.entry = v.entry
      BY <1>3, <2>1, <2>4, FieldsRead
    <3> QED
      BY <1>3, <2>2, <3>1, <3>2 DEF Alike
  <2> QED
    BY <2>3, <2>4
<1> QED
  BY <1>1, <1>2, <1>3

\* A list without one of its members.
LEMMA WithoutIs ==
    ASSUME NEW S, NEW s \in Seq(S), NEW n \in 1..Len(s)
    PROVE  /\ Without(s, n) \in Seq(S) /\ Len(Without(s, n)) = Len(s) - 1
           /\ \A i \in 1..(Len(s) - 1) : Without(s, n)[i] = IF i < n THEN s[i] ELSE s[i + 1]
<1> DEFINE a == SubSeq(s, 1, n - 1)
           b == SubSeq(s, n + 1, Len(s))
<1>1. Len(s) \in Nat /\ \A i \in 1..Len(s) : s[i] \in S
  OBVIOUS
<1>2. a \in Seq(S) /\ Len(a) = n - 1 /\ \A i \in 1..(n - 1) : a[i] = s[i]
  <2>1. \A i \in 1..(n - 1) : s[i] \in S
    BY <1>1
  <2> QED
    BY <1>1, <2>1, SubSeqProperties
<1>3. b \in Seq(S) /\ Len(b) = Len(s) - n /\ \A i \in 1..(Len(s) - n) : b[i] = s[n + i]
  <2>1. \A i \in (n + 1)..Len(s) : s[i] \in S
    BY <1>1
  <2>2. b \in Seq(S) /\ Len(b) = IF n + 1 <= Len(s) THEN Len(s) - (n + 1) + 1 ELSE 0
    BY <1>1, <2>1, SubSeqProperties
  <2>3. \A i \in 1..(Len(s) - (n + 1) + 1) : b[i] = s[(n + 1) + i - 1]
    BY <1>1, <2>1, SubSeqProperties
  <2>4. \A i \in 1..(Len(s) - n) :
           i \in 1..(Len(s) - (n + 1) + 1) /\ (n + 1) + i - 1 = n + i
    BY <1>1
  <2> QED
    BY <1>1, <2>2, <2>3, <2>4
<1>4. Without(s, n) = a \o b
  BY DEF Without
<1> HIDE DEF a, b
<1>5. /\ a \o b \in Seq(S) /\ Len(a \o b) = (n - 1) + (Len(s) - n)
      /\ \A i \in 1..((n - 1) + (Len(s) - n)) :
            (a \o b)[i] = IF i <= n - 1 THEN a[i] ELSE b[i - (n - 1)]
  <2>1. /\ a \o b \in Seq(S) /\ Len(a \o b) = Len(a) + Len(b)
        /\ \A i \in 1..(Len(a) + Len(b)) :
              (a \o b)[i] = IF i <= Len(a) THEN a[i] ELSE b[i - Len(a)]
    BY <1>2, <1>3, ConcatProperties
  <2>2. Len(a) = n - 1 /\ Len(b) = Len(s) - n
    BY <1>2, <1>3
  <2> QED
    BY <2>1, <2>2
<1>6. ASSUME NEW i \in 1..(Len(s) - 1)
      PROVE  (a \o b)[i] = IF i < n THEN s[i] ELSE s[i + 1]
  <2>1. i \in 1..((n - 1) + (Len(s) - n))
    BY <1>1
  <2>2. CASE i < n
    <3>1. i <= n - 1 /\ i \in 1..(n - 1)
      BY <2>2
    <3> QED
      BY <1>2, <1>5, <2>1, <2>2, <3>1
  <2>3. CASE ~(i < n)
    <3>1. ~(i <= n - 1) /\ i - (n - 1) \in 1..(Len(s) - n) /\ n + (i - (n - 1)) = i + 1
      BY <1>1, <2>3
    <3> QED
      BY <1>3, <1>5, <2>1, <2>3, <3>1
  <2> QED
    BY <2>2, <2>3
<1>7. (n - 1) + (Len(s) - n) = Len(s) - 1
  BY <1>1
<1> QED
  BY <1>4, <1>5, <1>6, <1>7

LEMMA WithoutAppend ==
    ASSUME NEW S, NEW s \in Seq(S), NEW n \in 1..Len(s), NEW e \in S
    PROVE  /\ Without(Append(s, e), n) = Append(Without(s, n), e)
           /\ n \in 1..Len(Append(s, e)) /\ Append(s, e)[n] = s[n]
<1> DEFINE l == Append(s, e)
           w == Without(s, n)
<1>1. /\ Len(s) \in Nat /\ l \in Seq(S) /\ Len(l) = Len(s) + 1 /\ l[Len(s) + 1] = e
      /\ \A i \in 1..Len(s) : l[i] = s[i]
  OBVIOUS
<1>2. n \in 1..Len(l)
  BY <1>1
<1>3. /\ w \in Seq(S) /\ Len(w) = Len(s) - 1
      /\ \A i \in 1..(Len(s) - 1) : w[i] = IF i < n THEN s[i] ELSE s[i + 1]
  BY WithoutIs
<1> HIDE DEF l, w
<1>4. /\ Without(l, n) \in Seq(S) /\ Len(Without(l, n)) = Len(s)
      /\ \A i \in 1..Len(s) : Without(l, n)[i] = IF i < n THEN l[i] ELSE l[i + 1]
  <2>1. Len(l) - 1 = Len(s)
    BY <1>1
  <2> QED
    BY <1>1, <1>2, <2>1, WithoutIs
<1>5. /\ Append(w, e) \in Seq(S) /\ Len(Append(w, e)) = Len(s) /\ Append(w, e)[Len(s)] = e
      /\ \A i \in 1..(Len(s) - 1) : Append(w, e)[i] = w[i]
  BY <1>1, <1>3
<1>6. ASSUME NEW i \in 1..Len(s) PROVE Without(l, n)[i] = Append(w, e)[i]
  <2>1. CASE i = Len(s)
    <3>1. ~(i < n) /\ i + 1 = Len(s) + 1
      BY <2>1
    <3> QED
      BY <1>1, <1>4, <1>5, <2>1, <3>1
  <2>2. CASE i # Len(s)
    <3>1. i \in 1..(Len(s) - 1) /\ i + 1 \in 1..Len(s)
      BY <1>1, <2>2
    <3> QED
      BY <1>1, <1>3, <1>4, <1>5, <3>1
  <2> QED
    BY <2>1, <2>2
<1>7. Without(l, n) = Append(w, e)
  BY <1>4, <1>5, <1>6, SeqEqual
<1> QED
  BY <1>1, <1>2, <1>7 DEF l, w

\* Tables that differ in one entry of one key.
OneMore(f, g, key, n) ==
    /\ DOMAIN f = DOMAIN g /\ key \in DOMAIN f
    /\ \A o \in DOMAIN f : o # key => f[o] = g[o]
    /\ n \in 1..Len(f[key]) /\ g[key] = Without(f[key], n)

LEMMA OneMoreLonger ==
    ASSUME NEW f \in Table, NEW g \in Table, NEW key, NEW n, OneMore(f, g, key, n),
           NEW k \in DOMAIN f, NEW e \in Seq(Tokens)
    PROVE  /\ OneMore(Longer(f, k, e), Longer(g, k, e), key, n)
           /\ Longer(f, k, e)[key][n] = f[key][n]
<1>1. DOMAIN f = DOMAIN g /\ key \in DOMAIN f /\ n \in 1..Len(f[key])
      /\ g[key] = Without(f[key], n) /\ \A o \in DOMAIN f : o # key => f[o] = g[o]
  BY DEF OneMore
<1> DEFINE x == Longer(f, k, e)
           y == Longer(g, k, e)
<1>2. /\ DOMAIN x = DOMAIN f /\ x[k] = Append(f[k], e)
      /\ \A o \in DOMAIN f : o # k => x[o] = f[o]
  BY MoreEntries
<1>3. /\ DOMAIN y = DOMAIN g /\ y[k] = Append(g[k], e)
      /\ \A o \in DOMAIN g : o # k => y[o] = g[o]
  BY <1>1, MoreEntries
<1> HIDE DEF x, y
<1>4. f[key] \in Seq(Seq(Tokens))
  BY <1>1, TableIs
<1>5. n \in 1..Len(x[key]) /\ y[key] = Without(x[key], n) /\ x[key][n] = f[key][n]
  <2>1. CASE k = key
    <3>1. x[key] = Append(f[key], e) /\ y[key] = Append(Without(f[key], n), e)
      BY <1>1, <1>2, <1>3, <2>1
    <3>2. /\ Without(Append(f[key], e), n) = Append(Without(f[key], n), e)
          /\ n \in 1..Len(Append(f[key], e)) /\ Append(f[key], e)[n] = f[key][n]
      BY <1>1, <1>4, WithoutAppend
    <3> QED
      BY <3>1, <3>2
  <2>2. CASE k # key
    BY <1>1, <1>2, <1>3, <2>2
  <2> QED
    BY <2>1, <2>2
<1>6. \A o \in DOMAIN x : o # key => x[o] = y[o]
  BY <1>1, <1>2, <1>3
<1> QED
  BY <1>1, <1>2, <1>3, <1>5, <1>6 DEF OneMore, x, y

\* The decoder is not between the key and the value that replaces what was under it.
Settled(st, key) == ~(st.key = key /\ Level(st) = 1 /\ st.prev \in {"key", "colon"})

\* The key is there again.
Again(st, t, key) == t = key /\ NewKey(st, t)

\* One token further, there is still one entry more under key.
LEMMA OneMoreRead ==
    ASSUME NEW u, NEW v, Sound(u), Sound(v), Alike(u, v), u.key = v.key,
           NEW key, NEW n, OneMore(u.entries, v.entries, key, n), Settled(u, key),
           NEW t \in Tokens, t \notin Space, ~Over(u), Fits(u, t),
           u.prev = v.prev \/ t \notin Closing, ~Again(u, t, key)
    PROVE  /\ OneMore(ReadEntries(u, t), ReadEntries(v, t), key, n)
           /\ ReadEntries(u, t)[key][n] = u.entries[key][n]
<1> DEFINE f == u.entries
           g == v.entries
<1>1. /\ Level(u) = Level(v) /\ (NewKey(u, t) <=> NewKey(v, t)) /\ (Ends(u, t) <=> Ends(v, t))
      /\ u.entry = v.entry
  BY AlikeExpect DEF Alike
<1>2. /\ DOMAIN f = DOMAIN g /\ key \in DOMAIN f /\ n \in 1..Len(f[key])
      /\ g[key] = Without(f[key], n) /\ \A o \in DOMAIN f : o # key => f[o] = g[o]
  BY DEF OneMore
<1>3. f \in Table /\ g \in Table /\ u.entry \in Seq(Tokens)
  BY SoundIs
<1>4. CASE NewKey(u, t)
  <2> DEFINE x == [k \in DOMAIN f \cup {t} |-> IF k = t THEN <<>> ELSE f[k]]
             y == [k \in DOMAIN g \cup {t} |-> IF k = t THEN <<>> ELSE g[k]]
  <2>1. ReadEntries(u, t) = x /\ ReadEntries(v, t) = y
    BY <1>1, <1>4 DEF ReadEntries
  <2>2. t # key
    BY <1>4 DEF Again
  <2>3. DOMAIN x = DOMAIN f \cup {t} /\ DOMAIN y = DOMAIN g \cup {t}
        /\ x[key] = f[key] /\ y[key] = g[key]
        /\ \A o \in DOMAIN x : o # key => x[o] = y[o]
    BY <1>2, <2>2
  <2> HIDE DEF x, y
  <2> QED
    BY <1>2, <2>1, <2>3 DEF OneMore
<1>5. CASE ~NewKey(u, t) /\ Ends(u, t) /\ u.entry # <<>>
  <2>1. ReadEntries(u, t) = Longer(f, u.key, u.entry) /\ ReadEntries(v, t) = Longer(g, u.key, u.entry)
    BY <1>1, <1>5 DEF ReadEntries, Longer
  <2>2. u.key \in DOMAIN f
    <3>1. Level(u) = 2
      BY <1>5 DEF Ends
    <3>2. Level(u) > 1 => u.key \in DOMAIN f
      BY SoundSays
    <3> QED
      BY <3>1, <3>2
  <2> HIDE DEF f, g
  <2>3. /\ OneMore(Longer(f, u.key, u.entry), Longer(g, u.key, u.entry), key, n)
        /\ Longer(f, u.key, u.entry)[key][n] = f[key][n]
    <3>1. OneMore(f, g, key, n)
      BY DEF f, g
    <3> QED
      BY <1>3, <2>2, <3>1, OneMoreLonger
  <2> QED
    BY <2>1, <2>3 DEF f
<1>6. CASE ~NewKey(u, t) /\ ~(Ends(u, t) /\ u.entry # <<>>) /\ Level(u) = 1 /\ IsString(t)
  <2>1. /\ ReadEntries(u, t) = [f EXCEPT ![u.key] = <<<<t>>>>]
        /\ ReadEntries(v, t) = [g EXCEPT ![u.key] = <<<<t>>>>]
    BY <1>1, <1>6 DEF ReadEntries
  <2>2. u.prev = "colon"
    <3>1. Level(u) = 1 => In(u) = "lbrace"
      BY SoundIs
    <3>2. u.prev = "start" => Level(u) = 0
      BY SoundSays
    <3>3. KeyDue(u) \/ Due(u)
      BY <1>6, StringRead
    <3> QED
      BY <1>6, <3>1, <3>2, <3>3 DEF NewKey, Due
  <2>3. u.key # key
    BY <1>6, <2>2 DEF Settled
  <2> DEFINE x == [f EXCEPT ![u.key] = <<<<t>>>>]
             y == [g EXCEPT ![u.key] = <<<<t>>>>]
  <2>4. DOMAIN x = DOMAIN f /\ DOMAIN y = DOMAIN g /\ x[key] = f[key] /\ y[key] = g[key]
        /\ \A o \in DOMAIN x : o # key => x[o] = y[o]
    BY <1>2, <1>3, <2>3, TableIs
  <2> HIDE DEF x, y
  <2> QED
    BY <1>2, <2>1, <2>4 DEF OneMore, x, y
<1>7. CASE ~NewKey(u, t) /\ ~(Ends(u, t) /\ u.entry # <<>>) /\ ~(Level(u) = 1 /\ IsString(t))
  <2>1. ReadEntries(u, t) = f /\ ReadEntries(v, t) = g
    BY <1>1, <1>7 DEF ReadEntries
  <2> QED
    BY <2>1
<1> QED
  BY <1>4, <1>5, <1>6, <1>7

LEMMA SettledRead ==
    ASSUME NEW st, Sound(st), NEW t \in Tokens, t \notin Space, ~Over(st), Fits(st, t),
           NEW key, Settled(st, key), ~Again(st, t, key), NEW next, next = ReadToken(st, t)
    PROVE  Settled(next, key)
<1> SUFFICES ASSUME next.key = key, Level(next) = 1, next.prev \in {"key", "colon"} PROVE FALSE
  BY DEF Settled
<1>1. /\ next.stack = NextStack(st, t) /\ next.prev = Kind(st, t)
      /\ next.key = IF NewKey(st, t) THEN t ELSE st.key
  BY FieldsRead
<1>2. ~NewKey(st, t) /\ st.key = key
  BY <1>1 DEF Again
<1>3. t \notin Opening
  BY <1>1 DEF Kind
<1>4. CASE Kind(st, t) = "key"
  <2>1. IsString(t) /\ KeyDue(st)
    BY <1>4 DEF Kind
  <2>2. next.stack = st.stack
    BY <1>1, <1>3, <2>1 DEF NextStack, IsString
  <2>3. Level(st) = 1
    BY <2>2 DEF Level
  <2> QED
    BY <1>2, <2>1, <2>3 DEF NewKey
<1>5. CASE Kind(st, t) = "colon"
  <2>1. t = "colon"
    BY <1>5 DEF Kind
  <2>2. st.prev = "key"
    BY <2>1, ColonRead
  <2>3. next.stack = st.stack
    BY <1>1, <2>1 DEF NextStack, Opening, Closing
  <2>4. Level(st) = 1
    BY <2>3 DEF Level
  <2> QED
    BY <1>2, <2>2, <2>4 DEF Settled
<1> QED
  BY <1>1, <1>4, <1>5

\* Two decoders of which the first one has read one entry more under a key.
Twin(u, v, key, n) ==
    /\ Alike(u, v) /\ u.key = v.key
    /\ OneMore(u.entries, v.entries, key, n)
    /\ Settled(u, key)

\* Twins stay twins over a token that is no second key of the array.
LEMMA TwinRead ==
    ASSUME NEW u, NEW v, Sound(u), Sound(v), NEW key, NEW n, Twin(u, v, key, n),
           NEW t \in Tokens, u.prev = v.prev \/ t \notin Closing, ~Again(u, t, key),
           NEW x, x = ReadToken(u, t), NEW y, y = ReadToken(v, t)
    PROVE  /\ Twin(x, y, key, n)
           /\ x.entries[key][n] = u.entries[key][n]
           /\ t \in Space => x = u /\ y = v
           /\ t \notin Space => x.prev = y.prev
<1>1. /\ Alike(u, v) /\ u.key = v.key /\ OneMore(u.entries, v.entries, key, n) /\ Settled(u, key)
  BY DEF Twin
<1>2. Alike(x, y) /\ (t \in Space => x = u /\ y = v) /\ (t \notin Space => x.prev = y.prev)
  BY <1>1, AlikeRead
<1>3. CASE t \in Space
  BY <1>1, <1>2, <1>3 DEF Twin
<1>4. CASE t \notin Space /\ Over(u)
  <2>1. Over(v)
    BY <1>1, <1>4, AlikeExpect
  <2>2. x = u /\ y = v
    BY <1>4, <2>1 DEF ReadToken
  <2> QED
    BY <1>1, <1>2, <1>4, <2>2 DEF Twin
<1>5. CASE t \notin Space /\ ~Over(u) /\ Fits(u, t)
  <2>1. ~Over(v) /\ Fits(v, t) /\ (NewKey(u, t) <=> NewKey(v, t))
    BY <1>1, <1>5, AlikeExpect
  <2>2. x.key = (IF NewKey(u, t) THEN t ELSE u.key) /\ x.entries = ReadEntries(u, t)
    BY <1>5, FieldsRead
  <2>3. y.key = (IF NewKey(v, t) THEN t ELSE v.key) /\ y.entries = ReadEntries(v, t)
    BY <1>5, <2>1, FieldsRead
  <2>4. /\ OneMore(ReadEntries(u, t), ReadEntries(v, t), key, n)
        /\ ReadEntries(u, t)[key][n] = u.entries[key][n]
    BY <1>1, <1>5, OneMoreRead
  <2>5. Settled(x, key)
    BY <1>1, <1>5, SettledRead
  <2>6. x.key = y.key
    BY <1>1, <2>1, <2>2, <2>3
  <2> QED
    BY <1>2, <1>5, <2>2, <2>3, <2>4, <2>5, <2>6 DEF Twin
<1>6. CASE t \notin Space /\ ~Over(u) /\ ~Fits(u, t)
  <2>1. ~Over(v) /\ ~Fits(v, t)
    BY <1>1, <1>6, AlikeExpect
  <2>2. x.prev = "bad" /\ x.key = u.key /\ x.entries = u.entries
    BY <1>6, FieldsRead
  <2>3. y.key = v.key /\ y.entries = v.entries
    BY <1>6, <2>1, FieldsRead
  <2>4. Settled(x, key)
    BY <2>2 DEF Settled
  <2> QED
    BY <1>1, <1>2, <1>6, <2>2, <2>3, <2>4 DEF Twin
<1> QED
  BY <1>3, <1>4, <1>5, <1>6

\* The m tokens behind i in a and behind j in b are the same.
SameAfter(a, b, i, j, m) ==
    i + m <= Len(a) /\ j + m <= Len(b) /\ \A k \in 1..m : a[i + k] = b[j + k]

\* One of the two can be read on from there, or does not have the key again.
FitAfter(A, i, m)           == \A k \in 0..m : A[i + k].prev # "bad"
OnceAfter(A, a, i, m, key)  == \A k \in 0..(m - 1) : ~Again(A[i + k], a[i + (k + 1)], key)

TwinAfter(A, B, i, j, k, key, n) ==
    /\ Twin(A[i + k], B[j + k], key, n)
    /\ A[i + k].entries[key][n] = A[i].entries[key][n]
    /\ A[i + k].prev = B[j + k].prev \/ A[i + k].prev = "comma"

\* They stay so over the same tokens, as long as the key is not there again.
LEMMA TwinTail ==
    ASSUME NEW a \in Seq(Tokens), NEW b \in Seq(Tokens),
           NEW A, A = Steps(Start, a), NEW B, B = Steps(Start, b),
           NEW i \in 0..Len(a), NEW j \in 0..Len(b), NEW m \in Nat,
           SameAfter(a, b, i, j, m),
           NEW key, NEW n, Twin(A[i], B[j], key, n),
           A[i].prev = B[j].prev \/ (A[i].prev = "comma" /\ FitAfter(A, i, m)),
           OnceAfter(A, a, i, m, key) \/ OnceAfter(B, b, j, m, key)
    PROVE  \A k \in 0..m : TwinAfter(A, B, i, j, k, key, n)
<1> USE DEF SameAfter, FitAfter, OnceAfter
<1> DEFINE G(k) == /\ Twin(A[i + k], B[j + k], key, n)
                   /\ A[i + k].entries[key][n] = A[i].entries[key][n]
                   /\ A[i + k].prev = B[j + k].prev
                      \/ (A[i + k].prev = "comma" /\ \A l \in 0..m : A[i + l].prev # "bad")
           M == {k \in Nat : k <= m => G(k)}
<1>1. 0 \in M
  <2>1. i + 0 = i /\ j + 0 = j
    OBVIOUS
  <2>2. G(0)
    BY <2>1
  <2> HIDE DEF G
  <2> QED
    BY <2>2
<1>2. ASSUME NEW k \in Nat, k \in M PROVE k + 1 \in M
  <2> SUFFICES ASSUME k + 1 <= m PROVE G(k + 1)
    OBVIOUS
  <2>1. /\ i + (k + 1) \in 1..Len(a) /\ (i + (k + 1)) - 1 = i + k
        /\ j + (k + 1) \in 1..Len(b) /\ (j + (k + 1)) - 1 = j + k
        /\ k + 1 \in 1..m /\ k \in 0..(m - 1) /\ k + 1 \in 0..m
        /\ i + k \in 0..Len(a) /\ j + k \in 0..Len(b)
    OBVIOUS
  <2> DEFINE u == A[i + k]
             v == B[j + k]
             t == a[i + (k + 1)]
             x == A[i + (k + 1)]
             y == B[j + (k + 1)]
  <2>2. x = ReadToken(u, t) /\ t \in Tokens
    BY <2>1, StepsAre
  <2>3. y = ReadToken(v, t)
    <3>1. y = ReadToken(v, b[j + (k + 1)])
      BY <2>1, StepsAre
    <3>2. b[j + (k + 1)] = t
      BY <2>1
    <3> QED
      BY <3>1, <3>2
  <2>4. Sound(u) /\ Sound(v)
    BY <2>1, StartSound, SoundSteps
  <2>5. G(k)
    <3>1. k <= m
      OBVIOUS
    <3> HIDE DEF G
    <3> QED
      BY <1>2, <3>1
  <2>6. Twin(u, v, key, n) /\ u.entries[key][n] = A[i].entries[key][n]
    BY <2>5
  <2>7. u.prev = v.prev \/ t \notin Closing
    <3> SUFFICES ASSUME u.prev = "comma", \A l \in 0..m : A[i + l].prev # "bad", t \in Closing
                 PROVE  FALSE
      BY <2>5
    <3>1. x.prev # "bad"
      BY <2>1
    <3>2. ~Over(u) /\ t \notin Space
      <4>1. Level(u) = 0 => u.prev \in {"start", "value", "bad"}
        BY <2>4, SoundSays
      <4>2. u.stack = <<>> => Level(u) = 0
        BY DEF Level
      <4> QED
        BY <4>1, <4>2 DEF Over, Closing, Space
    <3>3. ~Fits(u, t)
      BY DEF Fits, Closing, Opening, IsString
    <3> QED
      BY <2>2, <2>4, <3>1, <3>2, <3>3, BadRead
  <2>8. ~Again(u, t, key)
    <3>1. ~Again(u, t, key) \/ ~Again(v, t, key)
      BY <2>1
    <3>2. ASSUME Again(u, t, key) PROVE Again(v, t, key)
      <4>1. t = key /\ NewKey(u, t) /\ IsString(t)
        BY <3>2 DEF Again, NewKey
      <4>2. t \notin Space
        BY <4>1 DEF IsString
      <4>3. NewKey(u, t) <=> NewKey(v, t)
        BY <2>4, <2>6, <2>7, <4>2, AlikeExpect DEF Twin
      <4> QED
        BY <4>1, <4>3 DEF Again
    <3> QED
      BY <3>1, <3>2
  <2>9. /\ Twin(x, y, key, n) /\ x.entries[key][n] = u.entries[key][n]
        /\ (t \in Space => x = u /\ y = v) /\ (t \notin Space => x.prev = y.prev)
    <3> HIDE DEF u, v, t, x, y
    <3> QED
      BY <2>2, <2>3, <2>4, <2>6, <2>7, <2>8, TwinRead
  <2> QED
    BY <2>5, <2>6, <2>9
<1> HIDE DEF M, G
<1>3. \A k \in Nat : k \in M
  BY <1>1, <1>2, NatInduct
<1>4. \A k \in 0..m : G(k)
  BY <1>3 DEF M
<1> QED
  BY <1>4 DEF G, TwinAfter

-----------------------------------------------------------------------------
(* An array is there once *)

\* Where the decoder begins a field, one of Fields is.
LEMMA AgainIsField ==
    ASSUME NEW text \in Seq(Tokens), Plain(text), NEW R, R = Steps(Start, text),
           NEW key, NEW k \in 1..Len(text), Again(R[k - 1], text[k], key)
    PROVE  k \in Fields(text, key)
<1>1. Len(text) \in Nat /\ DOMAIN text = 1..Len(text) /\ k - 1 \in 0..Len(text)
  OBVIOUS
<1> DEFINE st == R[k - 1]
           t == text[k]
           next == R[k]
<1>2. t = key /\ NewKey(st, t) /\ KeyDue(st) /\ Level(st) = 1 /\ IsString(t)
  BY DEF Again, NewKey
<1>3. t \notin Space
  BY <1>2 DEF IsString
<1>4. next = ReadToken(st, t) /\ ~Over(st) /\ Fits(st, t) /\ Sound(st) /\ t \in Tokens
  BY <1>1, <1>3, PlainReads
<1>5. next.stack = NextStack(st, t) /\ next.prev = Kind(st, t)
  <2> HIDE DEF st, t, next
  <2> QED
    BY <1>3, <1>4, FieldsRead
<1>6. next.stack = st.stack /\ next.prev = "key"
  BY <1>2, <1>5 DEF NextStack, Kind, IsString
<1>7. Level(next) = 1
  BY <1>2, <1>6 DEF Level
<1> QED
  BY <1>1, <1>2, <1>6, <1>7 DEF Fields

\* Behind the array its key does not come again.
LEMMA NotAgain ==
    ASSUME NEW text \in Seq(Tokens), Plain(text), NEW R, R = Steps(Start, text),
           NEW key \in Arrays, NEW p \in Keyed(text, key),
           NEW k \in 1..Len(text), k # p
    PROVE  ~Again(R[k - 1], text[k], key)
<1>1. Keyed(text, key) = Fields(text, key) /\ \A j, l \in Fields(text, key) : j = l
  BY DEF Plain
<1> QED
  BY <1>1, AgainIsField

\* The field of a key is read to its end: nothing more is put under the key until
\* it is there again.
Past(st, key) ==
    /\ st.key # key \/ Over(st) \/ (Level(st) = 1 /\ st.prev \in {"value", "comma"})
    /\ key \in DOMAIN st.entries

\* Behind its array, a key keeps what was read of it.
LEMMA PastRead ==
    ASSUME NEW st, Sound(st), NEW key, Past(st, key), NEW t \in Tokens,
           t \in Space \/ Over(st) \/ Fits(st, t), ~Again(st, t, key),
           NEW next, next = ReadToken(st, t)
    PROVE  Past(next, key) /\ next.entries[key] = st.entries[key]
<1>1. CASE t \in Space \/ Over(st)
  BY <1>1 DEF ReadToken
<1>2. CASE t \notin Space /\ ~Over(st) /\ Fits(st, t)
  <2>1. /\ next.stack = NextStack(st, t) /\ next.prev = Kind(st, t)
        /\ next.key = IF NewKey(st, t) THEN t ELSE st.key
        /\ next.entries = ReadEntries(st, t)
    BY <1>2, FieldsRead
  <2>2. key \in DOMAIN st.entries /\ st.entries \in Table
    BY SoundIs DEF Past
  <2>3. \/ (ReadEntries(st, t)[key] = st.entries[key] /\ key \in DOMAIN ReadEntries(st, t))
        \/ (st.key = key /\ ~NewKey(st, t) /\ ~(Level(st) = 1 /\ ~IsString(t)))
    <3>1. CASE NewKey(st, t)
      <4>1. t # key
        BY <3>1 DEF Again
      <4> DEFINE f == [k \in DOMAIN st.entries \cup {t} |-> IF k = t THEN <<>> ELSE st.entries[k]]
      <4>2. ReadEntries(st, t) = f
        BY <3>1 DEF ReadEntries
      <4>3. key \in DOMAIN f /\ f[key] = st.entries[key]
        BY <2>2, <4>1
      <4> HIDE DEF f
      <4> QED
        BY <4>2, <4>3
    <3>2. CASE ~NewKey(st, t) /\ st.key # key
      <4>1. \A e : /\ [st.entries EXCEPT ![st.key] = e][key] = st.entries[key]
                   /\ key \in DOMAIN [st.entries EXCEPT ![st.key] = e]
        BY <2>2, <3>2
      <4>2. \/ ReadEntries(st, t) = st.entries
            \/ ReadEntries(st, t) = [st.entries EXCEPT ![st.key] = Append(@, st.entry)]
            \/ ReadEntries(st, t) = [st.entries EXCEPT ![st.key] = <<<<t>>>>]
        BY <3>2 DEF ReadEntries
      <4> QED
        BY <2>2, <4>1, <4>2
    <3>3. CASE ~NewKey(st, t) /\ Level(st) = 1 /\ ~IsString(t)
      <4>1. ~Ends(st, t)
        BY <3>3 DEF Ends
      <4>2. ReadEntries(st, t) = st.entries
        BY <3>3, <4>1 DEF ReadEntries
      <4> QED
        BY <2>2, <4>2
    <3> QED
      BY <3>1, <3>2, <3>3
  <2>4. CASE st.key # key
    <3>1. next.key # key
      BY <2>1, <2>4 DEF Again
    <3> QED
      BY <2>1, <2>3, <2>4, <3>1 DEF Past
  <2>5. CASE st.key = key /\ Level(st) = 1 /\ st.prev \in {"value", "comma"}
    <3>1. In(st) = "lbrace"
      BY <2>5, SoundIs
    <3>2. ~Due(st)
      BY <2>5, <3>1 DEF Due
    <3>3. CASE NewKey(st, t)
      <4>1. t # key
        BY <3>3 DEF Again
      <4> QED
        BY <2>1, <2>3, <3>3, <4>1 DEF Past
    <3>4. CASE ~NewKey(st, t)
      <4>1. ~IsString(t) /\ t \notin Opening
        <5>1. IsString(t) => KeyDue(st)
          BY <1>2, <3>2 DEF Fits, Opening, Closing, IsString
        <5>2. ~(KeyDue(st) /\ IsString(t))
          BY <2>5, <3>4 DEF NewKey
        <5>3. t \notin Opening
          BY <1>2, <3>2 DEF Fits, Opening, IsString
        <5> QED
          BY <5>1, <5>2, <5>3
      <4>2. t = "comma" \/ t \in Closing
        <5>1. t # "colon"
          BY <1>2, <2>5, <4>1 DEF Fits, Closing
        <5>2. t # "eof"
          BY <1>2, NoFit
        <5> QED
          BY <1>2, <4>1, <5>1, <5>2, TokenKinds
      <4>3. CASE t = "comma"
        <5>1. next.stack = st.stack /\ next.prev = "comma"
          BY <2>1, <4>3 DEF NextStack, Kind, Opening, Closing
        <5>2. Level(next) = 1
          BY <2>5, <5>1 DEF Level
        <5> QED
          BY <2>1, <2>3, <2>5, <3>4, <4>1, <5>1, <5>2 DEF Past
      <4>4. CASE t \in Closing
        <5>1. next.stack = SubSeq(st.stack, 1, Level(st) - 1) /\ next.prev = "value"
          BY <2>1, <4>4 DEF NextStack, Kind, Opening, Closing, IsString
        <5>2. next.stack = <<>>
          BY <2>5, <5>1
        <5>3. Over(next)
          BY <5>1, <5>2 DEF Over
        <5> QED
          BY <2>1, <2>3, <2>5, <3>4, <4>1, <5>3 DEF Past
      <4> QED
        BY <4>2, <4>3, <4>4
    <3> QED
      BY <3>3, <3>4
  <2> QED
    BY <1>2, <2>4, <2>5 DEF Past
<1> QED
  BY <1>1, <1>2

\* So it is to the end of the text.
LEMMA PastTail ==
    ASSUME NEW text \in Seq(Tokens), Plain(text), NEW R, R = Steps(Start, text),
           NEW key \in Arrays, NEW p \in Keyed(text, key),
           NEW i \in p..Len(text), Past(R[i], key)
    PROVE  \A k \in i..Len(text) : Past(R[k], key) /\ R[k].entries[key] = R[i].entries[key]
<1>1. Len(text) \in Nat /\ p \in 1..Len(text) /\ i \in 0..Len(text)
  <2>1. Len(text) \in Nat
    OBVIOUS
  <2>2. p \in 1..Len(text)
    BY KeyRead
  <2> QED
    BY <2>1, <2>2
<1> DEFINE T == {k \in i..Len(text) : Past(R[k], key) /\ R[k].entries[key] = R[i].entries[key]}
<1>2. i \in T
  BY <1>1
<1>3. ASSUME NEW k \in i..(Len(text) - 1), k \in T PROVE k + 1 \in T
  <2>1. k + 1 \in 1..Len(text) /\ (k + 1) - 1 = k /\ k \in 0..Len(text) /\ k + 1 # p /\ k + 1 \in i..Len(text)
    BY <1>1
  <2>2. ~Again(R[(k + 1) - 1], text[k + 1], key)
    BY <2>1, NotAgain
  <2>3. R[k + 1] = ReadToken(R[k], text[k + 1]) /\ Sound(R[k]) /\ text[k + 1] \in Tokens
        /\ (text[k + 1] \in Space \/ Over(R[k]) \/ Fits(R[k], text[k + 1]))
    BY <2>1, PlainReads
  <2>4. Past(R[k + 1], key) /\ R[k + 1].entries[key] = R[k].entries[key]
    BY <1>3, <2>1, <2>2, <2>3, PastRead
  <2> QED
    BY <1>3, <2>1, <2>4
<1> HIDE DEF T
<1>4. \A k \in i..Len(text) : k \in T
  BY <1>1, <1>2, <1>3, AlongSteps
<1> QED
  BY <1>4 DEF T

\* A key that is never a field of the object has no entries.
LEMMA NoFieldRead ==
    ASSUME NEW text \in Seq(Tokens), Plain(text), NEW R, R = Steps(Start, text),
           NEW key \in Arrays, Fields(text, key) = {}
    PROVE  \A k \in 0..Len(text) : key \notin DOMAIN R[k].entries
<1>1. Len(text) \in Nat /\ 0 \in 0..Len(text)
  OBVIOUS
<1> DEFINE T == {k \in 0..Len(text) : key \notin DOMAIN R[k].entries}
<1>2. 0 \in T
  <2>1. R[0] = Start
    BY PlainReads
  <2>2. DOMAIN Start.entries = {}
    BY DEF Start
  <2> QED
    BY <1>1, <2>1, <2>2
<1>3. ASSUME NEW k \in 0..(Len(text) - 1), k \in T PROVE k + 1 \in T
  <2>1. k + 1 \in 1..Len(text) /\ (k + 1) - 1 = k /\ k \in 0..Len(text)
    BY <1>1
  <2> DEFINE st == R[k]
             t == text[k + 1]
             next == R[k + 1]
  <2>2. next = ReadToken(st, t) /\ Sound(st) /\ t \in Tokens
        /\ (t \in Space \/ (~Over(st) /\ Fits(st, t)))
    BY <2>1, PlainReads
  <2>3. ~Again(st, t, key)
    <3>1. Again(R[(k + 1) - 1], text[k + 1], key) => k + 1 \in Fields(text, key)
      BY <2>1, AgainIsField
    <3> QED
      BY <2>1, <3>1
  <2>4. key \notin DOMAIN st.entries
    BY <1>3
  <2>5. CASE t \in Space
    <3>1. next = st
      BY <2>2, <2>5, SpaceReads
    <3> QED
      BY <2>1, <2>4, <3>1
  <2>6. CASE t \notin Space
    <3>1. next.entries = ReadEntries(st, t)
      <4> HIDE DEF st, t, next
      <4> QED
        BY <2>2, <2>6, FieldsRead
    <3>2. DOMAIN ReadEntries(st, t) = IF NewKey(st, t) THEN DOMAIN st.entries \cup {t} ELSE DOMAIN st.entries
      <4> HIDE DEF st, t, next
      <4>1. \A e : DOMAIN [st.entries EXCEPT ![st.key] = e] = DOMAIN st.entries
        OBVIOUS
      <4>2. CASE NewKey(st, t)
        BY <4>2 DEF ReadEntries
      <4>3. CASE ~NewKey(st, t)
        <5>1. \/ ReadEntries(st, t) = st.entries
              \/ ReadEntries(st, t) = [st.entries EXCEPT ![st.key] = Append(@, st.entry)]
              \/ ReadEntries(st, t) = [st.entries EXCEPT ![st.key] = <<<<t>>>>]
          BY <4>3 DEF ReadEntries
        <5> QED
          BY <4>1, <4>3, <5>1
      <4> QED
        BY <4>2, <4>3
    <3> QED
      BY <2>1, <2>3, <2>4, <3>1, <3>2 DEF Again
  <2> QED
    BY <2>2, <2>5, <2>6
<1> HIDE DEF T
<1>4. \A k \in 0..Len(text) : k \in T
  BY <1>1, <1>2, <1>3, AlongSteps
<1> QED
  BY <1>4 DEF T

-----------------------------------------------------------------------------
(* The end of a text, of which one entry is gone or new *)

\* The entries of a text are those of the last state, as far as it parses.
LEMMA EntriesAre ==
    ASSUME NEW text \in Seq(Tokens), NEW R, R = Steps(Start, text)
    PROVE  /\ Len(text) \in Nat
           /\ R[Len(text)].entries \in Table
           /\ Reading(text) = R[Len(text)]
           /\ \A o \in DOMAIN R[Len(text)].entries : Entries(text, o) = R[Len(text)].entries[o]
           /\ \A o : o \notin DOMAIN R[Len(text)].entries => Entries(text, o) = <<>>
<1>1. Len(text) \in Nat /\ Len(text) \in 0..Len(text)
  OBVIOUS
<1>2. Sound(R[Len(text)])
  BY <1>1, StartSound, SoundSteps
<1> QED
  BY <1>1, <1>2, SoundIs DEF Entries, Reading

\* What a text without one of the entries is read as.
OneGone(a, b, key, n) ==
    /\ Parses(b)
    /\ DOMAIN Reading(b).entries = DOMAIN Reading(a).entries
    /\ \A o : o # key => Entries(b, o) = Entries(a, o)
    /\ n \in 1..Len(Entries(a, key)) /\ Entries(a, key) \in Seq(Seq(Tokens))
    /\ Entries(b, key) = Without(Entries(a, key), n)

\* Twins at the end of both texts.
TwinsRead(a, b, A, B, key, n) ==
    /\ A = Steps(Start, a) /\ B = Steps(Start, b) /\ Parses(a)
    /\ Twin(A[Len(a)], B[Len(b)], key, n)
    /\ A[Len(a)].prev = B[Len(b)].prev \/ A[Len(a)].prev = "comma"

\* Twins at the end are two texts of which one has an entry more.
LEMMA TwinEnd ==
    ASSUME NEW a \in Seq(Tokens), NEW b \in Seq(Tokens), NEW A, NEW B, NEW key, NEW n,
           TwinsRead(a, b, A, B, key, n)
    PROVE  /\ OneGone(a, b, key, n)
           /\ Entries(a, key) = A[Len(a)].entries[key] /\ Entries(b, key) = B[Len(b)].entries[key]
<1> DEFINE u == A[Len(a)]
           v == B[Len(b)]
           f == u.entries
           g == v.entries
<1>1. /\ A = Steps(Start, a) /\ B = Steps(Start, b) /\ Parses(a)
      /\ Twin(u, v, key, n) /\ (u.prev = v.prev \/ u.prev = "comma")
  BY DEF TwinsRead
<1>2. /\ f \in Table /\ Reading(a) = u
      /\ \A o \in DOMAIN f : Entries(a, o) = f[o]
      /\ \A o : o \notin DOMAIN f => Entries(a, o) = <<>>
  BY <1>1, EntriesAre
<1>3. /\ g \in Table /\ Reading(b) = v
      /\ \A o \in DOMAIN g : Entries(b, o) = g[o]
      /\ \A o : o \notin DOMAIN g => Entries(b, o) = <<>>
  BY <1>1, EntriesAre
<1>4. u.stack = v.stack /\ OneMore(f, g, key, n)
  BY <1>1 DEF Twin, Alike
<1>5. u.prev = v.prev
  BY <1>1, <1>2, <1>3 DEF Parses
<1>6. Parses(a) /\ Parses(b)
  BY <1>1, <1>2, <1>3, <1>4, <1>5 DEF Parses
<1>7. f[key] \in Seq(Seq(Tokens))
  BY <1>2, <1>4, TableIs DEF OneMore
<1> HIDE DEF f, g, u, v
<1> USE DEF OneMore
<1>8. ASSUME NEW o, o # key PROVE Entries(b, o) = Entries(a, o)
  <2>1. CASE o \in DOMAIN f
    <3>1. o \in DOMAIN g /\ f[o] = g[o]
      BY <1>4, <1>8, <2>1
    <3> QED
      BY <1>2, <1>3, <2>1, <3>1
  <2>2. CASE o \notin DOMAIN f
    <3>1. o \notin DOMAIN g
      BY <1>4, <2>2
    <3> QED
      BY <1>2, <1>3, <2>2, <3>1
  <2> QED
    BY <2>1, <2>2
<1>9. Entries(a, key) = f[key] /\ Entries(b, key) = g[key]
  BY <1>2, <1>3, <1>4
<1>10. Reading(a).entries = f /\ Reading(b).entries = g
  BY <1>2, <1>3 DEF f, g
<1>11. Entries(a, key) = u.entries[key] /\ Entries(b, key) = v.entries[key]
  BY <1>9 DEF f, g
<1> QED
  BY <1>4, <1>6, <1>7, <1>8, <1>9, <1>10, <1>11 DEF OneGone, u, v

-----------------------------------------------------------------------------
(* Removing an entry *)

\* The only token that is no space and has only space before it is the next.
LEMMA AfterOnly ==
    ASSUME NEW text \in Seq(Tokens), NEW k \in 0..Len(text), NEW d \in (k + 1)..Len(text),
           text[d] \notin Space, \A j \in (k + 1)..(d - 1) : text[j] \in Space
    PROVE  After(text, k) = d
<1>1. Len(text) \in Nat
  OBVIOUS
<1> DEFINE x == After(text, k)
<1>2. /\ x \in (k + 1)..(Len(text) + 1) /\ (x <= Len(text) => x \in Solid(text))
      /\ \A j \in (k + 1)..(x - 1) : text[j] \in Space
  BY AfterIs
<1> HIDE DEF x
<1>3. ~(d < x)
  <2>1. d < x => d \in (k + 1)..(x - 1)
    BY <1>1, <1>2
  <2> QED
    BY <1>2, <2>1
<1>4. ~(x < d)
  <2>1. x < d => x \in (k + 1)..(d - 1) /\ x <= Len(text)
    BY <1>1, <1>2
  <2> QED
    BY <1>2, <2>1 DEF Solid
<1>5. x = d
  BY <1>1, <1>2, <1>3, <1>4
<1> QED
  BY <1>5 DEF x

LEMMA BeforeOnly ==
    ASSUME NEW text \in Seq(Tokens), NEW k \in 1..(Len(text) + 1), NEW c \in 1..(k - 1),
           text[c] \notin Space, \A j \in (c + 1)..(k - 1) : text[j] \in Space
    PROVE  Before(text, k) = c
<1>1. Len(text) \in Nat
  OBVIOUS
<1> DEFINE x == Before(text, k)
<1>2. /\ x \in 0..(k - 1) /\ (x >= 1 => x \in Solid(text))
      /\ \A j \in (x + 1)..(k - 1) : text[j] \in Space
  BY BeforeIs
<1> HIDE DEF x
<1>3. ~(x < c)
  <2>1. x < c => c \in (x + 1)..(k - 1)
    BY <1>1, <1>2
  <2> QED
    BY <1>2, <2>1
<1>4. ~(c < x)
  <2>1. c < x => x \in (c + 1)..(k - 1) /\ x >= 1
    BY <1>1, <1>2
  <2> QED
    BY <1>2, <2>1 DEF Solid
<1>5. x = c
  BY <1>1, <1>2, <1>3, <1>4
<1> QED
  BY <1>5 DEF x

\* What Cut takes away of the text around element e, c and d being the cuts it is
\* between.
CutFrom(text, e, c, d, from, to) ==
    /\ Cut(text, e) = SubSeq(text, 1, from - 1) \o SubSeq(text, to + 1, Len(text))
    /\ IF text[d] = "comma" THEN to >= d /\ \A j \in (d + 1)..to : text[j] \in Space
       ELSE to = e[2]
    /\ IF text[d] # "comma" /\ text[c] = "comma"
       THEN from <= c /\ \A j \in from..(c - 1) : text[j] \in Space
       ELSE from > c /\ \A j \in (c + 1)..(from - 1) : text[j] \in Space

\* Where the cut is: an element, its comma behind or before it, and space.
LEMMA CutIs ==
    ASSUME NEW text \in Seq(Tokens), NEW e, e[1] \in Solid(text), e[2] \in Solid(text), e[1] <= e[2],
           NEW c \in 1..Len(text), NEW d \in 1..Len(text), c < e[1], e[2] < d,
           text[c] \notin Space, text[d] \notin Space,
           \A k \in (c + 1)..(e[1] - 1) : text[k] \in Space,
           \A k \in (e[2] + 1)..(d - 1) : text[k] \in Space
    PROVE  \E from \in 1..e[1], to \in e[2]..Len(text) : CutFrom(text, e, c, d, from, to)
<1>1. Len(text) \in Nat /\ e[1] \in 1..Len(text) /\ e[2] \in 1..Len(text) /\ DOMAIN text = 1..Len(text)
  BY DEF Solid
<1> DEFINE comma == After(text, e[2])
           behind == At(text, comma) = "comma"
           rest == {n \in comma..Len(text) : \A j \in (comma + 1)..n : text[j] = "sp"}
           eol == Greatest(rest)
           to == IF ~behind THEN e[2] ELSE IF At(text, eol + 1) = "nl" THEN eol + 1 ELSE eol
           before == Before(text, e[1])
           cut == IF ~behind /\ text[before] = "comma" THEN before ELSE e[1]
           froms == {n \in 1..cut : \A j \in n..(cut - 1) : text[j] = "sp"}
           from == Least(froms)
<1>2. comma = d
  <2>1. e[2] \in 0..Len(text) /\ d \in (e[2] + 1)..Len(text)
    BY <1>1
  <2> QED
    BY <2>1, AfterOnly
<1>3. before = c
  <2>1. e[1] \in 1..(Len(text) + 1) /\ c \in 1..(e[1] - 1)
    BY <1>1
  <2> QED
    BY <2>1, BeforeOnly
<1>4. behind <=> text[d] = "comma"
  BY <1>1, <1>2 DEF At
<1>5. eol \in rest
  <2>1. d \in rest
    BY <1>1, <1>2
  <2>2. rest \in SUBSET Nat /\ rest # {} /\ \A k \in rest : k <= Len(text)
    BY <1>1, <1>2, <2>1
  <2> HIDE DEF rest
  <2> QED
    BY <1>1, <2>2, GreatestIs
<1>6. eol \in d..Len(text) /\ \A j \in (d + 1)..eol : text[j] = "sp"
  BY <1>2, <1>5
<1>7. cut \in 1..e[1]
  BY <1>1, <1>3
<1>8. from \in froms
  <2>1. cut \in froms
    BY <1>1, <1>7
  <2>2. froms \in SUBSET Nat /\ froms # {}
    BY <1>1, <1>7, <2>1
  <2> HIDE DEF froms
  <2> QED
    BY <2>2, LeastIs
<1>9. from \in 1..cut /\ \A j \in from..(cut - 1) : text[j] = "sp"
  BY <1>8
<1>10. Cut(text, e) = SubSeq(text, 1, from - 1) \o SubSeq(text, to + 1, Len(text))
  BY DEF Cut
<1>11. cut = IF text[d] # "comma" /\ text[c] = "comma" THEN c ELSE e[1]
  BY <1>3, <1>4
<1>12. CASE text[d] = "comma"
  <2>1. /\ to = IF At(text, eol + 1) = "nl" THEN eol + 1 ELSE eol
        /\ cut = e[1]
    BY <1>4, <1>11, <1>12
  <2> HIDE DEF to, cut, eol, from, comma, behind, before
  <2>2. to \in e[2]..Len(text) /\ to >= d /\ \A j \in (d + 1)..to : text[j] \in Space
    <3>1. CASE At(text, eol + 1) = "nl"
      <4>1. eol + 1 \in 1..Len(text) /\ text[eol + 1] = "nl" /\ to = eol + 1
        BY <1>1, <2>1, <3>1 DEF At
      <4>2. ASSUME NEW j \in (d + 1)..to PROVE text[j] \in Space
        <5>1. j \in (d + 1)..eol \/ j = eol + 1
          BY <1>6, <4>1
        <5> QED
          BY <1>6, <4>1, <5>1 DEF Space
      <4> QED
        BY <1>1, <1>6, <4>1, <4>2
    <3>2. CASE At(text, eol + 1) # "nl"
      BY <1>1, <1>6, <2>1, <3>2 DEF Space
    <3> QED
      BY <3>1, <3>2
  <2>3. from \in 1..e[1] /\ from > c /\ \A j \in (c + 1)..(from - 1) : text[j] \in Space
    <3>1. from \in 1..e[1] /\ \A j \in from..(e[1] - 1) : text[j] = "sp"
      BY <1>9, <2>1
    <3>2. from > c
      <4>1. c \in from..(e[1] - 1) => text[c] \in Space
        BY <3>1 DEF Space
      <4> QED
        BY <1>1, <3>1, <4>1
    <3> QED
      BY <1>1, <3>1, <3>2
  <2> QED
    BY <1>10, <1>12, <2>2, <2>3 DEF CutFrom
<1>13. CASE text[d] # "comma"
  <2>1. to = e[2]
    BY <1>4, <1>13
  <2>2. e[2] \in e[2]..Len(text)
    BY <1>1
  <2> HIDE DEF to, cut, eol, from, comma, behind, before
  <2>3. CASE text[c] = "comma"
    <3>1. cut = c
      BY <1>11, <1>13, <2>3
    <3>2. from \in 1..e[1] /\ from <= c /\ \A j \in from..(c - 1) : text[j] \in Space
      BY <1>1, <1>9, <3>1 DEF Space
    <3> QED
      BY <1>10, <1>13, <2>1, <2>2, <2>3, <3>2 DEF CutFrom
  <2>4. CASE text[c] # "comma"
    <3>1. cut = e[1]
      BY <1>11, <2>4
    <3>2. from \in 1..e[1] /\ \A j \in from..(e[1] - 1) : text[j] = "sp"
      BY <1>9, <3>1
    <3>3. from > c
      <4>1. c \in from..(e[1] - 1) => text[c] \in Space
        BY <3>2 DEF Space
      <4> QED
        BY <1>1, <3>2, <4>1
    <3>4. \A j \in (c + 1)..(from - 1) : text[j] \in Space
      BY <1>1, <3>2, <3>3
    <3> QED
      BY <1>10, <1>13, <2>1, <2>2, <2>4, <3>2, <3>3, <3>4 DEF CutFrom
  <2> QED
    BY <2>3, <2>4
<1> QED
  BY <1>12, <1>13

LEMMA TwoParts ==
    ASSUME NEW S, NEW x \in Seq(S), NEW y \in Seq(S)
    PROVE  /\ x \o y \in Seq(S) /\ Len(x \o y) = Len(x) + Len(y) /\ Len(x) \in Nat /\ Len(y) \in Nat
           /\ \A k \in 1..Len(x) : (x \o y)[k] = x[k]
           /\ \A k \in 1..Len(y) : (x \o y)[Len(x) + k] = y[k]
<1> DEFINE b == x \o y
<1>1. Len(x) \in Nat /\ Len(y) \in Nat
  OBVIOUS
<1>2. /\ b \in Seq(S) /\ Len(b) = Len(x) + Len(y)
      /\ \A i \in 1..(Len(x) + Len(y)) : b[i] = IF i <= Len(x) THEN x[i] ELSE y[i - Len(x)]
  BY ConcatProperties
<1> HIDE DEF b
<1>3. ASSUME NEW k \in 1..Len(x) PROVE b[k] = x[k]
  <2>1. k \in 1..(Len(x) + Len(y)) /\ k <= Len(x)
    BY <1>1
  <2> QED
    BY <1>2, <2>1
<1>4. ASSUME NEW k \in 1..Len(y) PROVE b[Len(x) + k] = y[k]
  <2>1. Len(x) + k \in 1..(Len(x) + Len(y)) /\ ~(Len(x) + k <= Len(x)) /\ (Len(x) + k) - Len(x) = k
    BY <1>1
  <2> QED
    BY <1>2, <2>1
<1> QED
  BY <1>1, <1>2, <1>3, <1>4 DEF b

\* Texts that begin alike are read alike as far as that.
LEMMA SamePrefix ==
    ASSUME NEW a \in Seq(Tokens), NEW b \in Seq(Tokens), NEW i \in 0..Len(a), i <= Len(b),
           \A k \in 1..i : b[k] = a[k], NEW st
    PROVE  \A k \in 0..i : Steps(st, b)[k] = Steps(st, a)[k]
<1>1. Len(a) \in Nat /\ Len(b) \in Nat /\ 0 \in 0..Len(a) /\ i \in 0..Len(a)
  OBVIOUS
<1> DEFINE T == {k \in 0..i : Steps(st, b)[k] = Steps(st, a)[k]}
<1>2. 0 \in T
  <2>1. Steps(st, b)[0] = st /\ Steps(st, a)[0] = st
    BY StepsAre
  <2> QED
    BY <1>1, <2>1
<1>3. ASSUME NEW k \in 0..(i - 1), k \in T PROVE k + 1 \in T
  <2>1. k + 1 \in 1..Len(a) /\ k + 1 \in 1..Len(b) /\ (k + 1) - 1 = k /\ k + 1 \in 1..i /\ k + 1 \in 0..i
    BY <1>1
  <2>2. Steps(st, b)[k + 1] = ReadToken(Steps(st, b)[k], b[k + 1])
    BY <2>1, StepsAre
  <2>3. Steps(st, a)[k + 1] = ReadToken(Steps(st, a)[k], a[k + 1])
    BY <2>1, StepsAre
  <2> QED
    BY <1>3, <2>1, <2>2, <2>3
<1> HIDE DEF T
<1>4. \A k \in 0..i : k \in T
  BY <1>1, <1>2, <1>3, AlongSteps
<1> QED
  BY <1>4 DEF T

\* A text of which what is between i and j is gone.
LEMMA JoinedIs ==
    ASSUME NEW a \in Seq(Tokens), NEW i \in 0..Len(a), NEW j \in 0..Len(a),
           NEW b, b = SubSeq(a, 1, i) \o SubSeq(a, j + 1, Len(a))
    PROVE  /\ b \in Seq(Tokens) /\ Len(b) = i + (Len(a) - j)
           /\ \A k \in 1..i : b[k] = a[k]
           /\ \A k \in 1..(Len(a) - j) : a[j + k] = b[i + k]
<1>1. Len(a) \in Nat
  OBVIOUS
<1> DEFINE x == SubSeq(a, 1, i)
           y == SubSeq(a, j + 1, Len(a))
<1>2. x \in Seq(Tokens) /\ Len(x) = i /\ \A k \in 1..i : x[k] = a[k]
  BY <1>1
<1>3. y \in Seq(Tokens) /\ Len(y) = Len(a) - j /\ \A k \in 1..(Len(a) - j) : y[k] = a[j + k]
  BY <1>1
<1>4. b = x \o y
  OBVIOUS
<1>5. /\ b \in Seq(Tokens) /\ Len(b) = Len(x) + Len(y)
      /\ \A k \in 1..Len(x) : b[k] = x[k]
      /\ \A k \in 1..Len(y) : b[Len(x) + k] = y[k]
  <2>1. x \in Seq(Tokens) /\ y \in Seq(Tokens)
    BY <1>2, <1>3
  <2> HIDE DEF x, y
  <2> QED
    <3>1. /\ x \o y \in Seq(Tokens) /\ Len(x \o y) = Len(x) + Len(y)
          /\ \A k \in 1..Len(x) : (x \o y)[k] = x[k]
          /\ \A k \in 1..Len(y) : (x \o y)[Len(x) + k] = y[k]
      BY <2>1, TwoParts
    <3> QED
      BY <1>4, <3>1
<1> HIDE DEF x, y
<1> QED
  BY <1>2, <1>3, <1>5

\* The state at the end of an element and one in its array that a bracket can
\* follow.
LEMMA ClosesArray ==
    ASSUME NEW st, Sound(st), NEW key, InArray(st, key), Level(st) = 2,
           st.prev \in {"open", "value"}, NEW next, next = ReadToken(st, "rbrack")
    PROVE  /\ next.stack = <<"lbrace">> /\ next.prev = "value" /\ next.entry = <<>> /\ next.key = key
           /\ next.entries = IF st.entry # <<>> THEN Longer(st.entries, key, st.entry) ELSE st.entries
<1>1. "rbrack" \in Tokens /\ "rbrack" \in Closing /\ "rbrack" \notin Space
  BY DEF Tokens, Closing, Space
<1>2. In(st) = "lbrack" /\ st.stack # <<>>
  BY SoundIs DEF InArray
<1>3. ~Over(st) /\ Fits(st, "rbrack")
  BY <1>2 DEF Over, Fits
<1>4. EndsArray(st, "rbrack") /\ EndsElement(st, "rbrack")
  BY DEF EndsArray, EndsElement
<1>5. next.stack = <<"lbrace">> /\ next.prev = "value" /\ next.entry = <<>>
  BY <1>1, <1>3, <1>4, InArrayRead
<1>6. /\ next.key = key
      /\ next.entries = IF EndsElement(st, "rbrack") /\ st.entry # <<>>
                        THEN Longer(st.entries, key, st.entry) ELSE st.entries
  BY <1>1, <1>3, InArrayEntries
<1> QED
  BY <1>4, <1>5, <1>6

\* One more at the end of the array.
LEMMA OneMoreLast ==
    ASSUME NEW f \in Table, NEW key \in DOMAIN f, NEW e \in Seq(Tokens), NEW n, n = Len(f[key]) + 1
    PROVE  /\ OneMore(Longer(f, key, e), f, key, n)
           /\ Longer(f, key, e)[key][n] = e /\ Len(Longer(f, key, e)[key]) = n
<1>1. f[key] \in Seq(Seq(Tokens)) /\ Len(f[key]) \in Nat
  BY TableIs
<1> DEFINE s == f[key]
           g == Longer(f, key, e)
<1>2. DOMAIN g = DOMAIN f /\ g[key] = Append(s, e) /\ \A o \in DOMAIN f : o # key => g[o] = f[o]
  BY MoreEntries
<1> HIDE DEF s, g
<1>3. s \in Seq(Seq(Tokens)) /\ Len(s) \in Nat /\ n = Len(s) + 1
  BY <1>1 DEF s
<1>4. /\ Append(s, e) \in Seq(Seq(Tokens)) /\ Len(Append(s, e)) = n /\ n \in 1..n
      /\ Append(s, e)[n] = e /\ \A i \in 1..Len(s) : Append(s, e)[i] = s[i]
  BY <1>3
<1>5. Without(Append(s, e), n) = s
  <2>1. /\ Without(Append(s, e), n) \in Seq(Seq(Tokens)) /\ Len(Without(Append(s, e), n)) = Len(s)
        /\ \A i \in 1..Len(s) : Without(Append(s, e), n)[i] = Append(s, e)[i]
    <3> DEFINE w == Append(s, e)
    <3>1. w \in Seq(Seq(Tokens)) /\ n \in 1..Len(w) /\ Len(w) = n
      BY <1>4
    <3> HIDE DEF w
    <3>2. /\ Without(w, n) \in Seq(Seq(Tokens)) /\ Len(Without(w, n)) = Len(w) - 1
          /\ \A i \in 1..(Len(w) - 1) : Without(w, n)[i] = IF i < n THEN w[i] ELSE w[i + 1]
      BY <3>1, WithoutIs
    <3>3. Len(w) - 1 = Len(s) /\ \A i \in 1..Len(s) : i < n
      BY <1>3, <3>1
    <3>4. /\ Without(w, n) \in Seq(Seq(Tokens)) /\ Len(Without(w, n)) = Len(s)
          /\ \A i \in 1..Len(s) : Without(w, n)[i] = w[i]
      BY <3>2, <3>3
    <3> QED
      BY <3>4 DEF w
  <2> DEFINE w == Without(Append(s, e), n)
  <2> HIDE DEF w
  <2>2. w \in Seq(Seq(Tokens)) /\ Len(w) = Len(s) /\ \A i \in 1..Len(s) : w[i] = s[i]
    BY <1>4, <2>1 DEF w
  <2>3. w = s
    BY <1>3, <2>2, SeqEqual
  <2> QED
    BY <2>3 DEF w
<1>6. n \in 1..Len(g[key]) /\ f[key] = Without(g[key], n)
  BY <1>2, <1>4, <1>5 DEF s
<1> QED
  BY <1>2, <1>4, <1>6 DEF OneMore, g

\* From where the rest of the text is the same, the rest of what is read is.
LEMMA RemovedTail ==
    ASSUME NEW a \in Seq(Tokens), NEW b \in Seq(Tokens), Plain(a),
           NEW A, A = Steps(Start, a), NEW B, B = Steps(Start, b),
           NEW key \in Arrays, NEW p \in Keyed(a, key), NEW i \in p..Len(a), NEW j \in 0..Len(b),
           NEW m \in Nat, i + m = Len(a), j + m = Len(b), SameAfter(a, b, i, j, m),
           NEW n, Twin(A[i], B[j], key, n), A[i].prev = B[j].prev \/ A[i].prev = "comma"
    PROVE  OneGone(a, b, key, n) /\ Entries(a, key)[n] = A[i].entries[key][n]
<1>1. Len(a) \in Nat /\ Len(b) \in Nat /\ p \in 1..Len(a) /\ i \in 0..Len(a) /\ i >= p
  <2>1. Len(a) \in Nat /\ Len(b) \in Nat
    OBVIOUS
  <2>2. p \in 1..Len(a)
    BY KeyRead
  <2> QED
    BY <2>1, <2>2
<1>2. i + m <= Len(a) /\ j + m <= Len(b) /\ m \in 0..m
  BY <1>1
<1>3. \A k \in 0..m : A[i + k].prev # "bad"
  <2>1. ASSUME NEW k \in 0..m PROVE i + k \in 0..Len(a)
    BY <1>1, <1>2
  <2> QED
    BY <2>1, PlainReads
<1>4. ASSUME NEW k \in 0..(m - 1) PROVE ~Again(A[i + k], a[i + (k + 1)], key)
  <2>1. i + (k + 1) \in 1..Len(a) /\ i + (k + 1) # p /\ (i + (k + 1)) - 1 = i + k
    BY <1>1, <1>2
  <2>2. ~Again(A[(i + (k + 1)) - 1], a[i + (k + 1)], key)
    BY <2>1, NotAgain
  <2> QED
    BY <2>1, <2>2
<1>5. \A k \in 0..m : TwinAfter(A, B, i, j, k, key, n)
  <2>1. OnceAfter(A, a, i, m, key) /\ FitAfter(A, i, m)
    BY <1>3, <1>4 DEF OnceAfter, FitAfter
  <2> QED
    BY <1>1, <1>2, <2>1, TwinTail
<1>6. TwinAfter(A, B, i, j, m, key, n)
  BY <1>2, <1>5
<1>7. /\ Twin(A[Len(a)], B[Len(b)], key, n)
      /\ A[Len(a)].entries[key][n] = A[i].entries[key][n]
      /\ A[Len(a)].prev = B[Len(b)].prev \/ A[Len(a)].prev = "comma"
  BY <1>2, <1>6 DEF TwinAfter
<1>8. TwinsRead(a, b, A, B, key, n)
  BY <1>7 DEF Plain, TwinsRead
<1>9. /\ OneGone(a, b, key, n)
       /\ Entries(a, key) = A[Len(a)].entries[key] /\ Entries(b, key) = B[Len(b)].entries[key]
  BY <1>8, TwinEnd
<1> QED
  BY <1>7, <1>9

\* The state in which an element of the array is begun.
LEMMA ArrayKnown ==
    ASSUME NEW text \in Seq(Tokens), Plain(text), NEW R, R = Steps(Start, text),
           NEW key \in Arrays, NEW p \in Keyed(text, key), NEW span, span = ArraySpan(text, key),
           NEW c \in Cuts(text, span)
    PROVE  /\ c \in 1..Len(text) /\ c >= p
           /\ c # span.close =>
                 /\ R[c].stack = <<"lbrace", "lbrack">> /\ R[c].key = key /\ R[c].entry = <<>>
                 /\ R[c].prev \in {"open", "comma"} /\ key \in DOMAIN R[c].entries
                 /\ R[c].entries[key] \in Seq(Seq(Tokens)) /\ R[c].entries \in Table
<1>1. Len(text) \in Nat /\ p \in 1..Len(text) /\ span.open \in (p + 1)..Len(text)
  <2>1. Len(text) \in Nat
    OBVIOUS
  <2>2. p \in 1..Len(text)
    BY KeyRead
  <2> DEFINE open == After(text, After(text, p))
  <2>3. open \in (p + 1)..Len(text) /\ span.open = open
    <3>1. open \in (p + 1)..Len(text)
      BY OpenRead
    <3>2. span.open = open
      BY ArrayFound
    <3> QED
      BY <3>1, <3>2
  <2> QED
    BY <2>1, <2>2, <2>3
<1>2. Keyed(text, key) # {}
  OBVIOUS
<1>3. /\ Cuts(text, span) \subseteq span.open..span.close
      /\ span.close \in (span.open + 1)..Len(text)
      /\ c # span.close =>
            /\ InArray(R[c], key) /\ Level(R[c]) = 2 /\ R[c].entry = <<>>
            /\ R[c].prev = IF c = span.open THEN "open" ELSE "comma"
  BY <1>2, CutsAre
<1>4. c \in 1..Len(text) /\ c >= p
  <2>1. c \in span.open..span.close
    BY <1>3
  <2> QED
    BY <1>1, <1>3, <2>1
<1>5. Sound(R[c])
  BY <1>1, <1>4, PlainReads
<1>6. CASE c # span.close
  <2>1. R[c].stack \in Seq(Opening) /\ R[c].entries \in Table
    BY <1>5, SoundIs
  <2>2. Len(R[c].stack) = 2 /\ R[c].stack[1] = "lbrace" /\ R[c].stack[2] = "lbrack"
    BY <1>3, <1>6 DEF InArray, Level
  <2>3. R[c].stack = <<"lbrace", "lbrack">>
    <3> DEFINE s == R[c].stack
    <3>1. s \in Seq(Opening) /\ Len(s) = 2 /\ s[1] = "lbrace" /\ s[2] = "lbrack"
      BY <2>1, <2>2
    <3> HIDE DEF s
    <3>2. s = <<"lbrace", "lbrack">>
      BY <3>1
    <3> QED
      BY <3>2 DEF s
  <2>4. key \in DOMAIN R[c].entries
    <3>1. Level(R[c]) > 1
      BY <1>3, <1>6
    <3>2. R[c].key = key
      BY <1>3, <1>6 DEF InArray
    <3> QED
      BY <1>5, <3>1, <3>2, SoundSays
  <2>5. R[c].entries[key] \in Seq(Seq(Tokens))
    BY <2>1, <2>4, TableIs
  <2> QED
    BY <1>3, <1>4, <1>6, <2>1, <2>3, <2>4, <2>5 DEF InArray
<1> QED
  BY <1>4, <1>6

\* The element that is cut out, between the cuts c and d, is the n-th entry.
Removing(a, A, key, e, c, d, n) ==
    /\ c \in 1..Len(a) /\ d \in 1..Len(a) /\ c < e[1] /\ e[1] <= e[2] /\ e[2] < d
    /\ e[1] \in Solid(a) /\ e[2] \in Solid(a) /\ a[c] \notin Space /\ a[d] \notin Space
    /\ \A k \in (c + 1)..(e[1] - 1) : a[k] \in Space
    /\ \A k \in (e[2] + 1)..(d - 1) : a[k] \in Space
    /\ A[c].stack = <<"lbrace", "lbrack">> /\ A[c].key = key /\ A[c].entry = <<>>
    /\ IF a[c] = "comma"
       THEN A[c].prev = "comma" /\ InArray(A[c - 1], key) /\ Level(A[c - 1]) = 2
       ELSE A[c].prev = "open"
    /\ InArray(A[d - 1], key) /\ Level(A[d - 1]) = 2 /\ A[d - 1].prev = "value" /\ A[d - 1] = A[e[2]]
    /\ IF a[d] = "comma" THEN A[d].stack = <<"lbrace", "lbrack">> /\ A[d].key = key /\ A[d].entry = <<>>
                              /\ A[d].prev = "comma"
       ELSE a[d] = "rbrack"
    /\ OneMore(A[d].entries, A[c].entries, key, n) /\ A[d].entries[key][n] = A[e[2]].entry

\* What is cut out of an array, and the states around it.
LEMMA RemovingIs ==
    ASSUME NEW a \in Seq(Tokens), Plain(a), NEW A, A = Steps(Start, a),
           NEW key \in Arrays, NEW p \in Keyed(a, key), NEW span, span = ArraySpan(a, key),
           NEW e \in Elements(a, span)
    PROVE  \E c, d, n \in Nat : c >= p /\ Removing(a, A, key, e, c, d, n)
<1>1. Cuts(a, span) \subseteq 1..Len(a) /\ Keyed(a, key) # {}
  BY ArrayKnown
<1>2. PICK c, d \in Cuts(a, span) :
         /\ c < d /\ \A k \in Cuts(a, span) : ~(c < k /\ k < d)
         /\ e[1] = After(a, c) /\ e[2] = Before(a, d)
         /\ c < e[1] /\ e[1] <= e[2] /\ e[2] < d
         /\ e[1] \in Solid(a) /\ e[2] \in Solid(a)
         /\ \A k \in (c + 1)..(e[1] - 1) : a[k] \in Space
         /\ \A k \in (e[2] + 1)..(d - 1) : a[k] \in Space
  BY <1>1, ElementIs
<1>3. c \in 1..Len(a) /\ d \in 1..Len(a) /\ c >= p /\ Len(a) \in Nat /\ c \in Nat /\ d \in Nat
  <2>1. c \in 1..Len(a) /\ d \in 1..Len(a) /\ c >= p
    BY ArrayKnown
  <2> QED
    BY <2>1
<1>4. /\ Cuts(a, span) \subseteq span.open..span.close
      /\ span.open \in 1..Len(a) /\ span.close \in (span.open + 1)..Len(a)
      /\ \A x \in Cuts(a, span) :
            /\ a[x] \notin Space
            /\ x # span.close => A[x].prev = IF x = span.open THEN "open" ELSE "comma"
            /\ x # span.open => InArray(A[x - 1], key) /\ EndsElement(A[x - 1], a[x])
            /\ x = span.open => a[x] = "lbrack"
            /\ x = span.close => a[x] = "rbrack"
            /\ x # span.open /\ x # span.close => a[x] = "comma"
  BY <1>1, CutsAre
<1>5. c # span.close /\ d # span.open
  <2>1. c \in span.open..span.close /\ d \in span.open..span.close
    BY <1>4
  <2> QED
    BY <1>2, <1>3, <1>4, <2>1
<1>6. /\ A[c].stack = <<"lbrace", "lbrack">> /\ A[c].key = key /\ A[c].entry = <<>>
      /\ key \in DOMAIN A[c].entries
      /\ A[c].entries[key] \in Seq(Seq(Tokens)) /\ A[c].entries \in Table
  BY <1>5, ArrayKnown
<1>7. IF a[c] = "comma"
      THEN A[c].prev = "comma" /\ InArray(A[c - 1], key) /\ Level(A[c - 1]) = 2
      ELSE A[c].prev = "open"
  <2>1. CASE c = span.open
    BY <1>4, <1>5, <2>1
  <2>2. CASE c # span.open
    BY <1>4, <1>5, <2>2 DEF EndsElement
  <2> QED
    BY <2>1, <2>2
<1>8. InArray(A[d - 1], key) /\ Level(A[d - 1]) = 2
  BY <1>4, <1>5 DEF EndsElement
<1>9. /\ A[d - 1] = A[e[2]] /\ A[d - 1].prev = "value"
      /\ A[d].entries = Longer(A[c].entries, key, A[d - 1].entry)
  <2>1. e[2] \in Nat /\ c < e[2]
    BY <1>2, <1>3 DEF Solid
  <2> QED
    BY <1>1, <1>2, <2>1, ElementRead
<1>10. IF a[d] = "comma" THEN A[d].stack = <<"lbrace", "lbrack">> /\ A[d].key = key /\ A[d].entry = <<>>
                               /\ A[d].prev = "comma"
       ELSE a[d] = "rbrack"
  <2>1. CASE d = span.close
    BY <1>4, <2>1
  <2>2. CASE d # span.close
    BY <1>4, <1>5, <2>2, ArrayKnown
  <2> QED
    BY <2>1, <2>2
<1> DEFINE n == Len(A[c].entries[key]) + 1
<1>11. n \in Nat
  BY <1>6
<1>12. OneMore(A[d].entries, A[c].entries, key, n) /\ A[d].entries[key][n] = A[e[2]].entry
  <2> DEFINE f == A[c].entries
             x == A[d - 1].entry
  <2>1. f \in Table /\ key \in DOMAIN f /\ n = Len(f[key]) + 1
    BY <1>6
  <2>2. x \in Seq(Tokens)
    <3>1. d - 1 \in 0..Len(a)
      BY <1>3
    <3> QED
      BY <3>1, PlainReads, SoundIs
  <2> HIDE DEF f, x, n
  <2>3. OneMore(Longer(f, key, x), f, key, n) /\ Longer(f, key, x)[key][n] = x
    BY <2>1, <2>2, OneMoreLast
  <2> QED
    BY <1>9, <2>3 DEF f, x
<1>13. a[c] \notin Space /\ a[d] \notin Space
  BY <1>4
<1> HIDE DEF n
<1>14. Removing(a, A, key, e, c, d, n)
  BY <1>2, <1>3, <1>6, <1>7, <1>8, <1>9, <1>10, <1>12, <1>13 DEF Removing
<1> QED
  BY <1>3, <1>11, <1>14

LEMMA PairStack ==
    ASSUME NEW st, st.stack = <<"lbrace", "lbrack">>
    PROVE  Level(st) = 2 /\ In(st) = "lbrack"
<1>1. Len(st.stack) = 2 /\ st.stack # <<>> /\ st.stack[2] = "lbrack"
  OBVIOUS
<1> QED
  BY <1>1 DEF Level, In

\* With the comma behind it.
LEMMA RemovedBehind ==
    ASSUME NEW a \in Seq(Tokens), Plain(a), NEW A, A = Steps(Start, a),
           NEW key \in Arrays, NEW p \in Keyed(a, key), NEW e, NEW c \in Nat, NEW d \in Nat, NEW n \in Nat,
           c >= p, Removing(a, A, key, e, c, d, n), a[d] = "comma",
           NEW from \in 1..e[1], NEW to \in e[2]..Len(a), CutFrom(a, e, c, d, from, to),
           NEW b, b = Cut(a, e)
    PROVE  b \in Seq(Tokens) /\ OneGone(a, b, key, n) /\ Entries(a, key)[n] = A[e[2]].entry
<1>1. /\ c \in 1..Len(a) /\ d \in 1..Len(a) /\ e[1] \in 1..Len(a) /\ e[2] \in 1..Len(a)
      /\ c < e[1] /\ e[1] <= e[2] /\ e[2] < d /\ Len(a) \in Nat
  BY DEF Removing, Solid
<1>2. /\ to >= d /\ \A j \in (d + 1)..to : a[j] \in Space
      /\ from > c /\ \A j \in (c + 1)..(from - 1) : a[j] \in Space
      /\ b = SubSeq(a, 1, from - 1) \o SubSeq(a, to + 1, Len(a))
  BY DEF CutFrom
<1> DEFINE j == from - 1
<1>3. j \in 0..Len(a) /\ to \in 0..Len(a) /\ b = SubSeq(a, 1, j) \o SubSeq(a, to + 1, Len(a))
      /\ to \in p..Len(a) /\ d \in 0..Len(a) /\ c \in 0..Len(a) /\ to \in d..Len(a) /\ j \in c..Len(a)
      /\ p \in Nat
  <2>1. p \in Nat
    BY KeyRead
  <2> QED
    BY <1>1, <1>2, <2>1
<1>4. \A k \in (c + 1)..j : a[k] \in Space
  BY <1>2
<1> HIDE DEF j
<1>5. /\ b \in Seq(Tokens) /\ Len(b) = j + (Len(a) - to)
      /\ \A k \in 1..j : b[k] = a[k]
      /\ \A k \in 1..(Len(a) - to) : a[to + k] = b[j + k]
  <2>1. j \in 0..Len(a) /\ to \in 0..Len(a) /\ b = SubSeq(a, 1, j) \o SubSeq(a, to + 1, Len(a))
    BY <1>3
  <2> QED
    BY <2>1, JoinedIs
<1> DEFINE B == Steps(Start, b)
<1>6. A[to] = A[d]
  <2>1. to \in d..to
    BY <1>3
  <2>2. \A k \in d..to : Steps(Start, a)[k] = Steps(Start, a)[d]
    BY <1>2, <1>3, OverSpace
  <2> QED
    BY <2>1, <2>2
<1> DEFINE m == Len(a) - to
<1>7. /\ j \in 0..Len(b) /\ Len(b) \in Nat /\ j <= Len(b)
      /\ m \in Nat /\ to + m = Len(a) /\ j + m = Len(b) /\ SameAfter(a, b, to, j, m)
  <2>1. Len(b) = j + (Len(a) - to)
    BY <1>5
  <2>2. j \in Nat /\ to \in Nat /\ to <= Len(a) /\ Len(a) \in Nat
    BY <1>1, <1>3
  <2>3. /\ j \in 0..Len(b) /\ Len(b) \in Nat /\ j <= Len(b)
        /\ m \in Nat /\ to + m = Len(a) /\ j + m = Len(b)
    BY <2>1, <2>2
  <2> QED
    BY <1>5, <2>3 DEF SameAfter
<1> HIDE DEF m
<1>8. B[j] = A[c]
  <2>1. j \in c..j /\ j \in 0..j
    BY <1>3
  <2>2. \A k \in c..j : Steps(Start, a)[k] = Steps(Start, a)[c]
    BY <1>3, <1>4, OverSpace
  <2>3. \A k \in 0..j : Steps(Start, b)[k] = Steps(Start, a)[k]
    BY <1>3, <1>5, <1>7, SamePrefix
  <2> QED
    BY <2>1, <2>2, <2>3
<1>9. Twin(A[to], B[j], key, n) /\ A[to].prev = "comma"
  <2>1. /\ A[d].stack = <<"lbrace", "lbrack">> /\ A[d].key = key /\ A[d].entry = <<>> /\ A[d].prev = "comma"
        /\ A[c].stack = <<"lbrace", "lbrack">> /\ A[c].key = key /\ A[c].entry = <<>>
        /\ A[c].prev \in {"open", "comma"}
        /\ OneMore(A[d].entries, A[c].entries, key, n)
    BY DEF Removing
  <2>2. In(A[d]) = "lbrack" /\ Level(A[d]) = 2
    BY <2>1, PairStack
  <2>3. Alike(A[d], A[c])
    BY <2>1, <2>2 DEF Alike
  <2>4. Settled(A[d], key)
    BY <2>1 DEF Settled
  <2> QED
    BY <1>6, <1>8, <2>1, <2>3, <2>4 DEF Twin
<1>10. OneGone(a, b, key, n) /\ Entries(a, key)[n] = A[to].entries[key][n]
  <2>1. b \in Seq(Tokens) /\ B = Steps(Start, b) /\ to \in p..Len(a) /\ j \in 0..Len(b)
    BY <1>3, <1>5, <1>7
  <2>2. m \in Nat /\ to + m = Len(a) /\ j + m = Len(b) /\ SameAfter(a, b, to, j, m)
    BY <1>7
  <2> HIDE DEF B
  <2> QED
    BY <1>9, <2>1, <2>2, RemovedTail
<1>11. A[d].entries[key][n] = A[e[2]].entry
  BY DEF Removing
<1> QED
  BY <1>5, <1>6, <1>10, <1>11

\* The last one, with the comma before it if there is one.
LEMMA RemovedLast ==
    ASSUME NEW a \in Seq(Tokens), Plain(a), NEW A, A = Steps(Start, a),
           NEW key \in Arrays, NEW p \in Keyed(a, key), NEW e, NEW c \in Nat, NEW d \in Nat, NEW n \in Nat,
           c >= p, Removing(a, A, key, e, c, d, n), a[d] # "comma",
           NEW from \in 1..e[1], NEW to \in e[2]..Len(a), CutFrom(a, e, c, d, from, to),
           NEW b, b = Cut(a, e)
    PROVE  b \in Seq(Tokens) /\ OneGone(a, b, key, n) /\ Entries(a, key)[n] = A[e[2]].entry
<1>1. /\ c \in 1..Len(a) /\ d \in 1..Len(a) /\ e[1] \in 1..Len(a) /\ e[2] \in 1..Len(a)
      /\ c < e[1] /\ e[1] <= e[2] /\ e[2] < d /\ Len(a) \in Nat
  BY DEF Removing, Solid
<1>2. /\ to = e[2]
      /\ b = SubSeq(a, 1, from - 1) \o SubSeq(a, to + 1, Len(a))
      /\ IF a[c] = "comma"
         THEN from <= c /\ \A k \in from..(c - 1) : a[k] \in Space
         ELSE from > c /\ \A k \in (c + 1)..(from - 1) : a[k] \in Space
  BY DEF CutFrom
<1> DEFINE j == from - 1
<1>3. /\ j \in 0..Len(a) /\ to \in 0..Len(a) /\ b = SubSeq(a, 1, j) \o SubSeq(a, to + 1, Len(a))
      /\ j + 1 = from
  BY <1>1, <1>2
<1>4. d \in p..Len(a) /\ d - to \in 1..(Len(a) - to) /\ d - 1 \in 0..Len(a) /\ c - 1 \in 0..Len(a)
      /\ c \in 1..Len(a) /\ d \in 1..Len(a)
  <2>1. p \in Nat
    BY KeyRead
  <2> QED
    BY <1>1, <1>2, <2>1
<1>5. IF a[c] = "comma"
      THEN j \in 0..(c - 1) /\ \A k \in (j + 1)..(c - 1) : a[k] \in Space
      ELSE j \in c..Len(a) /\ \A k \in (c + 1)..j : a[k] \in Space
  BY <1>1, <1>2
<1> HIDE DEF j
<1>6. /\ b \in Seq(Tokens) /\ Len(b) = j + (Len(a) - to)
      /\ \A k \in 1..j : b[k] = a[k]
      /\ \A k \in 1..(Len(a) - to) : a[to + k] = b[j + k]
  BY <1>3, JoinedIs
<1>7. j \in 0..Len(b) /\ Len(b) \in Nat /\ j <= Len(b) /\ Len(b) = j + (Len(a) - to)
  <2>1. Len(b) = j + (Len(a) - to)
    BY <1>6
  <2>2. j \in Nat /\ to \in Nat /\ to <= Len(a) /\ Len(a) \in Nat
    BY <1>1, <1>3
  <2> QED
    BY <2>1, <2>2
<1> DEFINE B == Steps(Start, b)
           w == B[j]
           q == j + (d - to)
<1>8. B[j] = A[j]
  <2>1. \A k \in 0..j : Steps(Start, b)[k] = Steps(Start, a)[k]
    BY <1>3, <1>6, <1>7, SamePrefix
  <2> QED
    BY <1>3, <2>1
<1>9. /\ InArray(w, key) /\ Level(w) = 2 /\ w.prev \in {"open", "value"}
      /\ A[c].entries = IF w.entry # <<>> THEN Longer(w.entries, key, w.entry) ELSE w.entries
  <2>1. CASE a[c] = "comma"
    <3>1. A[c - 1] = A[j]
      <4>1. j \in 0..Len(a) /\ c - 1 \in j..Len(a) /\ c - 1 \in j..(c - 1)
        BY <1>4, <1>5, <2>1
      <4>2. \A k \in (j + 1)..(c - 1) : a[k] \in Space
        BY <1>5, <2>1
      <4>3. \A k \in j..(c - 1) : Steps(Start, a)[k] = Steps(Start, a)[j]
        BY <4>1, <4>2, OverSpace
      <4> QED
        BY <4>1, <4>3
    <3>2. InArray(A[c - 1], key) /\ Level(A[c - 1]) = 2
      BY <2>1 DEF Removing
    <3>3. A[c] = ReadToken(A[c - 1], "comma") /\ Sound(A[c - 1]) /\ ~Over(A[c - 1]) /\ Fits(A[c - 1], "comma")
          /\ "comma" \in Tokens
      <4>1. a[c] \notin Space
        BY DEF Removing
      <4> QED
        BY <1>4, <2>1, <4>1, PlainReads
    <3>4. A[c - 1].prev = "value"
      BY <3>3, CommaRead
    <3>5. A[c].entries = IF EndsElement(A[c - 1], "comma") /\ A[c - 1].entry # <<>>
                         THEN Longer(A[c - 1].entries, key, A[c - 1].entry) ELSE A[c - 1].entries
      BY <3>2, <3>3, InArrayEntries
    <3>6. EndsElement(A[c - 1], "comma")
      BY <3>2 DEF EndsElement
    <3>7. w = A[c - 1]
      BY <1>8, <3>1
    <3> HIDE DEF w
    <3> QED
      BY <3>2, <3>4, <3>5, <3>6, <3>7
  <2>2. CASE a[c] # "comma"
    <3>1. w = A[c]
      <4>1. c \in 0..Len(a) /\ j \in c..Len(a) /\ j \in c..j
        BY <1>4, <1>5, <2>2
      <4>2. \A k \in (c + 1)..j : a[k] \in Space
        BY <1>5, <2>2
      <4>3. \A k \in c..j : Steps(Start, a)[k] = Steps(Start, a)[c]
        BY <4>1, <4>2, OverSpace
      <4> QED
        BY <1>8, <4>1, <4>3
    <3>2. A[c].stack = <<"lbrace", "lbrack">> /\ A[c].key = key /\ A[c].entry = <<>> /\ A[c].prev = "open"
      BY <2>2 DEF Removing
    <3>3. Level(A[c]) = 2
      BY <3>2, PairStack
    <3>4. InArray(A[c], key)
      BY <3>2, <3>3 DEF InArray
    <3> HIDE DEF w
    <3> QED
      BY <3>1, <3>2, <3>3, <3>4
  <2> QED
    BY <2>1, <2>2
<1>10. q \in 1..Len(b) /\ q - 1 \in j..Len(b) /\ q - 1 \in j..(q - 1) /\ q - 1 \in 0..Len(b) /\ b[q] = "rbrack"
  <2>1. q \in 1..Len(b) /\ q - 1 \in j..Len(b) /\ q - 1 \in j..(q - 1) /\ q - 1 \in 0..Len(b)
    <3>1. d - to \in 1..(Len(a) - to) /\ j \in Nat /\ to \in Nat /\ Len(a) \in Nat
      BY <1>1, <1>3, <1>4
    <3> QED
      BY <1>7, <3>1
  <2>2. a[to + (d - to)] = b[j + (d - to)]
    BY <1>4, <1>6
  <2>3. to + (d - to) = d
    BY <1>3, <1>4
  <2>4. a[d] = "rbrack"
    BY DEF Removing
  <2> QED
    BY <2>1, <2>2, <2>3, <2>4
<1>11. B[q - 1] = w
  <2>1. ASSUME NEW k \in (j + 1)..(q - 1) PROVE b[k] \in Space
    <3> DEFINE l == k - j
    <3>1. l \in 1..(Len(a) - to) /\ j + l = k /\ to + l \in (to + 1)..(d - 1)
      BY <1>3, <1>4, <1>7
    <3> HIDE DEF l
    <3>2. a[to + l] = b[j + l]
      BY <1>6, <3>1
    <3>3. a[to + l] \in Space
      BY <1>2, <3>1 DEF Removing
    <3> QED
      BY <3>1, <3>2, <3>3
  <2> HIDE DEF q
  <2>2. \A k \in j..(q - 1) : Steps(Start, b)[k] = Steps(Start, b)[j]
    BY <1>6, <1>7, <1>10, <2>1, OverSpace
  <2> QED
    BY <1>10, <2>2
<1> HIDE DEF q
<1>12. B[q] = ReadToken(w, "rbrack")
  <2>1. Steps(Start, b)[q] = ReadToken(Steps(Start, b)[q - 1], b[q])
    BY <1>6, <1>10, StepsAre
  <2> QED
    BY <1>10, <1>11, <2>1
<1>13. Sound(w)
  BY <1>6, <1>7, StartSound, SoundSteps
<1>14. /\ B[q].stack = <<"lbrace">> /\ B[q].prev = "value" /\ B[q].entry = <<>> /\ B[q].key = key
       /\ B[q].entries = A[c].entries
  <2> HIDE DEF w
  <2> DEFINE x == B[q]
  <2>1. x = ReadToken(w, "rbrack")
    BY <1>12
  <2> HIDE DEF x
  <2>2. /\ x.stack = <<"lbrace">> /\ x.prev = "value" /\ x.entry = <<>> /\ x.key = key
        /\ x.entries = IF w.entry # <<>> THEN Longer(w.entries, key, w.entry) ELSE w.entries
    BY <1>9, <1>13, <2>1, ClosesArray
  <2> QED
    BY <1>9, <2>2 DEF x
<1>15. A[d].stack = <<"lbrace">> /\ A[d].prev = "value" /\ A[d].entry = <<>> /\ A[d].key = key
  <2>1. InArray(A[d - 1], key) /\ Level(A[d - 1]) = 2 /\ A[d - 1].prev = "value" /\ a[d] = "rbrack"
    BY DEF Removing
  <2>2. A[d] = ReadToken(A[d - 1], "rbrack") /\ Sound(A[d - 1])
    BY <1>4, <2>1, PlainReads
  <2> QED
    BY <2>1, <2>2, ClosesArray
<1>16. Twin(A[d], B[q], key, n) /\ A[d].prev = B[q].prev
  <2>1. OneMore(A[d].entries, B[q].entries, key, n)
    BY <1>14 DEF Removing
  <2>2. Alike(A[d], B[q]) /\ Settled(A[d], key)
    BY <1>14, <1>15 DEF Alike, Settled
  <2> QED
    BY <1>14, <1>15, <2>1, <2>2 DEF Twin
<1> DEFINE m == Len(a) - d
<1>17. q \in 0..Len(b) /\ m \in Nat /\ d + m = Len(a) /\ q + m = Len(b)
  <2>1. q \in 0..Len(b)
    BY <1>7, <1>10
  <2>2. j \in Nat /\ to \in Nat /\ Len(a) \in Nat /\ d \in Nat /\ d <= Len(a)
    BY <1>1, <1>3, <1>4
  <2>3. m \in Nat /\ d + m = Len(a) /\ q + m = Len(b)
    BY <1>7, <2>2 DEF q
  <2> QED
    BY <2>1, <2>3
<1> HIDE DEF m
<1>18. SameAfter(a, b, d, q, m)
  <2>1. ASSUME NEW k \in 1..m PROVE a[d + k] = b[q + k]
    <3> DEFINE l == (d - to) + k
    <3>1. l \in 1..(Len(a) - to) /\ to + l = d + k /\ j + l = q + k
      BY <1>1, <1>3, <1>4, <1>17 DEF q
    <3> HIDE DEF l
    <3>2. a[to + l] = b[j + l]
      BY <1>6, <3>1
    <3> QED
      BY <3>1, <3>2
  <2>2. d + m <= Len(a) /\ q + m <= Len(b)
    BY <1>1, <1>7, <1>17
  <2> QED
    BY <2>1, <2>2 DEF SameAfter
<1>19. OneGone(a, b, key, n) /\ Entries(a, key)[n] = A[d].entries[key][n]
  <2>1. b \in Seq(Tokens) /\ B = Steps(Start, b) /\ d \in p..Len(a) /\ q \in 0..Len(b)
    BY <1>4, <1>6, <1>17
  <2>2. m \in Nat /\ d + m = Len(a) /\ q + m = Len(b) /\ SameAfter(a, b, d, q, m)
    BY <1>17, <1>18
  <2>3. Twin(A[d], B[q], key, n) /\ (A[d].prev = B[q].prev \/ A[d].prev = "comma")
    BY <1>16
  <2> HIDE DEF B, w
  <2> QED
    BY <2>1, <2>2, <2>3, RemovedTail
<1>20. A[d].entries[key][n] = A[e[2]].entry
  BY DEF Removing
<1> QED
  BY <1>6, <1>19, <1>20

\* Cutting an element out is taking one entry away, the one that is read in it.
LEMMA RemovalReads ==
    ASSUME NEW a \in Seq(Tokens), Plain(a), NEW A, A = Steps(Start, a),
           NEW key \in Arrays, NEW p \in Keyed(a, key),
           NEW e \in Elements(a, ArraySpan(a, key)), NEW b, b = Cut(a, e)
    PROVE  /\ b \in Seq(Tokens)
           /\ \E n : OneGone(a, b, key, n) /\ Entries(a, key)[n] = A[e[2]].entry
<1>1. PICK c, d, n \in Nat : c >= p /\ Removing(a, A, key, e, c, d, n)
  BY RemovingIs
<1>2. PICK from \in 1..e[1], to \in e[2]..Len(a) : CutFrom(a, e, c, d, from, to)
  BY <1>1, CutIs DEF Removing
<1>3. CASE a[d] = "comma"
  BY <1>1, <1>2, <1>3, RemovedBehind
<1>4. CASE a[d] # "comma"
  BY <1>1, <1>2, <1>4, RemovedLast
<1> QED
  BY <1>3, <1>4

-----------------------------------------------------------------------------
(* Adding an entry *)

LEMMA StackOfPair ==
    ASSUME NEW st, Sound(st), NEW key, InArray(st, key), Level(st) = 2
    PROVE  st.stack = <<"lbrace", "lbrack">>
<1> DEFINE s == st.stack
<1>1. s \in Seq(Opening)
  BY SoundIs
<1>2. Len(s) = 2 /\ s[1] = "lbrace" /\ s[2] = "lbrack"
  BY DEF InArray, Level
<1> HIDE DEF s
<1>3. s = <<"lbrace", "lbrack">>
  BY <1>1, <1>2
<1> QED
  BY <1>3 DEF s

LEMMA WithinSound ==
    /\ Sound(Within) /\ Within.stack = <<"lbrace", "lbrack">> /\ Within.prev = "open"
    /\ Within.entry = <<>>
<1> DEFINE s == <<"lbrace", "lbrack">>
           f == [k \in {""} |-> <<>>]
           e == <<>>
<1>1. s \in Seq(Opening) /\ Len(s) = 2 /\ s[1] = "lbrace" /\ s[2] = "lbrack"
  BY DEF Opening
<1>2. f \in Table /\ "" \in DOMAIN f
  <2>1. {""} \in SUBSET Tokens
    BY DEF Tokens
  <2>2. f \in [{""} -> Seq(Seq(Tokens))]
    OBVIOUS
  <2> HIDE DEF f
  <2>3. f \in Table
    BY <2>1, <2>2, TableOf
  <2>4. DOMAIN f = {""}
    BY DEF f
  <2> QED
    BY <2>3, <2>4
<1>3. e \in Seq(Tokens) /\ "" \in Tokens /\ "open" \in Previous
  BY DEF Tokens, Previous
<1> HIDE DEF s, f, e
<1>4. /\ Within.stack = s /\ Within.prev = "open" /\ Within.key = "" /\ Within.entry = e
      /\ Within.entries = f
      /\ Within \in [stack : Seq(Opening), prev : Previous, key : Tokens, entry : Seq(Tokens),
                     entries : Table]
  <2>1. Start \in [stack : Seq(Opening), prev : Previous, key : Tokens, entry : Seq(Tokens),
                   entries : Table]
    BY StartSound DEF Sound
  <2>2. Start.key = "" /\ Start.entry = e
    BY DEF Start, e
  <2>3. Within = [Start EXCEPT !.stack = s, !.prev = "open", !.entries = f]
    BY DEF Within, s, f
  <2> QED
    BY <1>1, <1>2, <1>3, <2>1, <2>2, <2>3
<1>5. Level(Within) = 2 /\ In(Within) = "lbrack" /\ e = <<>>
  <2>1. Within.stack = <<"lbrace", "lbrack">>
    BY <1>4 DEF s
  <2> QED
    BY <2>1, PairStack DEF e
<1>6. Sound(Within)
  <2> DEFINE st == Within
  <2>1. st \in [stack : Seq(Opening), prev : Previous, key : Tokens, entry : Seq(Tokens),
                entries : Table]
    BY <1>4
  <2>2. st.stack # <<>> /\ st.stack[1] = "lbrace"
    <3>1. s # <<>> /\ s[1] = "lbrace"
      BY <1>1
    <3>2. st.stack = s
      BY <1>4
    <3> QED
      BY <3>1, <3>2
  <2>3. st.prev = "open" /\ Level(st) = 2 /\ In(st) = "lbrack" /\ st.entry = <<>>
    BY <1>4, <1>5
  <2>4. st.key \in DOMAIN st.entries
    BY <1>2, <1>4
  <2> HIDE DEF st
  <2>5. Sound(st)
    BY <2>1, <2>2, <2>3, <2>4 DEF Sound
  <2> QED
    BY <2>5 DEF st
<1> QED
  BY <1>4, <1>5, <1>6 DEF s

\* Inside a value the entries stay as they are.
LEMMA DeepRead ==
    ASSUME NEW st, Sound(st), NEW key, InArray(st, key), Level(st) > 2, NEW t \in Tokens,
           NEW next, next = ReadToken(st, t)
    PROVE  InArray(next, key) /\ next.entries = st.entries
<1>1. CASE t \in Space \/ Over(st)
  BY <1>1 DEF ReadToken
<1>2. CASE t \notin Space /\ ~Over(st) /\ ~Fits(st, t)
  <2>1. next.stack = st.stack /\ next.key = st.key /\ next.entries = st.entries
    BY <1>2, FieldsRead
  <2> QED
    BY <2>1 DEF InArray, Level
<1>3. CASE t \notin Space /\ ~Over(st) /\ Fits(st, t)
  <2>1. Level(st) \in Nat /\ ~EndsArray(st, t) /\ ~EndsElement(st, t)
    BY SoundIs DEF EndsArray, EndsElement
  <2> QED
    BY <1>3, <2>1, InArrayRead, InArrayEntries
<1> QED
  BY <1>1, <1>2, <1>3

\* The first token of a value.
LEMMA FirstRead ==
    ASSUME NEW st, Sound(st), NEW key, InArray(st, key), Level(st) = 2, st.prev \in {"open", "comma"},
           st.entry = <<>>, NEW t \in Tokens,
           NEW w, w = ReadToken(Within, t), Level(w) >= 2, w.prev # "bad", t \notin Space,
           NEW next, next = ReadToken(st, t)
    PROVE  /\ Alike(next, w) /\ next.prev = w.prev
           /\ InArray(next, key) /\ next.entries = st.entries
<1>1. /\ Sound(Within) /\ Within.stack = <<"lbrace", "lbrack">> /\ Within.prev = "open"
      /\ Within.entry = <<>> /\ Level(Within) = 2 /\ In(Within) = "lbrack"
  BY WithinSound, PairStack
<1>2. st.stack = <<"lbrace", "lbrack">> /\ In(st) = "lbrack"
  BY StackOfPair, PairStack
<1>3. Alike(st, Within)
  BY <1>1, <1>2 DEF Alike
<1>4. ~Over(Within)
  BY <1>1 DEF Over
<1>5. Fits(Within, t)
  BY <1>1, <1>4, BadRead
<1>6. t \notin Closing
  <2>1. t \in Closing => Level(w) = Level(Within) - 1
    BY <1>1, <1>4, <1>5, StackMoves DEF Moves
  <2> QED
    BY <1>1, <2>1
<1>7. t # "comma"
  BY <1>1, <1>5 DEF Fits, Opening, Closing, IsString
<1>8. ~Over(st) /\ Fits(st, t)
  BY <1>1, <1>3, <1>4, <1>5, <1>6, AlikeExpect
<1>9. Alike(next, w) /\ next.prev = w.prev
  BY <1>1, <1>3, <1>6, AlikeRead
<1>10. ~EndsArray(st, t) /\ ~EndsElement(st, t)
  BY <1>6, <1>7 DEF EndsArray, EndsElement, Closing
<1> QED
  BY <1>8, <1>9, <1>10, InArrayRead, InArrayEntries

\* An entry that is written where an element may be is read as what it is.
LEMMA ValueRead ==
    ASSUME NEW entry \in Seq(Tokens), IsValue(entry),
           NEW st, Sound(st), NEW key, InArray(st, key), Level(st) = 2, st.prev \in {"open", "comma"},
           st.entry = <<>>, NEW last, last = Steps(st, entry)[Len(entry)]
    PROVE  /\ InArray(last, key) /\ Level(last) = 2 /\ last.prev = "value"
           /\ last.entry = EntryOf(entry) /\ last.entries = st.entries
<1> DEFINE V == Steps(st, entry)
           W == Steps(Within, entry)
<1>1. /\ entry # <<>> /\ \A n \in 1..(Len(entry) - 1) : Level(W[n]) > 2
      /\ Level(W[Len(entry)]) = 2 /\ W[Len(entry)].prev = "value"
  BY DEF IsValue
<1>2. Len(entry) \in Nat /\ Len(entry) >= 1 /\ 1 \in 0..Len(entry) /\ Len(entry) \in 1..Len(entry) /\ 1 \in 1..Len(entry)
  <2>1. Len(entry) \in Nat /\ Len(entry) # 0
    BY <1>1
  <2> QED
    BY <2>1
<1>3. /\ V[0] = st /\ \A n \in 1..Len(entry) : V[n] = ReadToken(V[n - 1], entry[n])
      /\ W[0] = Within /\ \A n \in 1..Len(entry) : W[n] = ReadToken(W[n - 1], entry[n])
      /\ \A n \in 1..Len(entry) : entry[n] \in Tokens
  BY StepsAre
<1>4. \A n \in 0..Len(entry) : Sound(V[n]) /\ Sound(W[n]) /\ Level(W[n]) \in Nat /\ Level(V[n]) \in Nat
  <2>1. \A n \in 0..Len(entry) : Sound(V[n])
    BY SoundSteps
  <2>2. \A n \in 0..Len(entry) : Sound(W[n])
    BY WithinSound, SoundSteps
  <2> HIDE DEF V, W
  <2> QED
    BY <2>1, <2>2, SoundIs
<1>5. EntryOf(entry) = W[Len(entry)].entry /\ last = V[Len(entry)]
  BY DEF EntryOf
<1> HIDE DEF V, W
<1> DEFINE T == {n \in 1..Len(entry) : /\ Alike(V[n], W[n]) /\ V[n].prev = W[n].prev
                                       /\ InArray(V[n], key) /\ V[n].entries = st.entries}
<1>6. 1 \in T
  <2>1. W[1] = ReadToken(Within, entry[1]) /\ V[1] = ReadToken(st, entry[1]) /\ entry[1] \in Tokens
    BY <1>2, <1>3
  <2>2. Level(W[1]) >= 2 /\ (Level(W[1]) > 2 \/ W[1].prev = "value")
    <3>1. CASE Len(entry) = 1
      BY <1>1, <3>1
    <3>2. CASE Len(entry) # 1
      <4>1. 1 \in 1..(Len(entry) - 1)
        <5>1. \A l \in Nat : l >= 1 /\ l # 1 => 1 \in 1..(l - 1)
          OBVIOUS
        <5> QED
          BY <1>2, <3>2, <5>1
      <4>2. Level(W[1]) > 2 /\ Level(W[1]) \in Nat
        BY <1>1, <1>2, <1>4, <4>1
      <4> QED
        BY <4>2
    <3> QED
      BY <3>1, <3>2
  <2>3. /\ Sound(Within) /\ Within.stack = <<"lbrace", "lbrack">> /\ Within.prev = "open"
        /\ Level(Within) = 2
    BY WithinSound, PairStack
  <2>4. entry[1] \notin Space
    <3>1. entry[1] \in Space => W[1] = Within
      BY <2>1, SpaceReads
    <3> QED
      BY <2>2, <2>3, <3>1
  <2>5. W[1].prev # "bad"
    <3> SUFFICES ASSUME W[1].prev = "bad" PROVE FALSE
      OBVIOUS
    <3>1. ~Over(Within)
      BY <2>3 DEF Over
    <3>2. ~Fits(Within, entry[1])
      BY <2>1, <2>3, <2>4, <3>1, BadRead
    <3>3. W[1].stack = Within.stack
      BY <2>1, <2>3, <2>4, <3>1, <3>2, FieldsRead
    <3>4. Level(W[1]) = 2
      BY <2>3, <3>3 DEF Level
    <3> QED
      BY <2>2, <3>4
  <2>6. /\ Alike(V[1], W[1]) /\ V[1].prev = W[1].prev
        /\ InArray(V[1], key) /\ V[1].entries = st.entries
    BY <2>1, <2>2, <2>4, <2>5, FirstRead
  <2> QED
    BY <1>2, <2>6
<1>7. ASSUME NEW n \in 1..(Len(entry) - 1), n \in T PROVE n + 1 \in T
  <2>1. n + 1 \in 1..Len(entry) /\ (n + 1) - 1 = n /\ n \in 0..Len(entry)
    BY <1>2
  <2> DEFINE t == entry[n + 1]
  <2>2. V[n + 1] = ReadToken(V[n], t) /\ W[n + 1] = ReadToken(W[n], t) /\ t \in Tokens
    <3>1. \A i \in 1..Len(entry) : /\ V[i] = ReadToken(V[i - 1], entry[i])
                                   /\ W[i] = ReadToken(W[i - 1], entry[i]) /\ entry[i] \in Tokens
      BY <1>3
    <3> QED
      BY <2>1, <3>1
  <2>3. Sound(V[n]) /\ Sound(W[n])
    BY <1>4, <2>1
  <2>4. /\ Alike(V[n], W[n]) /\ V[n].prev = W[n].prev
        /\ InArray(V[n], key) /\ V[n].entries = st.entries
    BY <1>7
  <2>5. Level(V[n]) > 2
    <3>1. Level(W[n]) > 2
      BY <1>1
    <3> QED
      BY <2>4, <3>1 DEF Alike, Level
  <2> HIDE DEF t
  <2>6. Alike(V[n + 1], W[n + 1])
    BY <2>2, <2>3, <2>4, AlikeRead
  <2>7. V[n + 1].prev = W[n + 1].prev
    <3>1. CASE t \in Space
      BY <2>2, <2>4, <3>1, SpaceReads
    <3>2. CASE t \notin Space
      BY <2>2, <2>3, <2>4, <3>2, AlikeRead
    <3> QED
      BY <3>1, <3>2
  <2>8. InArray(V[n + 1], key) /\ V[n + 1].entries = V[n].entries
    BY <2>2, <2>3, <2>4, <2>5, DeepRead
  <2> QED
    BY <2>1, <2>4, <2>6, <2>7, <2>8
<1> HIDE DEF T
<1>8. \A n \in 1..Len(entry) : n \in T
  <2>1. \A n \in 1..(Len(entry) - 1) : n \in T => n + 1 \in T
    BY <1>7
  <2> QED
    BY <1>2, <1>6, <2>1, AlongSteps
<1>9. /\ Alike(V[Len(entry)], W[Len(entry)]) /\ V[Len(entry)].prev = W[Len(entry)].prev
      /\ InArray(V[Len(entry)], key) /\ V[Len(entry)].entries = st.entries
  BY <1>2, <1>8 DEF T
<1> QED
  BY <1>1, <1>5, <1>9 DEF Alike, Level

\* The state behind a text that the decoder comes upon in state st.
Behind(st, text) == Steps(st, text)[Len(text)]

\* Reading one text and then another is reading both.
LEMMA ReadOn ==
    ASSUME NEW x \in Seq(Tokens), NEW y \in Seq(Tokens), NEW st
    PROVE  /\ x \o y \in Seq(Tokens) /\ Len(x \o y) = Len(x) + Len(y)
           /\ Len(x) \in Nat /\ Len(y) \in Nat
           /\ \A k \in 0..Len(y) :
                 Steps(st, x \o y)[Len(x) + k] = Steps(Behind(st, x), y)[k]
           /\ Behind(st, x \o y) = Behind(Behind(st, x), y)
<1> DEFINE z == x \o y
<1>1. /\ z \in Seq(Tokens) /\ Len(z) = Len(x) + Len(y) /\ Len(x) \in Nat /\ Len(y) \in Nat
      /\ \A k \in 1..Len(x) : z[k] = x[k]
      /\ \A k \in 1..Len(y) : z[Len(x) + k] = y[k]
  BY TwoParts
<1> HIDE DEF z
<1> DEFINE u == Behind(st, x)
<1>2. Len(x) \in 0..Len(x) /\ Len(x) <= Len(z) /\ 0 \in 0..Len(y) /\ Len(y) \in 0..Len(y)
  BY <1>1
<1>3. Steps(st, z)[Len(x)] = u
  <2>1. \A k \in 0..Len(x) : Steps(st, z)[k] = Steps(st, x)[k]
    BY <1>1, <1>2, SamePrefix
  <2> QED
    BY <1>2, <2>1 DEF Behind
<1> HIDE DEF u
<1> DEFINE T == {k \in 0..Len(y) : Steps(st, z)[Len(x) + k] = Steps(u, y)[k]}
<1>4. 0 \in T
  <2>1. Steps(u, y)[0] = u
    BY StepsAre
  <2>2. Len(x) + 0 = Len(x)
    BY <1>1
  <2> QED
    BY <1>2, <1>3, <2>1, <2>2
<1>5. ASSUME NEW k \in 0..(Len(y) - 1), k \in T PROVE k + 1 \in T
  <2>1. /\ k + 1 \in 1..Len(y) /\ (k + 1) - 1 = k /\ k + 1 \in 0..Len(y)
        /\ Len(x) + (k + 1) \in 1..Len(z) /\ (Len(x) + (k + 1)) - 1 = Len(x) + k
    BY <1>1
  <2>2. Steps(u, y)[k + 1] = ReadToken(Steps(u, y)[k], y[k + 1])
    BY <2>1, StepsAre
  <2>3. Steps(st, z)[Len(x) + (k + 1)] = ReadToken(Steps(st, z)[Len(x) + k], z[Len(x) + (k + 1)])
    <3> DEFINE q == Len(x) + (k + 1)
    <3>1. q \in 1..Len(z) /\ q - 1 = Len(x) + k
      BY <2>1
    <3> HIDE DEF q
    <3>2. Steps(st, z)[q] = ReadToken(Steps(st, z)[q - 1], z[q])
      BY <1>1, <3>1, StepsAre
    <3>3. Steps(st, z)[q] = ReadToken(Steps(st, z)[Len(x) + k], z[q])
      BY <3>1, <3>2
    <3> QED
      BY <3>3 DEF q
  <2>4. z[Len(x) + (k + 1)] = y[k + 1]
    BY <1>1, <2>1
  <2> QED
    BY <1>5, <2>1, <2>2, <2>3, <2>4
<1> HIDE DEF T
<1>6. \A k \in 0..Len(y) : k \in T
  BY <1>2, <1>4, <1>5, AlongSteps
<1>7. \A k \in 0..Len(y) : Steps(st, z)[Len(x) + k] = Steps(u, y)[k]
  BY <1>6 DEF T
<1>8. Behind(st, z) = Behind(u, y)
  <2>1. Steps(st, z)[Len(x) + Len(y)] = Steps(u, y)[Len(y)]
    BY <1>2, <1>7
  <2> QED
    BY <1>1, <2>1 DEF Behind
<1> QED
  BY <1>1, <1>7, <1>8 DEF z, u

\* The text z is x and then y, and it is read so.
Continues(st, x, y, z) ==
    /\ z \in Seq(Tokens) /\ Len(z) = Len(x) + Len(y)
    /\ \A k \in 0..Len(y) : Steps(st, z)[Len(x) + k] = Steps(Behind(st, x), y)[k]
    /\ \A k \in 1..Len(y) : z[Len(x) + k] = y[k]

LEMMA ReadBoth ==
    ASSUME NEW x \in Seq(Tokens), NEW y \in Seq(Tokens), NEW st
    PROVE  /\ Continues(st, x, y, x \o y) /\ x \o y \in Seq(Tokens)
           /\ Behind(st, x \o y) = Behind(Behind(st, x), y)
<1>1. \A k \in 1..Len(y) : (x \o y)[Len(x) + k] = y[k]
  BY TwoParts
<1>2. /\ x \o y \in Seq(Tokens) /\ Len(x \o y) = Len(x) + Len(y)
      /\ \A k \in 0..Len(y) :
            Steps(st, x \o y)[Len(x) + k] = Steps(Behind(st, x), y)[k]
      /\ Behind(st, x \o y) = Behind(Behind(st, x), y)
  BY ReadOn
<1> QED
  BY <1>1, <1>2 DEF Continues

LEMMA SpaceBehind ==
    ASSUME NEW text \in Seq(Tokens), \A k \in 1..Len(text) : text[k] \in Space, NEW st
    PROVE  Behind(st, text) = st
<1>1. Len(text) \in Nat /\ 0 \in 0..Len(text) /\ Len(text) \in 0..Len(text) /\ 0 + 1 = 1
  OBVIOUS
<1>2. \A n \in 0..Len(text) : Steps(st, text)[n] = Steps(st, text)[0]
  <2>1. \A n \in (0 + 1)..Len(text) : text[n] \in Space
    BY <1>1
  <2> QED
    BY <1>1, <2>1, OverSpace
<1>3. Steps(st, text)[0] = st
  BY StepsAre
<1> QED
  BY <1>1, <1>2, <1>3 DEF Behind

\* What a text with a new last entry is read as.
OneNew(a, b, key, e) ==
    /\ Parses(a)
    /\ \A o : o # key => Entries(a, o) = Entries(b, o)
    /\ Entries(a, key) = Append(Entries(b, key), e)

\* A sequence is what is left without its last element, and that element.
LEMMA LastOne ==
    ASSUME NEW S, NEW s \in Seq(S), NEW n, n = Len(s), n \in 1..Len(s)
    PROVE  s = Append(Without(s, n), s[n])
<1> DEFINE w == Without(s, n)
<1>1. Len(s) \in Nat /\ s[n] \in S
  OBVIOUS
<1>2. /\ w \in Seq(S) /\ Len(w) = Len(s) - 1
      /\ \A i \in 1..(Len(s) - 1) : w[i] = IF i < n THEN s[i] ELSE s[i + 1]
  BY WithoutIs
<1> HIDE DEF w
<1>3. \A i \in 1..(n - 1) : w[i] = s[i]
  BY <1>1, <1>2
<1>4. /\ Append(w, s[n]) \in Seq(S) /\ Len(Append(w, s[n])) = n
      /\ \A i \in 1..(n - 1) : Append(w, s[n])[i] = w[i]
      /\ Append(w, s[n])[n] = s[n]
  <2>1. Len(w) = n - 1 /\ Len(w) + 1 = n
    BY <1>1, <1>2
  <2> QED
    BY <1>1, <1>2, <2>1, AppendProperties
<1>5. ASSUME NEW i \in 1..n PROVE s[i] = Append(w, s[n])[i]
  <2>1. i \in 1..(n - 1) \/ i = n
    BY <1>1
  <2> QED
    BY <1>3, <1>4, <2>1
<1>6. s = Append(w, s[n])
  BY <1>4, <1>5, SeqEqual
<1> QED
  BY <1>6 DEF w

\* The place of a new entry.
Following(s) == Len(s) + 1

\* From behind the array, where one entry is new.
LEMMA AddedTail ==
    ASSUME NEW a \in Seq(Tokens), NEW b \in Seq(Tokens), Plain(b),
           NEW A, A = Steps(Start, a), NEW B, B = Steps(Start, b),
           NEW key \in Arrays, NEW p \in Keyed(b, key), NEW i \in 0..Len(a), NEW j \in p..Len(b),
           NEW m \in Nat, i + m = Len(a), j + m = Len(b), SameAfter(a, b, i, j, m),
           Past(B[j], key), NEW n, n = Following(B[j].entries[key]),
           Twin(A[i], B[j], key, n), A[i].prev = B[j].prev
    PROVE  OneNew(a, b, key, A[i].entries[key][n])
<1>1. Len(a) \in Nat /\ Len(b) \in Nat /\ p \in 1..Len(b) /\ j \in 0..Len(b) /\ j >= p
  <2>1. Len(a) \in Nat /\ Len(b) \in Nat
    OBVIOUS
  <2>2. p \in 1..Len(b)
    BY KeyRead
  <2> QED
    BY <2>1, <2>2
<1>2. i + m <= Len(a) /\ j + m <= Len(b) /\ m \in 0..m
  BY <1>1
<1>3. OnceAfter(B, b, j, m, key)
  <2>1. ASSUME NEW k \in 0..(m - 1) PROVE ~Again(B[j + k], b[j + (k + 1)], key)
    <3>1. j + (k + 1) \in 1..Len(b) /\ j + (k + 1) # p /\ (j + (k + 1)) - 1 = j + k
      BY <1>1, <1>2
    <3>2. ~Again(B[(j + (k + 1)) - 1], b[j + (k + 1)], key)
      BY <3>1, NotAgain
    <3> QED
      BY <3>1, <3>2
  <2> QED
    BY <2>1 DEF OnceAfter
<1>4. \A k \in 0..m : TwinAfter(A, B, i, j, k, key, n)
  BY <1>1, <1>2, <1>3, TwinTail
<1>5. TwinAfter(A, B, i, j, m, key, n)
  BY <1>2, <1>4
<1>6. /\ Twin(A[Len(a)], B[Len(b)], key, n)
      /\ A[Len(a)].entries[key][n] = A[i].entries[key][n]
      /\ A[Len(a)].prev = B[Len(b)].prev \/ A[Len(a)].prev = "comma"
  BY <1>5 DEF TwinAfter
<1>7. B[Len(b)].prev = "value" /\ Parses(b)
  BY PlainReads DEF Plain
<1>8. A[Len(a)].prev = B[Len(b)].prev
  <2>1. Twin(A[Len(a)], B[Len(b)], key, n)
    BY <1>6
  <2>2. In(A[Len(a)]) # "lbrack"
    <3>1. A[Len(a)].stack = B[Len(b)].stack /\ B[Len(b)].stack = <<>>
      BY <2>1, PlainReads DEF Twin, Alike
    <3> QED
      BY <3>1 DEF In
  <2> QED
    BY <2>1, <2>2 DEF Twin, Alike
<1>9. /\ Parses(a) /\ OneGone(a, b, key, n)
      /\ Entries(a, key) = A[Len(a)].entries[key] /\ Entries(b, key) = B[Len(b)].entries[key]
  <2>1. A[Len(a)].stack = B[Len(b)].stack /\ B[Len(b)].stack = <<>>
    BY <1>6, PlainReads DEF Twin, Alike
  <2>2. Parses(a)
    BY <1>7, <1>8, <2>1 DEF Parses, Reading
  <2>3. TwinsRead(a, b, A, B, key, n)
    BY <1>6, <2>2 DEF TwinsRead
  <2>4. /\ OneGone(a, b, key, n)
        /\ Entries(a, key) = A[Len(a)].entries[key] /\ Entries(b, key) = B[Len(b)].entries[key]
    BY <2>3, TwinEnd
  <2> QED
    BY <2>2, <2>4
<1>10. B[Len(b)].entries[key] = B[j].entries[key]
  <2>1. Len(b) \in j..Len(b)
    BY <1>1
  <2>2. \A k \in j..Len(b) : Past(B[k], key) /\ B[k].entries[key] = B[j].entries[key]
    BY PastTail
  <2> QED
    BY <2>1, <2>2
<1> DEFINE s == Entries(a, key)
<1>11. s \in Seq(Seq(Tokens)) /\ n \in 1..Len(s) /\ Entries(b, key) = Without(s, n)
  BY <1>9 DEF OneGone
<1>12. \A o : o # key => Entries(a, o) = Entries(b, o)
  BY <1>9 DEF OneGone
<1>13. s[n] = A[i].entries[key][n]
  BY <1>6, <1>9
<1> HIDE DEF s
<1>14. n = Len(s)
  <2>1. Len(Without(s, n)) = Len(s) - 1 /\ Len(s) \in Nat
    <3>1. s \in Seq(Seq(Tokens)) /\ n \in 1..Len(s)
      BY <1>11
    <3>2. Len(s) \in Nat
      BY <3>1
    <3> QED
      BY <3>1, <3>2, WithoutIs
  <2>2. n = Len(Without(s, n)) + 1
    BY <1>9, <1>10, <1>11 DEF Following
  <2> QED
    BY <2>1, <2>2
<1>15. s = Append(Without(s, n), s[n])
  BY <1>11, <1>14, LastOne
<1>16. Entries(a, key) = Append(Entries(b, key), A[i].entries[key][n])
  BY <1>11, <1>13, <1>15 DEF s
<1> QED
  BY <1>9, <1>12, <1>16 DEF OneNew

\* Behind the end of an array: nothing more of it is to come.
Closed(text, R, key, p, close) ==
    /\ close \in p..Len(text) /\ close \in 1..Len(text) /\ text[close] = "rbrack"
    /\ R[close].stack = <<"lbrace">> /\ R[close].prev = "value" /\ R[close].entry = <<>>
    /\ R[close].key = key /\ Past(R[close], key)
    /\ R[close].entries \in Table /\ R[close].entries[key] \in Seq(Seq(Tokens))

\* The bracket that closes an array, and the states on both sides of it.
LEMMA CloseRead ==
    ASSUME NEW text \in Seq(Tokens), Plain(text), NEW R, R = Steps(Start, text),
           NEW key \in Arrays, NEW p \in Keyed(text, key),
           NEW close, close = ArraySpan(text, key).close
    PROVE  Closed(text, R, key, p, close)
<1> DEFINE span == ArraySpan(text, key)
<1>1. span.close \in Cuts(text, span) /\ span.open \in Cuts(text, span) /\ span.open < span.close
  <2>1. Keyed(text, key) # {}
    OBVIOUS
  <2>2. /\ span.open \in Cuts(text, span) /\ span.close \in Cuts(text, span)
        /\ span.open \in 1..Len(text) /\ span.close \in (span.open + 1)..Len(text)
    BY <2>1, CutsAre
  <2> QED
    BY <2>2
<1>2. close \in 1..Len(text) /\ close >= p /\ Len(text) \in Nat /\ p \in 1..Len(text)
  <2>1. close \in 1..Len(text) /\ close >= p
    BY <1>1, ArrayKnown
  <2>2. p \in 1..Len(text)
    BY KeyRead
  <2> QED
    BY <2>1, <2>2
<1>3. InArray(R[close - 1], key) /\ EndsElement(R[close - 1], text[close]) /\ text[close] = "rbrack"
  <2>1. Keyed(text, key) # {}
    OBVIOUS
  <2>2. \A c \in Cuts(text, span) :
           /\ c # span.open => InArray(R[c - 1], key) /\ EndsElement(R[c - 1], text[c])
           /\ c = span.close => text[c] = "rbrack"
    BY <2>1, CutsAre
  <2>3. close # span.open
    BY <1>1, <1>2
  <2> QED
    BY <1>1, <2>2, <2>3
<1>4. /\ R[close] = ReadToken(R[close - 1], "rbrack") /\ Sound(R[close - 1]) /\ Sound(R[close])
      /\ ~Over(R[close - 1]) /\ Fits(R[close - 1], "rbrack") /\ "rbrack" \in Tokens
  <2>1. close - 1 \in 0..Len(text) /\ close \in 0..Len(text)
    BY <1>2
  <2>2. text[close] \notin Space
    BY <1>3 DEF Space
  <2>3. R[close] = ReadToken(R[close - 1], text[close]) /\ ~Over(R[close - 1])
        /\ Fits(R[close - 1], text[close]) /\ text[close] \in Tokens
    BY <1>2, <2>2, PlainReads
  <2>4. Sound(R[close - 1]) /\ Sound(R[close])
    BY <2>1, PlainReads
  <2> QED
    BY <1>3, <2>3, <2>4
<1>5. Level(R[close - 1]) = 2 /\ R[close - 1].prev \in {"open", "value"}
  <2>1. R[close - 1].prev \in {"open", "value"}
    BY <1>4, ClosingRead DEF Closing
  <2> QED
    BY <1>3, <2>1 DEF EndsElement
<1>6. R[close].stack = <<"lbrace">> /\ R[close].prev = "value" /\ R[close].entry = <<>> /\ R[close].key = key
  BY <1>3, <1>4, <1>5, ClosesArray
<1>7. Level(R[close]) = 1
  <2>1. Len(<<"lbrace">>) = 1
    OBVIOUS
  <2> QED
    BY <1>6, <2>1 DEF Level
<1>8. key \in DOMAIN R[close].entries
  BY <1>4, <1>6, <1>7, SoundSays
<1>9. Past(R[close], key)
  BY <1>6, <1>7, <1>8 DEF Past
<1>10. R[close].entries \in Table /\ R[close].entries[key] \in Seq(Seq(Tokens))
  BY <1>4, <1>8, SoundIs, TableIs
<1> QED
  BY <1>2, <1>3, <1>6, <1>9, <1>10 DEF Closed

\* There is only space from i to j.
Blank(text, i, j) == \A k \in i..j : text[k] \in Space

\* What of b is behind l.
EndOf(tail, b, l) ==
    Len(tail) = Len(b) - l /\ \A k \in 1..(Len(b) - l) : tail[k] = b[l + k]

LEMMA EndIs ==
    ASSUME NEW b \in Seq(Tokens), NEW l \in 0..Len(b)
    PROVE  SubSeq(b, l + 1, Len(b)) \in Seq(Tokens) /\ EndOf(SubSeq(b, l + 1, Len(b)), b, l)
<1>1. Len(b) \in Nat
  OBVIOUS
<1> QED
  BY <1>1 DEF EndOf

\* A text that begins with h, in which the decoder has read the new entry, and
\* goes on like b before the end of the array.
LEMMA AddedFrom ==
    ASSUME NEW b \in Seq(Tokens), Plain(b), NEW B, B = Steps(Start, b),
           NEW key \in Arrays, NEW p \in Keyed(b, key),
           NEW close, close = ArraySpan(b, key).close,
           NEW l \in 0..(close - 1), Blank(b, l + 1, close - 1),
           NEW h \in Seq(Tokens), NEW v, v = Behind(Start, h), Sound(v),
           InArray(v, key), Level(v) = 2, v.prev = "value", v.entries = B[close].entries,
           NEW tail \in Seq(Tokens), EndOf(tail, b, l)
    PROVE  h \o tail \in Seq(Tokens) /\ OneNew(h \o tail, b, key, v.entry)
<1>1. /\ close \in p..Len(b) /\ close \in 1..Len(b) /\ b[close] = "rbrack"
      /\ B[close].stack = <<"lbrace">> /\ B[close].prev = "value" /\ B[close].entry = <<>>
      /\ B[close].key = key /\ Past(B[close], key)
      /\ B[close].entries \in Table /\ B[close].entries[key] \in Seq(Seq(Tokens))
  <2>1. Closed(b, B, key, p, close)
    BY CloseRead
  <2> QED
    BY <2>1 DEF Closed
<1>2. Len(b) \in Nat /\ l \in Nat /\ l < close /\ close <= Len(b) /\ close \in Nat /\ Len(h) \in Nat
  <2>1. Len(b) \in Nat /\ Len(h) \in Nat
    OBVIOUS
  <2> QED
    BY <1>1, <2>1
<1>3. /\ Len(tail) = Len(b) - l
      /\ \A k \in 1..(Len(b) - l) : tail[k] = b[l + k]
  BY DEF EndOf
<1> DEFINE a == h \o tail
           A == Steps(Start, a)
           q == close - l
           i == Len(h) + q
           m == Len(b) - close
<1>4. /\ a \in Seq(Tokens) /\ Len(a) = Len(h) + (Len(b) - l)
      /\ \A k \in 0..Len(tail) : A[Len(h) + k] = Steps(v, tail)[k]
      /\ \A k \in 1..Len(tail) : a[Len(h) + k] = tail[k]
  <2>1. Continues(Start, h, tail, a)
    BY ReadBoth
  <2> HIDE DEF a
  <2> QED
    BY <1>3, <2>1 DEF Continues
<1> HIDE DEF a
<1>5. /\ i \in 0..Len(a) /\ m \in Nat /\ i + m = Len(a) /\ close + m = Len(b)
      /\ q \in 1..Len(tail) /\ q - 1 \in 0..Len(tail) /\ q \in 0..Len(tail)
      /\ q - 1 \in 0..(q - 1) /\ l + q = close
      /\ \A k \in 1..(q - 1) : k \in 1..(Len(b) - l) /\ l + k \in (l + 1)..(close - 1)
      /\ \A k \in 1..m : /\ q + k \in 1..Len(tail) /\ l + (q + k) = close + k
                         /\ Len(h) + (q + k) = i + k
  <2> DEFINE lb == Len(b)
             lh == Len(h)
             lt == Len(tail)
             la == Len(a)
             c == close
             d == l
  <2>1. lb \in Nat /\ lh \in Nat /\ d \in Nat /\ c \in Nat /\ d < c /\ c <= lb
    BY <1>2
  <2>2. lt = lb - d /\ la = lh + (lb - d)
    BY <1>3, <1>4
  <2> HIDE DEF lb, lh, lt, la, c, d
  <2>3. /\ lh + (c - d) \in 0..(lh + (lb - d)) /\ lb - c \in Nat /\ c + (lb - c) = lb
        /\ (lh + (c - d)) + (lb - c) = lh + (lb - d)
        /\ c - d \in 1..(lb - d) /\ (c - d) - 1 \in 0..(lb - d) /\ c - d \in 0..(lb - d)
        /\ (c - d) - 1 \in 0..((c - d) - 1) /\ d + (c - d) = c
        /\ \A k \in 1..((c - d) - 1) : k \in 1..(lb - d) /\ d + k \in (d + 1)..(c - 1)
        /\ \A k \in 1..(lb - c) :
              /\ (c - d) + k \in 1..(lb - d) /\ d + ((c - d) + k) = c + k
              /\ lh + ((c - d) + k) = (lh + (c - d)) + k
    <3>1. /\ lh + (c - d) \in 0..(lh + (lb - d)) /\ lb - c \in Nat /\ c + (lb - c) = lb
          /\ (lh + (c - d)) + (lb - c) = lh + (lb - d)
      BY <2>1
    <3>2. /\ c - d \in 1..(lb - d) /\ (c - d) - 1 \in 0..(lb - d) /\ c - d \in 0..(lb - d)
          /\ (c - d) - 1 \in 0..((c - d) - 1) /\ d + (c - d) = c
      BY <2>1
    <3>3. \A k \in 1..((c - d) - 1) : k \in 1..(lb - d) /\ d + k \in (d + 1)..(c - 1)
      BY <2>1
    <3>4. ASSUME NEW k \in 1..(lb - c)
          PROVE  /\ (c - d) + k \in 1..(lb - d) /\ d + ((c - d) + k) = c + k
                 /\ lh + ((c - d) + k) = (lh + (c - d)) + k
      BY <2>1
    <3> QED
      BY <3>1, <3>2, <3>3, <3>4
  <2> QED
    BY <2>2, <2>3 DEF lb, lh, lt, la, c, d
<1> HIDE DEF q, i, m
<1>6. A[i] = ReadToken(v, "rbrack")
  <2>1. Steps(v, tail)[q] = ReadToken(Steps(v, tail)[q - 1], tail[q])
    BY <1>5, StepsAre
  <2>2. tail[q] = "rbrack"
    <3>1. tail[q] = b[l + q]
      BY <1>3, <1>5
    <3> QED
      BY <1>1, <1>5, <3>1
  <2>3. Steps(v, tail)[q - 1] = v
    <3>1. \A k \in 1..(q - 1) : tail[k] \in Space
      BY <1>3, <1>5 DEF Blank
    <3>2. 0 \in 0..Len(tail) /\ q - 1 \in 0..Len(tail) /\ 0 + 1 = 1
      BY <1>5
    <3>3. \A k \in 0..(q - 1) : Steps(v, tail)[k] = Steps(v, tail)[0]
      <4>1. \A k \in (0 + 1)..(q - 1) : tail[k] \in Space
        BY <3>1, <3>2
      <4> QED
        BY <3>2, <4>1, OverSpace
    <3>4. Steps(v, tail)[0] = v
      BY StepsAre
    <3> QED
      BY <1>5, <3>3, <3>4
  <2>4. A[Len(h) + q] = Steps(v, tail)[q]
    BY <1>4, <1>5
  <2> QED
    BY <2>1, <2>2, <2>3, <2>4 DEF i
<1>7. SameAfter(a, b, i, close, m)
  <2>1. ASSUME NEW k \in 1..m PROVE a[i + k] = b[close + k]
    <3> DEFINE d == q + k
    <3>1. d \in 1..Len(tail) /\ l + d = close + k /\ Len(h) + d = i + k
      BY <1>5
    <3> HIDE DEF d
    <3>2. tail[d] = b[l + d] /\ a[Len(h) + d] = tail[d]
      BY <1>3, <1>4, <3>1
    <3> QED
      BY <3>1, <3>2
  <2>2. i + m <= Len(a) /\ close + m <= Len(b)
    BY <1>2, <1>5
  <2> QED
    BY <2>1, <2>2 DEF SameAfter
<1> DEFINE g == B[close].entries
           e == v.entry
           n == Following(g[key])
<1>8. key \in DOMAIN g /\ e \in Seq(Tokens) /\ e # <<>>
  <2>1. v.entry \in Seq(Tokens) /\ v.entry # <<>>
    BY SoundIs, SoundSays
  <2> QED
    BY <1>1, <2>1 DEF Past
<1>9. A[i].stack = <<"lbrace">> /\ A[i].prev = "value" /\ A[i].entry = <<>> /\ A[i].key = key
      /\ A[i].entries = Longer(g, key, e)
  <2> DEFINE y == A[i]
  <2>1. y = ReadToken(v, "rbrack")
    BY <1>6
  <2> HIDE DEF y
  <2>2. y.stack = <<"lbrace">> /\ y.prev = "value" /\ y.entry = <<>> /\ y.key = key
        /\ y.entries = IF v.entry # <<>> THEN Longer(v.entries, key, v.entry) ELSE v.entries
    BY <2>1, ClosesArray
  <2>3. y.entries = Longer(g, key, e)
    BY <1>8, <2>2
  <2> QED
    BY <2>2, <2>3 DEF y
<1>10. OneMore(A[i].entries, g, key, n) /\ A[i].entries[key][n] = e
  <2>1. g \in Table /\ n = Len(g[key]) + 1
    BY <1>1 DEF Following
  <2> HIDE DEF g, e, n
  <2>2. OneMore(Longer(g, key, e), g, key, n) /\ Longer(g, key, e)[key][n] = e
    BY <1>8, <2>1, OneMoreLast
  <2> QED
    BY <1>9, <2>2
<1>11. Twin(A[i], B[close], key, n) /\ A[i].prev = B[close].prev
  <2>1. Alike(A[i], B[close]) /\ Settled(A[i], key)
    BY <1>1, <1>9 DEF Alike, Settled
  <2> QED
    BY <1>1, <1>9, <1>10, <2>1 DEF Twin
<1>12. OneNew(a, b, key, A[i].entries[key][n])
  <2>1. A = Steps(Start, a) /\ n = Following(B[close].entries[key])
    OBVIOUS
  <2>2. i \in 0..Len(a) /\ m \in Nat /\ i + m = Len(a) /\ close + m = Len(b) /\ close \in p..Len(b)
    BY <1>1, <1>5
  <2>3. a \in Seq(Tokens) /\ Past(B[close], key)
    BY <1>1, <1>4
  <2> HIDE DEF A, n, g
  <2> QED
    BY <1>7, <1>11, <2>1, <2>2, <2>3, AddedTail
<1> QED
  BY <1>4, <1>10, <1>12 DEF a

\* An element can begin there, and the elements before it are read.
Ready(u, key, entries) ==
    /\ Sound(u) /\ InArray(u, key) /\ Level(u) = 2 /\ u.prev \in {"open", "comma"}
    /\ u.entry = <<>> /\ u.entries = entries

\* An element that is entry ends there.
Done(v, key, entries, entry) ==
    /\ Sound(v) /\ InArray(v, key) /\ Level(v) = 2 /\ v.prev = "value"
    /\ v.entry = EntryOf(entry) /\ v.entries = entries

LEMMA ReadyDone ==
    ASSUME NEW x \in Seq(Tokens), NEW key, NEW entries, Ready(Behind(Start, x), key, entries),
           NEW entry \in Seq(Tokens), IsValue(entry)
    PROVE  x \o entry \in Seq(Tokens) /\ Done(Behind(Start, x \o entry), key, entries, entry)
<1> DEFINE u == Behind(Start, x)
           v == Behind(u, entry)
<1>1. x \o entry \in Seq(Tokens) /\ Behind(Start, x \o entry) = v
  BY ReadBoth
<1>2. v = Steps(u, entry)[Len(entry)]
  BY DEF Behind
<1>3. Ready(u, key, entries)
  OBVIOUS
<1> HIDE DEF u, v
<1>4. Sound(v)
  <2>1. Len(entry) \in 0..Len(entry)
    <3>1. Len(entry) \in Nat
      OBVIOUS
    <3> QED
      BY <3>1
  <2> QED
    BY <1>2, <1>3, <2>1, SoundSteps DEF Ready
<1>5. /\ InArray(v, key) /\ Level(v) = 2 /\ v.prev = "value"
      /\ v.entry = EntryOf(entry) /\ v.entries = u.entries
  BY <1>2, <1>3, ValueRead DEF Ready
<1>6. Done(v, key, entries, entry)
  BY <1>3, <1>4, <1>5 DEF Ready, Done
<1> QED
  BY <1>1, <1>6

LEMMA OneThen ==
    ASSUME NEW y \in Seq(Tokens), Len(y) = 1, NEW st
    PROVE  Behind(st, y) = ReadToken(st, y[1])
<1>1. 1 \in 1..Len(y) /\ 1 - 1 = 0
  OBVIOUS
<1>2. Steps(st, y)[0] = st /\ Steps(st, y)[1] = ReadToken(Steps(st, y)[1 - 1], y[1])
  BY <1>1, StepsAre
<1> QED
  BY <1>1, <1>2 DEF Behind

LEMMA PrefixBehind ==
    ASSUME NEW text \in Seq(Tokens), NEW i \in 0..Len(text)
    PROVE  /\ SubSeq(text, 1, i) \in Seq(Tokens)
           /\ Behind(Start, SubSeq(text, 1, i)) = Steps(Start, text)[i]
<1> DEFINE x == SubSeq(text, 1, i)
<1>1. x \in Seq(Tokens) /\ Len(x) = i /\ \A k \in 1..i : x[k] = text[k]
  <2>1. Len(text) \in Nat
    OBVIOUS
  <2> QED
    BY <2>1
<1> HIDE DEF x
<1>2. i \in 0..i /\ i <= Len(x)
  BY <1>1
<1>3. \A k \in 0..i : Steps(Start, x)[k] = Steps(Start, text)[k]
  BY <1>1, <1>2, SamePrefix
<1>4. Behind(Start, x) = Steps(Start, text)[i]
  BY <1>1, <1>2, <1>3 DEF Behind
<1> QED
  BY <1>1, <1>4 DEF x

\* Space behind a text changes nothing.
LEMMA SpaceOn ==
    ASSUME NEW x \in Seq(Tokens), NEW y \in Seq(Tokens), Blank(y, 1, Len(y))
    PROVE  x \o y \in Seq(Tokens) /\ Behind(Start, x \o y) = Behind(Start, x)
<1>1. x \o y \in Seq(Tokens) /\ Behind(Start, x \o y) = Behind(Behind(Start, x), y)
  BY ReadBoth
<1>2. Behind(Behind(Start, x), y) = Behind(Start, x)
  BY SpaceBehind DEF Blank
<1> QED
  BY <1>1, <1>2

LEMMA BlankOnes ==
    /\ <<"nl">> \in Seq(Tokens) /\ Blank(<<"nl">>, 1, Len(<<"nl">>))
    /\ <<"sp">> \in Seq(Tokens) /\ Blank(<<"sp">>, 1, Len(<<"sp">>))
<1>1. "nl" \in Space /\ "sp" \in Space /\ "nl" \in Tokens /\ "sp" \in Tokens
  BY DEF Space, Tokens
<1>2. /\ \A t : Len(<<t>>) = 1 /\ <<t>>[1] = t
      /\ \A t \in Tokens : <<t>> \in Seq(Tokens)
  OBVIOUS
<1> QED
  BY <1>1, <1>2 DEF Blank

LEMMA LineStartIs ==
    ASSUME NEW text \in Seq(Tokens), NEW k \in Nat
    PROVE  LineStart(text, k) \in Nat /\ LineStart(text, k) >= 1
<1> DEFINE ends == {j \in DOMAIN text : j < k /\ text[j] = "nl"} \cup {0}
           start == LineStart(text, k)
<1>1. Len(text) \in Nat /\ DOMAIN text = 1..Len(text)
  OBVIOUS
<1>2. ends \in SUBSET Nat /\ ends # {} /\ \A j \in ends : j <= Len(text)
  BY <1>1
<1>3. start = Greatest(ends) + 1
  BY DEF LineStart
<1> HIDE DEF ends, start
<1>4. Greatest(ends) \in Nat
  BY <1>1, <1>2, GreatestIs
<1>5. start \in Nat /\ start >= 1
  BY <1>3, <1>4
<1> QED
  BY <1>5 DEF start

LEMMA IndentIs ==
    ASSUME NEW text \in Seq(Tokens), NEW k \in Nat
    PROVE  IndentAt(text, k) \in Seq(Tokens) /\ Blank(IndentAt(text, k), 1, Len(IndentAt(text, k)))
<1>1. Len(text) \in Nat /\ DOMAIN text = 1..Len(text)
  OBVIOUS
<1> DEFINE start == LineStart(text, k)
           deep == {n \in 0..(k - start) : \A j \in start..(start + n - 1) : text[j] = "sp"}
           m == Greatest(deep \cup {0})
<1>2. start \in Nat /\ start >= 1
  BY LineStartIs
<1>3. m \in Nat
  <2>1. deep \cup {0} \in SUBSET Nat /\ deep \cup {0} # {} /\ \A j \in deep \cup {0} : j <= k
    <3> HIDE DEF start
    <3> QED
      BY <1>2
  <2> HIDE DEF deep
  <2> QED
    BY <2>1, GreatestIs
<1>4. IndentAt(text, k) = [n \in 1..m |-> "sp"]
  BY DEF IndentAt
<1> HIDE DEF m
<1> DEFINE s == [n \in 1..m |-> "sp"]
<1>5. "sp" \in Tokens /\ "sp" \in Space
  BY DEF Tokens, Space
<1>6. s \in Seq(Tokens) /\ Len(s) = m /\ \A n \in 1..m : s[n] = "sp"
  BY <1>3, <1>5
<1> HIDE DEF s
<1>7. Blank(s, 1, Len(s))
  BY <1>5, <1>6 DEF Blank
<1> QED
  BY <1>4, <1>6, <1>7 DEF s

\* A token and then space is the token.
LEMMA SpaceThen ==
    ASSUME NEW y \in Seq(Tokens), Len(y) = 2, y[2] \in Space, NEW st
    PROVE  Behind(st, y) = ReadToken(st, y[1])
<1>1. Steps(st, y)[0] = st /\ \A n \in 1..Len(y) : Steps(st, y)[n] = ReadToken(Steps(st, y)[n - 1], y[n])
  BY StepsAre
<1>2. 1 \in 1..Len(y) /\ 2 \in 1..Len(y) /\ 1 - 1 = 0 /\ 2 - 1 = 1
  OBVIOUS
<1>3. Steps(st, y)[1] = ReadToken(st, y[1])
  BY <1>1, <1>2
<1>4. Steps(st, y)[2] = ReadToken(Steps(st, y)[1], y[2])
  BY <1>1, <1>2
<1>5. ReadToken(Steps(st, y)[1], y[2]) = Steps(st, y)[1]
  BY SpaceReads
<1> QED
  BY <1>3, <1>4, <1>5 DEF Behind

\* A comma behind an element.
LEMMA CommaOn ==
    ASSUME NEW x \in Seq(Tokens), NEW st, st = Behind(Start, x), Sound(st), NEW key, InArray(st, key),
           Level(st) = 2, st.prev = "value", NEW t \in Space, NEW y, y = <<"comma", t>>,
           NEW next, next = ReadToken(st, "rbrack")
    PROVE  /\ x \o y \in Seq(Tokens)
           /\ Ready(Behind(Start, x \o y), key, next.entries)
<1>1. "comma" \in Tokens /\ "comma" \notin Space /\ t \in Tokens
  BY DEF Tokens, Space
<1>2. y \in Seq(Tokens) /\ Len(y) = 2 /\ y[1] = "comma" /\ y[2] = t
  BY <1>1
<1> DEFINE u == ReadToken(st, "comma")
<1>3. x \o y \in Seq(Tokens) /\ Behind(Start, x \o y) = Behind(st, y)
  BY <1>2, ReadBoth
<1>4. Behind(st, y) = u
  <2>1. Len(y) = 2 /\ y[2] \in Space /\ y \in Seq(Tokens) /\ y[1] = "comma"
    BY <1>2
  <2>2. Behind(st, y) = ReadToken(st, y[1])
    <3> HIDE DEF u
    <3> QED
      BY <2>1, SpaceThen
  <2> QED
    BY <2>1, <2>2
<1>5. In(st) = "lbrack" /\ st.stack # <<>> /\ st.entry # <<>> /\ key = st.key
  <2>1. st.stack = <<"lbrace", "lbrack">>
    BY StackOfPair
  <2>2. In(st) = "lbrack"
    BY <2>1, PairStack
  <2>3. st.entry # <<>>
    BY SoundSays
  <2> QED
    BY <2>1, <2>2, <2>3 DEF InArray
<1>6. ~Over(st) /\ Fits(st, "comma")
  BY <1>5 DEF Over, Fits
<1>7. /\ u.stack = st.stack /\ u.prev = "comma" /\ u.key = st.key /\ u.entry = <<>>
      /\ u.entries = Longer(st.entries, key, st.entry)
  <2> DEFINE e == IF Level(st) < 2 \/ (Level(st) = 2 /\ In(st) = "lbrack")
                  THEN <<>> ELSE Append(st.entry, "comma")
             f == IF Level(st) = 2 /\ In(st) = "lbrack" /\ st.entry # <<>>
                  THEN Longer(st.entries, st.key, st.entry) ELSE st.entries
  <2>1. u = [stack |-> st.stack, prev |-> "comma", key |-> st.key, entry |-> e, entries |-> f]
    BY <1>6, CommaRead
  <2>2. e = <<>> /\ f = Longer(st.entries, key, st.entry)
    BY <1>5
  <2> HIDE DEF e, f
  <2> QED
    BY <2>1, <2>2
<1>8. Sound(u)
  BY <1>1, SoundStep
<1>9. InArray(u, key) /\ Level(u) = 2
  BY <1>5, <1>7 DEF InArray, Level
<1>10. next.entries = Longer(st.entries, key, st.entry)
  BY <1>5, ClosesArray
<1> HIDE DEF u
<1>11. Ready(u, key, next.entries)
  BY <1>7, <1>8, <1>9, <1>10 DEF Ready
<1> QED
  BY <1>3, <1>4, <1>11

\* An array, from its bracket to its bracket.
Bracketed(text, R, key, open, close) ==
    /\ open \in 1..Len(text) /\ close \in (open + 1)..Len(text) /\ Len(text) \in Nat
    /\ text[open] \notin Space /\ text[close] = "rbrack"
    /\ Sound(R[open]) /\ InArray(R[open], key) /\ Level(R[open]) = 2
    /\ R[open].prev = "open" /\ R[open].entry = <<>>
    /\ Sound(R[close - 1]) /\ InArray(R[close - 1], key) /\ Level(R[close - 1]) = 2
    /\ R[close - 1].prev \in {"open", "value"}
    /\ R[close] = ReadToken(R[close - 1], "rbrack")

\* The states at the brackets of an array the editors have found.
LEMMA BracketsRead ==
    ASSUME NEW text \in Seq(Tokens), Plain(text), NEW R, R = Steps(Start, text),
           NEW key \in Arrays, NEW p \in Keyed(text, key), NEW span, span = ArraySpan(text, key)
    PROVE  Bracketed(text, R, key, span.open, span.close)
<1> DEFINE open == span.open
           close == span.close
<1>1. /\ open \in Cuts(text, span) /\ close \in Cuts(text, span)
      /\ open \in 1..Len(text) /\ close \in (open + 1)..Len(text)
      /\ \A c \in Cuts(text, span) :
            /\ text[c] \notin Space
            /\ c # close =>
                  /\ InArray(R[c], key) /\ Level(R[c]) = 2 /\ R[c].entry = <<>>
                  /\ R[c].prev = IF c = open THEN "open" ELSE "comma"
            /\ c # open => InArray(R[c - 1], key) /\ EndsElement(R[c - 1], text[c])
            /\ c = close => text[c] = "rbrack"
  <2>1. Keyed(text, key) # {}
    OBVIOUS
  <2> QED
    BY <2>1, CutsAre
<1> HIDE DEF open, close
<1>2. /\ Len(text) \in Nat /\ open # close /\ close \in 1..Len(text)
      /\ open \in 0..Len(text) /\ close - 1 \in 0..Len(text)
  <2>1. Len(text) \in Nat
    OBVIOUS
  <2> QED
    BY <1>1, <2>1
<1>3. text[close] = "rbrack" /\ "rbrack" \notin Space /\ "rbrack" \in Closing
  BY <1>1 DEF Space, Closing
<1>4. /\ R[close] = ReadToken(R[close - 1], "rbrack") /\ Sound(R[close - 1]) /\ Sound(R[open])
      /\ ~Over(R[close - 1]) /\ Fits(R[close - 1], "rbrack")
  <2>1. R[close] = ReadToken(R[close - 1], text[close]) /\ ~Over(R[close - 1])
        /\ Fits(R[close - 1], text[close])
    BY <1>2, <1>3, PlainReads
  <2>2. Sound(R[close - 1]) /\ Sound(R[open])
    BY <1>2, PlainReads
  <2> QED
    BY <1>3, <2>1, <2>2
<1>5. R[close - 1].prev \in {"open", "value"}
  BY <1>3, <1>4, ClosingRead
<1>6. InArray(R[close - 1], key) /\ Level(R[close - 1]) = 2
  BY <1>1, <1>2 DEF EndsElement
<1>7. InArray(R[open], key) /\ Level(R[open]) = 2 /\ R[open].prev = "open" /\ R[open].entry = <<>>
  BY <1>1, <1>2
<1>8. Bracketed(text, R, key, open, close)
  BY <1>1, <1>2, <1>3, <1>4, <1>5, <1>6, <1>7 DEF Bracketed
<1> QED
  BY <1>8 DEF open, close

\* Nothing is read of an empty array.
LEMMA EmptyArray ==
    ASSUME NEW text \in Seq(Tokens), Plain(text), NEW R, R = Steps(Start, text),
           NEW key \in Arrays, NEW p \in Keyed(text, key), NEW span, span = ArraySpan(text, key),
           Blank(text, span.open + 1, span.close - 1)
    PROVE  /\ Ready(R[span.open], key, R[span.close].entries)
           /\ R[span.close - 1] = R[span.open]
<1> DEFINE open == span.open
           close == span.close
           u == R[open]
<1>1. Bracketed(text, R, key, open, close) /\ Blank(text, open + 1, close - 1)
  BY BracketsRead
<1> HIDE DEF open, close
<1>2. R[close - 1] = u
  <2>1. open \in 0..Len(text) /\ close - 1 \in open..Len(text) /\ close - 1 \in open..(close - 1)
    BY <1>1 DEF Bracketed
  <2>2. \A k \in (open + 1)..(close - 1) : text[k] \in Space
    BY <1>1 DEF Blank
  <2>3. \A k \in open..(close - 1) : R[k] = R[open]
    BY <2>1, <2>2, OverSpace
  <2> QED
    BY <2>1, <2>3
<1>3. R[close].entries = u.entries
  <2>1. /\ R[close] = ReadToken(u, "rbrack") /\ Sound(u) /\ InArray(u, key) /\ Level(u) = 2
        /\ u.prev = "open" /\ u.entry = <<>>
    BY <1>1, <1>2 DEF Bracketed
  <2> HIDE DEF u
  <2> QED
    BY <2>1, ClosesArray
<1>4. Ready(u, key, R[close].entries)
  BY <1>1, <1>3 DEF Bracketed, Ready
<1> QED
  BY <1>2, <1>4 DEF open, close

\* An array that is not empty ends with an element.
Full(text, R, open, close, y) ==
    /\ y \in (open + 1)..(close - 1) /\ text[y] \notin Space
    /\ Blank(text, y + 1, close - 1)
    /\ R[close - 1] = R[y] /\ R[close - 1].prev = "value"

\* An array with elements takes one more behind its last token.
LEMMA FullArray ==
    ASSUME NEW text \in Seq(Tokens), Plain(text), NEW R, R = Steps(Start, text),
           NEW key \in Arrays, NEW p \in Keyed(text, key), NEW span, span = ArraySpan(text, key),
           ~Blank(text, span.open + 1, span.close - 1)
    PROVE  Full(text, R, span.open, span.close, Before(text, span.close))
<1> DEFINE open == span.open
           close == span.close
           y == Before(text, close)
           S == {c \in Cuts(text, span) : c < close}
           a == Greatest(S)
<1>1. Bracketed(text, R, key, open, close) /\ ~Blank(text, open + 1, close - 1)
  BY BracketsRead
<1>2. /\ Cuts(text, span) \subseteq open..close
      /\ open \in Cuts(text, span) /\ close \in Cuts(text, span)
      /\ \A c \in Cuts(text, span) :
            /\ text[c] \notin Space
            /\ c # close => R[c].prev = IF c = open THEN "open" ELSE "comma"
  <2>1. Keyed(text, key) # {}
    OBVIOUS
  <2> QED
    BY <2>1, CutsAre
<1> HIDE DEF open, close
<1>3. /\ open \in Nat /\ close \in Nat /\ open < close /\ close <= Len(text) /\ Len(text) \in Nat
      /\ open >= 1 /\ text[open] \notin Space /\ R[close - 1].prev \in {"open", "value"}
  BY <1>1 DEF Bracketed
<1>4. /\ y \in 0..(close - 1) /\ (y >= 1 => y \in Solid(text))
      /\ \A j \in (y + 1)..(close - 1) : text[j] \in Space
  <2>1. close \in 1..(Len(text) + 1)
    BY <1>3
  <2> QED
    BY <2>1, BeforeIs
<1> HIDE DEF y
<1>5. y > open
  <2>1. PICK k \in (open + 1)..(close - 1) : text[k] \notin Space
    BY <1>1 DEF Blank
  <2>2. ~(k \in (y + 1)..(close - 1))
    BY <1>4, <2>1
  <2> QED
    BY <1>3, <1>4, <2>1, <2>2
<1>6. y \in Solid(text) /\ text[y] \notin Space /\ y \in Nat /\ y < close
  BY <1>3, <1>4, <1>5 DEF Solid
<1>7. a \in S /\ \A c \in S : c <= a
  <2>1. S \in SUBSET Nat /\ S # {} /\ \A c \in S : c <= close
    BY <1>2, <1>3
  <2> HIDE DEF S
  <2> QED
    BY <1>3, <2>1, GreatestIs
<1>8. /\ a \in Cuts(text, span) /\ a < close /\ a \in Nat
      /\ \A k \in Cuts(text, span) : ~(a < k /\ k < close)
  <2>1. a \in Cuts(text, span) /\ a < close /\ \A k \in Cuts(text, span) : k < close => k <= a
    BY <1>7
  <2> HIDE DEF a
  <2>2. a \in Nat
    BY <1>2, <1>3, <2>1
  <2>3. ASSUME NEW k \in Cuts(text, span) PROVE ~(a < k /\ k < close)
    <3>1. k \in open..close
      BY <1>2
    <3>2. k < close => k <= a
      BY <2>1
    <3> QED
      BY <1>3, <2>2, <3>1, <3>2
  <2> QED
    BY <2>1, <2>2, <2>3
<1> HIDE DEF a, S
<1>9. R[close - 1] = R[y]
  <2>1. y \in 0..Len(text) /\ close - 1 \in y..Len(text) /\ close - 1 \in y..(close - 1)
    BY <1>3, <1>4
  <2>2. \A k \in y..(close - 1) : R[k] = R[y]
    BY <1>4, <2>1, OverSpace
  <2> QED
    BY <2>1, <2>2
<1>10. a < y
  <2>1. ~(a \in (y + 1)..(close - 1))
    BY <1>2, <1>4, <1>8
  <2>2. a # y
    <3>1. a = y => R[y].prev = "comma"
      BY <1>2, <1>3, <1>5, <1>8
    <3> QED
      BY <1>3, <1>9, <3>1
  <2> QED
    BY <1>3, <1>6, <1>8, <2>1, <2>2
<1>11. R[close - 1].prev = "value"
  <2>1. Keyed(text, key) # {}
    OBVIOUS
  <2> QED
    BY <1>2, <1>4, <1>6, <1>8, <1>10, <2>1, ElementRead
<1>12. Full(text, R, open, close, y)
  <2>1. y \in (open + 1)..(close - 1)
    BY <1>3, <1>5, <1>6
  <2> QED
    BY <1>4, <1>6, <1>9, <1>11, <2>1 DEF Full, Blank
<1> QED
  BY <1>12 DEF y, open, close

\* What is put in an array, and what is behind it.
LEMMA Placed ==
    ASSUME NEW b \in Seq(Tokens), Plain(b), NEW B, B = Steps(Start, b),
           NEW key \in Arrays, NEW p \in Keyed(b, key), NEW close, close = ArraySpan(b, key).close,
           NEW entry, NEW h \in Seq(Tokens), Done(Behind(Start, h), key, B[close].entries, entry),
           NEW l \in 0..(close - 1), Blank(b, l + 1, close - 1)
    PROVE  /\ h \o SubSeq(b, l + 1, Len(b)) \in Seq(Tokens)
           /\ OneNew(h \o SubSeq(b, l + 1, Len(b)), b, key, EntryOf(entry))
<1> DEFINE tail == SubSeq(b, l + 1, Len(b))
           v == Behind(Start, h)
<1>1. l \in 0..Len(b)
  <2>1. close \in 1..Len(b) /\ Len(b) \in Nat
    <3>1. Closed(b, B, key, p, close)
      BY CloseRead
    <3>2. Len(b) \in Nat
      OBVIOUS
    <3> QED
      BY <3>1, <3>2 DEF Closed
  <2> QED
    BY <2>1
<1>2. tail \in Seq(Tokens) /\ EndOf(tail, b, l)
  BY <1>1, EndIs
<1>3. /\ Sound(v) /\ InArray(v, key) /\ Level(v) = 2 /\ v.prev = "value"
      /\ v.entry = EntryOf(entry) /\ v.entries = B[close].entries
  BY DEF Done
<1>4. v = Behind(Start, h)
  OBVIOUS
<1> HIDE DEF tail, v
<1>5. h \o tail \in Seq(Tokens) /\ OneNew(h \o tail, b, key, v.entry)
  BY <1>2, <1>3, <1>4, AddedFrom
<1> QED
  BY <1>3, <1>5 DEF tail

\* What is before the end of an array that has elements, with a comma.
LEMMA CommaPut ==
    ASSUME NEW b \in Seq(Tokens), Plain(b), NEW B, B = Steps(Start, b),
           NEW key \in Arrays, NEW p \in Keyed(b, key), NEW span, span = ArraySpan(b, key),
           NEW i \in 0..Len(b), B[i] = B[span.close - 1], B[i].prev = "value", NEW t \in Space
    PROVE  /\ SubSeq(b, 1, i) \o <<"comma", t>> \in Seq(Tokens)
           /\ Ready(Behind(Start, SubSeq(b, 1, i) \o <<"comma", t>>), key, B[span.close].entries)
<1> DEFINE x == SubSeq(b, 1, i)
           st == Behind(Start, x)
           y == <<"comma", t>>
           next == ReadToken(st, "rbrack")
<1>1. x \in Seq(Tokens) /\ st = B[i]
  BY PrefixBehind
<1>2. Bracketed(b, B, key, span.open, span.close)
  BY BracketsRead
<1>3. /\ Sound(st) /\ InArray(st, key) /\ Level(st) = 2 /\ st.prev = "value"
      /\ next = B[span.close]
  BY <1>1, <1>2 DEF Bracketed
<1>4. st = Behind(Start, x) /\ y = <<"comma", t>> /\ next = ReadToken(st, "rbrack")
  OBVIOUS
<1> HIDE DEF x, st, y, next
<1>5. x \o y \in Seq(Tokens) /\ Ready(Behind(Start, x \o y), key, next.entries)
  BY <1>1, <1>3, <1>4, CommaOn
<1> QED
  BY <1>3, <1>5 DEF x, y

\* What is between the brackets is blank where there is nothing solid in it.
LEMMA BodyBlank ==
    ASSUME NEW text \in Seq(Tokens), NEW open \in 1..Len(text), NEW close \in (open + 1)..Len(text),
           NEW body, body = SubSeq(text, open + 1, close - 1)
    PROVE  Solid(body) = {} <=> Blank(text, open + 1, close - 1)
<1>1. Len(text) \in Nat /\ open \in Nat /\ close \in Nat /\ open < close
  OBVIOUS
<1>2. /\ DOMAIN body = 1..((close - 1) - open)
      /\ \A k \in 1..((close - 1) - open) : body[k] = text[open + k]
  BY <1>1
<1>3. ASSUME Solid(body) = {}, NEW k \in (open + 1)..(close - 1) PROVE text[k] \in Space
  <2>1. k - open \in 1..((close - 1) - open) /\ open + (k - open) = k
    BY <1>1
  <2> QED
    BY <1>2, <1>3, <2>1 DEF Solid
<1>4. ASSUME Blank(text, open + 1, close - 1), NEW k \in DOMAIN body PROVE body[k] \in Space
  <2>1. k \in 1..((close - 1) - open) /\ open + k \in (open + 1)..(close - 1)
    BY <1>1, <1>2
  <2> QED
    BY <1>2, <1>4, <2>1 DEF Blank
<1> QED
  BY <1>3, <1>4 DEF Blank, Solid

\* Something to put at the end of an array where it can be.
Adding(b, B, key, span, entry) ==
    /\ Plain(b) /\ B = Steps(Start, b) /\ key \in Arrays /\ Keyed(b, key) # {}
    /\ span = ArraySpan(b, key) /\ Bracketed(b, B, key, span.open, span.close)
    /\ entry \in Seq(Tokens) /\ IsValue(entry)

\* An array that is on one line stays on it.
LEMMA InlineAdded ==
    ASSUME NEW b \in Seq(Tokens), NEW B, NEW key, NEW span, NEW entry, Adding(b, B, key, span, entry),
           NEW mid, mid = IF Blank(b, span.open + 1, span.close - 1) THEN <<>> ELSE <<"comma", "sp">>,
           NEW a, a = SubSeq(b, 1, span.close - 1) \o mid \o entry \o SubSeq(b, span.close, Len(b))
    PROVE  a \in Seq(Tokens) /\ OneNew(a, b, key, EntryOf(entry))
<1> DEFINE head == SubSeq(b, 1, span.close - 1)
           close == span.close
           x == head \o mid
           h == x \o entry
           tail == SubSeq(b, close, Len(b))
<1>1. /\ Plain(b) /\ B = Steps(Start, b) /\ key \in Arrays /\ span = ArraySpan(b, key)
      /\ entry \in Seq(Tokens) /\ IsValue(entry) /\ Bracketed(b, B, key, span.open, close)
  BY DEF Adding
<1>2. PICK p \in Keyed(b, key) : TRUE
  BY DEF Adding
<1>3. /\ close - 1 \in 0..Len(b) /\ close - 1 \in 0..(close - 1) /\ (close - 1) + 1 = close
      /\ Blank(b, (close - 1) + 1, close - 1)
  <2> HIDE DEF close
  <2> QED
    BY <1>1 DEF Bracketed, Blank
<1>4. x \in Seq(Tokens) /\ Ready(Behind(Start, x), key, B[close].entries)
  <2>1. CASE Blank(b, span.open + 1, span.close - 1)
    <3>1. Ready(B[span.open], key, B[close].entries) /\ B[close - 1] = B[span.open]
      BY <1>1, <1>2, <2>1, EmptyArray
    <3>2. head \in Seq(Tokens) /\ Behind(Start, head) = B[close - 1]
      <4>1. Steps(Start, b)[close - 1] = B[close - 1]
        BY <1>1
      <4> HIDE DEF close
      <4> QED
        BY <1>3, <4>1, PrefixBehind DEF close
    <3>3. mid = <<>> /\ mid \in Seq(Tokens) /\ Blank(mid, 1, Len(mid))
      BY <2>1 DEF Blank
    <3> HIDE DEF head
    <3>4. x \in Seq(Tokens) /\ Behind(Start, x) = Behind(Start, head)
      BY <3>2, <3>3, SpaceOn
    <3> QED
      BY <3>1, <3>2, <3>4
  <2>2. CASE ~Blank(b, span.open + 1, span.close - 1)
    <3>1. B[close - 1].prev = "value"
      <4>1. Full(b, B, span.open, span.close, Before(b, span.close))
        BY <1>1, <1>2, <2>2, FullArray
      <4> QED
        BY <4>1 DEF Full
    <3>2. mid = <<"comma", "sp">> /\ "sp" \in Space
      BY <2>2 DEF Space
    <3>3. SubSeq(b, 1, close - 1) \o <<"comma", "sp">> \in Seq(Tokens)
          /\ Ready(Behind(Start, SubSeq(b, 1, close - 1) \o <<"comma", "sp">>), key, B[span.close].entries)
      BY <1>1, <1>2, <1>3, <3>1, <3>2, CommaPut
    <3> QED
      BY <3>2, <3>3
  <2> QED
    BY <2>1, <2>2
<1> HIDE DEF x
<1>5. h \in Seq(Tokens) /\ Done(Behind(Start, h), key, B[close].entries, entry)
  BY <1>1, <1>4, ReadyDone
<1> HIDE DEF h
<1>6. /\ h \o SubSeq(b, (close - 1) + 1, Len(b)) \in Seq(Tokens)
      /\ OneNew(h \o SubSeq(b, (close - 1) + 1, Len(b)), b, key, EntryOf(entry))
  <2>1. close = ArraySpan(b, key).close
    BY <1>1
  <2> HIDE DEF close
  <2> QED
    BY <1>1, <1>2, <1>3, <1>5, <2>1, Placed
<1>7. h \o tail \in Seq(Tokens) /\ OneNew(h \o tail, b, key, EntryOf(entry))
  BY <1>3, <1>6
<1>8. a = h \o tail
  BY DEF h, x
<1> QED
  BY <1>7, <1>8

\* An array that is empty on more than one line gets a line of its own.
LEMMA EmptyAdded ==
    ASSUME NEW b \in Seq(Tokens), NEW B, NEW key, NEW span, NEW entry, Adding(b, B, key, span, entry),
           Blank(b, span.open + 1, span.close - 1),
           NEW y \in Seq(Tokens), Blank(y, 1, Len(y)), NEW z \in Seq(Tokens), Blank(z, 1, Len(z)),
           NEW a, a = SubSeq(b, 1, span.open) \o <<"nl">> \o y \o <<"sp">> \o entry \o <<"nl">> \o z
                      \o SubSeq(b, span.close, Len(b))
    PROVE  a \in Seq(Tokens) /\ OneNew(a, b, key, EntryOf(entry))
<1> DEFINE close == span.close
           x0 == SubSeq(b, 1, span.open)
           x1 == x0 \o <<"nl">>
           x2 == x1 \o y
           x3 == x2 \o <<"sp">>
           h3 == x3 \o entry
           h2 == h3 \o <<"nl">>
           h == h2 \o z
           tail == SubSeq(b, close, Len(b))
<1>1. /\ Plain(b) /\ B = Steps(Start, b) /\ key \in Arrays /\ span = ArraySpan(b, key)
      /\ entry \in Seq(Tokens) /\ IsValue(entry) /\ Bracketed(b, B, key, span.open, close)
  BY DEF Adding
<1>2. PICK p \in Keyed(b, key) : TRUE
  BY DEF Adding
<1>3. /\ close - 1 \in 0..(close - 1) /\ (close - 1) + 1 = close /\ span.open \in 0..Len(b)
      /\ Blank(b, (close - 1) + 1, close - 1)
  <2> DEFINE o == span.open
  <2> HIDE DEF close, o
  <2>1. Bracketed(b, B, key, o, close)
    BY <1>1 DEF o
  <2>2. o \in 0..Len(b) /\ close - 1 \in 0..(close - 1) /\ (close - 1) + 1 = close
    BY <2>1 DEF Bracketed
  <2>3. Blank(b, (close - 1) + 1, close - 1)
    BY <2>1 DEF Bracketed, Blank
  <2> QED
    BY <2>2, <2>3 DEF o
<1>4. x0 \in Seq(Tokens) /\ Ready(Behind(Start, x0), key, B[close].entries)
  <2>1. Ready(B[span.open], key, B[close].entries)
    BY <1>1, <1>2, EmptyArray
  <2>2. x0 \in Seq(Tokens) /\ Behind(Start, x0) = Steps(Start, b)[span.open]
    BY <1>3, PrefixBehind
  <2> QED
    BY <1>1, <2>1, <2>2
<1> HIDE DEF x0
<1>5. x1 \in Seq(Tokens) /\ Behind(Start, x1) = Behind(Start, x0)
  BY <1>4, BlankOnes, SpaceOn
<1> HIDE DEF x1
<1>6. x2 \in Seq(Tokens) /\ Behind(Start, x2) = Behind(Start, x1)
  BY <1>5, SpaceOn
<1> HIDE DEF x2
<1>7. x3 \in Seq(Tokens) /\ Behind(Start, x3) = Behind(Start, x2)
  BY <1>6, BlankOnes, SpaceOn
<1> HIDE DEF x3
<1>8. Ready(Behind(Start, x3), key, B[close].entries)
  BY <1>4, <1>5, <1>6, <1>7
<1>9. h3 \in Seq(Tokens) /\ Done(Behind(Start, h3), key, B[close].entries, entry)
  BY <1>1, <1>7, <1>8, ReadyDone
<1> HIDE DEF h3
<1>10. h2 \in Seq(Tokens) /\ Behind(Start, h2) = Behind(Start, h3)
  BY <1>9, BlankOnes, SpaceOn
<1> HIDE DEF h2
<1>11. h \in Seq(Tokens) /\ Behind(Start, h) = Behind(Start, h2)
  BY <1>10, SpaceOn
<1> HIDE DEF h
<1>12. Done(Behind(Start, h), key, B[close].entries, entry)
  BY <1>9, <1>10, <1>11
<1>13. /\ h \o SubSeq(b, (close - 1) + 1, Len(b)) \in Seq(Tokens)
       /\ OneNew(h \o SubSeq(b, (close - 1) + 1, Len(b)), b, key, EntryOf(entry))
  <2>1. close = ArraySpan(b, key).close
    BY <1>1
  <2> HIDE DEF close
  <2> QED
    BY <1>1, <1>2, <1>3, <1>11, <1>12, <2>1, Placed
<1>14. h \o tail \in Seq(Tokens) /\ OneNew(h \o tail, b, key, EntryOf(entry))
  BY <1>3, <1>13
<1>15. a = h \o tail
  BY DEF h, h2, h3, x3, x2, x1, x0
<1> QED
  BY <1>14, <1>15

\* An array that has elements on more than one line gets one more line.
LEMMA LineAdded ==
    ASSUME NEW b \in Seq(Tokens), NEW B, NEW key, NEW span, NEW entry, Adding(b, B, key, span, entry),
           ~Blank(b, span.open + 1, span.close - 1),
           NEW y \in Seq(Tokens), Blank(y, 1, Len(y)),
           NEW last, last = Before(b, span.close),
           NEW a, a = SubSeq(b, 1, last) \o <<"comma", "nl">> \o y \o entry
                      \o SubSeq(b, last + 1, Len(b))
    PROVE  a \in Seq(Tokens) /\ OneNew(a, b, key, EntryOf(entry))
<1> DEFINE close == span.close
           x0 == SubSeq(b, 1, last) \o <<"comma", "nl">>
           x1 == x0 \o y
           h == x1 \o entry
           tail == SubSeq(b, last + 1, Len(b))
<1>1. /\ Plain(b) /\ B = Steps(Start, b) /\ key \in Arrays /\ span = ArraySpan(b, key)
      /\ entry \in Seq(Tokens) /\ IsValue(entry) /\ Bracketed(b, B, key, span.open, close)
  BY DEF Adding
<1>2. PICK p \in Keyed(b, key) : TRUE
  BY DEF Adding
<1>3. Full(b, B, span.open, close, last)
  BY <1>1, <1>2, FullArray
<1>4. /\ last \in 0..Len(b) /\ last \in 0..(close - 1) /\ Blank(b, last + 1, close - 1)
      /\ B[last] = B[close - 1] /\ B[last].prev = "value"
  <2> DEFINE o == span.open
  <2> HIDE DEF close, o
  <2>1. Bracketed(b, B, key, o, close) /\ Full(b, B, o, close, last)
    BY <1>1, <1>3 DEF o
  <2>2. last \in 0..Len(b) /\ last \in 0..(close - 1)
    BY <2>1 DEF Bracketed, Full
  <2> QED
    BY <2>1, <2>2 DEF Full
<1>5. x0 \in Seq(Tokens) /\ Ready(Behind(Start, x0), key, B[close].entries)
  <2>1. "nl" \in Space
    BY DEF Space
  <2> QED
    BY <1>1, <1>2, <1>4, <2>1, CommaPut
<1> HIDE DEF x0
<1>6. x1 \in Seq(Tokens) /\ Behind(Start, x1) = Behind(Start, x0)
  BY <1>5, SpaceOn
<1> HIDE DEF x1
<1>7. Ready(Behind(Start, x1), key, B[close].entries)
  BY <1>5, <1>6
<1>8. h \in Seq(Tokens) /\ Done(Behind(Start, h), key, B[close].entries, entry)
  BY <1>1, <1>6, <1>7, ReadyDone
<1> HIDE DEF h
<1>9. h \o tail \in Seq(Tokens) /\ OneNew(h \o tail, b, key, EntryOf(entry))
  <2>1. close = ArraySpan(b, key).close
    BY <1>1
  <2> HIDE DEF close
  <2> QED
    BY <1>1, <1>2, <1>4, <1>8, <2>1, Placed
<1>10. a = h \o tail
  BY DEF h, x1, x0
<1> QED
  BY <1>9, <1>10

\* An entry that is added to an array is its last one.
LEMMA AdditionReads ==
    ASSUME NEW b \in Seq(Tokens), Plain(b), NEW key \in Arrays, Keyed(b, key) # {},
           NEW entry \in Seq(Tokens), IsValue(entry), NEW span, span = ArraySpan(b, key),
           NEW a, a = AppendToExisting(b, span, entry)
    PROVE  a \in Seq(Tokens) /\ OneNew(a, b, key, EntryOf(entry))
<1> DEFINE B == Steps(Start, b)
           body == SubSeq(b, span.open + 1, span.close - 1)
           blank == Blank(b, span.open + 1, span.close - 1)
           inline == \A k \in DOMAIN body : body[k] # "nl"
           head == SubSeq(b, 1, span.close - 1)
           tail == SubSeq(b, span.close, Len(b))
<1>1. Bracketed(b, B, key, span.open, span.close)
  BY BracketsRead
<1>2. Adding(b, B, key, span, entry)
  BY <1>1 DEF Adding
<1>3. Solid(body) = {} <=> blank
  <2>1. span.open \in 1..Len(b) /\ span.close \in (span.open + 1)..Len(b)
    BY <1>1 DEF Bracketed
  <2> QED
    BY <2>1, BodyBlank
<1>4. /\ span.open \in Nat /\ span.close \in 1..(Len(b) + 1) /\ span.close \in Nat
  BY <1>1 DEF Bracketed
<1>5. CASE inline
  <2> DEFINE mid == IF blank THEN <<>> ELSE <<"comma", "sp">>
  <2>1. a = head \o mid \o entry \o tail
    BY <1>3, <1>5 DEF AppendToExisting
  <2> QED
    BY <1>2, <2>1, InlineAdded
<1>6. CASE ~inline /\ blank
  <2> DEFINE y == IndentAt(b, span.open)
             z == IndentAt(b, span.close)
  <2>1. a = SubSeq(b, 1, span.open) \o <<"nl">> \o y \o <<"sp">> \o entry \o <<"nl">> \o z \o tail
    BY <1>3, <1>6 DEF AppendToExisting
  <2>2. y \in Seq(Tokens) /\ Blank(y, 1, Len(y)) /\ z \in Seq(Tokens) /\ Blank(z, 1, Len(z))
    BY <1>4, IndentIs
  <2> HIDE DEF y, z
  <2> QED
    BY <1>2, <1>6, <2>1, <2>2, EmptyAdded
<1>7. CASE ~inline /\ ~blank
  <2> DEFINE last == Before(b, span.close)
             first == After(b, span.open)
             line == IF LineStart(b, last) < first THEN first ELSE LineStart(b, last)
             y == IndentAt(b, line)
  <2>1. a = SubSeq(b, 1, last) \o <<"comma", "nl">> \o y \o entry \o SubSeq(b, last + 1, Len(b))
    BY <1>3, <1>7 DEF AppendToExisting, AppendToLines
  <2>2. last \in Nat
    BY <1>4, BeforeIs
  <2>3. first \in Nat
    <3>1. span.open \in 0..Len(b) /\ Len(b) \in Nat
      BY <1>1 DEF Bracketed
    <3> QED
      BY <3>1, AfterIs
  <2>4. LineStart(b, last) \in Nat
    BY <2>2, LineStartIs
  <2>5. y \in Seq(Tokens) /\ Blank(y, 1, Len(y))
    <3> HIDE DEF last, first
    <3>1. line \in Nat
      BY <2>3, <2>4
    <3> HIDE DEF line
    <3> QED
      BY <3>1, IndentIs
  <2> HIDE DEF y
  <2> QED
    BY <1>2, <1>7, <2>1, <2>5, LineAdded
<1> QED
  BY <1>5, <1>6, <1>7

-----------------------------------------------------------------------------
(* Adding under a key that is not there *)

\* The entries, with a key that was not there.
WithKey(g, key) == [k \in DOMAIN g \cup {key} |-> IF k = key THEN <<>> ELSE g[k]]

\* A field of the object can begin there.
FieldDue(st) == Sound(st) /\ st.stack = <<"lbrace">> /\ st.prev \in {"open", "comma"}

LEMMA FieldDueIs ==
    ASSUME NEW st, FieldDue(st)
    PROVE  /\ Level(st) = 1 /\ In(st) = "lbrace" /\ st.stack # <<>> /\ ~Over(st) /\ KeyDue(st)
           /\ st.entry = <<>>
<1>1. Len(<<"lbrace">>) = 1 /\ <<"lbrace">>[1] = "lbrace" /\ <<"lbrace">> # <<>>
  OBVIOUS
<1>2. Level(st) = 1 /\ st.stack # <<>>
  BY <1>1 DEF FieldDue, Level
<1>3. In(st) = "lbrace"
  BY <1>1, <1>2 DEF In, FieldDue
<1>4. st.entry = <<>>
  BY <1>2, SoundSays DEF FieldDue
<1> QED
  BY <1>2, <1>3, <1>4 DEF Over, KeyDue, FieldDue

\* A key is read, its colon and the bracket.
LEMMA KeyOpens ==
    ASSUME NEW st, FieldDue(st), NEW key \in Arrays,
           NEW y \in Seq(Tokens), Len(y) = 5, y[1] \in Space, y[2] = key, y[3] = "colon",
           y[4] \in Space, y[5] = "lbrack", NEW v, v = Behind(st, y)
    PROVE  /\ Sound(v) /\ InArray(v, key) /\ Level(v) = 2 /\ v.prev = "open" /\ v.entry = <<>>
           /\ v.entries = WithKey(st.entries, key)
<1> DEFINE S == Steps(st, y)
<1>1. /\ S[0] = st /\ \A n \in 1..Len(y) : S[n] = ReadToken(S[n - 1], y[n])
      /\ \A n \in 0..Len(y) : Sound(S[n])
  BY StepsAre, SoundSteps DEF FieldDue
<1> HIDE DEF S
<1>2. /\ 1 \in 1..Len(y) /\ 2 \in 1..Len(y) /\ 3 \in 1..Len(y) /\ 4 \in 1..Len(y) /\ 5 \in 1..Len(y)
      /\ 1 - 1 = 0 /\ 2 - 1 = 1 /\ 3 - 1 = 2 /\ 4 - 1 = 3 /\ 5 - 1 = 4
      /\ 2 \in 0..Len(y) /\ 3 \in 0..Len(y) /\ 5 \in 0..Len(y)
  OBVIOUS
<1>3. /\ S[1] = ReadToken(S[0], y[1]) /\ S[2] = ReadToken(S[1], y[2]) /\ S[3] = ReadToken(S[2], y[3])
      /\ S[4] = ReadToken(S[3], y[4]) /\ S[5] = ReadToken(S[4], y[5])
  BY <1>1, <1>2
<1>4. S[1] = st /\ S[4] = S[3]
  BY <1>1, <1>3, SpaceReads
<1>5. IsString(key) /\ key \in Tokens
  BY ArraysAreStrings
<1>6. Level(st) = 1 /\ In(st) = "lbrace" /\ st.stack # <<>> /\ ~Over(st) /\ KeyDue(st)
  BY FieldDueIs
<1>7. NewKey(st, key) /\ Fits(st, key) /\ Level(st) < 2
  <2>1. 1 < 2
    OBVIOUS
  <2> QED
    BY <1>5, <1>6, <2>1 DEF NewKey, Fits
<1> DEFINE b == S[2]
           c == S[3]
           d == S[5]
           g == WithKey(st.entries, key)
<1>8. b.stack = <<"lbrace">> /\ b.prev = "key" /\ b.key = key /\ b.entries = g /\ Sound(b)
  <2>1. b = ReadToken(st, key)
    BY <1>3, <1>4
  <2>2. Sound(st)
    BY DEF FieldDue
  <2>3. Sound(b)
    BY <1>1, <1>2
  <2> HIDE DEF b
  <2>4. b = [stack |-> st.stack, prev |-> "key", key |-> key, entry |-> <<>>, entries |-> g]
    BY <1>5, <1>6, <1>7, <2>1, <2>2, StringRead DEF WithKey
  <2> HIDE DEF g
  <2> QED
    BY <2>3, <2>4 DEF FieldDue
<1> HIDE DEF g
<1>9. Len(<<"lbrace">>) = 1 /\ <<"lbrace">> # <<>> /\ 1 < 2
  OBVIOUS
<1>10. Level(b) = 1 /\ b.stack # <<>>
  BY <1>8, <1>9 DEF Level
<1>11. c.stack = <<"lbrace">> /\ c.prev = "colon" /\ c.key = key /\ c.entries = g /\ Sound(c)
  <2>1. c = ReadToken(b, "colon") /\ Sound(c)
    BY <1>1, <1>2, <1>3
  <2>2. ~Over(b) /\ Fits(b, "colon")
    BY <1>8, <1>10 DEF Over, Fits
  <2> HIDE DEF b, c
  <2>3. c = [stack |-> b.stack, prev |-> "colon", key |-> b.key,
             entry |-> IF Level(b) < 2 THEN <<>> ELSE Append(b.entry, "colon"), entries |-> b.entries]
    BY <1>8, <2>1, <2>2, ColonRead
  <2> DEFINE en == IF Level(b) < 2 THEN <<>> ELSE Append(b.entry, "colon")
  <2>4. c = [stack |-> b.stack, prev |-> "colon", key |-> b.key, entry |-> en, entries |-> b.entries]
    BY <2>3
  <2> HIDE DEF en
  <2> QED
    BY <1>8, <2>1, <2>4
<1>12. Level(c) = 1 /\ c.stack # <<>>
  BY <1>9, <1>11 DEF Level
<1>13. /\ d.stack = Append(c.stack, "lbrack") /\ d.prev = "open" /\ d.key = key /\ d.entry = <<>>
       /\ d.entries = g /\ Sound(d)
  <2>1. d = ReadToken(c, "lbrack") /\ Sound(d)
    BY <1>1, <1>2, <1>3, <1>4
  <2>2. "lbrack" \in Opening
    BY DEF Opening
  <2>3. ~Over(c) /\ Fits(c, "lbrack")
    BY <1>11, <1>12, <2>2 DEF Over, Fits, Due
  <2> HIDE DEF c, d
  <2>4. d = [stack |-> Append(c.stack, "lbrack"), prev |-> "open", key |-> c.key,
             entry |-> IF Level(c) < 2 THEN <<>> ELSE Append(c.entry, "lbrack"), entries |-> c.entries]
    BY <1>11, <2>1, <2>2, <2>3, OpeningRead
  <2>5. d = [stack |-> Append(c.stack, "lbrack"), prev |-> "open", key |-> c.key,
             entry |-> <<>>, entries |-> c.entries]
    BY <1>9, <1>12, <2>4
  <2> DEFINE sk == Append(c.stack, "lbrack")
  <2> HIDE DEF sk
  <2>6. d = [stack |-> sk, prev |-> "open", key |-> c.key, entry |-> <<>>, entries |-> c.entries]
    BY <2>5 DEF sk
  <2>7. d.stack = sk /\ d.prev = "open" /\ d.key = key /\ d.entry = <<>> /\ d.entries = g
    BY <1>11, <2>6
  <2> QED
    BY <2>1, <2>7 DEF sk
<1>14. InArray(d, key) /\ Level(d) = 2
  <2>1. d.stack = Append(<<"lbrace">>, "lbrack")
    BY <1>11, <1>13
  <2>2. /\ Len(Append(<<"lbrace">>, "lbrack")) = 2 /\ Append(<<"lbrace">>, "lbrack")[1] = "lbrace"
        /\ Append(<<"lbrace">>, "lbrack")[2] = "lbrack"
    OBVIOUS
  <2> DEFINE sk == Append(<<"lbrace">>, "lbrack")
  <2> HIDE DEF sk
  <2>3. Len(sk) = 2 /\ sk[1] = "lbrace" /\ sk[2] = "lbrack" /\ d.stack = sk
    BY <2>1, <2>2 DEF sk
  <2>4. Level(d) = 2
    BY <2>3 DEF Level
  <2> QED
    BY <1>13, <2>3, <2>4 DEF InArray
<1>15. v = d
  BY DEF Behind, S
<1> QED
  BY <1>13, <1>14, <1>15 DEF g

\* What is around the entry of a new array.
ArrayParts(key, y, z) ==
    /\ y \in Seq(Tokens) /\ Len(y) = 5 /\ y[1] \in Space /\ y[2] = key /\ y[3] = "colon"
    /\ y[4] \in Space /\ y[5] = "lbrack"
    /\ z \in Seq(Tokens) /\ Len(z) = 2 /\ z[1] = "rbrack" /\ z[2] \in Space

LEMMA PartsAre ==
    ASSUME NEW key \in Arrays
    PROVE  ArrayParts(key, <<"sp", key, "colon", "sp", "lbrack">>, <<"rbrack", "nl">>)
<1>1. /\ "sp" \in Tokens /\ "nl" \in Tokens /\ "colon" \in Tokens /\ "lbrack" \in Tokens
      /\ "rbrack" \in Tokens /\ key \in Tokens /\ "sp" \in Space /\ "nl" \in Space
  BY DEF Tokens, Space, Opening, Closing
<1> QED
  BY <1>1 DEF ArrayParts

\* The whole of a new array with an entry.
LEMMA ArrayRead ==
    ASSUME NEW st, FieldDue(st), NEW key \in Arrays, NEW entry \in Seq(Tokens), IsValue(entry),
           NEW x, NEW z, ArrayParts(key, x, z), NEW v, v = Behind(st, x \o entry \o z)
    PROVE  /\ x \o entry \o z \in Seq(Tokens)
           /\ Sound(v) /\ v.stack = <<"lbrace">> /\ v.prev = "value"
           /\ v.entries = Longer(WithKey(st.entries, key), key, EntryOf(entry))
<1> DEFINE u == Behind(st, x)
           w == Behind(u, entry)
<1>1. /\ x \in Seq(Tokens) /\ Len(x) = 5 /\ x[1] \in Space /\ x[2] = key /\ x[3] = "colon"
      /\ x[4] \in Space /\ x[5] = "lbrack"
      /\ z \in Seq(Tokens) /\ Len(z) = 2 /\ z[1] = "rbrack" /\ z[2] \in Space
  BY DEF ArrayParts
<1>2. /\ x \o entry \in Seq(Tokens) /\ x \o entry \o z \in Seq(Tokens)
      /\ Behind(st, x \o entry) = w /\ v = Behind(Behind(st, x \o entry), z)
  <2>1. x \o entry \in Seq(Tokens) /\ Behind(st, x \o entry) = w
    BY <1>1, ReadBoth
  <2> DEFINE y == x \o entry
  <2> HIDE DEF y
  <2>2. y \in Seq(Tokens)
    BY <2>1 DEF y
  <2>3. y \o z \in Seq(Tokens) /\ Behind(st, y \o z) = Behind(Behind(st, y), z)
    BY <1>1, <2>2, ReadBoth
  <2> QED
    BY <2>1, <2>3 DEF y
<1>3. /\ Sound(u) /\ InArray(u, key) /\ Level(u) = 2 /\ u.prev = "open" /\ u.entry = <<>>
      /\ u.entries = WithKey(st.entries, key)
  BY <1>1, KeyOpens
<1>4. w = Steps(u, entry)[Len(entry)] /\ Len(entry) \in 0..Len(entry)
  <2>1. Len(entry) \in Nat
    OBVIOUS
  <2> QED
    BY <2>1 DEF Behind
<1> HIDE DEF u, w
<1>5. /\ InArray(w, key) /\ Level(w) = 2 /\ w.prev = "value"
      /\ w.entry = EntryOf(entry) /\ w.entries = u.entries
  BY <1>3, <1>4, ValueRead
<1>6. Sound(w)
  BY <1>3, <1>4, SoundSteps
<1>7. w.entry # <<>>
  BY <1>5, <1>6, SoundSays
<1>8. v = ReadToken(w, "rbrack")
  <2>1. v = Behind(w, z)
    BY <1>2
  <2> QED
    BY <1>1, <2>1, SpaceThen
<1>9. v.stack = <<"lbrace">> /\ v.prev = "value" /\ v.entries = Longer(w.entries, key, w.entry)
  BY <1>5, <1>6, <1>7, <1>8, ClosesArray
<1>10. Sound(v)
  <2>1. "rbrack" \in Tokens /\ "rbrack" \in Closing
    BY DEF Tokens, Closing
  <2> QED
    BY <1>6, <1>8, <2>1, SoundStep
<1> QED
  BY <1>2, <1>3, <1>5, <1>9, <1>10

\* The end of the object, and nothing behind it.
EndsObject(tail) ==
    /\ tail \in Seq(Tokens) /\ Len(tail) >= 1 /\ tail[1] = "rbrace"
    /\ \A k \in 2..Len(tail) : tail[k] \in Space

LEMMA ObjectEnds ==
    ASSUME NEW v, Sound(v), v.stack = <<"lbrace">>, v.prev = "value", NEW tail, EndsObject(tail),
           NEW w, w = Behind(v, tail)
    PROVE  w.stack = <<>> /\ w.prev = "value" /\ w.entries = v.entries
<1> DEFINE S == Steps(v, tail)
<1>1. tail \in Seq(Tokens) /\ Len(tail) >= 1 /\ tail[1] = "rbrace" /\ \A k \in 2..Len(tail) : tail[k] \in Space
  BY DEF EndsObject
<1>2. /\ Len(tail) \in Nat /\ 1 \in 1..Len(tail) /\ 1 \in 0..Len(tail) /\ Len(tail) \in 1..Len(tail)
      /\ 1 - 1 = 0 /\ 1 + 1 = 2
  BY <1>1
<1>3. S[1] = ReadToken(v, "rbrace")
  BY <1>1, <1>2, StepsAre
<1>4. S[Len(tail)] = S[1]
  <2>1. \A n \in (1 + 1)..Len(tail) : tail[n] \in Space
    BY <1>1, <1>2
  <2>2. \A n \in 1..Len(tail) : S[n] = S[1]
    BY <1>1, <1>2, <2>1, OverSpace
  <2> QED
    BY <1>2, <2>2
<1>5. w = ReadToken(v, "rbrace")
  BY <1>3, <1>4 DEF Behind
<1>6. Len(<<"lbrace">>) = 1 /\ <<"lbrace">>[1] = "lbrace" /\ <<"lbrace">> # <<>>
      /\ SubSeq(<<"lbrace">>, 1, 1 - 1) = <<>> /\ 1 # 2
  OBVIOUS
<1>7. Level(v) = 1 /\ v.stack # <<>> /\ In(v) = "lbrace"
  BY <1>6 DEF Level, In
<1>8. ~Over(v) /\ Fits(v, "rbrace") /\ "rbrace" \in Closing
  BY <1>7 DEF Over, Fits, Closing
<1> DEFINE e == IF Level(v) <= 2 THEN <<>> ELSE Append(v.entry, "rbrace")
           f == IF Level(v) = 2 /\ v.entry # <<>> THEN Longer(v.entries, v.key, v.entry) ELSE v.entries
           k == SubSeq(v.stack, 1, Level(v) - 1)
<1>9. w = [stack |-> k, prev |-> "value", key |-> v.key, entry |-> e, entries |-> f]
  BY <1>5, <1>8, ClosingRead
<1>10. k = <<>> /\ f = v.entries
  <2>1. k = SubSeq(<<"lbrace">>, 1, 1 - 1)
    BY <1>7
  <2>2. f = v.entries
    BY <1>6, <1>7
  <2> HIDE DEF k, f
  <2> QED
    BY <1>6, <2>1, <2>2
<1> HIDE DEF e, f, k
<1> QED
  BY <1>9, <1>10

\* An object to which a key with an array of one entry is added, and its end.
LEMMA KeyAdded ==
    ASSUME NEW b \in Seq(Tokens), NEW key \in Arrays,
           NEW x \in Seq(Tokens), NEW st, st = Behind(Start, x), FieldDue(st),
           Reading(b).entries = st.entries, key \notin DOMAIN st.entries,
           NEW entry \in Seq(Tokens), IsValue(entry), NEW tail, EndsObject(tail),
           NEW y, NEW z, ArrayParts(key, y, z),
           NEW a, a = x \o (y \o entry \o z) \o tail
    PROVE  a \in Seq(Tokens) /\ OneNew(a, b, key, EntryOf(entry))
<1> DEFINE array == y \o entry \o z
           v == Behind(st, array)
           w == Behind(v, tail)
           e == EntryOf(entry)
           g == st.entries
<1>1. /\ array \in Seq(Tokens) /\ Sound(v) /\ v.stack = <<"lbrace">> /\ v.prev = "value"
      /\ v.entries = Longer(WithKey(g, key), key, e)
  <2>1. v = Behind(st, y \o entry \o z)
    OBVIOUS
  <2> HIDE DEF v
  <2>2. /\ y \o entry \o z \in Seq(Tokens) /\ Sound(v) /\ v.stack = <<"lbrace">> /\ v.prev = "value"
        /\ v.entries = Longer(WithKey(st.entries, key), key, EntryOf(entry))
    BY <2>1, ArrayRead
  <2> QED
    BY <2>2
<1> HIDE DEF array, v
<1>2. w.stack = <<>> /\ w.prev = "value" /\ w.entries = v.entries
  BY <1>1, ObjectEnds
<1>3. tail \in Seq(Tokens)
  BY DEF EndsObject
<1>4. a \in Seq(Tokens) /\ Behind(Start, a) = w
  <2>1. x \o array \in Seq(Tokens) /\ Behind(Start, x \o array) = v
    BY <1>1, ReadBoth DEF v
  <2> DEFINE h == x \o array
  <2>2. a = h \o tail
    BY DEF array
  <2>3. h \in Seq(Tokens) /\ Behind(Start, h) = v
    BY <2>1
  <2> HIDE DEF h
  <2>4. h \o tail \in Seq(Tokens) /\ Behind(Start, h \o tail) = w
    BY <1>3, <2>3, ReadBoth
  <2> QED
    BY <2>2, <2>4
<1>5. Reading(a) = w
  BY <1>4 DEF Behind, Reading
<1>6. Parses(a)
  BY <1>2, <1>5 DEF Parses
<1> HIDE DEF e, g, w
<1>7. /\ DOMAIN w.entries = DOMAIN g \cup {key} /\ w.entries[key] = Append(<<>>, e)
      /\ \A o \in DOMAIN g : w.entries[o] = g[o]
  <2>1. w.entries = Longer(WithKey(g, key), key, e)
    BY <1>1, <1>2
  <2>2. key \notin DOMAIN g
    BY DEF g
  <2> QED
    BY <2>1, <2>2 DEF Longer, WithKey
<1>8. Entries(a, key) = Append(<<>>, e)
  BY <1>5, <1>7 DEF Entries
<1>9. Entries(b, key) = <<>>
  BY DEF Entries, g
<1>10. ASSUME NEW o, o # key PROVE Entries(a, o) = Entries(b, o)
  <2>1. Reading(b).entries = g
    BY DEF g
  <2>2. CASE o \in DOMAIN g
    BY <1>5, <1>7, <2>1, <2>2 DEF Entries
  <2>3. CASE o \notin DOMAIN g
    BY <1>5, <1>7, <1>10, <2>1, <2>3 DEF Entries
  <2> QED
    BY <2>2, <2>3
<1>11. OneNew(a, b, key, e)
  BY <1>6, <1>8, <1>9, <1>10 DEF OneNew
<1> QED
  BY <1>4, <1>11 DEF e

\* The object of a plain text: where it begins and where it ends.
ObjectAt(b, B, first, last, close) ==
    /\ first \in 1..Len(b) /\ b[first] = "lbrace" /\ \A k \in 0..(first - 1) : B[k] = Start
    /\ B[first].prev = "open"
    /\ close \in (first + 1)..Len(b) /\ EndsObject(SubSeq(b, close, Len(b)))
    /\ b[close] = "rbrace" /\ \A k \in (close + 1)..Len(b) : b[k] \in Space
    /\ last \in first..(close - 1) /\ b[last] \notin Space
    /\ B[last] = B[close - 1] /\ Sound(B[last]) /\ B[last].stack = <<"lbrace">>
    /\ B[last].prev \in {"open", "value"}
    /\ B[last].entries = Reading(b).entries

\* Until the first token that is no space, the decoder has not begun.
LEMMA FirstToken ==
    ASSUME NEW b \in Seq(Tokens), Plain(b), NEW B, B = Steps(Start, b),
           NEW first, first = After(b, 0)
    PROVE  /\ first \in 1..Len(b) /\ b[first] = "lbrace" /\ b[first] \notin Space
           /\ \A k \in 0..(first - 1) : B[k] = Start
           /\ B[first].prev = "open"
<1>1. Len(b) \in Nat /\ 0 \in 0..Len(b) /\ 0 + 1 = 1 /\ Len(b) \in 0..Len(b)
  OBVIOUS
<1>2. B[0] = Start /\ B[Len(b)].stack = <<>> /\ B[Len(b)].prev = "value"
  BY PlainReads
<1>3. /\ first \in 1..(Len(b) + 1) /\ (first <= Len(b) => first \in Solid(b))
      /\ \A j \in 1..(first - 1) : b[j] \in Space
  BY <1>1, AfterIs
<1>4. \A k \in 0..(first - 1) : B[k] = Start
  <2>1. first - 1 \in 0..Len(b)
    BY <1>1, <1>3
  <2>2. \A j \in (0 + 1)..(first - 1) : b[j] \in Space
    BY <1>1, <1>3
  <2>3. \A k \in 0..(first - 1) : B[k] = B[0]
    BY <1>1, <2>1, <2>2, OverSpace
  <2> QED
    BY <1>2, <2>3
<1>5. first <= Len(b)
  <2>1. CASE first = Len(b) + 1
    <3>1. Len(b) \in 0..(first - 1)
      BY <1>1, <2>1
    <3>2. B[Len(b)] = Start
      BY <1>4, <3>1
    <3>3. Start.prev = "start"
      BY DEF Start
    <3> QED
      BY <1>2, <3>2, <3>3
  <2> QED
    BY <1>1, <1>3, <2>1
<1>6. first \in 1..Len(b) /\ first - 1 \in 0..(first - 1) /\ b[first] \notin Space
  BY <1>1, <1>3, <1>5 DEF Solid
<1>7. B[first - 1] = Start /\ B[first] = ReadToken(Start, b[first]) /\ Fits(Start, b[first])
      /\ ~Over(Start)
  <2>1. B[first - 1] = Start
    BY <1>4, <1>6
  <2> QED
    BY <1>6, <2>1, PlainReads
<1>8. Start.stack = <<>> /\ Start.prev = "start" /\ In(Start) = "top"
  BY DEF Start, In
<1>9. b[first] = "lbrace"
  BY <1>7, <1>8 DEF Fits
<1>10. B[first].prev = "open"
  <2>1. "lbrace" \in Opening
    BY DEF Opening
  <2>2. ReadToken(Start, "lbrace").prev = "open"
    <3> DEFINE next == ReadToken(Start, "lbrace")
               en == IF Level(Start) < 2 THEN <<>> ELSE Append(Start.entry, "lbrace")
               sk == Append(Start.stack, "lbrace")
    <3>1. next = [stack |-> sk, prev |-> "open", key |-> Start.key, entry |-> en,
                  entries |-> Start.entries]
      BY <1>7, <1>9, <2>1, StartSound, OpeningRead
    <3> HIDE DEF next, en, sk
    <3>2. next.prev = "open"
      BY <3>1
    <3> QED
      BY <3>2 DEF next
  <2> QED
    BY <1>7, <1>9, <2>2
<1> QED
  BY <1>4, <1>6, <1>9, <1>10

LEMMA PrevRead == \A st, t : st.prev # "start" => ReadToken(st, t).prev # "start"
<1> SUFFICES ASSUME NEW st, NEW t, st.prev # "start" PROVE ReadToken(st, t).prev # "start"
  OBVIOUS
<1> DEFINE sk == IF t \in Opening THEN Append(st.stack, t)
                 ELSE IF t \in Closing THEN SubSeq(st.stack, 1, Level(st) - 1) ELSE st.stack
           pr == IF t \in Opening THEN "open" ELSE IF t = "comma" THEN "comma"
                 ELSE IF t = "colon" THEN "colon"
                 ELSE IF IsString(t) /\ KeyDue(st) THEN "key" ELSE "value"
           ke == IF NewKey(st, t) THEN t ELSE st.key
           en == IF Level(st) < 2 \/ Ends(st, t) THEN <<>> ELSE Append(st.entry, t)
           es == ReadEntries(st, t)
<1>1. ReadToken(st, t) = IF t \in Space \/ Over(st) THEN st
                         ELSE IF ~Fits(st, t) THEN [st EXCEPT !.prev = "bad"]
                         ELSE [stack |-> sk, prev |-> pr, key |-> ke, entry |-> en, entries |-> es]
  BY DEF ReadToken
<1>2. pr # "start"
  OBVIOUS
<1> HIDE DEF sk, pr, ke, en, es
<1>3. [st EXCEPT !.prev = "bad"].prev # "start"
  <2>1. CASE "prev" \in DOMAIN st
    BY <2>1
  <2> QED
    BY <2>1
<1>4. [stack |-> sk, prev |-> pr, key |-> ke, entry |-> en, entries |-> es].prev = pr
  OBVIOUS
<1> QED
  BY <1>1, <1>2, <1>3, <1>4

\* Once something is read, there is something read.
LEMMA Begun ==
    ASSUME NEW b \in Seq(Tokens), NEW B, B = Steps(Start, b), NEW i \in 0..Len(b), B[i].prev # "start"
    PROVE  \A k \in i..Len(b) : B[k].prev # "start"
<1> DEFINE T == {k \in i..Len(b) : B[k].prev # "start"}
<1>1. Len(b) \in Nat /\ Len(b) \in i..Len(b) /\ i \in T
  OBVIOUS
<1>2. \A k \in i..(Len(b) - 1) : k \in T => k + 1 \in T
  <2> SUFFICES ASSUME NEW k \in i..(Len(b) - 1), k \in T PROVE k + 1 \in T
    OBVIOUS
  <2>1. k + 1 \in 1..Len(b) /\ k + 1 \in i..Len(b) /\ (k + 1) - 1 = k
    BY <1>1
  <2>2. B[k + 1] = ReadToken(B[k], b[k + 1])
    BY <2>1, StepsAre
  <2>3. \A st, t : st.prev # "start" => ReadToken(st, t).prev # "start"
    BY PrevRead
  <2> QED
    BY <2>1, <2>2, <2>3
<1> HIDE DEF T
<1>3. \A k \in i..Len(b) : k \in T
  BY <1>1, <1>2, AlongSteps
<1> QED
  BY <1>3 DEF T

\* What the last token does that is no space.
LEMMA LastToken ==
    ASSUME NEW b \in Seq(Tokens), Plain(b), NEW B, B = Steps(Start, b),
           NEW close, close = Before(b, Len(b) + 1)
    PROVE  /\ close \in 1..Len(b) /\ b[close] = "rbrace"
           /\ \A k \in (close + 1)..Len(b) : b[k] \in Space
           /\ Sound(B[close - 1]) /\ B[close - 1].stack = <<"lbrace">>
           /\ B[close - 1].prev \in {"open", "value"}
           /\ Reading(b).entries = B[close - 1].entries
<1>1. /\ Len(b) \in Nat /\ 0 \in 0..Len(b) /\ Len(b) \in 0..Len(b)
      /\ Len(b) + 1 \in 1..(Len(b) + 1) /\ (Len(b) + 1) - 1 = Len(b)
  OBVIOUS
<1> DEFINE first == After(b, 0)
<1>2. first \in 1..Len(b) /\ b[first] \notin Space /\ B[first].prev = "open"
  BY FirstToken
<1> HIDE DEF first
<1>3. /\ close \in 0..Len(b) /\ (close >= 1 => close \in Solid(b))
      /\ \A j \in (close + 1)..Len(b) : b[j] \in Space
  BY <1>1, BeforeIs
<1>4. close >= first
  <2>1. ~(first \in (close + 1)..Len(b))
    BY <1>2, <1>3
  <2> QED
    BY <1>1, <1>2, <1>3, <2>1
<1>5. /\ close \in 1..Len(b) /\ b[close] \notin Space /\ close \in 0..Len(b) /\ close - 1 \in 0..Len(b)
      /\ Len(b) \in close..Len(b) /\ close \in first..Len(b) /\ first \in 0..Len(b)
  BY <1>1, <1>2, <1>3, <1>4 DEF Solid
<1>6. B[Len(b)] = B[close]
  <2>1. \A k \in close..Len(b) : B[k] = B[close]
    BY <1>1, <1>3, <1>5, OverSpace
  <2> QED
    BY <1>5, <2>1
<1> DEFINE u == B[close - 1]
           v == B[close]
           t == b[close]
<1>7. /\ v.stack = <<>> /\ v.prev = "value" /\ Sound(u) /\ Sound(v)
      /\ v = ReadToken(u, t) /\ ~Over(u) /\ Fits(u, t) /\ u.prev # "bad" /\ t \notin Space
  BY <1>5, <1>6, PlainReads
<1>8. Reading(b).entries = v.entries
  BY <1>6 DEF Reading
<1>9. close = first => u.prev = "start"
  <2>1. close = first => u = Start
    <3>1. first - 1 \in 0..(first - 1)
      BY <1>2
    <3>2. \A k \in 0..(first - 1) : B[k] = Start
      BY FirstToken DEF first
    <3> QED
      BY <3>1, <3>2
  <2>2. Start.prev = "start"
    BY DEF Start
  <2> QED
    BY <2>1, <2>2
<1> HIDE DEF u, v, t
<1>10. Level(v) = 0 /\ Level(u) \in Nat /\ u.stack \in Seq(Opening) /\ Level(u) = Len(u.stack)
       /\ (Level(u) = 0 <=> u.stack = <<>>)
  BY <1>7, SoundIs
<1>11. v.stack = NextStack(u, t) /\ v.prev = Kind(u, t) /\ v.entries = ReadEntries(u, t)
  BY <1>7, FieldsRead
<1>12. t \in Closing
  <2>1. CASE t \in Opening
    <3>1. v.prev = "open"
      BY <1>11, <2>1 DEF Kind
    <3> QED
      BY <1>7, <3>1
  <2>2. CASE t \notin Opening /\ t \notin Closing
    <3>1. v.stack = u.stack
      BY <1>11, <2>2 DEF NextStack
    <3>2. u.stack = <<>>
      BY <1>7, <3>1
    <3>3. ~IsString(t)
      BY <1>7, <2>2, <3>2 DEF Fits, IsString, Closing
    <3>4. t = "comma" \/ t = "colon"
      BY <1>7, <2>2, <3>2, <3>3 DEF Fits, Closing
    <3>5. v.prev \in {"comma", "colon"}
      BY <1>11, <2>2, <3>4 DEF Kind
    <3> QED
      BY <1>7, <3>5
  <2> QED
    BY <2>1, <2>2
<1>13. /\ u.prev \in {"open", "value"} /\ u.stack # <<>>
       /\ (t = "rbrace" => In(u) = "lbrace") /\ (t = "rbrack" => In(u) = "lbrack")
  BY <1>7, <1>12, ClosingRead
<1>14. Level(u) = 1
  <2>1. v.stack = SubSeq(u.stack, 1, Level(u) - 1)
    BY <1>11, <1>12 DEF NextStack, Opening, Closing
  <2>2. Level(u) > 0
    BY <1>10, <1>13
  <2>3. Len(SubSeq(u.stack, 1, Len(u.stack) - 1)) = Len(u.stack) - 1
    BY <1>10, <2>2, StackIs
  <2>4. Len(v.stack) = 0
    BY <1>7
  <2>5. Len(v.stack) = Len(u.stack) - 1
    BY <1>10, <2>1, <2>3
  <2> DEFINE n == Len(u.stack)
  <2>6. n = Level(u) /\ 0 = n - 1 /\ n \in Nat
    BY <1>10, <2>4, <2>5
  <2> HIDE DEF n
  <2> QED
    BY <2>6
<1>15. In(u) = "lbrace" /\ u.stack[1] = "lbrace"
  BY <1>7, <1>14, SoundIs
<1>16. t = "rbrace"
  BY <1>12, <1>13, <1>15 DEF Closing
<1>17. u.stack = <<"lbrace">>
  <2>1. /\ <<"lbrace">> \in Seq({"lbrace"}) /\ Len(<<"lbrace">>) = 1 /\ <<"lbrace">>[1] = "lbrace"
    OBVIOUS
  <2>2. "lbrace" \in Opening
    BY DEF Opening
  <2> DEFINE s == u.stack
             o == <<"lbrace">>
  <2>3. s \in Seq(Opening) /\ Len(s) = 1 /\ s[1] = "lbrace"
    BY <1>10, <1>14, <1>15
  <2>4. o \in Seq(Opening) /\ Len(o) = 1 /\ o[1] = "lbrace"
    BY <2>2
  <2> HIDE DEF s, o
  <2>5. \A i \in 1..Len(s) : s[i] = o[i]
    BY <2>3, <2>4
  <2>6. s = o
    BY <2>3, <2>4, <2>5, SeqEqual
  <2> QED
    BY <2>6 DEF s, o
<1>18. v.entries = u.entries
  <2>1. ~NewKey(u, t) /\ ~Ends(u, t) /\ ~IsString(t)
    BY <1>7, <1>12, <1>14 DEF NewKey, Ends, IsString
  <2> QED
    BY <1>11, <2>1 DEF ReadEntries
<1> QED
  BY <1>3, <1>5, <1>7, <1>8, <1>13, <1>16, <1>17, <1>18 DEF u, v, t

\* The object that addKey splices into: its first token, its last, its brace.
LEMMA ObjectFound ==
    ASSUME NEW b \in Seq(Tokens), Plain(b), NEW B, B = Steps(Start, b),
           NEW first, first = After(b, 0), NEW close, close = Before(b, Len(b) + 1),
           NEW last, last = Before(b, close)
    PROVE  ObjectAt(b, B, first, last, close)
<1>1. /\ first \in 1..Len(b) /\ b[first] = "lbrace" /\ b[first] \notin Space
      /\ \A k \in 0..(first - 1) : B[k] = Start
      /\ B[first].prev = "open"
  BY FirstToken
<1>2. /\ close \in 1..Len(b) /\ b[close] = "rbrace"
      /\ \A k \in (close + 1)..Len(b) : b[k] \in Space
      /\ Sound(B[close - 1]) /\ B[close - 1].stack = <<"lbrace">>
      /\ B[close - 1].prev \in {"open", "value"}
      /\ Reading(b).entries = B[close - 1].entries
  BY LastToken
<1>3. Len(b) \in Nat
  OBVIOUS
<1>4. close > first
  <2>1. ~(first \in (close + 1)..Len(b)) /\ first # close
    BY <1>1, <1>2
  <2> QED
    BY <1>1, <1>2, <1>3, <2>1
<1>5. /\ last \in 0..(close - 1) /\ (last >= 1 => last \in Solid(b))
      /\ \A j \in (last + 1)..(close - 1) : b[j] \in Space
  <2>1. close \in 1..(Len(b) + 1)
    BY <1>2, <1>3
  <2> QED
    BY <2>1, BeforeIs
<1>6. last >= first
  <2>1. ~(first \in (last + 1)..(close - 1))
    BY <1>1, <1>5
  <2> QED
    BY <1>1, <1>2, <1>3, <1>4, <1>5, <2>1
<1>7. last \in first..(close - 1) /\ b[last] \notin Space /\ close \in (first + 1)..Len(b)
  BY <1>1, <1>2, <1>3, <1>4, <1>5, <1>6 DEF Solid
<1>8. B[last] = B[close - 1]
  <2>1. last \in 0..Len(b) /\ close - 1 \in last..Len(b) /\ close - 1 \in last..(close - 1)
    BY <1>1, <1>2, <1>3, <1>7
  <2>2. \A k \in last..(close - 1) : B[k] = B[last]
    BY <1>5, <2>1, OverSpace
  <2> QED
    BY <2>1, <2>2
<1>9. EndsObject(SubSeq(b, close, Len(b)))
  <2> DEFINE tail == SubSeq(b, close, Len(b))
             lb == Len(b)
  <2>1. /\ tail \in Seq(Tokens) /\ Len(tail) = lb - close + 1
        /\ \A k \in 1..(lb - close + 1) : tail[k] = b[close + k - 1]
    BY <1>2, <1>3
  <2>2. lb \in Nat /\ close \in 1..lb /\ \A k \in (close + 1)..lb : b[k] \in Space
    BY <1>2, <1>3
  <2> HIDE DEF tail, lb
  <2>3. Len(tail) >= 1 /\ 1 \in 1..(lb - close + 1) /\ close + 1 - 1 = close
    BY <2>1, <2>2
  <2>4. tail[1] = "rbrace"
    BY <1>2, <2>1, <2>3
  <2>5. ASSUME NEW k \in 2..Len(tail) PROVE tail[k] \in Space
    <3>1. k \in 1..(lb - close + 1) /\ close + k - 1 \in (close + 1)..lb
      BY <2>1, <2>2
    <3> QED
      BY <2>1, <2>2, <3>1
  <2>6. EndsObject(tail)
    BY <2>1, <2>3, <2>4, <2>5 DEF EndsObject
  <2> QED
    BY <2>6 DEF tail, lb
<1> QED
  BY <1>1, <1>2, <1>7, <1>8, <1>9 DEF ObjectAt

\* The comma that is put before the new field, if one has to be.
Separator(b, first, last) ==
    IF At(b, last) = "comma" \/ (At(b, last) = "lbrace" /\ last = first) THEN <<>> ELSE <<"comma">>

\* The comma addKey puts, or leaves, makes a key due.
LEMMA SeparatorRead ==
    ASSUME NEW b \in Seq(Tokens), Plain(b), NEW B, B = Steps(Start, b), NEW first, NEW last, NEW close,
           ObjectAt(b, B, first, last, close), NEW comma, comma = Separator(b, first, last),
           NEW st, st = Behind(Start, SubSeq(b, 1, last) \o comma)
    PROVE  /\ SubSeq(b, 1, last) \o comma \in Seq(Tokens)
           /\ FieldDue(st) /\ st.entries = Reading(b).entries
<1> DEFINE x == SubSeq(b, 1, last)
           u == B[last]
           t == b[last]
<1>1. /\ first \in 1..Len(b) /\ b[first] = "lbrace" /\ \A k \in 0..(first - 1) : B[k] = Start
      /\ B[first].prev = "open"
      /\ last \in first..(close - 1) /\ t \notin Space /\ close \in (first + 1)..Len(b)
      /\ Sound(u) /\ u.stack = <<"lbrace">> /\ u.prev \in {"open", "value"}
      /\ u.entries = Reading(b).entries /\ Len(b) \in Nat
  BY DEF ObjectAt
<1>2. last \in 1..Len(b) /\ last \in 0..Len(b) /\ last - 1 \in 0..Len(b) /\ last \in Nat
      /\ DOMAIN b = 1..Len(b) /\ first \in 0..Len(b)
  BY <1>1
<1>3. At(b, last) = t
  BY <1>2 DEF At
<1>4. x \in Seq(Tokens) /\ Behind(Start, x) = u
  BY <1>2, PrefixBehind
<1> DEFINE v == B[last - 1]
<1>5. Sound(v) /\ u = ReadToken(v, t) /\ ~Over(v) /\ Fits(v, t)
  BY <1>1, <1>2, PlainReads
<1>6. Level(u) = 1 /\ u.stack # <<>> /\ In(u) = "lbrace"
  <2>1. Len(<<"lbrace">>) = 1 /\ <<"lbrace">>[1] = "lbrace" /\ <<"lbrace">> # <<>>
    OBVIOUS
  <2>2. Level(u) = 1
    BY <1>1, <2>1 DEF Level
  <2> QED
    BY <1>1, <2>1, <2>2 DEF In
<1>7. last # first => v.prev # "start"
  <2>1. ASSUME last # first PROVE v.prev # "start"
    <3>1. last - 1 \in first..Len(b)
      BY <1>1, <1>2, <2>1
    <3>2. \A k \in first..Len(b) : B[k].prev # "start"
      BY <1>1, <1>2, Begun
    <3> QED
      BY <3>1, <3>2
  <2> QED
    BY <2>1
<1>8. u = B[first] \/ last # first
  OBVIOUS
<1> HIDE DEF u, v, t, x
<1>9. u.stack = NextStack(v, t) /\ u.prev = Kind(v, t)
  BY <1>1, <1>5, FieldsRead
<1>10. t = "comma" => FALSE
  <2>1. "comma" \notin Opening
    BY DEF Opening
  <2>2. t = "comma" => u.prev = "comma"
    BY <1>9, <2>1 DEF Kind
  <2> QED
    BY <1>1, <2>2
<1>11. u.prev = "open" <=> t = "lbrace" /\ last = first
  <2>1. ASSUME u.prev = "open" PROVE t = "lbrace" /\ last = first
    <3>1. t \in Opening
      BY <1>9, <2>1 DEF Kind
    <3>2. u.stack = Append(v.stack, t)
      BY <1>9, <3>1 DEF NextStack
    <3>3. v.stack \in Seq(Opening) /\ (v.stack = <<>> <=> Level(v) = 0) /\ Level(v) = Len(v.stack)
          /\ Level(v) \in Nat
      BY <1>5, SoundIs
    <3>4. Len(u.stack) = Len(v.stack) + 1
      BY <3>1, <3>2, <3>3, StackIs
    <3>5. Level(v) = 0
      <4> DEFINE n == Level(v)
                 m == Len(u.stack)
      <4>1. m = n + 1 /\ m = 1 /\ n \in Nat
        BY <1>6, <3>3, <3>4 DEF Level
      <4> HIDE DEF n, m
      <4>2. n = 0
        BY <4>1
      <4> QED
        BY <4>2 DEF n
    <3>6. v.stack = <<>> /\ v.prev \in {"start", "value", "bad"}
      BY <1>5, <3>3, <3>5, SoundSays
    <3>7. v.prev = "start"
      BY <1>5, <3>6 DEF Over
    <3>8. t = "lbrace"
      BY <1>5, <3>1, <3>6 DEF Fits, Opening, Closing, IsString
    <3> QED
      BY <1>7, <3>7, <3>8
  <2> QED
    BY <1>1, <1>8, <2>1
<1>12. CASE u.prev = "open"
  <2>1. comma = <<>>
    BY <1>3, <1>11, <1>12 DEF Separator
  <2>2. comma \in Seq(Tokens) /\ Blank(comma, 1, Len(comma))
    BY <2>1 DEF Blank
  <2>3. x \o comma \in Seq(Tokens) /\ Behind(Start, x \o comma) = u
    BY <1>4, <2>2, SpaceOn
  <2>4. FieldDue(u)
    BY <1>1, <1>12 DEF FieldDue
  <2> QED
    BY <1>1, <2>3, <2>4 DEF x
<1>13. CASE u.prev = "value"
  <2> DEFINE w == ReadToken(u, "comma")
  <2>1. comma = <<"comma">>
    BY <1>3, <1>10, <1>11, <1>13 DEF Separator
  <2>2. "comma" \in Tokens /\ comma \in Seq(Tokens) /\ Len(comma) = 1 /\ comma[1] = "comma"
    <3>1. "comma" \in Tokens
      BY DEF Tokens
    <3> QED
      BY <2>1, <3>1
  <2>3. x \o comma \in Seq(Tokens) /\ Behind(Start, x \o comma) = Behind(u, comma)
    BY <1>4, <2>2, ReadBoth
  <2>4. Behind(u, comma) = w
    BY <2>2, OneThen
  <2>5. ~Over(u) /\ Fits(u, "comma")
    BY <1>6, <1>13 DEF Over, Fits
  <2>6. w.stack = u.stack /\ w.prev = "comma" /\ w.entries = u.entries
    <3> DEFINE en == IF Level(u) < 2 \/ (Level(u) = 2 /\ In(u) = "lbrack")
                     THEN <<>> ELSE Append(u.entry, "comma")
               es == IF Level(u) = 2 /\ In(u) = "lbrack" /\ u.entry # <<>>
                     THEN Longer(u.entries, u.key, u.entry) ELSE u.entries
    <3>1. w = [stack |-> u.stack, prev |-> "comma", key |-> u.key, entry |-> en, entries |-> es]
      BY <1>1, <2>5, CommaRead
    <3>2. es = u.entries
      BY <1>6
    <3> HIDE DEF w, en, es
    <3> QED
      BY <3>1, <3>2
  <2>7. Sound(w)
    BY <1>1, <2>2, SoundStep
  <2> HIDE DEF w
  <2>8. FieldDue(w)
    BY <1>1, <2>6, <2>7 DEF FieldDue
  <2> QED
    BY <1>1, <2>3, <2>4, <2>6, <2>8 DEF x
<1> QED
  BY <1>1, <1>12, <1>13

\* A text of which nothing is left is one object.
LEMMA FreshObject ==
    ASSUME NEW x \in Seq(Tokens), Len(x) = 2, x[1] = "lbrace", x[2] \in Space,
           NEW st, st = Behind(Start, x)
    PROVE  FieldDue(st) /\ st.entries = Reading(<<>>).entries /\ DOMAIN st.entries = {}
<1>1. st = ReadToken(Start, "lbrace")
  BY SpaceThen
<1>2. "lbrace" \in Opening /\ "lbrace" \in Tokens
  BY DEF Opening, Tokens
<1>3. Start.stack = <<>> /\ Start.prev = "start" /\ In(Start) = "top" /\ DOMAIN Start.entries = {}
  BY DEF Start, In
<1>4. ~Over(Start) /\ Fits(Start, "lbrace")
  BY <1>2, <1>3 DEF Over, Fits, Due
<1> DEFINE en == IF Level(Start) < 2 THEN <<>> ELSE Append(Start.entry, "lbrace")
           sk == Append(Start.stack, "lbrace")
<1>5. st = [stack |-> sk, prev |-> "open", key |-> Start.key, entry |-> en,
            entries |-> Start.entries]
  BY <1>1, <1>2, <1>4, StartSound, OpeningRead
<1>6. sk = <<"lbrace">>
  <2>1. Append(<<>>, "lbrace") = <<"lbrace">>
    OBVIOUS
  <2> QED
    BY <1>3, <2>1
<1> HIDE DEF en, sk
<1>7. st.stack = <<"lbrace">> /\ st.prev = "open" /\ st.entries = Start.entries
  BY <1>5, <1>6
<1>8. Sound(st)
  BY <1>1, <1>2, StartSound, SoundStep
<1>9. FieldDue(st)
  BY <1>7, <1>8 DEF FieldDue
<1>10. Reading(<<>>) = Start
  <2>1. <<>> \in Seq(Tokens) /\ Len(<<>>) = 0
    OBVIOUS
  <2>2. Steps(Start, <<>>)[0] = Start
    BY <2>1, StepsAre
  <2> QED
    BY <2>1, <2>2 DEF Reading
<1> QED
  BY <1>3, <1>7, <1>9, <1>10

LEMMA Braces ==
    /\ <<"lbrace", "nl">> \in Seq(Tokens) /\ Len(<<"lbrace", "nl">>) = 2
    /\ <<"lbrace", "nl">>[1] = "lbrace" /\ <<"lbrace", "nl">>[2] \in Space
    /\ EndsObject(<<"rbrace", "nl">>)
<1>1. "nl" \in Space /\ "nl" \in Tokens /\ "lbrace" \in Tokens /\ "rbrace" \in Tokens
  BY DEF Space, Tokens, Opening, Closing
<1>2. /\ <<"lbrace", "nl">> \in Seq(Tokens) /\ Len(<<"lbrace", "nl">>) = 2
      /\ <<"lbrace", "nl">>[1] = "lbrace" /\ <<"lbrace", "nl">>[2] = "nl"
  BY <1>1
<1>3. /\ <<"rbrace", "nl">> \in Seq(Tokens) /\ Len(<<"rbrace", "nl">>) = 2
      /\ <<"rbrace", "nl">>[1] = "rbrace" /\ <<"rbrace", "nl">>[2] = "nl"
  BY <1>1
<1>4. \A k \in 2..2 : k = 2
  OBVIOUS
<1> DEFINE z == <<"rbrace", "nl">>
<1> HIDE DEF z
<1>5. z \in Seq(Tokens) /\ Len(z) = 2 /\ z[1] = "rbrace" /\ z[2] = "nl"
  BY <1>3 DEF z
<1>6. EndsObject(z)
  BY <1>1, <1>4, <1>5 DEF EndsObject
<1> QED
  BY <1>1, <1>2, <1>6 DEF z

\* The brace that ends the object is the last one.
LEMMA LastBrace ==
    ASSUME NEW b \in Seq(Tokens), NEW close \in 1..Len(b), b[close] = "rbrace",
           \A k \in (close + 1)..Len(b) : b[k] \in Space,
           NEW ends, ends = {k \in DOMAIN b : b[k] = "rbrace"}
    PROVE  ends # {} /\ Greatest(ends) = close
<1>1. Len(b) \in Nat /\ DOMAIN b = 1..Len(b)
  OBVIOUS
<1>2. ends \in SUBSET Nat /\ close \in ends /\ \A k \in ends : k <= Len(b)
  BY <1>1
<1>3. Greatest(ends) \in ends /\ \A k \in ends : k <= Greatest(ends)
  BY <1>1, <1>2, GreatestIs
<1> DEFINE g == Greatest(ends)
<1> HIDE DEF g
<1>4. g \in 1..Len(b) /\ b[g] = "rbrace" /\ close <= g
  BY <1>1, <1>2, <1>3 DEF g
<1>5. ~(g \in (close + 1)..Len(b))
  <2>1. "rbrace" \notin Space
    BY DEF Space
  <2> QED
    BY <1>4, <2>1
<1>6. g = close
  BY <1>1, <1>4, <1>5
<1> QED
  BY <1>2, <1>6 DEF g

\* An entry under a key that is not there is its only one.
LEMMA KeyReads ==
    ASSUME NEW b \in Seq(Tokens), NEW key \in Arrays, b = <<>> \/ (Plain(b) /\ Keyed(b, key) = {}),
           NEW entry \in Seq(Tokens), IsValue(entry), NEW a, a = AddKey(b, key, entry)
    PROVE  a \in Seq(Tokens) /\ OneNew(a, b, key, EntryOf(entry))
<1> DEFINE y == <<"sp", key, "colon", "sp", "lbrack">>
           z == <<"rbrack", "nl">>
           array == y \o entry \o z
<1>1. ArrayParts(key, y, z)
  BY PartsAre
<1>2. CASE b = <<>>
  <2> DEFINE x == <<"lbrace", "nl">>
             tail == <<"rbrace", "nl">>
             st == Behind(Start, x)
  <2>1. At(b, After(b, 0)) # "lbrace"
    <3>1. DOMAIN b = {}
      BY <1>2
    <3> QED
      BY <3>1 DEF At
  <2>2. a = x \o (y \o entry \o z) \o tail
    BY <2>1 DEF AddKey
  <2>3. /\ x \in Seq(Tokens) /\ Len(x) = 2 /\ x[1] = "lbrace" /\ x[2] \in Space
        /\ EndsObject(tail) /\ st = Behind(Start, x)
    BY Braces
  <2> HIDE DEF x, tail, y, z, st
  <2>4. FieldDue(st) /\ st.entries = Reading(<<>>).entries /\ DOMAIN st.entries = {}
    BY <2>3, FreshObject
  <2>5. Reading(b).entries = st.entries /\ key \notin DOMAIN st.entries
    BY <1>2, <2>4
  <2> QED
    BY <1>1, <2>2, <2>3, <2>4, <2>5, KeyAdded
<1>3. CASE Plain(b) /\ Keyed(b, key) = {}
  <2> DEFINE B == Steps(Start, b)
             first == After(b, 0)
             close == Before(b, Len(b) + 1)
             last == Before(b, close)
             ends == {k \in DOMAIN b : b[k] = "rbrace"}
             comma == Separator(b, first, last)
             indent == IndentAt(b, close)
             tail == SubSeq(b, close, Len(b))
             x0 == SubSeq(b, 1, last) \o comma
             x1 == x0 \o <<"nl">>
             x == x1 \o indent
             st == Behind(Start, x)
  <2>1. ObjectAt(b, B, first, last, close)
    BY <1>3, ObjectFound
  <2>2. At(b, first) = "lbrace"
    <3> HIDE DEF first, last, close
    <3>1. first \in 1..Len(b) /\ b[first] = "lbrace" /\ DOMAIN b = 1..Len(b)
      BY <2>1 DEF ObjectAt
    <3> QED
      BY <3>1 DEF At
  <2>3. ends # {} /\ Greatest(ends) = close
    <3> HIDE DEF first, last, close
    <3>1. close \in 1..Len(b) /\ b[close] = "rbrace" /\ \A k \in (close + 1)..Len(b) : b[k] \in Space
      <4>1. /\ close \in (first + 1)..Len(b) /\ b[close] = "rbrace" /\ first \in 1..Len(b)
            /\ \A k \in (close + 1)..Len(b) : b[k] \in Space
        BY <2>1 DEF ObjectAt
      <4> QED
        BY <4>1
    <3> QED
      BY <3>1, LastBrace
  <2>4. a = x \o (y \o entry \o z) \o tail
    <3> HIDE DEF first, close
    <3>1. AddKey(b, key, entry) =
             SubSeq(b, 1, Before(b, close))
             \o (IF At(b, Before(b, close)) = "comma"
                    \/ (At(b, Before(b, close)) = "lbrace" /\ Before(b, close) = first)
                 THEN <<>> ELSE <<"comma">>)
             \o <<"nl">> \o IndentAt(b, close) \o (y \o entry \o z) \o SubSeq(b, close, Len(b))
      BY <2>2, <2>3 DEF AddKey, first
    <3> QED
      BY <3>1 DEF Separator
  <2>5. close \in Nat /\ EndsObject(tail)
    <3> HIDE DEF first, last
    <3> QED
      BY <2>1 DEF ObjectAt
  <2>6. indent \in Seq(Tokens) /\ Blank(indent, 1, Len(indent))
    <3> HIDE DEF close
    <3> QED
      BY <2>5, IndentIs
  <2>7. key \notin DOMAIN Reading(b).entries
    <3>1. Fields(b, key) = {} /\ Len(b) \in 0..Len(b)
      <4>1. Len(b) \in Nat
        OBVIOUS
      <4> QED
        BY <1>3, <4>1 DEF Plain
    <3>2. key \notin DOMAIN B[Len(b)].entries
      BY <1>3, <3>1, NoFieldRead
    <3> QED
      BY <3>2 DEF Reading
  <2> HIDE DEF first, last, close, comma, indent, tail, y, z
  <2>8. x0 \in Seq(Tokens) /\ FieldDue(Behind(Start, x0)) /\ Behind(Start, x0).entries = Reading(b).entries
    <3>1. comma = Separator(b, first, last)
      BY DEF comma
    <3> QED
      BY <1>3, <2>1, <3>1, SeparatorRead
  <2> HIDE DEF x0
  <2>9. x1 \in Seq(Tokens) /\ Behind(Start, x1) = Behind(Start, x0)
    BY <2>8, BlankOnes, SpaceOn
  <2> HIDE DEF x1
  <2>10. x \in Seq(Tokens) /\ Behind(Start, x) = Behind(Start, x1)
    BY <2>6, <2>9, SpaceOn
  <2>11. st = Behind(Start, x)
    OBVIOUS
  <2> HIDE DEF x, st
  <2>12. FieldDue(st) /\ Reading(b).entries = st.entries /\ key \notin DOMAIN st.entries
    BY <2>7, <2>8, <2>9, <2>10, <2>11
  <2> QED
    BY <1>1, <2>4, <2>5, <2>10, <2>11, <2>12, KeyAdded
<1> QED
  BY <1>2, <1>3

-----------------------------------------------------------------------------
(* What the editors write is a text, whatever they have read *)

\* Where no key is, no array is found.
LEMMA NoKeyNoSpan == \A text, key : Keyed(text, key) = {} => ArraySpan(text, key) = NoSpan
BY DEF ArraySpan

LEMMA SpanIs ==
    ASSUME NEW text \in Seq(Tokens), NEW key, NEW span, span = ArraySpan(text, key), span # NoSpan
    PROVE  /\ Keyed(text, key) # {}
           /\ span.open \in 1..Len(text) /\ span.close \in (span.open + 1)..Len(text)
           /\ Cuts(text, span) \subseteq 1..Len(text)
           /\ \A c \in Cuts(text, span) : text[c] \notin Space
<1>1. Len(text) \in Nat /\ DOMAIN text = 1..Len(text)
  OBVIOUS
<1> DEFINE keys == Keyed(text, key)
           open == After(text, After(text, Least(keys)))
           ends == {k \in open..Len(text) : text[k] \in Closing /\ Depth(text, open, k) = 0}
           close == Least(ends)
<1>2. keys # {} /\ ends # {} /\ span = [open |-> open, close |-> close]
  BY DEF ArraySpan
<1>3. span.open = open /\ span.close = close
  <2> HIDE DEF open, close
  <2> QED
    BY <1>2
<1>4. keys \in SUBSET Nat
  BY <1>1 DEF Keyed
<1>5. Least(keys) \in keys
  <2> HIDE DEF keys
  <2> QED
    BY <1>2, <1>4, LeastIs
<1>6. At(text, open) = "lbrack"
  BY <1>5 DEF Keyed
<1>7. open \in 1..Len(text) /\ text[open] = "lbrack"
  <2> HIDE DEF open
  <2>1. "lbrack" # "eof"
    OBVIOUS
  <2> QED
    BY <1>1, <1>6, <2>1 DEF At
<1> HIDE DEF open, keys
<1>8. close \in open..Len(text) /\ text[close] \in Closing
  <2>1. ends \in SUBSET Nat
    BY <1>7
  <2>2. Least(ends) \in ends
    <3> HIDE DEF ends
    <3> QED
      BY <1>2, <2>1, LeastIs
  <2> QED
    BY <2>2
<1> HIDE DEF close, ends
<1>9. close # open
  BY <1>7, <1>8 DEF Closing
<1>10. close \in (open + 1)..Len(text) /\ close \in 1..Len(text)
  BY <1>1, <1>7, <1>8, <1>9
<1>11. ASSUME NEW c \in Cuts(text, span) PROVE c \in 1..Len(text) /\ text[c] \notin Space
  <2>1. c = open \/ c = close \/ (c \in open..close /\ text[c] = "comma")
    BY <1>3 DEF Cuts
  <2>2. c \in 1..Len(text)
    BY <1>1, <1>7, <1>10, <2>1
  <2>3. text[c] \in Closing \cup {"lbrack", "comma"}
    BY <1>7, <1>8, <2>1
  <2> QED
    BY <2>2, <2>3 DEF Closing, Space
<1> QED
  BY <1>2, <1>3, <1>7, <1>10, <1>11 DEF keys

LEMMA PartIs ==
    ASSUME NEW text \in Seq(Tokens), NEW i \in Nat, i >= 1, NEW j \in Int, j <= Len(text)
    PROVE  SubSeq(text, i, j) \in Seq(Tokens)
<1>1. Len(text) \in Nat
  OBVIOUS
<1> QED
  BY <1>1

LEMMA PairsAre ==
    /\ <<"comma", "sp">> \in Seq(Tokens) /\ <<"comma", "nl">> \in Seq(Tokens)
    /\ <<"comma">> \in Seq(Tokens) /\ <<"nl">> \in Seq(Tokens) /\ <<"sp">> \in Seq(Tokens)
    /\ <<>> \in Seq(Tokens)
    /\ <<"lbrace", "nl">> \in Seq(Tokens) /\ <<"rbrace", "nl">> \in Seq(Tokens)
<1>1. /\ "comma" \in Tokens /\ "sp" \in Tokens /\ "nl" \in Tokens /\ "lbrace" \in Tokens
      /\ "rbrace" \in Tokens
  BY DEF Tokens, Space, Opening, Closing
<1>2. \A s, t \in Tokens : <<s, t>> \in Seq(Tokens) /\ <<s>> \in Seq(Tokens)
  OBVIOUS
<1> QED
  BY <1>1, <1>2

LEMMA Joined ==
    \A x, y \in Seq(Tokens) : x \o y \in Seq(Tokens)
OBVIOUS

\* What an entry is added to is still a sequence of tokens, in each layout.
LEMMA ExistingText ==
    ASSUME NEW text \in Seq(Tokens), NEW key, NEW span, span = ArraySpan(text, key), span # NoSpan,
           NEW entry \in Seq(Tokens)
    PROVE  AppendToExisting(text, span, entry) \in Seq(Tokens)
<1> DEFINE body == SubSeq(text, span.open + 1, span.close - 1)
           empty == Solid(body) = {}
           inline == \A k \in DOMAIN body : body[k] # "nl"
           head == SubSeq(text, 1, span.close - 1)
           tail == SubSeq(text, span.close, Len(text))
           last == Before(text, span.close)
           first == After(text, span.open)
           line == IF LineStart(text, last) < first THEN first ELSE LineStart(text, last)
           front == SubSeq(text, 1, span.open)
           x == IndentAt(text, span.open)
           y == IndentAt(text, span.close)
           z == IndentAt(text, line)
           p == SubSeq(text, 1, last)
           q == SubSeq(text, last + 1, Len(text))
           mid == IF empty THEN <<>> ELSE <<"comma", "sp">>
<1>1. /\ Len(text) \in Nat /\ span.open \in 1..Len(text) /\ span.close \in (span.open + 1)..Len(text)
  BY SpanIs
<1>2. span.open \in Nat /\ span.close \in Nat /\ span.close >= 1 /\ span.close - 1 \in Int
      /\ span.close - 1 <= Len(text) /\ span.open <= Len(text) /\ span.open \in 0..Len(text)
      /\ span.close \in 1..(Len(text) + 1) /\ 1 \in Nat /\ 1 >= 1 /\ Len(text) <= Len(text)
  BY <1>1
<1>3. last \in Nat /\ last <= Len(text) /\ last + 1 \in Nat /\ last + 1 >= 1
  <2>1. last \in 0..(span.close - 1)
    BY <1>2, BeforeIs
  <2> HIDE DEF last
  <2> QED
    BY <1>1, <2>1
<1>4. first \in Nat
  <2>1. first \in (span.open + 1)..(Len(text) + 1)
    BY <1>2, AfterIs
  <2> HIDE DEF first
  <2> QED
    BY <1>2, <2>1
<1> HIDE DEF last, first
<1>5. line \in Nat
  <2>1. LineStart(text, last) \in Nat
    BY <1>3, LineStartIs
  <2> QED
    BY <1>4, <2>1
<1> HIDE DEF line
<1>6. x \in Seq(Tokens) /\ y \in Seq(Tokens) /\ z \in Seq(Tokens)
  BY <1>2, <1>5, IndentIs
<1>7. /\ head \in Seq(Tokens) /\ tail \in Seq(Tokens) /\ front \in Seq(Tokens)
      /\ p \in Seq(Tokens) /\ q \in Seq(Tokens)
  BY <1>1, <1>2, <1>3, PartIs
<1>8. mid \in Seq(Tokens)
  BY PairsAre
<1>9. AppendToExisting(text, span, entry) =
         IF inline THEN head \o mid \o entry \o tail
         ELSE IF empty
              THEN front \o <<"nl">> \o x \o <<"sp">> \o entry \o <<"nl">> \o y \o tail
              ELSE p \o <<"comma", "nl">> \o z \o entry \o q
  BY DEF AppendToExisting, AppendToLines, line, first, last
<1> DEFINE cn == <<"comma", "nl">>
           n == <<"nl">>
           s == <<"sp">>
<1>10. cn \in Seq(Tokens) /\ n \in Seq(Tokens) /\ s \in Seq(Tokens)
  BY PairsAre
<1> HIDE DEF inline, empty, head, tail, front, p, q, mid, x, y, z, cn, n, s
<1>11. head \o mid \o entry \o tail \in Seq(Tokens)
  BY <1>7, <1>8, Joined
<1>12. p \o cn \o z \o entry \o q \in Seq(Tokens)
  BY <1>6, <1>7, <1>10, Joined
<1>13. front \o n \o x \o s \o entry \o n \o y \o tail \in Seq(Tokens)
  <2>1. front \o n \o x \o s \o entry \in Seq(Tokens)
    BY <1>6, <1>7, <1>10, Joined
  <2> DEFINE w == front \o n \o x \o s \o entry
  <2> HIDE DEF w
  <2>2. w \o n \o y \o tail \in Seq(Tokens)
    BY <1>6, <1>7, <1>10, <2>1, Joined DEF w
  <2> QED
    BY <2>2 DEF w
<1> QED
  BY <1>9, <1>11, <1>12, <1>13 DEF cn, n, s

LEMMA KeyText ==
    ASSUME NEW text \in Seq(Tokens), NEW key \in Arrays, NEW entry \in Seq(Tokens)
    PROVE  AddKey(text, key, entry) \in Seq(Tokens)
<1> DEFINE y == <<"sp", key, "colon", "sp", "lbrack">>
           z == <<"rbrack", "nl">>
           array == y \o entry \o z
           ends == {k \in DOMAIN text : text[k] = "rbrace"}
           close == IF ends = {} THEN Len(text) ELSE Greatest(ends)
           last == Before(text, close)
           none == At(text, last) = "lbrace" /\ last = After(text, 0)
           comma == IF At(text, last) = "comma" \/ none THEN <<>> ELSE <<"comma">>
           indent == IndentAt(text, close)
           head == SubSeq(text, 1, last)
           tail == SubSeq(text, close, Len(text))
           lb == <<"lbrace", "nl">>
           rb == <<"rbrace", "nl">>
           n == <<"nl">>
<1>1. Len(text) \in Nat /\ DOMAIN text = 1..Len(text)
  OBVIOUS
<1>2. array \in Seq(Tokens)
  <2>1. y \in Seq(Tokens) /\ z \in Seq(Tokens)
    BY PartsAre DEF ArrayParts
  <2> HIDE DEF y, z
  <2> QED
    BY <2>1, Joined
<1>3. lb \in Seq(Tokens) /\ rb \in Seq(Tokens) /\ n \in Seq(Tokens) /\ comma \in Seq(Tokens)
  BY PairsAre
<1>4. AddKey(text, key, entry) =
         IF At(text, After(text, 0)) # "lbrace" THEN lb \o array \o rb
         ELSE head \o comma \o n \o indent \o array \o tail
  BY DEF AddKey
<1>5. CASE At(text, After(text, 0)) # "lbrace"
  <2> HIDE DEF lb, rb, array
  <2>1. lb \o array \o rb \in Seq(Tokens)
    BY <1>2, <1>3, Joined
  <2> QED
    BY <1>4, <1>5, <2>1
<1>6. CASE At(text, After(text, 0)) = "lbrace"
  <2>1. 1 <= Len(text)
    <3>1. After(text, 0) \in DOMAIN text
      BY <1>6 DEF At
    <3> QED
      BY <1>1, <3>1
  <2>2. close \in 1..Len(text)
    <3>1. CASE ends = {}
      BY <1>1, <2>1, <3>1
    <3>2. CASE ends # {}
      <4>1. ends \in SUBSET Nat /\ \A k \in ends : k <= Len(text)
        BY <1>1
      <4>2. Greatest(ends) \in ends
        <5> HIDE DEF ends
        <5> QED
          BY <1>1, <3>2, <4>1, GreatestIs
      <4> QED
        BY <1>1, <3>2, <4>2
    <3> QED
      BY <3>1, <3>2
  <2> HIDE DEF close
  <2>3. last \in 0..(close - 1)
    <3>1. close \in 1..(Len(text) + 1)
      BY <1>1, <2>2
    <3> QED
      BY <3>1, BeforeIs
  <2> HIDE DEF last
  <2>4. head \in Seq(Tokens) /\ tail \in Seq(Tokens)
    <3>1. /\ last \in Int /\ last <= Len(text) /\ close \in Nat /\ close >= 1 /\ 1 \in Nat /\ 1 >= 1
          /\ Len(text) <= Len(text) /\ Len(text) \in Int
      BY <1>1, <2>2, <2>3
    <3> QED
      BY <3>1, PartIs
  <2>5. indent \in Seq(Tokens)
    <3>1. close \in Nat
      BY <2>2
    <3> QED
      BY <3>1, IndentIs
  <2> HIDE DEF head, tail, comma, n, indent, array
  <2>6. head \o comma \o n \o indent \o array \o tail \in Seq(Tokens)
    BY <1>2, <1>3, <2>4, <2>5, Joined
  <2> QED
    BY <1>4, <1>6, <2>6
<1> QED
  BY <1>5, <1>6

LEMMA AddedText ==
    ASSUME NEW text \in Seq(Tokens), NEW key \in Arrays, NEW entry \in Seq(Tokens)
    PROVE  \A editor : LET wrote == AddToArray(editor, text, key, entry)
                        IN wrote # NoText => wrote \in Seq(Tokens)
<1> SUFFICES ASSUME NEW editor, NEW wrote, wrote = AddToArray(editor, text, key, entry),
                    wrote # NoText
             PROVE  wrote \in Seq(Tokens)
  OBVIOUS
<1>1. CASE ArraySpan(text, key) # NoSpan
  BY <1>1, ExistingText DEF AddToArray
<1>2. CASE ArraySpan(text, key) = NoSpan
  BY <1>2, KeyText DEF AddToArray
<1> QED
  BY <1>1, <1>2

\* The element that is taken out, which is one of the array.
LEMMA RemovedIs ==
    ASSUME NEW text \in Seq(Tokens), NEW key, NEW at, NEW editor,
           NEW wrote, wrote = RemoveEntry(editor, text, key, at), wrote # NoText,
           NEW offset, offset = OffsetOf(text, at)
    PROVE  /\ ArraySpan(text, key) # NoSpan
           /\ \E e \in Elements(text, ArraySpan(text, key)) :
                 e[1] <= offset /\ offset <= e[2] + 1 /\ wrote = Cut(text, e)
<1> DEFINE span == ArraySpan(text, key)
           es == ElementAt(editor, text, key, at)
           T == {e[1] : e \in es}
           first == CHOOSE e \in es : \A f \in es : e[1] <= f[1]
<1>1. es # {} /\ wrote = Cut(text, first)
  BY DEF RemoveEntry
<1>2. /\ span # NoSpan
      /\ es \subseteq {e \in Elements(text, span) : e[1] <= offset /\ offset <= e[2] + 1}
  BY <1>1 DEF ElementAt
<1> HIDE DEF es
<1>3. T \in SUBSET Nat /\ T # {}
  <2>1. Cuts(text, span) \subseteq 1..Len(text)
    BY <1>2, SpanIs
  <2>2. ASSUME NEW e \in es PROVE e[1] \in Nat
    <3>1. e \in Elements(text, span)
      BY <1>2
    <3> HIDE DEF span
    <3>2. e[1] \in Solid(text)
      BY <2>1, <3>1, ElementIs
    <3>3. DOMAIN text = 1..Len(text) /\ Len(text) \in Nat
      OBVIOUS
    <3> QED
      BY <3>2, <3>3 DEF Solid
  <2> QED
    BY <1>1, <2>2
<1>4. \E e \in es : \A f \in es : e[1] <= f[1]
  <2>1. Least(T) \in T /\ \A j \in T : Least(T) <= j
    <3> HIDE DEF T
    <3> QED
      BY <1>3, LeastIs
  <2>2. PICK e \in es : e[1] = Least(T)
    BY <2>1
  <2> QED
    BY <2>1, <2>2
<1>5. first \in es
  BY <1>4
<1> HIDE DEF first
<1> QED
  BY <1>1, <1>2, <1>5

LEMMA CutText ==
    ASSUME NEW text \in Seq(Tokens), NEW key, NEW span, span = ArraySpan(text, key), span # NoSpan,
           NEW e \in Elements(text, span)
    PROVE  Cut(text, e) \in Seq(Tokens)
<1>1. Cuts(text, span) \subseteq 1..Len(text) /\ \A c \in Cuts(text, span) : text[c] \notin Space
  BY SpanIs
<1>2. PICK c, d \in Cuts(text, span) :
         /\ c < e[1] /\ e[1] <= e[2] /\ e[2] < d
         /\ e[1] \in Solid(text) /\ e[2] \in Solid(text)
         /\ \A k \in (c + 1)..(e[1] - 1) : text[k] \in Space
         /\ \A k \in (e[2] + 1)..(d - 1) : text[k] \in Space
  BY <1>1, ElementIs
<1>3. c \in 1..Len(text) /\ d \in 1..Len(text) /\ text[c] \notin Space /\ text[d] \notin Space
  BY <1>1
<1>4. PICK from \in 1..e[1], to \in e[2]..Len(text) : CutFrom(text, e, c, d, from, to)
  BY <1>2, <1>3, CutIs
<1>5. Cut(text, e) = SubSeq(text, 1, from - 1) \o SubSeq(text, to + 1, Len(text))
  BY <1>4 DEF CutFrom
<1>6. Len(text) \in Nat /\ e[1] \in 1..Len(text) /\ e[2] \in 1..Len(text)
  <2>1. Len(text) \in Nat /\ DOMAIN text = 1..Len(text)
    OBVIOUS
  <2> QED
    BY <1>2, <2>1 DEF Solid
<1>7. /\ from - 1 \in Int /\ from - 1 <= Len(text) /\ to + 1 \in Nat /\ to + 1 >= 1
      /\ 1 \in Nat /\ 1 >= 1 /\ Len(text) \in Int /\ Len(text) <= Len(text)
  BY <1>6
<1>8. SubSeq(text, 1, from - 1) \in Seq(Tokens) /\ SubSeq(text, to + 1, Len(text)) \in Seq(Tokens)
  BY <1>7, PartIs
<1> QED
  BY <1>5, <1>8, Joined

\* Adding, whether the key is there or not.
LEMMA AddReading ==
    ASSUME NEW b \in Seq(Tokens), b = <<>> \/ Plain(b), NEW key \in Arrays,
           NEW entry \in Seq(Tokens), IsValue(entry),
           NEW editor, NEW a, a = AddToArray(editor, b, key, entry), a # NoText
    PROVE  OneNew(a, b, key, EntryOf(entry))
<1>1. CASE Keyed(b, key) = {}
  <2>1. a = AddKey(b, key, entry)
    BY <1>1, NoKeyNoSpan DEF AddToArray
  <2> QED
    BY <1>1, <2>1, KeyReads
<1>2. CASE Keyed(b, key) # {}
  <2> DEFINE span == ArraySpan(b, key)
  <2>1. Plain(b)
    <3>1. b = <<>> => DOMAIN b = {}
      OBVIOUS
    <3> QED
      BY <1>2, <3>1 DEF Keyed
  <2>2. PICK p \in Keyed(b, key) : TRUE
    BY <1>2
  <2>3. span # NoSpan
    BY <2>1, <2>2, ArrayFound
  <2>4. a = AppendToExisting(b, span, entry)
    BY <2>3 DEF AddToArray
  <2> HIDE DEF span
  <2>5. span = ArraySpan(b, key)
    BY DEF span
  <2> QED
    BY <1>2, <2>1, <2>4, <2>5, AdditionReads
<1> QED
  BY <1>1, <1>2

LEMMA RemoveReading ==
    ASSUME NEW a \in Seq(Tokens), Plain(a), NEW key \in Arrays, NEW at,
           NEW editor, NEW b, b = RemoveEntry(editor, a, key, at), b # NoText
    PROVE  \E n : OneGone(a, b, key, n)
<1> DEFINE offset == OffsetOf(a, at)
           span == ArraySpan(a, key)
<1>1. offset = OffsetOf(a, at) /\ span = ArraySpan(a, key)
  OBVIOUS
<1> HIDE DEF offset, span
<1>2. /\ span # NoSpan
      /\ \E e \in Elements(a, span) : e[1] <= offset /\ offset <= e[2] + 1 /\ b = Cut(a, e)
  BY <1>1, RemovedIs
<1>3. PICK e \in Elements(a, ArraySpan(a, key)) : b = Cut(a, e)
  BY <1>1, <1>2
<1>4. PICK p \in Keyed(a, key) : TRUE
  BY <1>1, <1>2, NoKeyNoSpan
<1> QED
  BY <1>3, <1>4, RemovalReads

LEMMA StringsAreTokens == Seq(STRING) \subseteq Seq(Tokens)
<1> SUFFICES ASSUME NEW s \in Seq(STRING) PROVE s \in Seq(Tokens)
  OBVIOUS
<1>1. STRING \subseteq Tokens
  BY DEF Tokens
<1>2. Len(s) \in Nat /\ s \in [1..Len(s) -> STRING]
  OBVIOUS
<1>3. s \in [1..Len(s) -> Tokens]
  BY <1>1, <1>2
<1> QED
  BY <1>2, <1>3, SeqDef

\* A command that finds nothing to do ends there.
LEMMA NewTextIs ==
    ASSUME NEW kind \in {"add", "remove"}, NEW what, NEW read \in Seq(Tokens),
           kind = "add" => what \in Additions,
           NEW editor \in Editors, NEW wrote, wrote = NewText(editor, kind, what, read),
           wrote # NoText
    PROVE  /\ wrote \in Seq(Tokens)
           /\ kind = "add" => wrote = AddToArray(editor, read, what.key, what.entry)
           /\ kind = "remove" =>
                 /\ read # <<>> /\ NamedOn(read, what)
                 /\ wrote = RemoveEntry(editor, read, what.item.key, what.origin)
<1>1. CASE kind = "add"
  <2>1. wrote = AddToArray(editor, read, what.key, what.entry)
    BY <1>1 DEF NewText
  <2>2. what.key \in Arrays /\ what.entry \in Seq(Tokens)
    BY <1>1, AdditionsAssumption, StringsAreTokens
  <2>3. wrote \in Seq(Tokens)
    BY <2>1, <2>2, AddedText
  <2> QED
    BY <1>1, <2>1, <2>3
<1>2. CASE kind = "remove"
  <2>1. /\ read # <<>> /\ NamedOn(read, what)
        /\ wrote = RemoveEntry(editor, read, what.item.key, what.origin)
    BY <1>2 DEF NewText, Removed
  <2>2. wrote \in Seq(Tokens)
    BY <2>1, RemovedIs, CutText
  <2> QED
    BY <1>2, <2>1, <2>2
<1> QED
  BY <1>1, <1>2

\* What an edit was made of.
EditMade ==
    edit.kind # "none" =>
        /\ edit.kind \in {"add", "remove"}
        /\ edit.read \in Seq(Tokens)
        /\ edit.kind = "add" => edit.what \in Additions
        /\ edit.kind = "remove" => edit.what.item.key \in Arrays
        /\ edit.wrote # NoText
        /\ \E editor \in Editors : edit.wrote = NewText(editor, edit.kind, edit.what, edit.read)

\* What is under way.
OpMade(op) ==
    /\ op.kind \in {"collect", "ask", "add", "remove"}
    /\ op.kind = "collect" => \A it \in op.items : it.key \in Arrays
    /\ op.kind \in {"add", "remove"} => op.text \in Seq(Tokens)
    /\ op.kind = "add" => op.what \in Additions
    /\ op.kind \in {"ask", "remove"} => op.what.item.key \in Arrays

EditIInv ==
    /\ file \in Seq(Tokens)
    /\ DOMAIN rows = Editors
    /\ \A e \in Editors : \A row \in rows[e] : row.item.key \in Arrays
    /\ \A op \in ops : OpMade(op)
    /\ EditMade

LEMMA EditInitMade ==
    ASSUME EditInit PROVE EditIInv
<1>1. file \in Seq(Tokens)
  <2>1. file \in Texts /\ Texts \cup Saves \subseteq Seq(STRING)
    BY TextsAssumption DEF EditInit
  <2> QED
    BY <2>1, StringsAreTokens
<1>2. DOMAIN rows = Editors /\ \A e \in Editors : rows[e] = {}
  BY DEF EditInit
<1>3. ops = {} /\ edit.kind = "none"
  BY DEF EditInit, NoEdit
<1> QED
  BY <1>1, <1>2, <1>3 DEF EditIInv, EditMade

\* What a command writes is an edit, or nothing.
LEMMA WriteMade ==
    ASSUME file \in Seq(Tokens), NEW kind \in {"add", "remove"}, NEW what, NEW read \in Seq(Tokens),
           kind = "add" => what \in Additions, kind = "remove" => what.item.key \in Arrays,
           NEW editor \in Editors, Write(editor, kind, what, read)
    PROVE  file' \in Seq(Tokens) /\ EditMade'
<1> DEFINE wrote == NewText(editor, kind, what, read)
<1>1. CASE wrote = NoText
  BY <1>1 DEF Write, EditMade, NoEdit
<1>2. CASE wrote # NoText
  <2>1. file' = wrote /\ edit' = [kind |-> kind, what |-> what, read |-> read, wrote |-> wrote]
    BY <1>2 DEF Write
  <2>2. wrote \in Seq(Tokens)
    BY <1>2, NewTextIs
  <2> DEFINE e == edit'
  <2> HIDE DEF wrote, e
  <2>3. e.kind = kind /\ e.what = what /\ e.read = read /\ e.wrote = wrote
    BY <2>1 DEF e
  <2>4. /\ e.kind \in {"add", "remove"} /\ e.read \in Seq(Tokens)
        /\ e.kind = "add" => e.what \in Additions
        /\ e.kind = "remove" => e.what.item.key \in Arrays
        /\ e.wrote # NoText /\ e.wrote = NewText(editor, e.kind, e.what, e.read)
    BY <1>2, <2>3 DEF wrote
  <2> QED
    BY <2>1, <2>2, <2>4 DEF EditMade, e
<1> QED
  BY <1>1, <1>2

\* One step more under way, and no command.
LEMMA BeginMade ==
    ASSUME EditIInv, NEW op, OpMade(op), Begin(op)
    PROVE  EditIInv'
<1>1. edit' = NoEdit /\ ops' = ops \cup {op} /\ file' = file /\ rows' = rows
  BY DEF Begin
<1>2. EditMade'
  BY <1>1 DEF EditMade, NoEdit
<1> QED
  BY <1>1, <1>2 DEF EditIInv, OpMade

LEMMA EditNextMade ==
    ASSUME EditIInv, [EditNext]_editVars PROVE EditIInv'
<1> USE DEF EditIInv
<1>1. CASE UNCHANGED editVars
  BY <1>1 DEF editVars, OpMade, EditMade
<1>2. CASE Save
  <2>1. file' \in Seq(Tokens)
    BY <1>2, TextsAssumption, StringsAreTokens DEF Save
  <2>2. edit' = NoEdit /\ rows' = rows /\ ops' = ops
    BY <1>2 DEF Save
  <2>3. EditMade'
    BY <2>2 DEF EditMade, NoEdit
  <2> QED
    BY <2>1, <2>2, <2>3 DEF OpMade
<1>3. ASSUME NEW e \in Editors, CollectorReads(e) PROVE EditIInv'
  <2> DEFINE op == [kind |-> "collect", editor |-> e, items |-> Items(file)]
  <2>1. Begin(op)
    BY <1>3 DEF CollectorReads
  <2>2. op.kind = "collect" /\ op.items = Items(file)
    OBVIOUS
  <2>3. \A it \in Items(file) : it.key \in Arrays
    BY DEF Items
  <2> HIDE DEF op
  <2>4. OpMade(op)
    BY <2>2, <2>3 DEF OpMade
  <2> QED
    BY <2>1, <2>4, BeginMade
<1>4. ASSUME NEW e \in Editors, NEW row \in rows[e], AskRemove(e, row) PROVE EditIInv'
  <2> DEFINE op == [kind |-> "ask", editor |-> e, what |-> row]
  <2>1. Begin(op)
    BY <1>4 DEF AskRemove
  <2>2. op.kind = "ask" /\ op.what = row
    OBVIOUS
  <2> HIDE DEF op
  <2>3. OpMade(op)
    BY <2>2 DEF OpMade
  <2> QED
    BY <2>1, <2>3, BeginMade
<1>5. ASSUME NEW new \in Additions, AddReads(new) PROVE EditIInv'
  <2> DEFINE op == [kind |-> "add", what |-> new, text |-> file]
  <2>1. Begin(op)
    BY <1>5 DEF AddReads
  <2>2. op.kind = "add" /\ op.what = new /\ op.text = file
    OBVIOUS
  <2> HIDE DEF op
  <2>3. OpMade(op)
    BY <2>2 DEF OpMade
  <2> QED
    BY <2>1, <2>3, BeginMade
<1>6. ASSUME NEW new \in Additions, NvimAdds(new) PROVE EditIInv'
  <2>1. Write("nvim", "add", new, file) /\ rows' = rows /\ ops' = ops
    BY <1>6 DEF NvimAdds
  <2>2. "nvim" \in Editors /\ "add" \in {"add", "remove"} /\ "add" # "remove"
    BY DEF Editors
  <2>3. file' \in Seq(Tokens) /\ EditMade'
    BY <2>1, <2>2, WriteMade
  <2> QED
    BY <2>1, <2>3 DEF OpMade
<1>7. ASSUME NEW op \in ops, Place(op) PROVE EditIInv'
  <2>1. /\ op.kind = "collect" /\ file' = file /\ edit' = NoEdit /\ ops' = ops \ {op}
        /\ rows' = [rows EXCEPT ![op.editor] =
              {[item |-> it, origin |-> DeclaredIn(file)[it.name]] :
                  it \in {it \in op.items : it.name \in DOMAIN DeclaredIn(file)}}]
    BY <1>7 DEF Place
  <2> DEFINE D == DeclaredIn(file)
             placed == {[item |-> it, origin |-> D[it.name]] :
                            it \in {it \in op.items : it.name \in DOMAIN D}}
  <2> HIDE DEF D
  <2>2. \A row \in placed : row.item.key \in Arrays
    <3>1. \A it \in op.items : it.key \in Arrays
      BY <2>1 DEF OpMade
    <3> QED
      BY <3>1
  <2>3. rows' = [rows EXCEPT ![op.editor] = placed]
    BY <2>1 DEF D
  <2> HIDE DEF placed
  <2>4. DOMAIN rows' = Editors /\ \A e \in Editors : \A row \in rows'[e] : row.item.key \in Arrays
    BY <2>2, <2>3
  <2>5. EditMade'
    BY <2>1 DEF EditMade, NoEdit
  <2> QED
    BY <2>1, <2>4, <2>5 DEF OpMade
<1>8. ASSUME NEW op \in ops, RemoveReads(op) PROVE EditIInv'
  <2> DEFINE new == [kind |-> "remove", what |-> op.what, text |-> file]
  <2>1. /\ op.kind = "ask" /\ file' = file /\ rows' = rows /\ edit' = NoEdit
        /\ ops' = (ops \ {op}) \cup {new}
    BY <1>8 DEF RemoveReads
  <2>2. new.kind = "remove" /\ new.what = op.what /\ new.text = file
    OBVIOUS
  <2> HIDE DEF new
  <2>3. OpMade(new)
    BY <2>1, <2>2 DEF OpMade
  <2>4. EditMade'
    BY <2>1 DEF EditMade, NoEdit
  <2> QED
    BY <2>1, <2>3, <2>4 DEF OpMade
<1>9. ASSUME NEW op \in ops, Writes(op) PROVE EditIInv'
  <2>1. /\ op.kind \in {"add", "remove"} /\ Write("vscode", op.kind, op.what, op.text)
        /\ rows' = rows /\ ops' = ops \ {op}
    BY <1>9 DEF Writes
  <2>2. /\ op.text \in Seq(Tokens) /\ (op.kind = "add" => op.what \in Additions)
        /\ (op.kind = "remove" => op.what.item.key \in Arrays)
    BY <2>1 DEF OpMade
  <2>3. "vscode" \in Editors
    BY DEF Editors
  <2>4. file' \in Seq(Tokens) /\ EditMade'
    BY <2>1, <2>2, <2>3, WriteMade
  <2> QED
    BY <2>1, <2>4 DEF OpMade
<1>10. ASSUME NEW op \in ops, NvimRemoves(op) PROVE EditIInv'
  <2>1. /\ op.kind = "ask" /\ Write("nvim", "remove", op.what, file)
        /\ rows' = rows /\ ops' = ops \ {op}
    BY <1>10 DEF NvimRemoves
  <2>2. op.what.item.key \in Arrays
    BY <2>1 DEF OpMade
  <2>3. "nvim" \in Editors /\ "remove" \in {"add", "remove"} /\ "add" # "remove"
    BY DEF Editors
  <2>4. file' \in Seq(Tokens) /\ EditMade'
    BY <2>1, <2>2, <2>3, WriteMade
  <2> QED
    BY <2>1, <2>4 DEF OpMade
<1> QED
  BY <1>1, <1>2, <1>3, <1>4, <1>5, <1>6, <1>7, <1>8, <1>9, <1>10 DEF EditNext

\* What was edited is what was read when an edit is made, at any time.
LEMMA EditsAreMade == EditSpec => []EditIInv
<1>1. EditInit => EditIInv
  BY EditInitMade
<1>2. EditIInv /\ [EditNext]_editVars => EditIInv'
  BY EditNextMade
<1> QED
  BY <1>1, <1>2, PTL DEF EditSpec

\* Each edit, of a text that is plain, by what it was: the cases of a command.
LEMMA EditOfOne == EditIInv => EditIsOneEntry
<1> SUFFICES ASSUME EditMade, edit.kind # "none", edit.read = <<>> \/ Plain(edit.read)
             PROVE  /\ Parses(edit.wrote)
                    /\ \A other \in (Arrays \cup DOMAIN Reading(edit.read).entries) \ {EditedKey} :
                          Entries(edit.wrote, other) = Entries(edit.read, other)
                    /\ IF edit.kind = "add" THEN New = Append(Old, EntryOf(edit.what.entry))
                       ELSE \E n \in DOMAIN Old : New = Without(Old, n)
  BY DEF EditIInv, EditIsOneEntry
<1> DEFINE read == edit.read
           wrote == edit.wrote
           what == edit.what
           key == EditedKey
<1>1. /\ edit.kind \in {"add", "remove"} /\ read \in Seq(Tokens)
      /\ edit.kind = "add" => what \in Additions
      /\ edit.kind = "remove" => what.item.key \in Arrays
      /\ wrote # NoText
      /\ \E editor \in Editors : wrote = NewText(editor, edit.kind, what, read)
  BY DEF EditMade
<1>2. CASE edit.kind = "add"
  <2>1. key = what.key /\ key \in Arrays /\ what.entry \in Seq(Tokens) /\ IsValue(what.entry)
    BY <1>1, <1>2, AdditionsAssumption, StringsAreTokens DEF EditedKey
  <2>2. PICK editor \in Editors : wrote = NewText(editor, "add", what, read)
    BY <1>1, <1>2
  <2>3. wrote = AddToArray(editor, read, key, what.entry)
    <3> HIDE DEF read, wrote, what, key
    <3>1. read \in Seq(Tokens) /\ wrote # NoText /\ what \in Additions
      BY <1>1, <1>2
    <3> QED
      BY <2>1, <2>2, <3>1, NewTextIs
  <2>4. OneNew(wrote, read, key, EntryOf(what.entry))
    <3> HIDE DEF read, wrote, what, key
    <3>1. read = <<>> \/ Plain(read)
      BY DEF read
    <3>2. read \in Seq(Tokens) /\ wrote # NoText
      BY <1>1
    <3> QED
      BY <2>1, <2>3, <3>1, <3>2, AddReading
  <2> QED
    BY <1>2, <2>4 DEF OneNew, Old, New
<1>3. CASE edit.kind = "remove"
  <2>1. key = what.item.key /\ key \in Arrays
    BY <1>1, <1>3 DEF EditedKey
  <2>2. PICK editor \in Editors : wrote = NewText(editor, "remove", what, read)
    BY <1>1, <1>3
  <2>3. read # <<>> /\ wrote = RemoveEntry(editor, read, key, what.origin)
    <3> HIDE DEF read, wrote, what, key
    <3>1. wrote # NoText /\ "remove" # "add"
      BY <1>1
    <3> QED
      BY <2>1, <2>2, <3>1 DEF NewText, Removed
  <2>4. Plain(read)
    BY <2>3
  <2>5. \E n : OneGone(read, wrote, key, n)
    <3> HIDE DEF read, wrote, what, key
    <3>1. read \in Seq(Tokens) /\ wrote # NoText
      BY <1>1
    <3> QED
      BY <2>1, <2>3, <2>4, <3>1, RemoveReading
  <2>6. PICK n : OneGone(read, wrote, key, n)
    BY <2>5
  <2>7. /\ Parses(wrote) /\ \A o : o # key => Entries(wrote, o) = Entries(read, o)
        /\ n \in DOMAIN Entries(read, key) /\ Entries(wrote, key) = Without(Entries(read, key), n)
    <3> HIDE DEF read, wrote, key
    <3>1. Entries(read, key) \in Seq(Seq(Tokens)) /\ n \in 1..Len(Entries(read, key))
      BY <2>6 DEF OneGone
    <3>2. n \in DOMAIN Entries(read, key)
      BY <3>1
    <3> QED
      BY <2>6, <3>2 DEF OneGone
  <2> QED
    BY <1>3, <2>7 DEF Old, New
<1> QED
  BY <1>1, <1>2, <1>3

\* "Every result has to still be a config the CLI can load" (edit.test.ts:7):
\* whatever plain text addItem and removeItem of commands.ts, or write_entry and
\* remove_item of record.lua, have read, in whatever layout, the text they make of
\* it (splice.ts, edit.lua) loads, has the one entry more or less that was asked
\* for, and every other entry as it was.
THEOREM OneEntryEdited == EditSpec => []EditIsOneEntry
<1> QED
  BY EditsAreMade, EditOfOne, PTL

-----------------------------------------------------------------------------
(* The name of an element *)

\* c and d are cuts, and there is none between them.
Inner(text, R, key, c, d) ==
    /\ Len(text) \in Nat /\ c \in 1..Len(text) /\ d \in (c + 1)..Len(text)
    /\ text[c] \in {"lbrack", "comma"} /\ R[c].entry = <<>>
    /\ \A k \in (c + 1)..(d - 1) : InArray(R[k - 1], key) /\ ~EndsElement(R[k - 1], text[k])

\* An element is between two cuts, and every token of the array in one element.
LEMMA InnerIs ==
    ASSUME NEW text \in Seq(Tokens), Plain(text), NEW R, R = Steps(Start, text),
           NEW key \in Arrays, Keyed(text, key) # {}, NEW span, span = ArraySpan(text, key),
           NEW c \in Cuts(text, span), NEW d \in Cuts(text, span), c < d,
           \A k \in Cuts(text, span) : ~(c < k /\ k < d)
    PROVE  Inner(text, R, key, c, d)
<1>1. /\ Cuts(text, span) \subseteq span.open..span.close
      /\ span.open \in 1..Len(text) /\ span.close \in (span.open + 1)..Len(text)
      /\ \A x \in Cuts(text, span) :
            /\ x # span.close => R[x].entry = <<>>
            /\ x = span.open => text[x] = "lbrack"
            /\ x # span.open /\ x # span.close => text[x] = "comma"
      /\ \A k \in (span.open + 1)..span.close :
            EndsElement(R[k - 1], text[k]) => k \in Cuts(text, span)
  BY CutsAre
<1> DEFINE o == span.open
           z == span.close
<1>2. Len(text) \in Nat
  OBVIOUS
<1>3. \A k \in o..(z - 1) : InArray(R[k], key)
  <2>1. PICK p \in Keyed(text, key) : TRUE
    OBVIOUS
  <2> QED
    BY <2>1, ArrayFound
<1> HIDE DEF o, z
<1>4. /\ o \in 1..Len(text) /\ z \in (o + 1)..Len(text) /\ c \in o..z /\ d \in o..z
  BY <1>1 DEF o, z
<1>5. c # z /\ c \in 1..Len(text) /\ d \in (c + 1)..Len(text)
  BY <1>2, <1>4
<1>6. text[c] \in {"lbrack", "comma"} /\ R[c].entry = <<>>
  BY <1>1, <1>5 DEF o, z
<1>7. ASSUME NEW k \in (c + 1)..(d - 1) PROVE InArray(R[k - 1], key) /\ ~EndsElement(R[k - 1], text[k])
  <2>1. k \in (o + 1)..z /\ k - 1 \in o..(z - 1) /\ c < k /\ k < d
    BY <1>2, <1>4, <1>5
  <2>2. k \notin Cuts(text, span)
    BY <2>1
  <2>3. EndsElement(R[k - 1], text[k]) => k \in Cuts(text, span)
    BY <1>1, <2>1 DEF o, z
  <2> QED
    BY <1>3, <2>1, <2>2, <2>3
<1> QED
  BY <1>2, <1>5, <1>6, <1>7 DEF Inner

\* The tokens between c and m, and where they are in the entry.
Solids(text, c, m) == {j \in (c + 1)..m : text[j] \notin Space}
PlaceOf(R, j)      == Len(R[j].entry)

Collected(text, R, c, m) ==
    /\ R[m].entry \in Seq(Tokens) /\ PlaceOf(R, m) \in Nat
    /\ \A j \in Solids(text, c, m) :
          PlaceOf(R, j) \in 1..PlaceOf(R, m) /\ R[m].entry[PlaceOf(R, j)] = text[j]
    /\ \A i \in 1..PlaceOf(R, m) : \E j \in Solids(text, c, m) : PlaceOf(R, j) = i

\* What is read of an element grows token by token.
LEMMA EntryGrows ==
    ASSUME NEW text \in Seq(Tokens), Plain(text), NEW R, R = Steps(Start, text),
           NEW key, NEW c, NEW d, Inner(text, R, key, c, d), NEW k \in (c + 1)..(d - 1)
    PROVE  IF text[k] \in Space THEN R[k] = R[k - 1]
           ELSE /\ R[k].entry = Append(R[k - 1].entry, text[k]) /\ text[k] \in Tokens
                /\ R[k - 1].entry \in Seq(Tokens)
<1>1. k \in 1..Len(text) /\ k - 1 \in 0..Len(text)
  BY DEF Inner
<1> DEFINE u == R[k - 1]
           v == R[k]
           t == text[k]
<1>2. InArray(u, key) /\ ~EndsElement(u, t)
  BY DEF Inner
<1>3. v = ReadToken(u, t) /\ t \in Tokens /\ Sound(u) /\ (t \notin Space => ~Over(u) /\ Fits(u, t))
  BY <1>1, PlainReads
<1> HIDE DEF u, v, t
<1>4. CASE t \in Space
  BY <1>3, <1>4, SpaceReads DEF u, v, t
<1>5. CASE t \notin Space
  <2>1. v.entry = NextEntry(u, t)
    BY <1>3, <1>5, FieldsRead
  <2>2. Level(u) >= 2 /\ Level(u) \in Nat
    BY <1>2, <1>3, SoundIs DEF InArray
  <2>3. ~Ends(u, t)
    <3> SUFFICES ASSUME Ends(u, t) PROVE FALSE
      OBVIOUS
    <3>1. Level(u) = 2 /\ t # "comma" /\ t # "rbrack" /\ t \in Closing
      BY <1>2 DEF Ends, EndsElement
    <3>2. t = "rbrace"
      BY <3>1 DEF Closing
    <3>3. In(u) = "lbrace"
      BY <1>3, <1>5, <3>1, <3>2, ClosingRead
    <3>4. In(u) = "lbrack"
      BY <1>2, <1>3, <3>1, StackOfPair, PairStack
    <3> QED
      BY <3>3, <3>4
  <2>4. v.entry = Append(u.entry, t)
    <3>1. ~(Level(u) < 2)
      BY <2>2
    <3> QED
      BY <2>1, <2>3, <3>1 DEF NextEntry
  <2>5. u.entry \in Seq(Tokens)
    BY <1>3, SoundIs
  <2> QED
    BY <1>3, <1>5, <2>4, <2>5 DEF u, v, t
<1> QED
  BY <1>4, <1>5

LEMMA CollectedOne ==
    ASSUME NEW text \in Seq(Tokens), Plain(text), NEW R, R = Steps(Start, text),
           NEW key, NEW c, NEW d, Inner(text, R, key, c, d), NEW k \in (c + 1)..(d - 1),
           Collected(text, R, c, k - 1)
    PROVE  /\ Collected(text, R, c, k)
           /\ text[k] \notin Space => PlaceOf(R, k) = PlaceOf(R, k - 1) + 1
<1>1. c \in Nat /\ k \in Nat /\ c < k
  BY DEF Inner
<1> DEFINE x == R[k - 1].entry
           y == R[k].entry
<1>2. CASE text[k] \in Space
  <2>1. R[k] = R[k - 1] /\ PlaceOf(R, k) = PlaceOf(R, k - 1)
    BY <1>2, EntryGrows DEF PlaceOf
  <2>2. Solids(text, c, k) = Solids(text, c, k - 1)
    BY <1>1, <1>2 DEF Solids
  <2> QED
    BY <1>2, <2>1, <2>2 DEF Collected
<1>3. CASE text[k] \notin Space
  <2> DEFINE n == PlaceOf(R, k - 1)
  <2>1. y = Append(x, text[k]) /\ text[k] \in Tokens /\ x \in Seq(Tokens) /\ n = Len(x) /\ n \in Nat
    BY <1>3, EntryGrows DEF PlaceOf, Collected
  <2>2. PlaceOf(R, k) = Len(y)
    BY DEF PlaceOf
  <2>3. Solids(text, c, k) = Solids(text, c, k - 1) \cup {k} /\ k \in Solids(text, c, k)
    BY <1>1, <1>3 DEF Solids
  <2>4. /\ \A j \in Solids(text, c, k - 1) : PlaceOf(R, j) \in 1..n /\ x[PlaceOf(R, j)] = text[j]
        /\ \A i \in 1..n : \E j \in Solids(text, c, k - 1) : PlaceOf(R, j) = i
    BY DEF Collected
  <2> HIDE DEF x, y, n
  <2>5. y \in Seq(Tokens) /\ Len(y) = n + 1 /\ y[n + 1] = text[k] /\ \A i \in 1..n : y[i] = x[i]
    BY <2>1, AppendProperties
  <2>6. PlaceOf(R, k) = n + 1 /\ n + 1 \in Nat
    BY <2>1, <2>2, <2>5
  <2>7. ASSUME NEW j \in Solids(text, c, k)
        PROVE  PlaceOf(R, j) \in 1..(n + 1) /\ y[PlaceOf(R, j)] = text[j]
    <3>1. CASE j = k
      BY <2>1, <2>5, <2>6, <3>1
    <3>2. CASE j \in Solids(text, c, k - 1)
      <4>1. PlaceOf(R, j) \in 1..n /\ x[PlaceOf(R, j)] = text[j]
        BY <2>4, <3>2
      <4> QED
        BY <2>1, <2>5, <4>1
    <3> QED
      BY <2>3, <3>1, <3>2
  <2>8. ASSUME NEW i \in 1..(n + 1) PROVE \E j \in Solids(text, c, k) : PlaceOf(R, j) = i
    <3>1. CASE i = n + 1
      BY <2>3, <2>6, <3>1
    <3>2. CASE i \in 1..n
      BY <2>3, <2>4, <3>2
    <3> QED
      BY <2>1, <3>1, <3>2
  <2>9. Collected(text, R, c, k)
    BY <2>5, <2>6, <2>7, <2>8 DEF Collected, y
  <2> QED
    BY <2>6, <2>9 DEF n
<1> QED
  BY <1>2, <1>3

\* What is collected of an element is its tokens without the space.
LEMMA CollectedAll ==
    ASSUME NEW text \in Seq(Tokens), Plain(text), NEW R, R = Steps(Start, text),
           NEW key, NEW c, NEW d, Inner(text, R, key, c, d)
    PROVE  \A m \in c..(d - 1) : Collected(text, R, c, m)
<1>1. /\ Len(text) \in Nat /\ c \in 1..Len(text) /\ d \in (c + 1)..Len(text) /\ R[c].entry = <<>>
  BY DEF Inner
<1> DEFINE T == {m \in c..(d - 1) : Collected(text, R, c, m)}
<1>2. c \in T
  <2>1. PlaceOf(R, c) = 0 /\ R[c].entry \in Seq(Tokens) /\ c \in c..(d - 1)
    <3>1. Len(<<>>) = 0 /\ <<>> \in Seq(Tokens)
      OBVIOUS
    <3>2. c \in c..(d - 1)
      BY <1>1
    <3> QED
      BY <1>1, <3>1, <3>2 DEF PlaceOf
  <2>2. Solids(text, c, c) = {}
    BY <1>1 DEF Solids
  <2>3. Collected(text, R, c, c)
    BY <2>1, <2>2 DEF Collected
  <2> QED
    BY <2>1, <2>3
<1>3. \A m \in c..((d - 1) - 1) : m \in T => m + 1 \in T
  <2> SUFFICES ASSUME NEW m \in c..((d - 1) - 1), m \in T PROVE m + 1 \in T
    OBVIOUS
  <2>1. PICK k \in (c + 1)..(d - 1) : k = m + 1
    BY <1>1
  <2>2. k - 1 = m /\ k \in c..(d - 1)
    BY <1>1, <2>1
  <2>3. Collected(text, R, c, k - 1)
    BY <2>2
  <2>4. Collected(text, R, c, k)
    BY <2>3, CollectedOne
  <2> QED
    BY <2>1, <2>2, <2>4
<1>4. c \in 0..Len(text) /\ d - 1 \in c..Len(text)
  BY <1>1
<1> HIDE DEF T
<1>5. \A m \in c..(d - 1) : m \in T
  BY <1>2, <1>3, <1>4, AlongSteps
<1> QED
  BY <1>5 DEF T

\* Later tokens have later places.
LEMMA PlacesRise ==
    ASSUME NEW text \in Seq(Tokens), Plain(text), NEW R, R = Steps(Start, text),
           NEW key, NEW c, NEW d, Inner(text, R, key, c, d),
           NEW j \in Solids(text, c, d - 1), NEW k \in Solids(text, c, d - 1), j < k
    PROVE  PlaceOf(R, j) < PlaceOf(R, k) /\ PlaceOf(R, j) \in Nat /\ PlaceOf(R, k) \in Nat
<1>1. /\ c \in Nat /\ d \in Nat /\ j \in (c + 1)..(d - 1) /\ k \in (c + 1)..(d - 1)
      /\ text[j] \notin Space /\ text[k] \notin Space
  BY DEF Inner, Solids
<1>2. k - 1 \in c..(d - 1) /\ j \in (c + 1)..(k - 1)
  BY <1>1
<1>3. Collected(text, R, c, k - 1)
  BY <1>2, CollectedAll
<1>4. PlaceOf(R, k) = PlaceOf(R, k - 1) + 1 /\ PlaceOf(R, k - 1) \in Nat
  <2>1. PlaceOf(R, k - 1) \in Nat
    BY <1>3 DEF Collected
  <2> QED
    BY <1>1, <1>3, <2>1, CollectedOne
<1>5. PlaceOf(R, j) \in 1..PlaceOf(R, k - 1)
  <2>1. j \in Solids(text, c, k - 1)
    BY <1>1, <1>2 DEF Solids
  <2> QED
    BY <1>3, <2>1 DEF Collected
<1> QED
  BY <1>4, <1>5

\* The token behind another one has the place behind its place.
LEMMA PlaceAfter ==
    ASSUME NEW text \in Seq(Tokens), Plain(text), NEW R, R = Steps(Start, text),
           NEW key, NEW c, NEW d, Inner(text, R, key, c, d),
           NEW j \in Solids(text, c, d - 1), NEW k \in Solids(text, c, d - 1), j < k,
           Blank(text, j + 1, k - 1)
    PROVE  PlaceOf(R, k) = PlaceOf(R, j) + 1
<1>1. /\ Len(text) \in Nat /\ c \in Nat /\ d \in Nat /\ j \in (c + 1)..(d - 1) /\ k \in (c + 1)..(d - 1)
      /\ text[j] \notin Space /\ text[k] \notin Space /\ c >= 1 /\ d <= Len(text)
  BY DEF Inner, Solids
<1>2. k - 1 \in c..(d - 1)
  BY <1>1
<1>3. Collected(text, R, c, k - 1)
  BY <1>2, CollectedAll
<1>4. PlaceOf(R, k) = PlaceOf(R, k - 1) + 1
  BY <1>1, <1>3, CollectedOne
<1>5. R[k - 1] = R[j]
  <2>1. j \in 0..Len(text) /\ k - 1 \in j..Len(text) /\ k - 1 \in j..(k - 1)
    BY <1>1
  <2>2. \A n \in (j + 1)..(k - 1) : text[n] \in Space
    BY DEF Blank
  <2>3. \A n \in j..(k - 1) : R[n] = R[j]
    BY <2>1, <2>2, OverSpace
  <2> QED
    BY <2>1, <2>3
<1> QED
  BY <1>4, <1>5 DEF PlaceOf

\* An entry that is one token is its name.
LEMMA LoneToken ==
    ASSUME NEW text \in Seq(Tokens), Plain(text), NEW R, R = Steps(Start, text),
           NEW key, NEW c, NEW d, Inner(text, R, key, c, d),
           NEW k \in Solids(text, c, d - 1), \A j \in Solids(text, c, d - 1) : j = k
    PROVE  R[d - 1].entry[1] = text[k]
<1>1. d - 1 \in c..(d - 1)
  BY DEF Inner
<1>2. Collected(text, R, c, d - 1)
  BY <1>1, CollectedAll
<1> DEFINE E == R[d - 1].entry
           n == PlaceOf(R, d - 1)
<1>3. /\ n \in Nat /\ PlaceOf(R, k) \in 1..n /\ E[PlaceOf(R, k)] = text[k]
      /\ \A i \in 1..n : \E j \in Solids(text, c, d - 1) : PlaceOf(R, j) = i
  BY <1>2 DEF Collected
<1> HIDE DEF E, n
<1>4. 1 \in 1..n
  BY <1>3
<1>5. PlaceOf(R, k) = 1
  BY <1>3, <1>4
<1>6. E[1] = text[k]
  BY <1>3, <1>5
<1> QED
  BY <1>6 DEF E

\* q is the key of the name, r its colon, and k the name.
Names(text, c, d, key, q, r, k) ==
    /\ q \in Solids(text, c, d - 1) /\ r \in Solids(text, c, d - 1) /\ k \in Solids(text, c, d - 1)
    /\ q < r /\ r < k /\ Blank(text, q + 1, r - 1) /\ Blank(text, r + 1, k - 1)
    /\ text[q] = NameField[key] /\ text[r] = "colon"

\* The token behind the name field of an element is the one NameOf takes.
LEMMA NamedToken ==
    ASSUME NEW text \in Seq(Tokens), Plain(text), NEW R, R = Steps(Start, text),
           NEW key, key # "domains", NEW c, NEW d, Inner(text, R, key, c, d),
           NEW q, NEW r, NEW k, Names(text, c, d, key, q, r, k),
           \A j \in Solids(text, c, d - 1) :
              text[j] = NameField[key] /\ At(text, After(text, j)) = "colon" => j = q
    PROVE  NameOf(key, R[d - 1].entry) = text[k]
<1> DEFINE E == R[d - 1].entry
           S == Solids(text, c, d - 1)
           n == PlaceOf(R, d - 1)
           x == PlaceOf(R, q)
<1>1. d - 1 \in c..(d - 1) /\ d \in Nat /\ c \in Nat /\ c >= 1 /\ d <= Len(text) /\ Len(text) \in Nat
  BY DEF Inner
<1>2. Collected(text, R, c, d - 1)
  BY <1>1, CollectedAll
<1>3. /\ n \in Nat /\ n = Len(E) /\ E \in Seq(Tokens)
      /\ \A j \in S : PlaceOf(R, j) \in 1..n /\ E[PlaceOf(R, j)] = text[j]
      /\ \A i \in 1..n : \E j \in S : PlaceOf(R, j) = i
  BY <1>2 DEF Collected, PlaceOf
<1>4. DOMAIN E = 1..n
  BY <1>3
<1>5. /\ q \in S /\ r \in S /\ k \in S /\ q < r /\ r < k
      /\ Blank(text, q + 1, r - 1) /\ Blank(text, r + 1, k - 1)
      /\ text[q] = NameField[key] /\ text[r] = "colon"
  BY DEF Names
<1>6. PlaceOf(R, r) = x + 1 /\ PlaceOf(R, k) = PlaceOf(R, r) + 1
  BY <1>5, PlaceAfter
<1>7. \A i, j \in S : i < j => PlaceOf(R, i) < PlaceOf(R, j)
  BY PlacesRise
<1>8. \A i, j \in S : Blank(text, i + 1, j - 1) /\ i < j => PlaceOf(R, j) = PlaceOf(R, i) + 1
  BY PlaceAfter
<1>9. \A i \in S : i \in (c + 1)..(d - 1) /\ i \in Nat /\ text[i] \notin Space
                   /\ i \in 0..Len(text) /\ i < d
  BY <1>1 DEF Solids
<1>10. \A i \in Nat : i \in (c + 1)..(d - 1) /\ text[i] \notin Space => i \in S
  BY DEF Solids
<1> HIDE DEF E, S, n, x
<1>11. /\ x \in 1..n /\ x + 1 \in 1..n /\ x \in Nat /\ x + 2 \in 1..n
       /\ E[x] = NameField[key] /\ E[x + 1] = "colon" /\ E[x + 2] = text[k]
  <2>1. x \in 1..n /\ E[x] = text[q]
    BY <1>3, <1>5 DEF x
  <2>2. x + 1 \in 1..n /\ E[x + 1] = text[r]
    BY <1>3, <1>5, <1>6
  <2>3. PlaceOf(R, k) = x + 2
    BY <1>3, <1>6, <2>1
  <2>4. x + 2 \in 1..n /\ E[x + 2] = text[k]
    BY <1>3, <1>5, <2>3
  <2> QED
    BY <1>3, <1>5, <2>1, <2>2, <2>4
<1>12. At(E, x + 1) = "colon"
  BY <1>4, <1>11 DEF At
<1>13. ASSUME NEW i \in DOMAIN E, E[i] = NameField[key], At(E, i + 1) = "colon" PROVE i = x
  <2>1. i \in 1..n /\ i + 1 \in 1..n /\ E[i + 1] = "colon"
    <3>1. "colon" # "eof"
      OBVIOUS
    <3> QED
      BY <1>4, <1>13, <3>1 DEF At
  <2>2. PICK j \in S : PlaceOf(R, j) = i
    BY <1>3, <2>1
  <2>3. PICK l \in S : PlaceOf(R, l) = i + 1
    BY <1>3, <2>1
  <2>4. text[j] = NameField[key] /\ text[l] = "colon"
    BY <1>3, <1>13, <2>1, <2>2, <2>3
  <2>5. j \in Nat /\ l \in Nat /\ j \in 0..Len(text) /\ l < d /\ j > c /\ i \in Nat
        /\ text[l] \notin Space
    BY <1>1, <1>9, <2>1
  <2>6. j < l
    <3>1. ~(l < j)
      <4>1. l < j => PlaceOf(R, l) < PlaceOf(R, j)
        BY <1>7
      <4> QED
        BY <2>2, <2>3, <2>5, <4>1
    <3>2. l # j
      BY <2>2, <2>3, <2>5
    <3> QED
      BY <2>5, <3>1, <3>2
  <2> DEFINE s == After(text, j)
  <2>7. /\ s \in (j + 1)..(Len(text) + 1) /\ (s <= Len(text) => s \in Solid(text))
        /\ \A m \in (j + 1)..(s - 1) : text[m] \in Space
    BY <2>5, AfterIs
  <2> HIDE DEF s
  <2>8. s <= l
    <3>1. ~(l \in (j + 1)..(s - 1))
      BY <2>5, <2>7
    <3> QED
      BY <1>1, <2>5, <2>6, <2>7, <3>1
  <2>9. s \in S /\ j < s /\ s \in Nat
    <3>1. s \in Nat /\ s \in (c + 1)..(d - 1) /\ s <= Len(text) /\ j < s
      BY <1>1, <2>5, <2>7, <2>8
    <3>2. text[s] \notin Space
      BY <2>7, <3>1 DEF Solid
    <3> QED
      BY <1>10, <3>1, <3>2
  <2>10. PlaceOf(R, s) = i + 1
    BY <1>8, <2>2, <2>7, <2>9 DEF Blank
  <2>11. s = l
    <3>1. s < l => PlaceOf(R, s) < PlaceOf(R, l)
      BY <1>7, <2>9
    <3> QED
      BY <2>3, <2>5, <2>8, <2>9, <2>10, <3>1
  <2>12. At(text, After(text, j)) = "colon"
    <3>1. l \in DOMAIN text
      BY <1>1, <2>5, <2>6
    <3> QED
      BY <2>4, <2>11, <3>1 DEF At, s
  <2>13. j = q
    BY <2>4, <2>12 DEF S
  <2> QED
    BY <2>2, <2>13 DEF x
<1>14. (CHOOSE i \in DOMAIN E : E[i] = NameField[key] /\ At(E, i + 1) = "colon") = x
  BY <1>4, <1>11, <1>12, <1>13
<1>15. NameOf(key, E) = E[2 + x]
  BY <1>14 DEF NameOf
<1>16. 2 + x = x + 2
  BY <1>11
<1> QED
  BY <1>11, <1>15, <1>16 DEF E

-----------------------------------------------------------------------------
(* Removing what has the name *)

\* A token that ends no line is on the line of the token behind it.
LEMMA LineOn ==
    ASSUME NEW text \in Seq(Tokens), NEW j \in Nat, text[j] # "nl"
    PROVE  PositionOf(text, j + 1).line = PositionOf(text, j).line
<1> DEFINE E(k) == {i \in DOMAIN text : i < k /\ text[i] = "nl"}
<1>1. DOMAIN text = 1..Len(text) /\ Len(text) \in Nat
  OBVIOUS
<1>2. E(j + 1) = E(j)
  BY <1>1
<1>3. \A k : PositionOf(text, k).line = 1 + Cardinality(E(k))
  BY DEF PositionOf
<1> HIDE DEF E
<1> QED
  BY <1>2, <1>3

\* A string in an array is in one of its elements.
LEMMA InElement ==
    ASSUME NEW text \in Seq(Tokens), Plain(text), NEW key \in Arrays, Keyed(text, key) # {},
           NEW span, span = ArraySpan(text, key),
           NEW k \in span.open..span.close, IsString(text[k])
    PROVE  \E z \in Elements(text, span) : z[1] <= k /\ k <= z[2]
<1> DEFINE R == Steps(Start, text)
           C == Cuts(text, span)
           L == {c \in C : c < k}
           G == {c \in C : c > k}
           c == Greatest(L)
           d == Least(G)
<1>1. /\ C \subseteq span.open..span.close /\ span.open \in C /\ span.close \in C
      /\ span.open \in 1..Len(text) /\ span.close \in (span.open + 1)..Len(text)
      /\ \A x \in C : text[x] \in {"lbrack", "rbrack", "comma"}
  <2> HIDE DEF R, C
  <2>1. R = Steps(Start, text)
    BY DEF R
  <2> QED
    BY <2>1, CutsAre DEF C
<1>2. Len(text) \in Nat /\ DOMAIN text = 1..Len(text)
  OBVIOUS
<1> HIDE DEF C
<1>3. k \notin C /\ text[k] \notin Space
  BY <1>1 DEF IsString, Opening, Closing
<1>4. span.open < k /\ k < span.close /\ k \in 1..Len(text) /\ k \in Nat
  <2>1. k # span.open /\ k # span.close
    BY <1>1, <1>3
  <2> QED
    BY <1>1, <1>2, <2>1
<1>5. c \in L /\ \A x \in L : x <= c
  <2>1. L \in SUBSET Nat /\ L # {} /\ \A x \in L : x <= k
    <3>1. C \in SUBSET Nat
      BY <1>1, <1>2
    <3>2. span.open \in L
      BY <1>1, <1>4
    <3>3. \A x \in L : x \in Nat /\ x < k
      BY <3>1
    <3> QED
      BY <1>4, <3>2, <3>3
  <2> HIDE DEF L
  <2> QED
    BY <1>4, <2>1, GreatestIs
<1>6. d \in G /\ \A x \in G : d <= x
  <2>1. G \in SUBSET Nat /\ G # {}
    <3>1. C \in SUBSET Nat
      BY <1>1, <1>2
    <3>2. span.close \in G
      BY <1>1, <1>2, <1>4
    <3> QED
      BY <3>1, <3>2
  <2> HIDE DEF G
  <2> QED
    BY <2>1, LeastIs
<1> HIDE DEF c, d
<1>7. c \in C /\ d \in C /\ c < k /\ k < d /\ c \in 1..Len(text) /\ d \in 1..Len(text)
  BY <1>1, <1>2, <1>5, <1>6
<1>8. \A x \in C : ~(c < x /\ x < d)
  <2> SUFFICES ASSUME NEW x \in C, c < x, x < d PROVE FALSE
    OBVIOUS
  <2>1. x \in Nat
    BY <1>1
  <2>2. ~(x < k) /\ ~(x > k)
    BY <1>5, <1>6, <1>7, <2>1
  <2>3. x = k
    BY <1>4, <2>1, <2>2
  <2> QED
    BY <1>3, <2>3
<1> DEFINE x == After(text, c)
           y == Before(text, d)
<1>9. x \in Nat /\ x <= k
  <2>1. c \in 0..Len(text)
    BY <1>2, <1>7
  <2>2. x \in (c + 1)..(Len(text) + 1) /\ \A i \in (c + 1)..(x - 1) : text[i] \in Space
    BY <2>1, AfterIs
  <2> HIDE DEF x
  <2>3. k < x => k \in (c + 1)..(x - 1)
    BY <1>2, <1>4, <1>7, <2>2
  <2> QED
    BY <1>2, <1>3, <1>4, <1>7, <2>2, <2>3
<1>10. y \in Nat /\ k <= y
  <2>1. d \in 1..(Len(text) + 1)
    BY <1>2, <1>7
  <2>2. y \in 0..(d - 1) /\ \A i \in (y + 1)..(d - 1) : text[i] \in Space
    BY <2>1, BeforeIs
  <2> HIDE DEF y
  <2>3. y < k => k \in (y + 1)..(d - 1)
    BY <1>2, <1>4, <1>7, <2>2
  <2> QED
    BY <1>2, <1>3, <1>4, <1>7, <2>2, <2>3
<1>11. <<x, y>> \in Elements(text, span)
  <2>1. <<x, y>>[1] <= <<x, y>>[2]
    <3> HIDE DEF x, y
    <3> QED
      BY <1>4, <1>9, <1>10
  <2>2. c < d
    BY <1>4, <1>7
  <2> DEFINE p == <<c, d>>
  <2>3. p \in C \X C /\ p[1] = c /\ p[2] = d
    BY <1>7
  <2> QED
    BY <1>8, <2>1, <2>2, <2>3 DEF Elements, C
<1> HIDE DEF x, y
<1>12. <<x, y>>[1] = x /\ <<x, y>>[2] = y
  OBVIOUS
<1> QED
  BY <1>9, <1>10, <1>11, <1>12

Line(text, k) == PositionOf(text, k).line

\* What a legible text says of two entries on a line, of one entry, and of a token.
LEMMA LegibleSays ==
    ASSUME NEW text, NEW name, Legible(text, name)
    PROVE  /\ \A l, m \in Arrays :
                 Keyed(text, l) # {} /\ Keyed(text, m) # {} =>
                 \A x \in Elements(text, ArraySpan(text, l)), y \in Elements(text, ArraySpan(text, m)) :
                    \A j \in x[1]..x[2], k \in y[1]..y[2] :
                       Line(text, j) = Line(text, k) => l = m /\ x = y
           /\ \A l \in Arrays : Keyed(text, l) # {} =>
                 \A x \in Elements(text, ArraySpan(text, l)) :
                    \A j, k \in Naming(text, l, x) : j = k
           /\ \A k \in DOMAIN text :
                 /\ text[k] = name => \E l \in Arrays : k \in Declaring(text, l)
                 /\ <<name, text[k]>> \notin Inside
<1> DEFINE entries == UNION {{key} \X Elements(text, ArraySpan(text, key)) :
                             key \in {key \in Arrays : Keyed(text, key) # {}}}
<1>1. /\ \A x, y \in entries : \A j \in x[2][1]..x[2][2], k \in y[2][1]..y[2][2] :
            Line(text, j) = Line(text, k) => x = y
      /\ \A x \in entries : \A j, k \in Naming(text, x[1], x[2]) : j = k
      /\ \A k \in DOMAIN text :
            /\ text[k] = name => k \in UNION {Declaring(text, key) : key \in Arrays}
            /\ <<name, text[k]>> \notin Inside
  BY DEF Legible, Line
<1>2. ASSUME NEW l \in Arrays, Keyed(text, l) # {}, NEW x \in Elements(text, ArraySpan(text, l))
      PROVE  <<l, x>> \in entries
  BY <1>2
<1> HIDE DEF entries
<1>3. ASSUME NEW l \in Arrays, NEW m \in Arrays, Keyed(text, l) # {}, Keyed(text, m) # {},
             NEW x \in Elements(text, ArraySpan(text, l)), NEW y \in Elements(text, ArraySpan(text, m)),
             NEW j \in x[1]..x[2], NEW k \in y[1]..y[2], Line(text, j) = Line(text, k)
      PROVE  l = m /\ x = y
  <2> DEFINE u == <<l, x>>
             v == <<m, y>>
  <2>1. u \in entries /\ v \in entries
    BY <1>2, <1>3
  <2>2. u[1] = l /\ u[2] = x /\ v[1] = m /\ v[2] = y
    OBVIOUS
  <2> HIDE DEF u, v
  <2>3. u = v
    BY <1>1, <1>3, <2>1, <2>2
  <2> QED
    BY <2>2, <2>3
<1>4. ASSUME NEW l \in Arrays, Keyed(text, l) # {}, NEW x \in Elements(text, ArraySpan(text, l)),
             NEW j \in Naming(text, l, x), NEW k \in Naming(text, l, x)
      PROVE  j = k
  <2> DEFINE u == <<l, x>>
  <2>1. u \in entries
    BY <1>2, <1>4
  <2>2. u[1] = l /\ u[2] = x
    OBVIOUS
  <2> HIDE DEF u
  <2> QED
    BY <1>1, <2>1, <2>2
<1>5. \A k \in DOMAIN text : text[k] = name => \E l \in Arrays : k \in Declaring(text, l)
  BY <1>1
<1> QED
  BY <1>1, <1>3, <1>4, <1>5

\* An element with one name is read as an entry of that name.
LEMMA ElementNamed ==
    ASSUME NEW text \in Seq(Tokens), Plain(text), NEW R, R = Steps(Start, text),
           NEW key \in Arrays, Keyed(text, key) # {}, NEW span, span = ArraySpan(text, key),
           NEW e \in Elements(text, span), \A i, j \in Naming(text, key, e) : i = j,
           NEW k \in Declaring(text, key), k \in e[1]..e[2]
    PROVE  NameOf(key, R[e[2]].entry) = text[k]
<1>1. Len(text) \in Nat /\ DOMAIN text = 1..Len(text)
  OBVIOUS
<1>2. Cuts(text, span) \subseteq 1..Len(text) /\ \A x \in Cuts(text, span) : text[x] \notin Space
  <2>1. /\ Cuts(text, span) \subseteq span.open..span.close
        /\ span.open \in 1..Len(text) /\ span.close \in (span.open + 1)..Len(text)
        /\ \A x \in Cuts(text, span) : text[x] \notin Space
    BY CutsAre
  <2> QED
    BY <1>1, <2>1
<1>3. PICK c, d \in Cuts(text, span) :
         /\ c < d /\ \A i \in Cuts(text, span) : ~(c < i /\ i < d)
         /\ e[1] = After(text, c) /\ e[2] = Before(text, d)
         /\ c < e[1] /\ e[1] <= e[2] /\ e[2] < d
         /\ e[1] \in Solid(text) /\ e[2] \in Solid(text)
         /\ \A i \in (c + 1)..(e[1] - 1) : text[i] \in Space
         /\ \A i \in (e[2] + 1)..(d - 1) : text[i] \in Space
  BY <1>2, ElementIs
<1>4. Inner(text, R, key, c, d)
  BY <1>3, InnerIs
<1>5. /\ c \in 1..Len(text) /\ d \in 1..Len(text) /\ text[c] \notin Space
      /\ e[1] \in 1..Len(text) /\ e[2] \in 1..Len(text) /\ e[2] \in Nat /\ k \in Nat
      /\ k \in 1..Len(text) /\ c < k /\ k < d
  BY <1>1, <1>2, <1>3 DEF Solid
<1>6. R[d - 1] = R[e[2]]
  <2>1. c < e[2]
    BY <1>3, <1>5
  <2> QED
    BY <1>3, <1>5, <2>1, ElementRead
<1> DEFINE S == Solids(text, c, d - 1)
<1>7. \A j \in S : j \in e[1]..e[2] /\ j \in (c + 1)..(d - 1) /\ text[j] \notin Space
  BY <1>1, <1>3, <1>5 DEF Solids
<1>8. \A j \in 1..Len(text) : c < j /\ j < d /\ text[j] \notin Space => j \in S
  BY <1>1, <1>5 DEF Solids
<1>9. text[k] \notin Space
  BY DEF Declaring, IsString
<1>10. k \in S
  BY <1>5, <1>8, <1>9
<1>11. CASE key = "domains"
  <2>1. \A j \in S : j = k
    <3>1. \A j \in e[1]..e[2] : j \in Naming(text, key, e)
      BY <1>11 DEF Naming
    <3> QED
      BY <1>7, <1>10, <3>1
  <2>2. R[d - 1].entry[1] = text[k]
    BY <1>4, <1>10, <2>1, LoneToken DEF S
  <2> QED
    BY <1>6, <1>11, <2>2 DEF NameOf
<1>12. CASE key # "domains"
  <2> DEFINE r == Before(text, k)
             q == Before(text, r)
  <2>1. text[r] = "colon" /\ text[q] = NameField[key]
    BY <1>12 DEF Declaring
  <2>2. NameField[key] # "lbrack" /\ NameField[key] # "comma" /\ NameField[key] # "colon"
    <3>1. NameField[key] \in {"host", "name"}
      <4>1. NameField["endpoints"] = "host" /\ NameField["manual"] = "name"
        BY DEF NameField
      <4>2. key = "endpoints" \/ key = "manual"
        BY <1>12 DEF Arrays
      <4> QED
        BY <4>1, <4>2
    <3> QED
      BY <3>1
  <2>3. text[c] \in {"lbrack", "comma"}
    BY <1>4 DEF Inner
  <2>4. /\ r \in 0..(k - 1) /\ (r >= 1 => r \in Solid(text))
        /\ \A j \in (r + 1)..(k - 1) : text[j] \in Space
    <3>1. k \in 1..(Len(text) + 1)
      BY <1>1, <1>5
    <3> QED
      BY <3>1, BeforeIs
  <2> HIDE DEF r
  <2>5. c < r /\ r \in 1..Len(text) /\ text[r] \notin Space /\ r < k
    <3>1. r < c => c \in (r + 1)..(k - 1)
      BY <1>1, <1>5, <2>4
    <3>2. ~(r < c)
      BY <1>5, <2>4, <3>1
    <3>3. r # c
      BY <2>1, <2>3
    <3>4. c < r /\ r \in 1..Len(text) /\ r < k
      BY <1>1, <1>5, <2>4, <3>2, <3>3
    <3> QED
      BY <2>4, <3>4 DEF Solid
  <2>6. /\ q \in 0..(r - 1) /\ (q >= 1 => q \in Solid(text))
        /\ \A j \in (q + 1)..(r - 1) : text[j] \in Space
    <3>1. r \in 1..(Len(text) + 1)
      BY <1>1, <2>5
    <3> QED
      BY <3>1, BeforeIs
  <2> HIDE DEF q
  <2>7. c < q /\ q \in 1..Len(text) /\ text[q] \notin Space /\ q < r
    <3>1. q < c => c \in (q + 1)..(r - 1)
      BY <1>1, <1>5, <2>5, <2>6
    <3>2. ~(q < c)
      BY <1>5, <2>6, <3>1
    <3>3. q # c
      BY <2>1, <2>2, <2>3
    <3>4. c < q /\ q \in 1..Len(text) /\ q < r
      BY <1>1, <1>5, <2>5, <2>6, <3>2, <3>3
    <3> QED
      BY <2>6, <3>4 DEF Solid
  <2>8. q \in S /\ r \in S
    <3>1. q < d /\ r < d
      BY <1>5, <2>5, <2>7
    <3> QED
      BY <1>8, <2>5, <2>7, <3>1
  <2>9. After(text, q) = r
    <3>1. q \in 0..Len(text) /\ r \in (q + 1)..Len(text)
      BY <1>1, <2>5, <2>7
    <3> QED
      BY <2>5, <2>6, <3>1, AfterOnly
  <2>10. At(text, After(text, q)) = "colon"
    BY <1>1, <2>1, <2>5, <2>9 DEF At
  <2>11. \A j \in S : text[j] = NameField[key] /\ At(text, After(text, j)) = "colon"
                        => j \in Naming(text, key, e)
    BY <1>7 DEF Naming
  <2>12. \A j \in S : text[j] = NameField[key] /\ At(text, After(text, j)) = "colon" => j = q
    BY <2>1, <2>8, <2>10, <2>11
  <2>13. Names(text, c, d, key, q, r, k)
    BY <1>10, <2>1, <2>4, <2>5, <2>6, <2>7, <2>8 DEF Names, Blank, S
  <2>14. NameOf(key, R[d - 1].entry) = text[k]
    BY <1>4, <1>12, <2>12, <2>13, NamedToken DEF S
  <2> QED
    BY <1>6, <2>14
<1> QED
  BY <1>11, <1>12

\* The element the command finds has the name it looks for.
LEMMA FoundIsNamed ==
    ASSUME NEW a \in Seq(Tokens), Plain(a), NEW row, Legible(a, row.item.name), NamedOn(a, row),
           NEW key \in Arrays, NEW span, span = ArraySpan(a, key), span # NoSpan,
           NEW e \in Elements(a, span), NEW offset, offset \in OnLine(a, row.origin.line),
           e[1] <= offset, offset <= e[2] + 1, NEW R, R = Steps(Start, a)
    PROVE  NameOf(key, R[e[2]].entry) = row.item.name
<1> DEFINE name == row.item.name
           line == row.origin.line
<1>1. Len(a) \in Nat /\ DOMAIN a = 1..Len(a)
  OBVIOUS
<1>2. Keyed(a, key) # {} /\ Cuts(a, span) \subseteq 1..Len(a)
  BY SpanIs
<1>3. e[1] \in Solid(a) /\ e[2] \in Solid(a) /\ e[1] <= e[2]
  BY <1>2, ElementIs
<1>4. e[1] \in Nat /\ e[2] \in Nat /\ e[2] \in 1..Len(a) /\ a[e[2]] \notin Space
  BY <1>1, <1>3 DEF Solid
<1>5. \E j \in e[1]..e[2] : Line(a, j) = line
  <2>1. offset \in 1..Len(a) /\ Line(a, offset) = line
    BY <1>1 DEF OnLine, Line
  <2>2. CASE offset <= e[2]
    BY <1>4, <2>1, <2>2
  <2>3. CASE ~(offset <= e[2])
    <3>1. offset = e[2] + 1 /\ e[2] \in e[1]..e[2]
      BY <1>3, <1>4, <2>1, <2>3
    <3>2. a[e[2]] # "nl"
      BY <1>4 DEF Space
    <3>3. Line(a, e[2] + 1) = Line(a, e[2])
      BY <1>4, <3>2, LineOn DEF Line
    <3> QED
      BY <2>1, <3>1, <3>3
  <2> QED
    BY <2>2, <2>3
<1>6. PICK k \in DOMAIN a : Line(a, k) = line /\ (a[k] = name \/ <<name, a[k]>> \in Inside)
  BY DEF NamedOn, OnLine, Line
<1>7. a[k] = name /\ \E l \in Arrays : k \in Declaring(a, l)
  BY <1>6, LegibleSays
<1>8. PICK l \in Arrays : k \in Declaring(a, l)
  BY <1>7
<1> DEFINE there == ArraySpan(a, l)
<1>9. k \in there.open..there.close /\ IsString(a[k])
  BY <1>8 DEF Declaring
<1>10. Keyed(a, l) # {}
  <2> SUFFICES ASSUME Keyed(a, l) = {} PROVE FALSE
    OBVIOUS
  <2>1. there = NoSpan
    BY NoKeyNoSpan
  <2>2. there.open = 0 /\ there.close = 0
    BY <2>1 DEF NoSpan
  <2> HIDE DEF there
  <2> QED
    BY <1>1, <1>9, <2>2
<1> HIDE DEF there
<1>11. PICK z \in Elements(a, there) : z[1] <= k /\ k <= z[2]
  <2>1. there = ArraySpan(a, l)
    BY DEF there
  <2> QED
    BY <1>9, <1>10, <2>1, InElement
<1>12. k \in z[1]..z[2]
  <2>1. z[1] \in Solid(a) /\ z[2] \in Solid(a)
    <3>1. Cuts(a, there) \subseteq 1..Len(a)
      <4>1. there # NoSpan /\ there = ArraySpan(a, l)
        <5>1. PICK p \in Keyed(a, l) : TRUE
          BY <1>10
        <5> QED
          BY <5>1, ArrayFound DEF there
      <4> QED
        BY <4>1, SpanIs
    <3> QED
      BY <3>1, ElementIs
  <2>2. z[1] \in Nat /\ z[2] \in Nat /\ k \in Nat
    BY <1>1, <2>1 DEF Solid
  <2> QED
    BY <1>11, <2>2
<1>13. l = key /\ z = e
  <2>1. PICK j \in e[1]..e[2] : Line(a, j) = Line(a, k)
    BY <1>5, <1>6
  <2>2. z \in Elements(a, ArraySpan(a, l)) /\ e \in Elements(a, ArraySpan(a, key))
    BY DEF there
  <2> QED
    BY <1>2, <1>10, <1>12, <2>1, <2>2, LegibleSays
<1>14. \A i, j \in Naming(a, key, e) : i = j
  <2>1. e \in Elements(a, ArraySpan(a, key))
    OBVIOUS
  <2> QED
    BY <1>2, <2>1, LegibleSays
<1>15. k \in Declaring(a, key) /\ k \in e[1]..e[2]
  BY <1>8, <1>12, <1>13
<1>16. NameOf(key, R[e[2]].entry) = a[k]
  BY <1>2, <1>14, <1>15, ElementNamed
<1> QED
  BY <1>7, <1>16

\* What is removed on a line that was checked has the name that was checked.
LEMMA RemovalNames ==
    ASSUME NEW a \in Seq(Tokens), Plain(a), NEW row, Legible(a, row.item.name), NamedOn(a, row),
           NEW key \in Arrays, NEW editor \in Editors,
           NEW b, b = RemoveEntry(editor, a, key, row.origin), b # NoText,
           OffsetOf(a, row.origin) \in OnLine(a, row.origin.line)
    PROVE  \E n \in DOMAIN Entries(a, key) :
              /\ Entries(b, key) = Without(Entries(a, key), n)
              /\ NameOf(key, Entries(a, key)[n]) = row.item.name
<1> DEFINE span == ArraySpan(a, key)
           offset == OffsetOf(a, row.origin)
           R == Steps(Start, a)
           at == row.origin
<1>1. /\ span # NoSpan
      /\ \E e \in Elements(a, span) : e[1] <= offset /\ offset <= e[2] + 1 /\ b = Cut(a, e)
  <2>1. b = RemoveEntry(editor, a, key, at) /\ offset = OffsetOf(a, at)
    OBVIOUS
  <2> HIDE DEF at, offset
  <2> QED
    BY <2>1, RemovedIs
<1>2. PICK e \in Elements(a, span) : e[1] <= offset /\ offset <= e[2] + 1 /\ b = Cut(a, e)
  BY <1>1
<1>3. PICK p \in Keyed(a, key) : TRUE
  BY <1>1, NoKeyNoSpan
<1>4. offset \in OnLine(a, row.origin.line) /\ R = Steps(Start, a) /\ span = ArraySpan(a, key)
  OBVIOUS
<1> HIDE DEF span, offset, R, at
<1>5. NameOf(key, R[e[2]].entry) = row.item.name
  BY <1>1, <1>2, <1>4, FoundIsNamed
<1>6. PICK n : OneGone(a, b, key, n) /\ Entries(a, key)[n] = R[e[2]].entry
  <2>1. e \in Elements(a, ArraySpan(a, key))
    BY <1>4
  <2> QED
    BY <1>2, <1>3, <1>4, <2>1, RemovalReads
<1>7. /\ n \in DOMAIN Entries(a, key) /\ Entries(b, key) = Without(Entries(a, key), n)
  <2>1. Entries(a, key) \in Seq(Seq(Tokens)) /\ n \in 1..Len(Entries(a, key))
        /\ Entries(b, key) = Without(Entries(a, key), n)
    BY <1>6 DEF OneGone
  <2>2. n \in DOMAIN Entries(a, key)
    BY <2>1
  <2> QED
    BY <2>1, <2>2
<1> QED
  BY <1>5, <1>6, <1>7

LEMMA RemovedIsNamed == EditIInv => RemovesTheNamed
<1> SUFFICES ASSUME EditMade, edit.kind = "remove", Plain(edit.read),
                    Legible(edit.read, edit.what.item.name),
                    OffsetOf(edit.read, edit.what.origin) \in OnLine(edit.read, edit.what.origin.line)
             PROVE  \E n \in DOMAIN Old :
                       New = Without(Old, n) /\ NameOf(EditedKey, Old[n]) = edit.what.item.name
  BY DEF EditIInv, RemovesTheNamed
<1> DEFINE read == edit.read
           wrote == edit.wrote
           row == edit.what
           key == EditedKey
<1>1. /\ read \in Seq(Tokens) /\ row.item.key \in Arrays
      /\ wrote # NoText
      /\ \E editor \in Editors : wrote = NewText(editor, "remove", row, read)
  BY DEF EditMade
<1>2. key = row.item.key /\ key \in Arrays
  BY <1>1 DEF EditedKey
<1>3. /\ Plain(read) /\ Legible(read, row.item.name)
      /\ OffsetOf(read, row.origin) \in OnLine(read, row.origin.line)
  OBVIOUS
<1>4. Old = Entries(read, key) /\ New = Entries(wrote, key)
  BY DEF Old, New
<1> HIDE DEF read, wrote, row, key
<1>5. read \in Seq(Tokens) /\ wrote # NoText
  BY <1>1
<1>6. PICK editor \in Editors : wrote = NewText(editor, "remove", row, read)
  BY <1>1
<1>7. NamedOn(read, row) /\ wrote = RemoveEntry(editor, read, key, row.origin)
  BY <1>2, <1>5, <1>6, NewTextIs
<1>8. \E n \in DOMAIN Entries(read, key) :
         /\ Entries(wrote, key) = Without(Entries(read, key), n)
         /\ NameOf(key, Entries(read, key)[n]) = row.item.name
  BY <1>2, <1>3, <1>7, <1>5, RemovalNames
<1>9. \E n \in DOMAIN Old : New = Without(Old, n) /\ NameOf(key, Old[n]) = row.item.name
  BY <1>4, <1>8
<1> QED
  BY <1>9 DEF key, row

\* However the file changed after the CLI read it, after the item was placed and
\* while the command was asked about, what is removed has the name of the row
\* (commands.ts, removeItem; record.lua, remove_item): for every text the file may
\* have, every text that may be saved over it, and every number of editors'
\* commands.
THEOREM NamedRemoved == EditSpec => []RemovesTheNamed
<1> QED
  BY EditsAreMade, RemovedIsNamed, PTL

-----------------------------------------------------------------------------
(* From the config file to the sources, for any file *)

\* What a file that loaded has passed.
Accepted ==
    /\ Decodes
    /\ \A n \in DOMAIN config.manual : ~EntryRefused(config.manual[n])
    /\ ~MeshRefused
    /\ \A s \in config.enabled : Missing(s) = {}

CInv ==
    /\ config \in Written
    /\ stage \in {"written", "refused", "loaded", "collected"}
    /\ stage = "loaded" => Accepted
    /\ LoadedMeansWatched

\* No source asks for a field that load did not.
LEMMA GuardsAreRequired == Guarded \subseteq Required
<1>1. /\ OneToken \X {"token"} \subseteq Required
      /\ TwoTokens \X {"token", "secret"} \subseteq Required
  BY DEF Required, InEnv
<1>2. {"azure"} \X {"tenantId", "clientId", "clientSecret"} \subseteq Required
  BY DEF Required, InEnv, InFile
<1>3. {"harbor"} \X {"baseUrl", "username", "password"} \subseteq Required
  BY DEF Required, InEnv, InFile
<1>4. {"apple"} \X {"issuerId", "keyId", "privateKeyFile"} \subseteq Required
  BY DEF Required, InEnv, InFile
<1>5. {"namecheap"} \X {"apiUser", "userName", "clientIp", "apiKey"} \subseteq Required
  BY DEF Required, InEnv, InFile
<1>6. {<<"scaleway", "secretKey">>, <<"jfrog", "baseUrl">>, <<"okta", "orgUrl">>,
       <<"gcp", "projects">>, <<"vault", "addr">>, <<"vault", "token">>} \subseteq Required
  BY DEF Required, InEnv, InFile
<1> QED
  BY <1>1, <1>2, <1>3, <1>4, <1>5, <1>6 DEF Guarded

\* The deadline of an entry that load accepts is a day, and the later one of a
\* policy is after its creation.
LEMMA AcceptedDated ==
    ASSUME NEW m, {m.expires, m.created} \subseteq Nat \cup {Absent, Malformed}, m.age \in Int,
           ~EntryRefused(m)
    PROVE  /\ Deadline(m) \in Nat /\ Deadline(m) # Malformed
           /\ m.expires = Absent => Deadline(m) > m.created
           /\ m.expires # Absent => Deadline(m) = m.expires /\ m.age <= 0
<1>1. /\ ~(m.expires = Absent /\ (m.age <= 0 \/ m.created = Absent))
      /\ ~(m.expires # Absent /\ (m.age > 0 \/ m.created # Absent))
      /\ Deadline(m) # Malformed
  BY Zenon DEF EntryRefused
<1> QED
  BY <1>1 DEF Deadline, Absent, Malformed

\* Every accepted entry is a row, in order.
LEMMA ManualRowsAre ==
    ASSUME config \in Written,
           \A n \in DOMAIN config.manual : ~EntryRefused(config.manual[n])
    PROVE  /\ DOMAIN ManualRows = DOMAIN config.manual /\ Len(ManualRows) = Len(config.manual)
           /\ \A n \in DOMAIN config.manual :
                 /\ ManualRows[n].entry = n
                 /\ ManualRows[n].expires = Deadline(config.manual[n])
                 /\ ManualRows[n].policy <=> config.manual[n].expires = Absent
<1> DEFINE ms == config.manual
           listed == [n \in DOMAIN ms |->
                       [entry |-> n, expires |-> Deadline(ms[n]),
                        policy |-> ms[n].expires = Absent]]
           K == {n \in DOMAIN listed : listed[n].expires # Malformed}
<1>1. /\ ms \in Seq(Range(ms)) /\ Len(ms) \in Nat /\ DOMAIN ms = 1..Len(ms)
      /\ \A n \in DOMAIN ms : Deadline(ms[n]) # Malformed
  <2>1. /\ ms \in Seq(Range(ms))
        /\ \A m \in Range(ms) : {m.expires, m.created} \subseteq Nat \cup {Absent, Malformed}
                                /\ m.age \in Int
    BY WrittenAssumption
  <2>2. \A n \in DOMAIN ms : ms[n] \in Range(ms)
    BY DEF Range
  <2>3. \A n \in DOMAIN ms : Deadline(ms[n]) # Malformed
    BY <2>1, <2>2, AcceptedDated
  <2> QED
    BY <2>1, <2>3
<1>2. /\ DOMAIN listed = DOMAIN ms
      /\ \A n \in DOMAIN ms : /\ listed[n].entry = n
                              /\ listed[n].expires = Deadline(ms[n])
                              /\ listed[n].policy <=> ms[n].expires = Absent
  OBVIOUS
<1>3. ManualRows = ElementsAt(listed, K)
  BY DEF ManualRows
<1>4. listed \in Seq(Range(listed)) /\ Len(listed) = Len(ms)
  <2>1. listed \in [1..Len(ms) -> Range(listed)]
    BY <1>1 DEF Range
  <2> QED
    BY <1>1, <2>1, FunctionSeq
<1> HIDE DEF ms, listed
<1>5. K = DOMAIN listed
  BY <1>1, <1>2
<1>6. ManualRows = listed
  BY <1>3, <1>4, <1>5, AllElements
<1> QED
  BY <1>2, <1>4, <1>6 DEF ms

\* What has been checked of a file stays checked.
LEMMA CInvStep == CInv /\ [FileNext]_fileVars => CInv'
<1> SUFFICES ASSUME CInv, [FileNext]_fileVars PROVE CInv'
  OBVIOUS
<1>1. CASE Load
  <2>1. /\ config' = config /\ stage' \in {"loaded", "refused"}
        /\ stage' = "loaded" => Accepted
    BY <1>1 DEF Load, Accepted
  <2>2. Accepted' = Accepted
    BY <2>1 DEF Accepted, Decodes, MeshRefused, Missing
  <2> QED
    BY <2>1, <2>2 DEF CInv, LoadedMeansWatched
<1>2. CASE Collect
  <2>1. config \in Written /\ Accepted /\ config' = config /\ stage' = "collected"
    BY <1>2 DEF CInv, Collect
  <2>2. refusing' = {}
    <3> SUFFICES ASSUME NEW s \in config.enabled, NEW f \in Guarded, f[1] = s, f \notin Has
                 PROVE  FALSE
      BY <1>2 DEF Collect
    <3>1. f \in Required /\ f \notin Missing(s)
      BY <2>1, GuardsAreRequired DEF Accepted
    <3>2. PICK g \in config.given : g.field = f
      BY <3>1 DEF Missing
    <3> QED
      BY <3>2 DEF Has
  <2>3. config.k8s.enabled =>
           /\ config.k8s.anchors # "none" => "whole" \in mesh'
           /\ config.k8s.signing => "signing" \in mesh'
    <3>1. config.k8s.anchors \in {"none", "whole", "misspelt"} /\ ~MeshRefused
      BY <2>1, WrittenAssumption DEF Accepted
    <3> QED
      BY <1>2, <3>1 DEF Collect, MeshRefused
  <2>4. /\ Len(dated') = Len(config.manual)
        /\ \A n \in DOMAIN dated' :
              LET m == config.manual[n]
              IN /\ dated'[n].entry = n
                 /\ dated'[n].expires >= 0
                 /\ dated'[n].policy => dated'[n].expires > m.created /\ m.expires = Absent
                 /\ ~dated'[n].policy => dated'[n].expires = m.expires /\ m.age <= 0
    <3>1. dated' = ManualRows
      BY <1>2 DEF Collect
    <3>2. /\ DOMAIN dated' = DOMAIN config.manual /\ Len(dated') = Len(config.manual)
          /\ \A n \in DOMAIN config.manual :
                /\ dated'[n].entry = n
                /\ dated'[n].expires = Deadline(config.manual[n])
                /\ dated'[n].policy <=> config.manual[n].expires = Absent
      BY <2>1, <3>1, ManualRowsAre DEF Accepted
    <3>3. \A n \in DOMAIN config.manual :
             LET m == config.manual[n] IN
             /\ {m.expires, m.created} \subseteq Nat \cup {Absent, Malformed} /\ m.age \in Int
             /\ ~EntryRefused(m)
      <4>1. \A n \in DOMAIN config.manual : config.manual[n] \in Range(config.manual)
        BY DEF Range
      <4> QED
        BY <2>1, <4>1, WrittenAssumption DEF Accepted
    <3>4. \A n \in DOMAIN config.manual :
             LET m == config.manual[n] IN
             /\ Deadline(m) \in Nat
             /\ m.expires = Absent => Deadline(m) > m.created
             /\ m.expires # Absent => Deadline(m) = m.expires /\ m.age <= 0
      BY <3>3, AcceptedDated
    <3> QED
      BY <3>2, <3>4
  <2>5. LoadedMeansWatched'
    BY <2>1, <2>2, <2>3, <2>4 DEF LoadedMeansWatched
  <2> QED
    BY <2>1, <2>5 DEF CInv
<1>3. CASE UNCHANGED fileVars
  <2>1. UNCHANGED <<config, stage, refusing, mesh, dated>>
    BY <1>3 DEF fileVars
  <2>2. Accepted' = Accepted /\ LoadedMeansWatched' = LoadedMeansWatched
    BY <2>1 DEF Accepted, Decodes, MeshRefused, Missing, LoadedMeansWatched
  <2> QED
    BY <2>1, <2>2 DEF CInv
<1> QED
  BY <1>1, <1>2, <1>3 DEF FileNext

\* A file that loads is watched whole, whatever is in it: no section lacks a field
\* when its source is to read, nothing that was configured for the mesh is left
\* unread, and every manual entry is a row with the day it said.
THEOREM LoadedIsWatched == FileSpec => []LoadedMeansWatched
<1>1. FileInit => CInv
  BY DEF FileInit, CInv, LoadedMeansWatched
<1>2. CInv => LoadedMeansWatched
  BY DEF CInv
<1> QED
  BY <1>1, <1>2, CInvStep, PTL DEF FileSpec
=============================================================================
