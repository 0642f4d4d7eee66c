----------------------------- MODULE UnitsProofs -----------------------------
(***************************************************************************)
(* Theorems about the provider sources: SourceUnits and AWSVerify, for     *)
(* every program that is sound, every cap and every sequence of answers.   *)
(***************************************************************************)
EXTENDS AWSVerify, SequenceLemmas

-----------------------------------------------------------------------------
(* What the variables hold *)

Marks == {"expires", "created", "early", "follow"}

\* The place of an entry: page and position.
Place == Nat \X Nat

Entry == [at : Place, has : SUBSET Marks]

\* A path: the number of a parent, the places of entries.
Path == Seq(Nat \cup Place)

\* The lists of all the programs.
AnyList ==
    UNION {UNION {ListsOf(u) : u \in Range(Programs[s].units)} : s \in DOMAIN Programs}

\* The calls a unit makes of these lists.
CallOf(lists) == [list : lists, path : Path, page : Nat \ {0}, got : Seq(Entry)]

Found ==
    [unit : Nat, list : {l.name : l \in AnyList}, path : Path, at : Place,
     date : {"issuer", "policy", "schedule"}]

\* The lists of the unit that is being read.
Lists == ListsOf(Units[unit])

\* Nothing has been asked for yet.
Fresh ==
    /\ unit = 0 /\ work = <<>> /\ got = <<>> /\ warned = {}
    /\ items = <<>> /\ results = <<>>
    /\ read = {} /\ whole = {} /\ unread = {}

\* Each entry is found in one place.
Apart(es) == \A m, n \in DOMAIN es : es[m].at = es[n].at => m = n

\* What a page loop carries from one request to the next is from earlier pages;
\* no other call carries anything.
Carrying ==
    \A k \in DOMAIN work :
        LET c == work[k] IN
        /\ c.got # <<>> => c.list.get.stop \in {"short", "next", "link"} /\ ~c.list.eager
        /\ \A n \in DOMAIN c.got : c.got[n].at[1] < c.page
        /\ Apart(c.got)

UTyped ==
    /\ conf.src \in DOMAIN Programs /\ conf.parents \in Nat
    /\ pc \in {"begin", "units", "done"}
    /\ pc = "begin" => Fresh /\ err = {}
    /\ pc = "units" => unit \in 1..(Len(Units) + 1)
    /\ pc = "done" => Fresh \/ unit = Len(Units) + 1
    /\ unit \notin DOMAIN Units => work = <<>> /\ got = <<>> /\ warned = {}
    /\ unit \in DOMAIN Units => work \in Seq(CallOf(Lists))
    /\ got \in Seq(Found) /\ items \in Seq(Found)
    /\ Carrying

-----------------------------------------------------------------------------
(* Units *)

\* The units that are read are units of the program.
LEMMA UnitsType ==
    ASSUME conf.src \in DOMAIN Programs
    PROVE  /\ Units \in Seq(Range(Program.units))
           /\ Len(Units) \in Nat /\ DOMAIN Units = 1..Len(Units)
           /\ \A k \in DOMAIN Units :
                 LET u == Units[k] IN
                 /\ u \in Range(Program.units)
                 /\ u.once \in Seq(ListsOf(u)) /\ u.each \in Seq(ListsOf(u))
                 /\ \A l \in ListsOf(u) :
                       SoundList(l) /\ l.kids \in Seq(ListsOf(u)) /\ l \in AnyList
                 /\ \A ls \in IF u.alone THEN {u.once, u.each} ELSE {u.once \o u.each} :
                       NamedApart(ls)
                 /\ FailsAlone(u)
                 /\ Program.scopes # {} => u.scope \in Program.scopes
<1> DEFINE S == Range(Program.units)
           K == {k \in DOMAIN Program.units : Program.units[k].name \notin conf.skip}
<1>1. /\ Program.units \in Seq(S)
      /\ \A u \in S :
            /\ u.once \in Seq(ListsOf(u)) /\ u.each \in Seq(ListsOf(u))
            /\ \A l \in ListsOf(u) : SoundList(l) /\ l.kids \in Seq(ListsOf(u))
            /\ \A ls \in IF u.alone THEN {u.once, u.each} ELSE {u.once \o u.each} :
                  NamedApart(ls)
            /\ FailsAlone(u)
            /\ Program.scopes # {} => u.scope \in Program.scopes
  BY ProgramsAssumption DEF Program
<1>2. \A u \in S : \A l \in ListsOf(u) : l \in AnyList
  BY DEF AnyList, Program
<1>3. ElementsAt(Program.units, K) \in Seq(S)
  BY <1>1, ElementsAtLists
<1>4. Units \in Seq(S)
  BY <1>1, <1>3 DEF Units
<1> HIDE DEF S
<1>5. Len(Units) \in Nat /\ DOMAIN Units = 1..Len(Units) /\ \A k \in DOMAIN Units : Units[k] \in S
  BY <1>4
<1> QED
  BY <1>1, <1>2, <1>4, <1>5 DEF S

LEMMA FiniteThree == \A a, b, c : IsFiniteSet({a, b, c})
<1> SUFFICES ASSUME NEW a, NEW b, NEW c PROVE IsFiniteSet({a, b, c})
  OBVIOUS
<1>1. IsFiniteSet({} \cup {a})
  BY FS_EmptySet, FS_AddElement
<1>2. IsFiniteSet(({} \cup {a}) \cup {b})
  BY <1>1, FS_AddElement
<1>3. IsFiniteSet((({} \cup {a}) \cup {b}) \cup {c})
  BY <1>2, FS_AddElement
<1>4. (({} \cup {a}) \cup {b}) \cup {c} = {a, b, c}
  OBVIOUS
<1> QED
  BY <1>3, <1>4

\* The first calls of a unit.
LEMMA CallsType ==
    ASSUME conf.parents \in Nat, NEW u,
           u.once \in Seq(ListsOf(u)), u.each \in Seq(ListsOf(u))
    PROVE  /\ Calls(u) \in Seq(CallOf(ListsOf(u)))
           /\ \A k \in DOMAIN Calls(u) : Calls(u)[k].got = <<>>
<1> DEFINE C == {c \in CallOf(ListsOf(u)) : c.got = <<>>}
           once == IF u.alone /\ conf.parents > 0 THEN <<>>
                   ELSE [k \in DOMAIN u.once |-> Call(u.once[k], <<>>)]
           each == [p \in 1..conf.parents |->
                       [k \in DOMAIN u.each |-> Call(u.each[k], <<p>>)]]
<1>1. ASSUME NEW l \in ListsOf(u), NEW path \in Path PROVE Call(l, path) \in C
  BY DEF Call, CallOf
<1>2. <<>> \in Path /\ \A p \in 1..conf.parents : <<p>> \in Path
  BY DEF Path
<1> HIDE DEF C
<1>3. \A k \in DOMAIN u.once : u.once[k] \in ListsOf(u)
  OBVIOUS
<1>4. \A k \in DOMAIN u.each : u.each[k] \in ListsOf(u)
  OBVIOUS
<1>5. once \in Seq(C)
  <2>1. [k \in DOMAIN u.once |-> Call(u.once[k], <<>>)] \in Seq(C)
    BY <1>1, <1>2, <1>3
  <2> QED
    BY <2>1
<1>6. \A p \in 1..conf.parents : [k \in DOMAIN u.each |-> Call(u.each[k], <<p>>)] \in Seq(C)
  <2> SUFFICES ASSUME NEW p \in 1..conf.parents
               PROVE  [k \in DOMAIN u.each |-> Call(u.each[k], <<p>>)] \in Seq(C)
    OBVIOUS
  <2> QED
    BY <1>1, <1>2, <1>4
<1>7. each \in Seq(Seq(C))
  <2>1. each \in [1..conf.parents -> Seq(C)]
    BY <1>6
  <2> QED
    BY <2>1, FunctionSeq
<1> HIDE DEF once, each
<1>8. once \o FlattenSeq(each) \in Seq(C)
  BY <1>5, <1>7, FlattenRange
<1>9. Calls(u) \in Seq(C)
  BY <1>8 DEF Calls, once, each
<1>10. Calls(u) \in Seq(CallOf(ListsOf(u)))
  BY <1>9 DEF C
<1>11. \A k \in DOMAIN Calls(u) : Calls(u)[k] \in C
  BY <1>9
<1> QED
  BY <1>10, <1>11 DEF C

-----------------------------------------------------------------------------
(* Entries, replies and what is made of them *)

LEMMA EntryPlace ==
    \A es \in Seq(Entry) : \A n \in DOMAIN es :
        es[n] \in Entry /\ es[n].at \in Place /\ es[n].at[1] \in Nat /\ es[n].at[2] \in Nat
<1>1. \A e \in Entry : e.at \in Place /\ e.at[1] \in Nat /\ e.at[2] \in Nat
  BY DEF Entry, Place
<1>2. \A es \in Seq(Entry) : \A n \in DOMAIN es : es[n] \in Entry
  OBVIOUS
<1> QED
  BY <1>1, <1>2

LEMMA DeadlinesType ==
    ASSUME NEW by, NEW e
    PROVE  /\ Deadlines(by, e) \subseteq {"issuer", "policy", "schedule"}
           /\ IsFiniteSet(Deadlines(by, e))
           /\ by \in {"all", "some"} => Deadlines(by, e) = {}
<1>1. Deadlines(by, e) \subseteq {"issuer", "policy", "schedule"}
  BY DEF Deadlines
<1>2. IsFiniteSet({"issuer", "policy", "schedule"})
  BY FiniteThree
<1>3. by \in {"all", "some"} => Deadlines(by, e) = {}
  BY DEF Deadlines
<1> QED
  BY <1>1, <1>2, <1>3, FS_Subset

\* The items of a list: one for each deadline of each entry.
LEMMA YieldIs ==
    ASSUME unit \in Nat, NEW c, c.list \in AnyList, c.path \in Path,
           NEW es \in Seq(Entry)
    PROVE  /\ Yield(c, es) \in Seq(Found)
           /\ \A i : i \in Range(Yield(c, es)) <=>
                 \E k \in DOMAIN es : \E d \in Deadlines(c.list.by, es[k].has) :
                    i = Item(c, es[k], d)
           /\ Apart(es) => IsInjective(Yield(c, es))
<1> DEFINE Of(e) == {Item(c, e, d) : d \in Deadlines(c.list.by, e.has)}
           parts == [k \in DOMAIN es |-> SetToSeq(Of(es[k]))]
<1>1. ASSUME NEW e \in Entry PROVE Of(e) \subseteq Found /\ IsFiniteSet(Of(e))
  <2>1. Of(e) \subseteq Found
    BY DeadlinesType DEF Item, Found, Entry
  <2>2. Of(e) \subseteq {Item(c, e, "issuer"), Item(c, e, "policy"), Item(c, e, "schedule")}
    BY DeadlinesType
  <2>3. IsFiniteSet(Of(e))
    BY <2>2, FiniteThree, FS_Subset
  <2> QED
    BY <2>1, <2>3
<1>2. DOMAIN es = 1..Len(es) /\ Len(es) \in Nat /\ \A k \in DOMAIN es : es[k] \in Entry
  OBVIOUS
<1>3. \A e : \A i \in Of(e) : i.at = e.at
  BY DEF Item
<1> HIDE DEF Of
<1>4. \A k \in DOMAIN es :
         /\ SetToSeq(Of(es[k])) \in Seq(Found)
         /\ Range(SetToSeq(Of(es[k]))) = Of(es[k])
         /\ IsInjective(SetToSeq(Of(es[k])))
  <2> SUFFICES ASSUME NEW k \in DOMAIN es
               PROVE  /\ SetToSeq(Of(es[k])) \in Seq(Found)
                      /\ Range(SetToSeq(Of(es[k]))) = Of(es[k])
                      /\ IsInjective(SetToSeq(Of(es[k])))
    OBVIOUS
  <2>1. /\ SetToSeq(Of(es[k])) \in Seq(Of(es[k]))
        /\ Range(SetToSeq(Of(es[k]))) = Of(es[k])
        /\ IsInjective(SetToSeq(Of(es[k])))
    BY <1>1, <1>2, SetToSeqLists
  <2> QED
    BY <1>1, <1>2, <2>1
<1>5. parts \in Seq(Seq(Found)) /\ DOMAIN parts = DOMAIN es
  <2>1. parts \in [1..Len(es) -> Seq(Found)]
    BY <1>2, <1>4
  <2> QED
    BY <1>2, <2>1
<1>6. \A k \in DOMAIN es : Range(parts[k]) = Of(es[k]) /\ IsInjective(parts[k])
  BY <1>4
<1>7. Yield(c, es) = FlattenSeq(parts)
  BY DEF Yield, Of
<1> HIDE DEF parts
<1>8. /\ FlattenSeq(parts) \in Seq(Found)
      /\ \A i : i \in Range(FlattenSeq(parts)) <=> \E k \in DOMAIN es : i \in Of(es[k])
  BY <1>5, <1>6, FlattenRange
<1>9. Apart(es) => IsInjective(FlattenSeq(parts))
  <2> SUFFICES ASSUME Apart(es) PROVE IsInjective(FlattenSeq(parts))
    OBVIOUS
  <2>1. \A m, n \in DOMAIN parts : m # n => Range(parts[m]) \cap Range(parts[n]) = {}
    BY <1>3, <1>5, <1>6 DEF Apart
  <2>2. \A n \in DOMAIN parts : IsInjective(parts[n])
    BY <1>5, <1>6
  <2> QED
    BY <1>5, <2>1, <2>2, FlattenInjective
<1> QED
  BY <1>7, <1>8, <1>9 DEF Of

\* More entries, more items.
LEMMA YieldMore ==
    ASSUME unit \in Nat, NEW c, c.list \in AnyList, c.path \in Path,
           NEW es \in Seq(Entry), NEW fs \in Seq(Entry)
    PROVE  Range(Yield(c, es \o fs)) = Range(Yield(c, es)) \cup Range(Yield(c, fs))
<1> DEFINE both == es \o fs
           Is(i, e) == \E d \in Deadlines(c.list.by, e.has) : i = Item(c, e, d)
<1>1. /\ both \in Seq(Entry) /\ Len(es) \in Nat
      /\ \A k \in DOMAIN es : k \in DOMAIN both /\ both[k] = es[k]
      /\ \A k \in DOMAIN fs : Len(es) + k \in DOMAIN both /\ both[Len(es) + k] = fs[k]
      /\ \A k \in DOMAIN both : k \in DOMAIN es \/ \E j \in DOMAIN fs : k = Len(es) + j
  BY ConcatIndex
<1> HIDE DEF both
<1>2. \A i : i \in Range(Yield(c, es)) <=> \E k \in DOMAIN es : Is(i, es[k])
  BY YieldIs
<1>3. \A i : i \in Range(Yield(c, fs)) <=> \E k \in DOMAIN fs : Is(i, fs[k])
  BY YieldIs
<1>4. \A i : i \in Range(Yield(c, both)) <=> \E k \in DOMAIN both : Is(i, both[k])
  BY <1>1, YieldIs
<1> HIDE DEF Is
<1>5. \A i : i \in Range(Yield(c, both)) <=>
               i \in Range(Yield(c, es)) \/ i \in Range(Yield(c, fs))
  BY <1>1, <1>2, <1>3, <1>4
<1> QED
  BY <1>5 DEF both

\* A list whose entries only lead to other lists has no items.
LEMMA YieldNone ==
    ASSUME unit \in Nat, NEW c, c.list \in AnyList, c.path \in Path,
           NEW es \in Seq(Entry), es = <<>> \/ c.list.by \in {"all", "some"}
    PROVE  Range(Yield(c, es)) = {}
<1>1. \A i : i \in Range(Yield(c, es)) =>
        \E k \in DOMAIN es : \E d \in Deadlines(c.list.by, es[k].has) : TRUE
  BY YieldIs
<1>2. \A k \in DOMAIN es : c.list.by \in {"all", "some"} /\ Deadlines(c.list.by, es[k].has) = {}
  BY DeadlinesType
<1> QED
  BY <1>1, <1>2

\* The lists below the entries that are followed, none of them begun.
LEMMA BelowType ==
    ASSUME NEW L, NEW c, c.path \in Path, c.list.kids \in Seq(L), NEW es \in Seq(Entry)
    PROVE  /\ Below(c, es) \in Seq(CallOf(L))
           /\ \A k \in DOMAIN Below(c, es) : Below(c, es)[k].got = <<>>
<1> DEFINE C == {b \in CallOf(L) : b.got = <<>>}
           Of(e) == IF "follow" \notin e.has THEN <<>>
                    ELSE [j \in DOMAIN c.list.kids |->
                             Call(c.list.kids[j], Append(c.path, e.at))]
           parts == [k \in DOMAIN es |-> Of(es[k])]
<1>1. ASSUME NEW e \in Entry PROVE Of(e) \in Seq(C)
  <2>1. \A l \in L : Call(l, Append(c.path, e.at)) \in C
    BY DEF Call, CallOf, Path, Entry
  <2>2. \A j \in DOMAIN c.list.kids : c.list.kids[j] \in L
    OBVIOUS
  <2> HIDE DEF C
  <2>3. [j \in DOMAIN c.list.kids |-> Call(c.list.kids[j], Append(c.path, e.at))] \in Seq(C)
    BY <2>1, <2>2
  <2> QED
    BY <2>3
<1> HIDE DEF C, Of
<1>2. parts \in Seq(Seq(C))
  <2>1. DOMAIN es = 1..Len(es) /\ Len(es) \in Nat /\ \A k \in DOMAIN es : Of(es[k]) \in Seq(C)
    BY <1>1
  <2>2. parts \in [1..Len(es) -> Seq(C)]
    BY <2>1
  <2> QED
    BY <2>1, <2>2
<1>3. FlattenSeq(parts) \in Seq(C)
  BY <1>2, FlattenRange
<1>4. Below(c, es) \in Seq(C)
  BY <1>3 DEF Below, Of
<1>5. Below(c, es) \in Seq(CallOf(L)) /\ \A k \in DOMAIN Below(c, es) : Below(c, es)[k] \in C
  BY <1>4 DEF C
<1> QED
  BY <1>5 DEF C

\* One call for each list below each entry that is followed, and each a call of
\* its own.
LEMMA BelowIs ==
    ASSUME NEW L, NEW c, c.path \in Path, c.list.kids \in Seq(L),
           NEW es \in Seq(Entry), Apart(es),
           \A i, j \in DOMAIN c.list.kids : c.list.kids[i].name = c.list.kids[j].name => i = j
    PROVE  /\ \A b \in Range(Below(c, es)) :
                 \E k \in DOMAIN es, j \in DOMAIN c.list.kids :
                    b = Call(c.list.kids[j], Append(c.path, es[k].at))
           /\ IsInjective(Below(c, es))
<1> DEFINE C == CallOf(L)
           kids == c.list.kids
           One(k, j) == Call(kids[j], Append(c.path, es[k].at))
           Of(k) == IF "follow" \notin es[k].has THEN <<>> ELSE [j \in DOMAIN kids |-> One(k, j)]
           parts == [k \in DOMAIN es |-> Of(k)]
<1>1. DOMAIN es = 1..Len(es) /\ Len(es) \in Nat /\ \A k \in DOMAIN es : es[k].at \in Place
  BY EntryPlace
<1>2. \A k \in DOMAIN es, j \in DOMAIN kids : One(k, j) \in C
  BY <1>1 DEF Call, CallOf, Path
<1>3. \A k, m \in DOMAIN es : \A j, n \in DOMAIN kids : One(k, j) = One(m, n) => k = m /\ j = n
  <2> SUFFICES ASSUME NEW k \in DOMAIN es, NEW m \in DOMAIN es,
                      NEW j \in DOMAIN kids, NEW n \in DOMAIN kids, One(k, j) = One(m, n)
               PROVE  k = m /\ j = n
    OBVIOUS
  <2>1. kids[j] = kids[n] /\ Append(c.path, es[k].at) = Append(c.path, es[m].at)
    BY DEF Call
  <2>2. es[k].at = es[m].at
    BY <1>1, <2>1, AppendApart DEF Path
  <2> QED
    BY <2>1, <2>2 DEF Apart
<1> HIDE DEF C, One
<1>4. kids \in Seq(L) /\ DOMAIN kids = 1..Len(kids) /\ Len(kids) \in Nat
  OBVIOUS
<1>5. ASSUME NEW k \in DOMAIN es
      PROVE  /\ Of(k) \in Seq(C) /\ IsInjective(Of(k))
             /\ \A b \in Range(Of(k)) : \E j \in DOMAIN kids : b = One(k, j)
  <2> DEFINE f == [j \in DOMAIN kids |-> One(k, j)]
  <2>1. f \in Seq(C) /\ IsInjective(f) /\ \A b \in Range(f) : \E j \in DOMAIN kids : b = One(k, j)
    <3>1. f \in [1..Len(kids) -> C]
      BY <1>2, <1>4
    <3>2. IsInjective(f)
      BY <1>3 DEF IsInjective
    <3>3. \A b \in Range(f) : \E j \in DOMAIN kids : b = One(k, j)
      BY DEF Range
    <3> QED
      BY <1>4, <3>1, <3>2, <3>3, FunctionSeq
  <2>2. <<>> \in Seq(C) /\ IsInjective(<<>>) /\ Range(<<>>) = {}
    BY EmptyRange
  <2>3. Of(k) = <<>> \/ Of(k) = f
    OBVIOUS
  <2> QED
    BY <2>1, <2>2, <2>3
<1> HIDE DEF Of, kids
<1>6. parts \in Seq(Seq(C)) /\ DOMAIN parts = DOMAIN es /\ \A k \in DOMAIN es : parts[k] = Of(k)
  <2>1. parts \in [1..Len(es) -> Seq(C)]
    BY <1>1, <1>5
  <2> QED
    BY <1>1, <2>1
<1>7. Below(c, es) = FlattenSeq(parts)
  BY DEF Below, Of, One, kids
<1> HIDE DEF parts
<1>8. \A b : b \in Range(FlattenSeq(parts)) <=> \E k \in DOMAIN es : b \in Range(parts[k])
  BY <1>6, FlattenRange
<1>9. \A b \in Range(FlattenSeq(parts)) : \E k \in DOMAIN es, j \in DOMAIN kids : b = One(k, j)
  BY <1>5, <1>6, <1>8
<1>10. IsInjective(FlattenSeq(parts))
  <2>1. \A n \in DOMAIN parts : IsInjective(parts[n])
    BY <1>5, <1>6
  <2>2. \A m, n \in DOMAIN parts : m # n => Range(parts[m]) \cap Range(parts[n]) = {}
    BY <1>3, <1>5, <1>6
  <2> QED
    BY <1>6, <2>1, <2>2, FlattenInjective
<1> QED
  BY <1>7, <1>9, <1>10 DEF One, kids

LEMMA EntryKindsType == \A by : EntryKinds(by) \subseteq SUBSET Marks
BY DEF EntryKinds, Marks

\* The entries of a page carry its number; a page with more to come is full,
\* where the API hands out no links.
LEMMA RepliesType ==
    ASSUME NEW c, c.page \in Nat, NEW r \in Replies(c)
    PROVE  /\ r.batch \in Seq(Entry) /\ r.more \in BOOLEAN /\ r.bad \in BOOLEAN
           /\ \A k \in DOMAIN r.batch : r.batch[k].at = <<c.page, k>>
           /\ r.more => c.list.get.stop # "whole"
           /\ r.more /\ c.list.get.stop # "link" =>
                 Len(r.batch) = PageSize /\ r.batch # <<>>
           /\ r.bad => r.more
<1> DEFINE E(n) == [1..n -> EntryKinds(c.list.by)]
           B(n) == {[k \in 1..n |-> [at |-> <<c.page, k>>, has |-> h[k]]] : h \in E(n)}
<1>1. /\ r \in [batch : UNION {B(n) : n \in 0..PageSize}, more : BOOLEAN, bad : BOOLEAN]
      /\ r.more => c.list.get.stop # "whole"
      /\ r.more /\ c.list.get.stop # "link" => Len(r.batch) = PageSize
      /\ r.bad => r.more
  BY DEF Replies
<1>2. PICK n \in 0..PageSize : r.batch \in B(n)
  BY <1>1
<1>3. PICK h \in E(n) : r.batch = [k \in 1..n |-> [at |-> <<c.page, k>>, has |-> h[k]]]
  BY <1>2
<1>4. n \in Nat
  BY <1>2, SourceUnitsAssumption
<1>5. \A k \in 1..n : [at |-> <<c.page, k>>, has |-> h[k]] \in Entry
  BY <1>3, <1>4, EntryKindsType DEF Entry, Place
<1>6. r.batch \in [1..n -> Entry]
  BY <1>3, <1>5
<1>7. r.batch \in Seq(Entry) /\ Len(r.batch) = n /\ DOMAIN r.batch = 1..n
  BY <1>4, <1>6
<1>8. \A k \in DOMAIN r.batch : r.batch[k].at = <<c.page, k>>
  BY <1>3, <1>7
<1>9. Len(r.batch) = PageSize => r.batch # <<>>
  BY <1>7, SourceUnitsAssumption
<1> QED
  BY <1>1, <1>7, <1>8, <1>9

-----------------------------------------------------------------------------
(* A list is settled *)

\* The call in progress: it is one of a list of the unit.
LEMMA InProgress ==
    ASSUME UTyped, Reading
    PROVE  /\ unit \in DOMAIN Units /\ unit \in Nat
           /\ work \in Seq(CallOf(Lists)) /\ work # <<>>
           /\ 1 \in DOMAIN work /\ work[1] = Head(work)
           /\ Head(work) \in CallOf(Lists) /\ Tail(work) \in Seq(CallOf(Lists))
           /\ Head(work).list \in Lists /\ Head(work).list \in AnyList
           /\ Head(work).list.kids \in Seq(Lists) /\ SoundList(Head(work).list)
           /\ Head(work).path \in Path /\ Head(work).page \in Nat \ {0}
           /\ Head(work).got \in Seq(Entry)
<1>1. unit \in DOMAIN Units /\ work \in Seq(CallOf(Lists)) /\ work # <<>>
  BY DEF UTyped, Reading
<1>2. unit \in Nat /\ \A l \in Lists : l \in AnyList /\ l.kids \in Seq(Lists) /\ SoundList(l)
  <2>1. conf.src \in DOMAIN Programs
    BY DEF UTyped
  <2>2. unit \in Nat
    BY <1>1, <2>1, UnitsType
  <2>3. \A l \in ListsOf(Units[unit]) :
           l \in AnyList /\ l.kids \in Seq(ListsOf(Units[unit])) /\ SoundList(l)
    BY <1>1, <2>1, UnitsType
  <2> QED
    BY <2>2, <2>3 DEF Lists
<1>3. /\ Head(work) \in CallOf(Lists) /\ Tail(work) \in Seq(CallOf(Lists))
      /\ 1 \in DOMAIN work /\ work[1] = Head(work)
  BY <1>1, TailIndex
<1>4. /\ Head(work).list \in Lists /\ Head(work).path \in Path
      /\ Head(work).page \in Nat \ {0} /\ Head(work).got \in Seq(Entry)
  BY <1>3 DEF CallOf
<1> QED
  BY <1>1, <1>2, <1>3, <1>4

\* The call in progress ends with these entries; nothing that was read is lost,
\* or missing, without a warning, but what the code cannot see.
Settles(c, es, policy, missed) ==
    /\ es \in Seq(Entry) /\ policy \in Policies \cup {"whole"} /\ missed \in BOOLEAN
    /\ Settle(c, es, policy, missed)
    /\ Apart(es)
    /\ \A n \in DOMAIN es : es[n].at[1] <= c.page
    /\ c.list.eager => \A n \in DOMAIN es : es[n].at[1] = c.page
    /\ \A i \in read' : i \in read \/ i.unit = unit
    /\ policy \in {"whole", "silent"} /\ missed =>
          c.list.get.tells = "nothing" \/ c.list.onErr = "silent"
    /\ policy = "whole" =>
          /\ Range(Yield(c, c.got)) \subseteq Range(Yield(c, es))
          /\ read' \subseteq read \cup Range(Yield(c, es))
    /\ policy = "silent" => c.got = <<>> /\ read' = read
    /\ policy = "fail" => "fail" \in {c.list.onErr, c.list.onCut}

NextCall(c, g) == [c EXCEPT !.page = @ + 1, !.got = g]

\* The loop asks for the next page.
GoesOn(c, r) ==
    /\ c.list.get.stop \in {"short", "next", "link"}
    /\ work' = (IF c.list.eager THEN Below(c, r.batch) ELSE <<>>)
               \o <<NextCall(c, Carried(c, r))>> \o Tail(work)
    /\ read' = read \cup Range(Yield(c, r.batch))
    /\ UNCHANGED <<got, warned, whole, unread>>

LEMMA Together ==
    ASSUME UTyped, Reading, NEW r \in Replies(Head(work))
    PROVE  LET c == Head(work)
               es == c.got \o r.batch
           IN  /\ es \in Seq(Entry) /\ Apart(es)
               /\ \A n \in DOMAIN es : es[n].at[1] <= c.page
               /\ \A n \in DOMAIN es :
                     \/ n \in DOMAIN c.got /\ es[n] = c.got[n]
                     \/ \E k \in DOMAIN r.batch : es[n] = r.batch[k]
               /\ c.list.eager => es = r.batch
<1> DEFINE c == Head(work)
           es == c.got \o r.batch
<1>1. /\ c.page \in Nat /\ c.got \in Seq(Entry)
      /\ 1 \in DOMAIN work /\ work[1] = c
  BY InProgress
<1>2. /\ c.list.eager => c.got = <<>>
      /\ \A n \in DOMAIN c.got : c.got[n].at[1] < c.page
      /\ Apart(c.got)
  BY <1>1 DEF UTyped, Carrying
<1>3. r.batch \in Seq(Entry) /\ \A k \in DOMAIN r.batch : r.batch[k].at = <<c.page, k>>
  BY <1>1, RepliesType
<1> HIDE DEF c
<1>4. \A g, b \in Seq(Entry) :
        /\ g \o b \in Seq(Entry) /\ Len(g) \in Nat
        /\ \A k \in DOMAIN g : k \in DOMAIN (g \o b) /\ (g \o b)[k] = g[k]
        /\ \A k \in DOMAIN b : Len(g) + k \in DOMAIN (g \o b) /\ (g \o b)[Len(g) + k] = b[k]
        /\ \A k \in DOMAIN (g \o b) : k \in DOMAIN g \/ \E j \in DOMAIN b : k = Len(g) + j
  BY ConcatIndex
<1>5. \A b \in Seq(Entry) : <<>> \o b = b
  OBVIOUS
<1>6. /\ es \in Seq(Entry) /\ Len(c.got) \in Nat
      /\ \A k \in DOMAIN c.got : k \in DOMAIN es /\ es[k] = c.got[k]
      /\ \A k \in DOMAIN r.batch : Len(c.got) + k \in DOMAIN es /\ es[Len(c.got) + k] = r.batch[k]
      /\ \A k \in DOMAIN es : k \in DOMAIN c.got \/ \E j \in DOMAIN r.batch : k = Len(c.got) + j
  BY <1>1, <1>3, <1>4, Zenon
<1>7. c.list.eager => es = r.batch
  BY <1>2, <1>3, <1>5
<1> HIDE DEF es
<1>8. /\ \A n \in DOMAIN c.got : c.got[n].at \in Place /\ c.got[n].at[1] \in Nat
      /\ \A n \in DOMAIN r.batch : r.batch[n].at[1] = c.page /\ r.batch[n].at[2] = n
  <2>1. \A n \in DOMAIN c.got : c.got[n] \in Entry
    BY <1>1
  <2> QED
    BY <2>1, <1>3 DEF Entry, Place
<1>9. \A n \in DOMAIN es : es[n].at[1] <= c.page
  BY <1>1, <1>2, <1>6, <1>8
<1>10. Apart(es)
  <2> SUFFICES ASSUME NEW m \in DOMAIN es, NEW n \in DOMAIN es, es[m].at = es[n].at
               PROVE  m = n
    BY DEF Apart
  <2>1. CASE m \in DOMAIN c.got /\ n \in DOMAIN c.got
    BY <1>2, <1>6, <2>1 DEF Apart
  <2>2. CASE m \in DOMAIN c.got /\ n \notin DOMAIN c.got
    BY <1>1, <1>2, <1>6, <1>8, <2>2
  <2>3. CASE m \notin DOMAIN c.got /\ n \in DOMAIN c.got
    BY <1>1, <1>2, <1>6, <1>8, <2>3
  <2>4. CASE m \notin DOMAIN c.got /\ n \notin DOMAIN c.got
    BY <1>6, <1>8, <2>4
  <2> QED
    BY <2>1, <2>2, <2>3, <2>4
<1>11. \A n \in DOMAIN es :
        \/ n \in DOMAIN c.got /\ es[n] = c.got[n]
        \/ \E k \in DOMAIN r.batch : es[n] = r.batch[k]
  BY <1>6
<1> QED
  BY <1>6, <1>7, <1>9, <1>10, <1>11 DEF c, es

\* A page arrives: the loop goes on, or the call ends.
LEMMA AnswerCases ==
    ASSUME UTyped, Answer
    PROVE  /\ Reading /\ UNCHANGED <<conf, pc, unit, items, results, err>>
           /\ \E r \in Replies(Head(work)) :
                 \/ GoesOn(Head(work), r)
                 \/ \E es, policy, missed : Settles(Head(work), es, policy, missed)
<1> DEFINE c == Head(work)
           g == c.list.get
<1>1. Reading /\ UNCHANGED <<conf, pc, unit, items, results, err>>
  BY DEF Answer, outVars
<1>2. PICK r \in Replies(c) :
        /\ read' = read \cup Range(Yield(c, r.batch))
        /\ \/ /\ r.bad
              /\ Settle(c, IF g.badNext = "after" THEN c.got \o r.batch ELSE c.got,
                        c.list.onErr, TRUE)
           \/ /\ ~r.bad /\ Continues(g, r) /\ (g.capped => c.page < MaxPages)
              /\ work' = (IF c.list.eager THEN Below(c, r.batch) ELSE <<>>)
                         \o <<[c EXCEPT !.page = @ + 1, !.got = Carried(c, r)]>> \o Tail(work)
              /\ UNCHANGED <<got, warned, whole, unread>>
           \/ /\ ~r.bad /\ Continues(g, r) /\ g.capped /\ c.page = MaxPages
              /\ Settle(c, c.got \o r.batch, c.list.onCut, r.more)
           \/ /\ ~r.bad /\ ~Continues(g, r)
              /\ Settle(c, c.got \o r.batch,
                        IF Noticed(g, r) \/ Wanting(c, c.got \o r.batch)
                        THEN "keep" ELSE "whole", r.more)
  BY DEF Answer
<1> DEFINE es == c.got \o r.batch
<1>3. /\ unit \in Nat /\ c.list \in AnyList /\ c.path \in Path /\ c.got \in Seq(Entry)
      /\ c.page \in Nat /\ SoundList(c.list)
      /\ 1 \in DOMAIN work /\ work[1] = c
  BY <1>1, InProgress
<1>4. /\ r.batch \in Seq(Entry) /\ r.more \in BOOLEAN /\ r.bad \in BOOLEAN
      /\ r.more => c.list.get.stop # "whole"
      /\ r.more /\ c.list.get.stop # "link" => Len(r.batch) = PageSize /\ r.batch # <<>>
      /\ r.bad => r.more
  BY <1>3, RepliesType
<1>5. /\ es \in Seq(Entry) /\ Apart(es) /\ \A n \in DOMAIN es : es[n].at[1] <= c.page
      /\ c.list.eager => \A n \in DOMAIN es : es[n].at[1] = c.page
  <2>1. /\ es \in Seq(Entry) /\ Apart(es) /\ \A n \in DOMAIN es : es[n].at[1] <= c.page
        /\ c.list.eager => es = r.batch
    BY <1>1, <1>2, Together
  <2>2. \A n \in DOMAIN r.batch : r.batch[n].at[1] = c.page
    BY <1>3, RepliesType
  <2> QED
    BY <2>1, <2>2
<1>6. Range(Yield(c, es)) = Range(Yield(c, c.got)) \cup Range(Yield(c, r.batch))
  BY <1>3, <1>4, YieldMore
<1>7. /\ c.got # <<>> => g.stop \in {"short", "next", "link"} /\ ~c.list.eager
      /\ \A n \in DOMAIN c.got : c.got[n].at[1] < c.page
      /\ Apart(c.got)
  BY <1>3 DEF UTyped, Carrying
<1>8. \A n \in DOMAIN c.got : c.got[n].at[1] \in Nat
  BY <1>3, EntryPlace
<1>9. \A i \in read' : i \in read \/ i.unit = unit
  <2>1. \A i \in Range(Yield(c, r.batch)) : i.unit = unit
    BY <1>3, <1>4, YieldIs DEF Item
  <2> QED
    BY <1>2, <2>1
<1> HIDE DEF c, es
<1>10. CASE r.bad
  <2> DEFINE fs == IF g.badNext = "after" THEN es ELSE c.got
  <2>1. Settle(c, fs, c.list.onErr, TRUE)
    BY <1>2, <1>10 DEF es
  <2>2. /\ c.list.onErr \in Policies \ {"silent"} /\ "whole" \notin Policies
    BY <1>3, <1>4, <1>10 DEF SoundList, Policies
  <2>3. /\ fs \in Seq(Entry) /\ Apart(fs) /\ \A n \in DOMAIN fs : fs[n].at[1] <= c.page
        /\ c.list.eager => \A n \in DOMAIN fs : fs[n].at[1] = c.page
    BY <1>3, <1>5, <1>7, <1>8
  <2> HIDE DEF fs
  <2>4. Settles(c, fs, c.list.onErr, TRUE)
    BY <1>9, <2>1, <2>2, <2>3 DEF Settles
  <2> QED
    BY <1>1, <2>4 DEF c
<1>11. CASE ~r.bad /\ Continues(g, r) /\ (g.capped => c.page < MaxPages) /\
           /\ work' = (IF c.list.eager THEN Below(c, r.batch) ELSE <<>>)
                      \o <<[c EXCEPT !.page = @ + 1, !.got = Carried(c, r)]>> \o Tail(work)
           /\ UNCHANGED <<got, warned, whole, unread>>
  <2>1. g.stop \in {"short", "next", "link"}
    BY <1>11 DEF Continues
  <2>2. GoesOn(c, r)
    BY <1>2, <1>11, <2>1 DEF GoesOn, NextCall
  <2> QED
    BY <1>1, <2>2 DEF c
<1>12. CASE ~r.bad /\ Continues(g, r) /\ g.capped /\ c.page = MaxPages
           /\ Settle(c, es, c.list.onCut, r.more)
  <2>1. g.stop \in {"short", "next", "link"}
    BY <1>12 DEF Continues
  <2>2. /\ c.list.onCut \in Policies \ {"silent"} /\ "whole" \notin Policies
    BY <1>3, <2>1 DEF SoundList, Policies
  <2>3. Settles(c, es, c.list.onCut, r.more)
    BY <1>4, <1>5, <1>12, <1>9, <2>2 DEF Settles
  <2> QED
    BY <1>1, <2>3 DEF c
<1>13. CASE ~r.bad /\ ~Continues(g, r)
           /\ Settle(c, es, IF Noticed(g, r) \/ Wanting(c, es) THEN "keep" ELSE "whole", r.more)
  <2> DEFINE policy == IF Noticed(g, r) \/ Wanting(c, es) THEN "keep" ELSE "whole"
  <2>1. policy = "whole" /\ r.more => g.tells = "nothing"
    BY <1>3, <1>4, <1>13 DEF Noticed, Continues, SoundList
  <2>2. policy \in Policies \cup {"whole"} /\ policy \notin {"silent", "fail"}
    BY DEF Policies
  <2>3. /\ Range(Yield(c, c.got)) \subseteq Range(Yield(c, es))
        /\ read' \subseteq read \cup Range(Yield(c, es))
    BY <1>2, <1>6 DEF c
  <2>4. Settle(c, es, policy, r.more)
    BY <1>13
  <2> HIDE DEF policy
  <2>5. Settles(c, es, policy, r.more)
    BY <1>4, <1>5, <1>9, <2>1, <2>2, <2>3, <2>4 DEF Settles
  <2> QED
    BY <1>1, <2>5 DEF c
<1> QED
  BY <1>2, <1>10, <1>11, <1>12, <1>13 DEF c, es

\* A request fails: the call ends with what its loop returns.
LEMMA DenyCase ==
    ASSUME UTyped, Deny
    PROVE  /\ Reading /\ UNCHANGED <<conf, pc, unit, items, results, err>>
           /\ read' = read
           /\ \E es, policy, missed : Settles(Head(work), es, policy, missed)
<1> DEFINE c == Head(work)
           es == IF c.list.get.keeps THEN c.got ELSE <<>>
<1>1. /\ Reading /\ UNCHANGED <<conf, pc, unit, items, results, err>> /\ read' = read
      /\ Settle(c, es, c.list.onErr, TRUE)
  BY DEF Deny, outVars
<1>2. /\ unit \in Nat /\ c.list \in AnyList /\ c.path \in Path /\ c.got \in Seq(Entry)
      /\ c.page \in Nat /\ SoundList(c.list)
      /\ 1 \in DOMAIN work /\ work[1] = c
  BY <1>1, InProgress
<1>3. /\ c.got # <<>> => c.list.get.stop \in {"short", "next", "link"} /\ ~c.list.eager
      /\ \A n \in DOMAIN c.got : c.got[n].at[1] < c.page
      /\ Apart(c.got)
  BY <1>2 DEF UTyped, Carrying
<1>4. \A n \in DOMAIN c.got : c.got[n].at[1] \in Nat
  BY <1>2, EntryPlace
<1> HIDE DEF c
<1>5. /\ es \in Seq(Entry) /\ Apart(es) /\ \A n \in DOMAIN es : es[n].at[1] <= c.page
      /\ c.list.eager => \A n \in DOMAIN es : es[n].at[1] = c.page
      /\ c.got = <<>> => es = <<>>
  BY <1>2, <1>3, <1>4 DEF Apart
<1> HIDE DEF es
<1>6. c.list.onErr = "silent" => c.got = <<>>
  BY <1>2, <1>3 DEF SoundList
<1>7. c.list.onErr \in Policies /\ "whole" \notin Policies
  BY <1>2 DEF SoundList, Policies
<1>8. Settles(c, es, c.list.onErr, TRUE)
  BY <1>1, <1>5, <1>6, <1>7 DEF Settles
<1> QED
  BY <1>1, <1>8 DEF c
-----------------------------------------------------------------------------
(* What is left to be asked *)

\* The calls that a settled list leaves: what was behind it, and what is below it.
LEMMA SettledWork ==
    ASSUME UTyped, Reading, NEW es, NEW policy, NEW missed,
           Settles(Head(work), es, policy, missed)
    PROVE  /\ work' \in Seq(CallOf(Lists))
           /\ \A k \in DOMAIN work' :
                 \/ \E j \in DOMAIN work \ {1} : work'[k] = work[j]
                 \/ \E j \in DOMAIN Below(Head(work), es) : work'[k] = Below(Head(work), es)[j]
           /\ policy \notin {"fail", "return"} =>
                 \A j \in DOMAIN work \ {1} : \E k \in DOMAIN work' : work'[k] = work[j]
<1> DEFINE c == Head(work)
           C == CallOf(Lists)
           all == Below(c, es)
           below == IF policy \in {"whole", "keep", "return"} THEN all ELSE <<>>
           rest == Tail(work)
<1>1. /\ work' = IF policy \in {"fail", "return"} THEN <<>>
                 ELSE IF c.list.last THEN rest \o below ELSE below \o rest
      /\ es \in Seq(Entry)
  BY DEF Settles, Settle
<1>2. c.path \in Path /\ c.list.kids \in Seq(Lists) /\ work \in Seq(C) /\ work # <<>>
  BY InProgress
<1>3. all \in Seq(C)
  BY <1>1, <1>2, BelowType
<1>4. /\ rest \in Seq(C)
      /\ \A k \in DOMAIN rest : k + 1 \in DOMAIN work \ {1} /\ rest[k] = work[k + 1]
      /\ \A k \in DOMAIN work \ {1} : k - 1 \in DOMAIN rest /\ work[k] = rest[k - 1]
  BY <1>2, TailIndex
<1> HIDE DEF rest, all, C, c
<1>5. below \in Seq(C) /\ \A j \in DOMAIN below : j \in DOMAIN all /\ below[j] = all[j]
  BY <1>3
<1> HIDE DEF below
<1>6. /\ work' \in Seq(C)
      /\ \A k \in DOMAIN work' :
            (\E j \in DOMAIN rest : work'[k] = rest[j]) \/ (\E j \in DOMAIN below : work'[k] = below[j])
      /\ policy \notin {"fail", "return"} =>
            \A j \in DOMAIN rest : \E k \in DOMAIN work' : work'[k] = rest[j]
  <2>1. CASE policy \in {"fail", "return"}
    BY <1>1, <2>1
  <2>2. CASE policy \notin {"fail", "return"} /\ c.list.last
    <3>1. work' = rest \o below
      BY <1>1, <2>2
    <3>2. work' \in Seq(C) /\ Joins(work', rest, below)
      BY <1>4, <1>5, <3>1, ConcatJoins, Zenon
    <3> QED
      BY <3>2 DEF Joins
  <2>3. CASE policy \notin {"fail", "return"} /\ ~c.list.last
    <3>1. work' = below \o rest
      BY <1>1, <2>3
    <3>2. work' \in Seq(C) /\ Joins(work', below, rest)
      BY <1>4, <1>5, <3>1, ConcatJoins, Zenon
    <3> QED
      BY <3>2 DEF Joins
  <2> QED
    BY <2>1, <2>2, <2>3
<1> QED
  BY <1>4, <1>5, <1>6 DEF all, c, C

LEMMA NextPage ==
    ASSUME NEW L, NEW c \in CallOf(L), NEW g \in Seq(Entry)
    PROVE  LET next == NextCall(c, g) IN
           /\ next \in CallOf(L)
           /\ next.list = c.list /\ next.path = c.path /\ next.page = c.page + 1 /\ next.got = g
<1>1. c.page + 1 \in Nat \ {0}
  BY DEF CallOf
<1> QED
  BY <1>1 DEF CallOf, NextCall

\* The calls that are left when the loop goes on.
LEMMA OngoingWork ==
    ASSUME UTyped, Reading, NEW r \in Replies(Head(work)), GoesOn(Head(work), r)
    PROVE  LET c == Head(work)
               next == NextCall(c, Carried(c, r))
           IN  /\ work' \in Seq(CallOf(Lists))
               /\ next \in CallOf(Lists)
               /\ next.list = c.list /\ next.path = c.path /\ next.page = c.page + 1
               /\ next.got = Carried(c, r)
               /\ \A k \in DOMAIN work' :
                     \/ \E j \in DOMAIN work \ {1} : work'[k] = work[j]
                     \/ work'[k] = next
                     \/ /\ c.list.eager
                        /\ \E j \in DOMAIN Below(c, r.batch) : work'[k] = Below(c, r.batch)[j]
               /\ \A j \in DOMAIN work \ {1} : \E k \in DOMAIN work' : work'[k] = work[j]
               /\ \E k \in DOMAIN work' : work'[k] = next
<1> DEFINE c == Head(work)
           C == CallOf(Lists)
           all == Below(c, r.batch)
           below == IF c.list.eager THEN all ELSE <<>>
           next == NextCall(c, Carried(c, r))
           rest == Tail(work)
<1>1. work' = below \o <<next>> \o rest
  BY DEF GoesOn
<1>2. /\ c.path \in Path /\ c.list.kids \in Seq(Lists) /\ work \in Seq(C) /\ work # <<>>
      /\ c \in C /\ c.page \in Nat \ {0} /\ c.got \in Seq(Entry)
  BY InProgress
<1>3. r.batch \in Seq(Entry)
  BY <1>2, RepliesType
<1>4. all \in Seq(C)
  BY <1>2, <1>3, BelowType
<1>5. Carried(c, r) \in Seq(Entry)
  <2>1. c.got \o r.batch \in Seq(Entry)
    BY <1>2, <1>3
  <2> QED
    BY <2>1 DEF Carried
<1>6. /\ next \in C /\ next.list = c.list /\ next.path = c.path /\ next.page = c.page + 1
      /\ next.got = Carried(c, r)
  <2> DEFINE g == Carried(c, r)
  <2>1. c \in CallOf(Lists) /\ g \in Seq(Entry)
    BY <1>2, <1>5
  <2>2. next = NextCall(c, g)
    OBVIOUS
  <2> HIDE DEF c, g, next
  <2>3. /\ next \in CallOf(Lists)
        /\ next.list = c.list /\ next.path = c.path /\ next.page = c.page + 1 /\ next.got = g
    BY <2>1, <2>2, NextPage
  <2> QED
    BY <2>3 DEF g
<1>7. /\ rest \in Seq(C)
      /\ \A k \in DOMAIN rest : k + 1 \in DOMAIN work \ {1} /\ rest[k] = work[k + 1]
      /\ \A k \in DOMAIN work \ {1} : k - 1 \in DOMAIN rest /\ work[k] = rest[k - 1]
  BY <1>2, TailIndex
<1> HIDE DEF rest, all, C, c, next
<1>8. below \in Seq(C) /\ \A j \in DOMAIN below : c.list.eager /\ j \in DOMAIN all /\ below[j] = all[j]
  BY <1>4
<1> HIDE DEF below
<1>9. <<next>> \in Seq(C) /\ DOMAIN <<next>> = {1} /\ <<next>>[1] = next
  BY <1>6
<1> DEFINE front == below \o <<next>>
<1>10. /\ front \in Seq(C)
       /\ \A k \in DOMAIN front : front[k] = next \/ \E j \in DOMAIN below : front[k] = below[j]
       /\ \E k \in DOMAIN front : front[k] = next
  <2> DEFINE one == <<next>>
  <2>1. one \in Seq(C) /\ DOMAIN one = {1} /\ one[1] = next
    BY <1>9
  <2> HIDE DEF one
  <2> HIDE DEF front
  <2>2. front = below \o one
    BY DEF front, one
  <2>3. front \in Seq(C) /\ Joins(front, below, one)
    BY <1>8, <2>1, <2>2, ConcatJoins, Zenon
  <2> QED
    BY <2>1, <2>3 DEF Joins
<1>11. work' = front \o rest
  BY <1>1
<1> HIDE DEF front
<1>12. /\ work' \in Seq(C)
       /\ \A k \in DOMAIN work' :
             (\E j \in DOMAIN front : work'[k] = front[j]) \/ (\E j \in DOMAIN rest : work'[k] = rest[j])
       /\ \A j \in DOMAIN front : \E k \in DOMAIN work' : work'[k] = front[j]
       /\ \A j \in DOMAIN rest : \E k \in DOMAIN work' : work'[k] = rest[j]
  <2>1. work' \in Seq(C) /\ Joins(work', front, rest)
    BY <1>7, <1>10, <1>11, ConcatJoins, Zenon
  <2> QED
    BY <2>1 DEF Joins
<1>13. ASSUME NEW k \in DOMAIN work'
       PROVE  \/ \E j \in DOMAIN work \ {1} : work'[k] = work[j]
              \/ work'[k] = next
              \/ c.list.eager /\ \E j \in DOMAIN all : work'[k] = all[j]
  <2>1. CASE \E j \in DOMAIN rest : work'[k] = rest[j]
    BY <1>7, <2>1
  <2>2. CASE \E j \in DOMAIN front : work'[k] = front[j]
    BY <1>8, <1>10, <2>2
  <2> QED
    BY <1>12, <2>1, <2>2
<1>14. \A j \in DOMAIN work \ {1} : \E k \in DOMAIN work' : work'[k] = work[j]
  BY <1>7, <1>12
<1>15. \E k \in DOMAIN work' : work'[k] = next
  BY <1>10, <1>12
<1> QED
  BY <1>6, <1>12, <1>13, <1>14, <1>15 DEF all, c, C, next
-----------------------------------------------------------------------------
(* Every step keeps the types *)

LEMMA UnitsKept == ASSUME conf' = conf PROVE Units' = Units
BY DEF Units, Program

LEMMA ListsKept == ASSUME conf' = conf, unit' = unit PROVE Lists' = Lists
BY UnitsKept DEF Lists

LEMMA YieldKept ==
    ASSUME conf' = conf, unit' = unit
    PROVE  \A c, es : Yield(c, es)' = Yield(c, es)
BY DEF Yield, Item, Deadlines

LEMMA UTypedInit == Init => UTyped
<1> SUFFICES ASSUME Init PROVE UTyped
  OBVIOUS
<1>1. conf \in Configurations
  BY DEF Init
<1>2. conf.src \in DOMAIN Programs /\ conf.parents \in Nat
  BY <1>1, SourceUnitsAssumption DEF Configurations
<1>3. pc = "begin" /\ Fresh /\ err = {}
  BY DEF Init, Fresh
<1>4. unit \notin DOMAIN Units /\ work = <<>> /\ got = <<>> /\ items = <<>> /\ warned = {}
  BY <1>2, <1>3, UnitsType DEF Fresh
<1>5. Carrying
  BY <1>4 DEF Carrying
<1> QED
  BY <1>2, <1>3, <1>4, <1>5 DEF UTyped

LEMMA SettledTyped ==
    ASSUME UTyped, Reading, UNCHANGED <<conf, pc, unit, items, results, err>>,
           NEW es, NEW policy, NEW missed, Settles(Head(work), es, policy, missed)
    PROVE  UTyped'
<1> DEFINE c == Head(work)
<1>1. /\ unit \in DOMAIN Units /\ unit \in Nat /\ c.list \in AnyList /\ c.path \in Path
      /\ c.list.kids \in Seq(Lists) /\ es \in Seq(Entry)
  BY InProgress DEF Settles
<1>2. Units' = Units /\ Lists' = Lists
  BY UnitsKept, ListsKept
<1>3. /\ work' \in Seq(CallOf(Lists))
      /\ \A k \in DOMAIN work' :
            \/ \E j \in DOMAIN work \ {1} : work'[k] = work[j]
            \/ \E j \in DOMAIN Below(c, es) : work'[k] = Below(c, es)[j]
  BY SettledWork
<1>4. \A j \in DOMAIN Below(c, es) : Below(c, es)[j].got = <<>>
  BY <1>1, BelowType
<1>5. got' \in Seq(Found)
  <2>1. /\ got \in Seq(Found) /\ Yield(c, es) \in Seq(Found)
        /\ got' \in {<<>>, got, got \o Yield(c, es)}
    BY <1>1, YieldIs DEF UTyped, Settles, Settle
  <2>2. <<>> \in Seq(Found) /\ got \o Yield(c, es) \in Seq(Found)
    BY <2>1, ConcatJoins
  <2> QED
    BY <2>1, <2>2
<1>6. Carrying'
  <2> SUFFICES ASSUME NEW k \in DOMAIN work'
               PROVE  LET d == work'[k] IN
                      /\ d.got # <<>> => d.list.get.stop \in {"short", "next", "link"} /\ ~d.list.eager
                      /\ \A n \in DOMAIN d.got : d.got[n].at[1] < d.page
                      /\ Apart(d.got)
    BY DEF Carrying, Apart
  <2>1. CASE \E j \in DOMAIN work \ {1} : work'[k] = work[j]
    BY <2>1 DEF UTyped, Carrying
  <2>2. CASE work'[k].got = <<>>
    BY <2>2 DEF Apart
  <2> QED
    BY <1>3, <1>4, <2>1, <2>2
<1>7. pc = "units"
  BY DEF Reading
<1> QED
  BY <1>1, <1>2, <1>3, <1>5, <1>6, <1>7 DEF UTyped

LEMMA OngoingTyped ==
    ASSUME UTyped, Reading, UNCHANGED <<conf, pc, unit, items, results, err>>,
           NEW r \in Replies(Head(work)), GoesOn(Head(work), r)
    PROVE  UTyped'
<1> DEFINE c == Head(work)
           next == NextCall(c, Carried(c, r))
<1>1. /\ unit \in DOMAIN Units /\ unit \in Nat /\ c.path \in Path
      /\ c.list.kids \in Seq(Lists) /\ r.batch \in Seq(Entry) /\ c.page \in Nat
  BY InProgress, RepliesType
<1>2. Units' = Units /\ Lists' = Lists
  BY UnitsKept, ListsKept
<1>3. /\ work' \in Seq(CallOf(Lists))
      /\ next.list = c.list /\ next.page = c.page + 1 /\ next.got = Carried(c, r)
      /\ \A k \in DOMAIN work' :
            \/ \E j \in DOMAIN work \ {1} : work'[k] = work[j]
            \/ work'[k] = next
            \/ \E j \in DOMAIN Below(c, r.batch) : work'[k] = Below(c, r.batch)[j]
  BY OngoingWork
<1>4. \A j \in DOMAIN Below(c, r.batch) : Below(c, r.batch)[j].got = <<>>
  BY <1>1, BelowType
<1>5. /\ next.got # <<>> => next.list.get.stop \in {"short", "next", "link"} /\ ~next.list.eager
      /\ \A n \in DOMAIN next.got : next.got[n].at[1] < next.page
      /\ Apart(next.got)
  <2> DEFINE es == c.got \o r.batch
  <2>1. /\ es \in Seq(Entry) /\ Apart(es) /\ \A n \in DOMAIN es : es[n].at[1] <= c.page
    BY Together
  <2> HIDE DEF es
  <2>2. \A n \in DOMAIN es : es[n].at[1] < c.page + 1
    BY <1>1, <2>1, EntryPlace
  <2>3. next.got = IF c.list.eager THEN <<>> ELSE es
    BY <1>3 DEF Carried, es
  <2>4. c.list.get.stop \in {"short", "next", "link"}
    BY DEF GoesOn
  <2> HIDE DEF next, c
  <2> QED
    BY <1>3, <2>1, <2>2, <2>3, <2>4 DEF Apart
<1> HIDE DEF next, c
<1>6. Carrying'
  <2> SUFFICES ASSUME NEW k \in DOMAIN work'
               PROVE  LET d == work'[k] IN
                      /\ d.got # <<>> => d.list.get.stop \in {"short", "next", "link"} /\ ~d.list.eager
                      /\ \A n \in DOMAIN d.got : d.got[n].at[1] < d.page
                      /\ Apart(d.got)
    BY DEF Carrying, Apart
  <2>1. CASE \E j \in DOMAIN work \ {1} : work'[k] = work[j]
    BY <2>1 DEF UTyped, Carrying
  <2>2. CASE work'[k].got = <<>>
    BY <2>2 DEF Apart
  <2>3. CASE work'[k] = next
    BY <1>5, <2>3
  <2> QED
    BY <1>3, <1>4, <2>1, <2>2, <2>3
<1>7. pc = "units" /\ got' = got
  BY DEF Reading, GoesOn
<1> QED
  BY <1>1, <1>2, <1>3, <1>6, <1>7 DEF UTyped
\* The first calls of the next unit; none if it is skipped or the last one is over.
NextWork(k) ==
    IF k \in DOMAIN Units /\ ~Skipped(Units[k]) THEN Calls(Units[k]) ELSE <<>>

LEMMA NextWorkType ==
    ASSUME UTyped, NEW k
    PROVE  /\ k \in DOMAIN Units => NextWork(k) \in Seq(CallOf(ListsOf(Units[k])))
           /\ k \notin DOMAIN Units => NextWork(k) = <<>>
           /\ \A n \in DOMAIN NextWork(k) : NextWork(k)[n].got = <<>>
<1>1. CASE k \in DOMAIN Units
  <2> DEFINE u == Units[k]
  <2>1. u.once \in Seq(ListsOf(u)) /\ u.each \in Seq(ListsOf(u)) /\ conf.parents \in Nat
    BY <1>1, UnitsType DEF UTyped
  <2>2. Calls(u) \in Seq(CallOf(ListsOf(u))) /\ \A n \in DOMAIN Calls(u) : Calls(u)[n].got = <<>>
    BY <2>1, CallsType
  <2> QED
    BY <1>1, <2>2 DEF NextWork
<1>2. CASE k \notin DOMAIN Units
  BY <1>2 DEF NextWork
<1> QED
  BY <1>1, <1>2

LEMMA UnitBegins ==
    ASSUME UTyped, Begin \/ EndUnit
    PROVE  /\ conf' = conf /\ pc' = "units" /\ unit' = unit + 1 /\ work = <<>>
           /\ unit \in Nat /\ unit + 1 \in 1..(Len(Units) + 1)
           /\ work' = NextWork(unit + 1) /\ got' = <<>> /\ warned' = {}
           /\ UNCHANGED <<read, whole, unread>>
           /\ Begin => Fresh /\ err = {} /\ UNCHANGED <<items, results, err>>
           /\ EndUnit => unit \in DOMAIN Units
<1>1. Len(Units) \in Nat /\ DOMAIN Units = 1..Len(Units) /\ Units \in Seq(Range(Program.units))
  BY UnitsType DEF UTyped
<1>2. CASE Begin
  <2>1. Fresh /\ err = {} /\ pc = "begin"
    BY <1>2 DEF Begin, UTyped
  <2>2. work' = NextWork(1)
    <3>1. Units # <<>> <=> 1 \in DOMAIN Units
      BY <1>1
    <3> QED
      BY <1>2, <3>1 DEF Begin, NextWork
  <2>3. ~EndUnit
    BY <2>1 DEF EndUnit
  <2> QED
    BY <1>1, <1>2, <2>1, <2>2, <2>3 DEF Begin, Fresh, outVars, history
<1>3. CASE EndUnit
  <2>1. pc = "units" /\ unit \in 1..(Len(Units) + 1) /\ unit <= Len(Units) /\ work = <<>>
    BY <1>3 DEF EndUnit, UTyped
  <2>2. unit + 1 \in DOMAIN Units <=> unit < Len(Units)
    BY <1>1, <2>1
  <2>3. work' = NextWork(unit + 1)
    BY <1>3, <2>2 DEF EndUnit, NextWork
  <2>4. ~Begin
    BY <2>1 DEF Begin
  <2>5. unit \in Nat /\ unit + 1 \in 1..(Len(Units) + 1) /\ unit \in DOMAIN Units
    BY <1>1, <2>1
  <2> QED
    BY <1>3, <2>1, <2>3, <2>4, <2>5 DEF EndUnit, history
<1> QED
  BY <1>2, <1>3

LEMMA UnitBeginsTyped ==
    ASSUME UTyped, Begin \/ EndUnit
    PROVE  UTyped'
<1>1. /\ conf' = conf /\ pc' = "units" /\ unit' = unit + 1 /\ unit \in Nat
      /\ unit + 1 \in 1..(Len(Units) + 1)
      /\ work' = NextWork(unit + 1) /\ got' = <<>> /\ warned' = {}
  BY UnitBegins
<1>2. Units' = Units
  BY <1>1, UnitsKept
<1>3. /\ unit' \in DOMAIN Units' => work' \in Seq(CallOf(Lists'))
      /\ unit' \notin DOMAIN Units' => work' = <<>>
      /\ \A n \in DOMAIN work' : work'[n].got = <<>>
  BY <1>1, <1>2, NextWorkType DEF Lists
<1>4. items' \in Seq(Found)
  <2>1. CASE Begin
    BY <2>1 DEF Begin, outVars, UTyped
  <2>2. CASE EndUnit
    BY <2>2, ConcatJoins DEF EndUnit, Gathered, UTyped
  <2> QED
    BY <2>1, <2>2
<1>5. Carrying'
  BY <1>3 DEF Carrying, Apart
<1>6. <<>> \in Seq(Found)
  OBVIOUS
<1> QED
  BY <1>1, <1>2, <1>3, <1>4, <1>5, <1>6 DEF UTyped

LEMMA UTypedStep == UTyped /\ [Next]_vars => UTyped'
<1> SUFFICES ASSUME UTyped, [Next]_vars PROVE UTyped'
  OBVIOUS
<1>1. CASE Refuse
  <2>1. conf' = conf /\ UNCHANGED <<unit, work, got, warned, items, results, read, whole, unread>>
        /\ pc' = "done" /\ pc = "begin"
    BY <1>1 DEF Refuse, unitVars, history
  <2>2. Units' = Units /\ Lists' = Lists
    BY <2>1, UnitsKept, ListsKept
  <2>3. Fresh' /\ Carrying'
    BY <2>1 DEF UTyped, Fresh, Carrying, Apart
  <2> QED
    BY <2>1, <2>2, <2>3 DEF UTyped
<1>2. CASE Begin \/ EndUnit
  BY <1>2, UnitBeginsTyped
<1>3. CASE Answer
  BY <1>3, AnswerCases, SettledTyped, OngoingTyped
<1>4. CASE Deny
  BY <1>4, DenyCase, SettledTyped
<1>5. CASE Return
  <2>1. conf' = conf /\ UNCHANGED <<unit, work, got, warned, items, err>>
        /\ pc' = "done" /\ pc = "units" /\ unit > Len(Units)
    BY <1>5 DEF Return, unitVars, outVars
  <2>2. Units' = Units /\ Lists' = Lists
    BY <2>1, UnitsKept, ListsKept
  <2>3. unit = Len(Units) + 1
    BY <2>1, UnitsType DEF UTyped
  <2>4. Carrying'
    BY <2>1 DEF UTyped, Carrying, Apart
  <2> QED
    BY <2>1, <2>2, <2>3, <2>4 DEF UTyped
<1>6. CASE Ask \/ Tick \/ UNCHANGED vars
  <2>1. UNCHANGED <<conf, pc, unit, work, got, warned, items, results, err, read, whole, unread>>
    BY <1>6 DEF Ask, Tick, vars, unitVars, outVars, history
  <2>2. Units' = Units /\ Lists' = Lists
    BY <2>1, UnitsKept, ListsKept
  <2>3. Fresh' = Fresh /\ Carrying'
    BY <2>1 DEF UTyped, Fresh, Carrying, Apart
  <2> QED
    BY <2>1, <2>2, <2>3 DEF UTyped
<1> QED
  BY <1>1, <1>2, <1>3, <1>4, <1>5, <1>6 DEF Next

LEMMA UTypedAlways == Spec => []UTyped
BY UTypedInit, UTypedStep, PTL DEF Spec
-----------------------------------------------------------------------------
(* Nothing is lost in silence *)

\* What was read is still in hand, or there is a warning.
Held(i) ==
    \/ i \in Range(got) \/ warned # {}
    \/ \E k \in DOMAIN work : i \in Range(Yield(work[k], work[k].got))

ToldUnread ==
    \A u \in unread :
        \/ u.unit \in err \/ u.blind
        \/ unit \in DOMAIN Units /\ u.unit = Units[unit].name /\ warned # {}

ToldRead ==
    \A i \in read :
        \/ i \in Range(items) \/ Units[i.unit].name \in err
        \/ unit \in DOMAIN Units /\ i.unit = unit /\ Held(i)

Told == ToldUnread /\ ToldRead

LEMMA SettledTold ==
    ASSUME UTyped, Told, Reading, UNCHANGED <<conf, pc, unit, items, results, err>>,
           NEW es, NEW policy, NEW missed, Settles(Head(work), es, policy, missed)
    PROVE  Told'
<1> DEFINE c == Head(work)
           loud == policy \notin {"whole", "silent"}
           name == Units[unit].name
<1>1. /\ unit \in DOMAIN Units /\ unit \in Nat /\ c.list \in AnyList /\ c.path \in Path
      /\ es \in Seq(Entry) /\ work[1] = c
  BY InProgress DEF Settles
<1>2. Units' = Units /\ \A d, fs : Yield(d, fs)' = Yield(d, fs)
  BY UnitsKept, YieldKept
<1>3. /\ warned \subseteq warned' /\ (loud => warned' # {})
      /\ policy \in {"whole", "keep", "return"} => got' = got \o Yield(c, es)
      /\ policy = "silent" => got' = got
  BY DEF Settles, Settle, Policies
<1>4. ToldUnread'
  <2> SUFFICES ASSUME NEW u \in unread'
               PROVE  u.unit \in err \/ u.blind \/ (u.unit = name /\ warned' # {})
    BY <1>1, <1>2 DEF ToldUnread
  <2>1. CASE u \in unread
    BY <1>3, <2>1 DEF Told, ToldUnread
  <2>2. CASE u \notin unread
    <3>1. PICK l \in (IF missed THEN {c.list} ELSE {})
                     \cup (IF policy \in {"fail", "return"}
                           THEN {work[k].list : k \in 2..Len(work)} ELSE {}) :
             u = [unit |-> name,
                  blind |-> l.get.tells = "nothing" \/ l.onErr = "silent"]
      BY <2>2 DEF Settles, Settle
    <3>2. u.unit = name /\ (u.blind <=> l.get.tells = "nothing" \/ l.onErr = "silent")
      BY <3>1
    <3>3. ~loud => missed /\ l = c.list
      BY <3>1
    <3>4. ~loud /\ missed => c.list.get.tells = "nothing" \/ c.list.onErr = "silent"
      BY DEF Settles
    <3> QED
      BY <1>3, <3>2, <3>3, <3>4
  <2> QED
    BY <2>1, <2>2
<1>5. ToldRead'
  <2> SUFFICES ASSUME NEW i \in read',
                      i \notin Range(items), Units[i.unit].name \notin err
               PROVE  i.unit = unit /\ Held(i)'
    BY <1>1, <1>2 DEF ToldRead
  <2>1. i.unit = unit /\ (i \in read => Held(i))
    BY <1>1 DEF Settles, Told, ToldRead
  <2>2. CASE loud \/ warned # {}
    BY <1>3, <2>1, <2>2 DEF Held
  <2>3. CASE policy = "whole" /\ warned = {}
    <3>1. Range(got') = Range(got) \cup Range(Yield(c, es))
      <4>1. got \in Seq(Found) /\ Yield(c, es) \in Seq(Found) /\ got' = got \o Yield(c, es)
        BY <1>1, <1>3, <2>3, YieldIs DEF UTyped
      <4> QED
        BY <4>1, ConcatRange, Zenon
    <3>2. CASE i \in Range(Yield(c, es)) \/ i \in Range(got)
      BY <2>1, <3>1, <3>2 DEF Held
    <3>3. CASE i \in read /\ i \notin Range(got)
      <4>1. PICK k \in DOMAIN work : i \in Range(Yield(work[k], work[k].got))
        BY <2>1, <2>3, <3>3 DEF Held
      <4>2. CASE k = 1
        BY <1>1, <2>1, <2>3, <3>1, <4>1, <4>2 DEF Held, Settles
      <4>3. CASE k # 1
        <5>1. \E j \in DOMAIN work' : work'[j] = work[k]
          BY <2>3, <4>3, SettledWork
        <5> QED
          BY <1>2, <2>1, <4>1, <5>1 DEF Held
      <4> QED
        BY <4>2, <4>3
    <3> QED
      BY <2>3, <3>2, <3>3 DEF Settles
  <2>4. CASE policy = "silent" /\ warned = {}
    <3>1. i \in read /\ c.got = <<>>
      BY <2>4 DEF Settles
    <3>2. CASE i \in Range(got)
      BY <1>3, <2>1, <2>4, <3>2 DEF Held
    <3>3. CASE i \notin Range(got)
      <4>1. PICK k \in DOMAIN work : i \in Range(Yield(work[k], work[k].got))
        BY <2>1, <2>4, <3>1, <3>3 DEF Held
      <4>2. k # 1
        <5>1. c.got \in Seq(Entry) /\ Range(Yield(c, c.got)) = {}
          BY <1>1, <3>1, InProgress, YieldNone
        <5> QED
          BY <1>1, <4>1, <5>1
      <4>3. \E j \in DOMAIN work' : work'[j] = work[k]
        BY <2>4, <4>2, SettledWork
      <4> QED
        BY <1>2, <2>1, <4>1, <4>3 DEF Held
    <3> QED
      BY <3>2, <3>3
  <2> QED
    BY <2>2, <2>3, <2>4
<1> QED
  BY <1>4, <1>5 DEF Told

LEMMA OngoingTold ==
    ASSUME UTyped, Told, Reading, UNCHANGED <<conf, pc, unit, items, results, err>>,
           NEW r \in Replies(Head(work)), GoesOn(Head(work), r)
    PROVE  Told'
<1> DEFINE c == Head(work)
           next == NextCall(c, Carried(c, r))
<1>1. /\ unit \in DOMAIN Units /\ unit \in Nat /\ c.list \in AnyList /\ c.path \in Path
      /\ r.batch \in Seq(Entry) /\ c.got \in Seq(Entry) /\ work[1] = c /\ SoundList(c.list)
  BY InProgress, RepliesType
<1>2. Units' = Units /\ \A d, fs : Yield(d, fs)' = Yield(d, fs)
  BY UnitsKept, YieldKept
<1>3. /\ got' = got /\ warned' = warned /\ unread' = unread
      /\ read' = read \cup Range(Yield(c, r.batch))
  BY DEF GoesOn
<1>4. /\ next.list = c.list /\ next.path = c.path /\ next.got = Carried(c, r)
      /\ \A j \in DOMAIN work \ {1} : \E k \in DOMAIN work' : work'[k] = work[j]
      /\ \E k \in DOMAIN work' : work'[k] = next
  BY OngoingWork
<1>5. Range(Yield(c, c.got)) \cup Range(Yield(c, r.batch)) \subseteq Range(Yield(next, next.got))
  <2>1. CASE c.list.eager
    BY <1>1, <2>1, YieldNone DEF SoundList
  <2>2. CASE ~c.list.eager
    <3>1. next.got = c.got \o r.batch
      BY <1>4, <2>2 DEF Carried
    <3>2. Yield(next, c.got \o r.batch) = Yield(c, c.got \o r.batch)
      BY <1>4 DEF Yield, Item
    <3>3. Range(Yield(c, c.got \o r.batch)) = Range(Yield(c, c.got)) \cup Range(Yield(c, r.batch))
      BY <1>1, YieldMore
    <3> HIDE DEF next, c
    <3> QED
      BY <3>1, <3>2, <3>3
  <2> QED
    BY <2>1, <2>2
<1>6. ToldUnread'
  BY <1>2, <1>3 DEF Told, ToldUnread
<1>7. ToldRead'
  <2> SUFFICES ASSUME NEW i \in read',
                      i \notin Range(items), Units[i.unit].name \notin err
               PROVE  i.unit = unit /\ Held(i)'
    BY <1>1, <1>2 DEF ToldRead
  <2>1. CASE i \in Range(Yield(c, r.batch))
    <3>1. i.unit = unit
      BY <1>1, <2>1, YieldIs DEF Item
    <3>2. i \in Range(Yield(next, next.got))
      BY <1>5, <2>1
    <3> QED
      BY <1>2, <1>4, <3>1, <3>2 DEF Held
  <2>2. CASE i \in read
    <3>1. i.unit = unit /\ Held(i)
      BY <2>2 DEF Told, ToldRead
    <3>2. CASE i \in Range(got) \/ warned # {}
      BY <1>3, <3>1, <3>2 DEF Held
    <3>3. CASE \E k \in DOMAIN work : i \in Range(Yield(work[k], work[k].got))
      <4>1. PICK k \in DOMAIN work : i \in Range(Yield(work[k], work[k].got))
        BY <3>3
      <4>2. CASE k = 1
        <5>1. i \in Range(Yield(next, next.got))
          BY <1>1, <1>5, <4>1, <4>2
        <5> QED
          BY <1>2, <1>4, <3>1, <5>1 DEF Held
      <4>3. CASE k # 1
        <5>1. \E j \in DOMAIN work' : work'[j] = work[k]
          BY <1>4, <4>3
        <5> QED
          BY <1>2, <3>1, <4>1, <5>1 DEF Held
      <4> QED
        BY <4>2, <4>3
    <3> QED
      BY <3>1, <3>2, <3>3 DEF Held
  <2> QED
    BY <1>3, <2>1, <2>2
<1> QED
  BY <1>6, <1>7 DEF Told

LEMMA UnitBeginsTold ==
    ASSUME UTyped, Told, Begin \/ EndUnit
    PROVE  Told'
<1>1. /\ conf' = conf /\ unit' = unit + 1 /\ work = <<>> /\ warned' = {}
      /\ UNCHANGED <<read, whole, unread>>
      /\ Begin => Fresh
      /\ EndUnit => unit \in DOMAIN Units
  BY UnitBegins
<1>2. Units' = Units
  BY <1>1, UnitsKept
<1>3. CASE Begin
  BY <1>1, <1>3 DEF Fresh, Told, ToldUnread, ToldRead
<1>4. CASE EndUnit
  <2>1. /\ items' = items \o got /\ err \subseteq err'
        /\ warned # {} => Units[unit].name \in err'
    BY <1>4 DEF EndUnit, Gathered, UnitErr
  <2>2. Range(items') = Range(items) \cup Range(got)
    BY <2>1, ConcatRange DEF UTyped
  <2>3. ToldUnread'
    BY <1>1, <1>2, <2>1 DEF Told, ToldUnread
  <2>4. ToldRead'
    BY <1>1, <1>2, <2>1, <2>2 DEF Told, ToldRead, Held
  <2> QED
    BY <2>3, <2>4 DEF Told
<1> QED
  BY <1>3, <1>4

LEMMA ToldStep == UTyped /\ Told /\ [Next]_vars => Told'
<1> SUFFICES ASSUME UTyped, Told, [Next]_vars PROVE Told'
  OBVIOUS
<1>1. CASE Refuse
  <2>1. Fresh /\ UNCHANGED <<read, unread>>
    BY <1>1 DEF Refuse, UTyped, history
  <2> QED
    BY <2>1 DEF Fresh, Told, ToldUnread, ToldRead
<1>2. CASE Begin \/ EndUnit
  BY <1>2, UnitBeginsTold
<1>3. CASE Answer
  BY <1>3, AnswerCases, SettledTold, OngoingTold
<1>4. CASE Deny
  BY <1>4, DenyCase, SettledTold
<1>5. CASE Return \/ Ask \/ Tick \/ UNCHANGED vars
  <2>1. UNCHANGED <<conf, unit, work, got, warned, items, err, read, unread>>
    BY <1>5 DEF Return, Ask, Tick, vars, unitVars, outVars, history
  <2>2. Units' = Units /\ \A c, es : Yield(c, es)' = Yield(c, es)
    BY <2>1, UnitsKept, YieldKept
  <2>3. \A i : Held(i)' <=> Held(i)
    BY <2>1, <2>2 DEF Held
  <2> QED
    BY <2>1, <2>2, <2>3 DEF Told, ToldUnread, ToldRead
<1> QED
  BY <1>1, <1>2, <1>3, <1>4, <1>5 DEF Next

LEMMA ToldAlways == Spec => []Told
<1>1. Init => Told
  BY DEF Init, Told, ToldUnread, ToldRead
<1> QED
  BY <1>1, ToldStep, UTypedAlways, PTL DEF Spec

\* Never let a cap look like a clean result, for every program, every cap and
\* whatever the provider answers: what is missing is named in the error unless the
\* code cannot see it, and what was read is in the report or its unit is named
\* (docs/sources.md, "Every list is paged to the end, or says it was not").
THEOREM NothingIsSilent == Spec => []NeverSilent
<1>1. UTyped /\ Told => NeverSilent
  <2> SUFFICES ASSUME UTyped, Told, pc = "done" PROVE NeverSilent
    BY DEF NeverSilent
  <2>1. CASE Fresh
    BY <2>1 DEF Fresh, NeverSilent
  <2>2. CASE unit = Len(Units) + 1
    <3>1. unit \notin DOMAIN Units
      BY <2>2, UnitsType DEF UTyped
    <3> QED
      BY <3>1 DEF Told, ToldUnread, ToldRead, NeverSilent
  <2> QED
    BY <2>1, <2>2 DEF UTyped
<1> QED
  BY <1>1, ToldAlways, UTypedAlways, PTL

-----------------------------------------------------------------------------
(* The token of a request *)

\* A scope has one token, and a request that has been on its way for less than a
\* minute carries a fresh one.
Aged ==
    /\ token \in [Program.scopes -> {"none", "fresh", "late", "dead"}]
    /\ sent \in [age : {"none", "fresh", "late"}, ticked : BOOLEAN]
    /\ sent # NotSent /\ ~sent.ticked => sent.age = "fresh"

LEMMA AgedStep == UTyped /\ Aged /\ [Next]_vars => Aged'
<1> SUFFICES ASSUME UTyped, Aged, [Next]_vars PROVE Aged'
  OBVIOUS
<1>1. conf' = conf
  BY DEF Next, vars, Refuse, Begin, Ask, Tick, Answer, Deny, EndUnit, Return
<1>2. Program' = Program
  BY <1>1 DEF Program
<1>3. NotSent \in [age : {"none", "fresh", "late"}, ticked : BOOLEAN]
  BY DEF NotSent
<1>4. CASE Ask
  <2> DEFINE scope == Units[unit].scope
  <2>1. Reading /\ Program.scopes # {}
        /\ token' = (IF Usable(token[scope]) THEN token ELSE [token EXCEPT ![scope] = "fresh"])
        /\ sent' = [age |-> token'[scope], ticked |-> FALSE]
    BY <1>4 DEF Ask
  <2>2. scope \in Program.scopes
    BY <2>1, InProgress, UnitsType DEF UTyped
  <2> HIDE DEF scope
  <2>3. token' \in [Program.scopes -> {"none", "fresh", "late", "dead"}] /\ token'[scope] = "fresh"
    BY <2>1, <2>2 DEF Aged, Usable
  <2> QED
    BY <1>2, <2>1, <2>3 DEF Aged
<1>5. CASE Tick
  <2>1. /\ sent.age = "fresh" /\ sent' = [age |-> Older(sent.age), ticked |-> TRUE]
        /\ token' = [scope \in DOMAIN token |-> Older(token[scope])]
    BY <1>5 DEF Tick, Aged
  <2>2. Older("fresh") = "late" /\ \A age \in {"none", "fresh", "late", "dead"} :
            Older(age) \in {"none", "fresh", "late", "dead"}
    BY DEF Older
  <2>3. token' \in [Program.scopes -> {"none", "fresh", "late", "dead"}]
    BY <2>1, <2>2 DEF Aged
  <2>4. sent' = [age |-> "late", ticked |-> TRUE]
    BY <2>1, <2>2
  <2> QED
    BY <1>2, <2>3, <2>4 DEF Aged
<1>6. CASE Begin
  <2>1. sent' = sent
        /\ token' = (IF Program.early THEN [scope \in DOMAIN token |-> "fresh"] ELSE token)
    BY <1>6 DEF Begin
  <2>2. token' \in [Program.scopes -> {"none", "fresh", "late", "dead"}]
    BY <2>1 DEF Aged
  <2> QED
    BY <1>2, <2>1, <2>2 DEF Aged, NotSent
<1>7. CASE Answer \/ Deny
  <2>1. token' = token /\ sent' = NotSent
    BY <1>7 DEF Answer, Deny
  <2> QED
    BY <1>2, <1>3, <2>1 DEF Aged, NotSent
<1>8. CASE Refuse \/ EndUnit \/ Return \/ UNCHANGED vars
  <2>1. token' = token /\ sent' = sent
    BY <1>8 DEF Refuse, EndUnit, Return, vars
  <2> QED
    BY <1>2, <2>1 DEF Aged, NotSent
<1> QED
  BY <1>4, <1>5, <1>6, <1>7, <1>8 DEF Next

\* No request carries a token that has expired, however long the pages before it
\* took and whichever scopes take turns (gcp.go:128, azure.go token).
THEOREM TokensAreLive == Spec => []TokenLive
<1>1. Init => Aged
  BY DEF Init, Aged, NotSent
<1>2. Aged => TokenLive
  BY DEF Aged, TokenLive
<1> QED
  BY <1>1, <1>2, AgedStep, UTypedAlways, PTL DEF Spec
-----------------------------------------------------------------------------
(* The verdict on AWS *)

\* Every call site of the program compares, and drops no error.
NoBlind ==
    \A k \in DOMAIN Units : \A l \in ListsOf(Units[k]) :
        l.get.tells # "nothing" /\ l.onErr # "silent"

UnitNames == UNION {{u.name : u \in Range(Programs[s].units)} : s \in DOMAIN Programs}

Result == [name : UnitNames, skipped : BOOLEAN, items : Nat, failed : BOOLEAN]

\* One result for each unit that is over; the error names only units that failed,
\* and a skipped unit does not.
Tallied ==
    /\ unit \in Nat /\ (unit = 0 => Fresh)
    /\ results \in Seq(Result) /\ (unit > 0 => Len(results) = unit - 1)
    /\ \A n \in DOMAIN results :
          /\ results[n].skipped => ~results[n].failed
          /\ results[n].items > 0 => items # <<>>
    /\ unit > 0 /\ err # {} => \E n \in DOMAIN results : results[n].failed
    /\ unit \in DOMAIN Units /\ Skipped(Units[unit]) => work = <<>> /\ warned = {}

\* What a unit without a warning has, it has from lists read to their end.
Evident ==
    /\ \A i \in Range(got) : i.unit = unit
    /\ NoBlind =>
          /\ \A u \in unread : ~u.blind
          /\ warned = {} => Range(got) \subseteq whole
          /\ \A n \in DOMAIN results :
                ~results[n].failed /\ results[n].items > 0 =>
                    \E i \in Range(items) : i.unit = n /\ i \in whole

LEMMA NoBlindKept == ASSUME conf' = conf PROVE NoBlind' <=> NoBlind
BY UnitsKept DEF NoBlind

LEMMA SkippedKept == ASSUME conf' = conf PROVE \A u : Skipped(u)' <=> Skipped(u)
BY DEF Skipped

LEMMA SettledEvident ==
    ASSUME UTyped, Evident, Reading, UNCHANGED <<conf, pc, unit, items, results, err>>,
           NEW es, NEW policy, NEW missed, Settles(Head(work), es, policy, missed)
    PROVE  Evident'
<1> DEFINE c == Head(work)
<1>1. /\ unit \in DOMAIN Units /\ unit \in Nat /\ c.list \in AnyList /\ c.path \in Path
      /\ es \in Seq(Entry) /\ c.list \in Lists /\ got \in Seq(Found)
      /\ work \in Seq(CallOf(Lists))
  BY InProgress DEF Settles, UTyped
<1>2. /\ NoBlind' <=> NoBlind
      /\ whole \subseteq whole'
      /\ policy = "whole" \/ policy = "silent" \/ warned' # {}
      /\ policy = "silent" => got' = got
      /\ policy = "whole" => got' = got \o Yield(c, es)
      /\ policy = "whole" /\ ~missed => Range(Yield(c, es)) \subseteq whole'
      /\ warned \subseteq warned'
      /\ got' \in {<<>>, got, got \o Yield(c, es)}
  BY NoBlindKept DEF Settles, Settle, Policies
<1>3. /\ Yield(c, es) \in Seq(Found)
      /\ \A i \in Range(Yield(c, es)) : i.unit = unit
  BY <1>1, YieldIs DEF Item
<1>4. Range(got \o Yield(c, es)) = Range(got) \cup Range(Yield(c, es))
  BY <1>1, <1>3, ConcatRange
<1>5. \A i \in Range(got') : i.unit = unit'
  BY <1>2, <1>3, <1>4, EmptyRange DEF Evident
<1> SUFFICES ASSUME NoBlind
             PROVE  /\ \A u \in unread' : ~u.blind
                    /\ warned' = {} => Range(got') \subseteq whole'
                    /\ \A n \in DOMAIN results :
                          ~results[n].failed /\ results[n].items > 0 =>
                              \E i \in Range(items) : i.unit = n /\ i \in whole'
  BY <1>2, <1>5 DEF Evident
<1>6. \A l \in Lists : l.get.tells # "nothing" /\ l.onErr # "silent"
  BY <1>1 DEF NoBlind, Lists
<1>7. \A u \in unread' : ~u.blind
  <2> SUFFICES ASSUME NEW u \in unread', u \notin unread PROVE ~u.blind
    BY DEF Evident
  <2>1. PICK l \in (IF missed THEN {c.list} ELSE {})
                   \cup (IF policy \in {"fail", "return"}
                         THEN {work[k].list : k \in 2..Len(work)} ELSE {}) :
           u = [unit |-> Units[unit].name,
                blind |-> l.get.tells = "nothing" \/ l.onErr = "silent"]
    BY DEF Settles, Settle
  <2>2. \A k \in 2..Len(work) : work[k].list \in Lists
    <3>1. \A k \in 2..Len(work) : work[k] \in CallOf(Lists)
      BY <1>1
    <3> QED
      BY <3>1 DEF CallOf
  <2>3. l \in Lists
    BY <1>1, <2>1, <2>2
  <2> QED
    BY <1>6, <2>1, <2>3
<1>8. ASSUME warned' = {} PROVE Range(got') \subseteq whole'
  <2>1. warned = {} /\ Range(got) \subseteq whole
    BY <1>2, <1>8 DEF Evident
  <2>2. CASE policy = "silent"
    BY <1>2, <2>1, <2>2
  <2>3. CASE policy = "whole"
    <3>1. ~missed
      BY <1>1, <1>6, <2>3 DEF Settles
    <3> QED
      BY <1>2, <1>4, <2>1, <2>3, <3>1
  <2> QED
    BY <1>2, <1>8, <2>2, <2>3
<1> QED
  BY <1>2, <1>7, <1>8 DEF Evident

LEMMA EndUnitVerdict ==
    ASSUME UTyped, Tallied, Evident, EndUnit
    PROVE  Tallied' /\ Evident'
<1> DEFINE u == Units[unit]
<1>1. /\ conf' = conf /\ unit' = unit + 1 /\ unit \in DOMAIN Units /\ unit \in Nat
      /\ work' = NextWork(unit + 1) /\ got' = <<>> /\ warned' = {}
      /\ UNCHANGED <<read, whole, unread>>
  BY UnitBegins
<1>2. /\ items' = items \o got
      /\ results' = Append(results, [name |-> u.name, skipped |-> Skipped(u),
                                     items |-> Len(got), failed |-> warned # {}])
      /\ err' = IF warned # {} THEN err \cup {u.name} ELSE err
  BY DEF EndUnit, Gathered, UnitResult, UnitErr
<1>3. Units' = Units /\ (NoBlind' <=> NoBlind) /\ \A w : Skipped(w)' <=> Skipped(w)
  BY <1>1, UnitsKept, NoBlindKept, SkippedKept
<1>4. got \in Seq(Found) /\ Len(got) \in Nat /\ (Len(got) > 0 => got # <<>>)
  BY DEF UTyped
<1>5. /\ Range(items') = Range(items) \cup Range(got) /\ items' \in Seq(Found)
      /\ items # <<>> \/ got # <<>> => items' # <<>>
  <2>1. Range(items') = Range(items) \cup Range(got) /\ items' \in Seq(Found)
    BY <1>2, ConcatRange DEF UTyped
  <2>2. ASSUME NEW s \in Seq(Found), s # <<>> PROVE Range(s) # {}
    <3>1. 1 \in DOMAIN s
      BY <2>2
    <3> QED
      BY <3>1 DEF Range
  <2>3. items' = <<>> => Range(items') = {}
    BY EmptyRange, Zenon
  <2>4. items \in Seq(Found)
    BY DEF UTyped
  <2>5. items # <<>> => Range(items) # {}
    BY <2>2, <2>4, Zenon
  <2>6. got # <<>> => Range(got) # {}
    BY <1>4, <2>2, Zenon
  <2> QED
    BY <2>1, <2>3, <2>5, <2>6
<1>6. unit \in 1..Len(Units) /\ Len(Units) \in Nat
  BY <1>1, UnitsType DEF UTyped
<1> DEFINE result == [name |-> u.name, skipped |-> Skipped(u), items |-> Len(got),
                      failed |-> warned # {}]
<1>7. result \in Result
  <2>1. u.name \in UnitNames
    BY <1>1, UnitsType DEF UTyped, UnitNames, Program
  <2>2. Skipped(u) \in BOOLEAN
    BY DEF Skipped
  <2> QED
    BY <1>4, <2>1, <2>2 DEF Result
<1>8. /\ results \in Seq(Result) /\ Len(results) = unit - 1
      /\ results' \in Seq(Result) /\ Len(results') = unit
      /\ DOMAIN results = 1..(unit - 1) /\ DOMAIN results' = 1..unit
      /\ \A n \in DOMAIN results : results'[n] = results[n]
      /\ results'[unit] = result
  <2>1. results \in Seq(Result) /\ Len(results) = unit - 1 /\ results' = Append(results, result)
    BY <1>2, <1>6 DEF Tallied
  <2> HIDE DEF result
  <2> QED
    BY <1>6, <1>7, <2>1
<1>9. /\ result.skipped => ~result.failed
      /\ result.items = Len(got) /\ (result.failed <=> warned # {})
  BY <1>1 DEF Tallied
<1> HIDE DEF result
<1>10. Tallied'
  <2>1. unit' \in Nat /\ unit' # 0
    BY <1>1
  <2>2. ASSUME NEW n \in DOMAIN results'
        PROVE  /\ results'[n].skipped => ~results'[n].failed
               /\ results'[n].items > 0 => items' # <<>>
    <3>1. CASE n \in DOMAIN results
      BY <1>5, <1>8, <3>1 DEF Tallied
    <3>2. CASE n = unit
      BY <1>4, <1>5, <1>8, <1>9, <3>2
    <3> QED
      BY <1>6, <1>8, <3>1, <3>2
  <2>3. err' # {} => \E n \in DOMAIN results' : results'[n].failed
    <3>1. CASE warned # {}
      BY <1>6, <1>8, <1>9, <3>1
    <3>2. CASE warned = {} /\ err # {}
      <4>1. PICK n \in DOMAIN results : results[n].failed
        BY <1>6, <3>2 DEF Tallied
      <4> QED
        BY <1>6, <1>8, <4>1
    <3> QED
      BY <1>2, <3>1, <3>2
  <2>4. unit' \in DOMAIN Units' /\ Skipped(Units[unit])' => work' = <<>> /\ warned' = {}
    BY <1>1, <1>3 DEF NextWork
  <2> QED
    BY <1>1, <1>8, <2>1, <2>2, <2>3, <2>4 DEF Tallied
<1>11. Evident'
  <2>1. \A i \in Range(got') : i.unit = unit'
    BY <1>1, EmptyRange
  <2> SUFFICES ASSUME NoBlind
               PROVE  \A n \in DOMAIN results' :
                        ~results'[n].failed /\ results'[n].items > 0 =>
                            \E i \in Range(items') : i.unit = n /\ i \in whole'
    BY <1>1, <1>3, <2>1, EmptyRange DEF Evident
  <2> SUFFICES ASSUME NEW n \in DOMAIN results',
                      ~results'[n].failed, results'[n].items > 0
               PROVE  \E i \in Range(items') : i.unit = n /\ i \in whole'
    OBVIOUS
  <2>2. CASE n \in DOMAIN results
    BY <1>1, <1>5, <1>8, <2>2 DEF Evident
  <2>3. CASE n = unit
    <3>1. warned = {} /\ got # <<>>
      BY <1>4, <1>8, <1>9, <2>3
    <3>2. Head(got) \in Range(got)
      BY <1>4, <3>1, HeadTailRange
    <3>3. Head(got).unit = unit /\ Head(got) \in whole
      BY <3>1, <3>2 DEF Evident
    <3> QED
      BY <1>1, <1>5, <2>3, <3>2, <3>3
  <2> QED
    BY <1>6, <1>8, <2>2, <2>3
<1> QED
  BY <1>10, <1>11

LEMMA VerdictStep == UTyped /\ Tallied /\ Evident /\ [Next]_vars => Tallied' /\ Evident'
<1> SUFFICES ASSUME UTyped, Tallied, Evident, [Next]_vars PROVE Tallied' /\ Evident'
  OBVIOUS
<1>1. conf' = conf
  BY DEF Next, vars, Refuse, Begin, Ask, Tick, Answer, Deny, EndUnit, Return
<1>2. Units' = Units /\ (NoBlind' <=> NoBlind) /\ \A w : Skipped(w)' <=> Skipped(w)
  BY <1>1, UnitsKept, NoBlindKept, SkippedKept
<1>3. CASE Refuse
  <2>1. Fresh /\ UNCHANGED <<unit, work, got, warned, items, results, read, whole, unread>>
    BY <1>3 DEF Refuse, UTyped, unitVars, history
  <2> QED
    BY <1>2, <2>1, EmptyRange DEF Tallied, Evident, Fresh
<1>4. CASE Begin
  <2>1. /\ unit' = 1 /\ Fresh /\ err = {} /\ work' = NextWork(1) /\ got' = <<>> /\ warned' = {}
        /\ UNCHANGED <<items, results, err, read, whole, unread>>
    BY <1>4, UnitBegins DEF Fresh
  <2>2. results' = <<>> /\ <<>> \in Seq(Result) /\ Len(<<>>) = 0 /\ DOMAIN <<>> = {}
    BY <2>1 DEF Fresh
  <2>3. Tallied'
    BY <1>2, <2>1, <2>2 DEF Tallied, NextWork
  <2>4. Evident'
    BY <2>1, <2>2, EmptyRange DEF Evident, Fresh
  <2> QED
    BY <2>3, <2>4
<1>5. CASE EndUnit
  BY <1>5, EndUnitVerdict
<1>6. CASE Answer \/ Deny
  <2>1. /\ Reading /\ UNCHANGED <<conf, pc, unit, items, results, err>>
        /\ \/ \E es, policy, missed : Settles(Head(work), es, policy, missed)
           \/ \E r \in Replies(Head(work)) : GoesOn(Head(work), r)
    BY <1>6, AnswerCases, DenyCase
  <2>2. unit \in DOMAIN Units /\ unit \in Nat /\ unit # 0
    BY <2>1 DEF UTyped, Reading
  <2>3. Tallied'
    BY <1>2, <2>1, <2>2 DEF Tallied, Reading
  <2>4. Evident'
    <3>1. CASE \E r \in Replies(Head(work)) : GoesOn(Head(work), r)
      BY <1>2, <2>1, <3>1 DEF GoesOn, Evident
    <3> QED
      BY <2>1, <3>1, SettledEvident
  <2> QED
    BY <2>3, <2>4
<1>7. CASE Return \/ Ask \/ Tick \/ UNCHANGED vars
  <2>1. UNCHANGED <<unit, work, got, warned, items, results, err, read, whole, unread>>
    BY <1>7 DEF Return, Ask, Tick, vars, unitVars, outVars, history
  <2>2. Fresh' <=> Fresh
    BY <2>1 DEF Fresh
  <2> QED
    BY <1>2, <2>1, <2>2 DEF Tallied, Evident
<1> QED
  BY <1>3, <1>4, <1>5, <1>6, <1>7 DEF Next

LEMMA VerdictAlways == Spec => [](UTyped /\ Told /\ Tallied /\ Evident)
<1>1. Init => Tallied /\ Evident
  <2> SUFFICES ASSUME Init PROVE Tallied /\ Evident
    OBVIOUS
  <2>1. UTyped /\ pc = "begin"
    BY UTypedInit DEF Init
  <2>2. Fresh /\ err = {} /\ unit \notin DOMAIN Units
    BY <2>1, UnitsType DEF UTyped, Fresh
  <2>3. results = <<>> /\ <<>> \in Seq(Result) /\ DOMAIN <<>> = {}
    BY <2>2 DEF Fresh
  <2> QED
    BY <2>2, <2>3, EmptyRange DEF Fresh, Tallied, Evident
<1> QED
  BY <1>1, VerdictStep, ToldAlways, UTypedAlways, PTL DEF Spec

\* Where the checks of an adapter and the four others stand in the list.
LEMMA ChecksAre ==
    ASSUME results \in Seq(Result), NEW denied
    PROVE  /\ DOMAIN Checks(denied) = 1..(Len(results) + 4) /\ Len(results) \in Nat
           /\ \A n \in 1..Len(results) : Checks(denied)[n] = AdapterRan(results[n])
           /\ \A n \in (Len(results) + 1)..(Len(results) + 4) :
                 Checks(denied)[n] \in {DenialDegrades(denied), NothingUndated,
                                        Pagination, RankingChecked}
<1> DEFINE adapters == [n \in DOMAIN results |-> AdapterRan(results[n])]
           others == <<DenialDegrades(denied), NothingUndated, Pagination, RankingChecked>>
           Value == {"passed", "failed", "open"}
<1>1. Len(results) \in Nat /\ DOMAIN results = 1..Len(results)
  OBVIOUS
<1>2. \A r : AdapterRan(r) \in Value
  BY DEF AdapterRan
<1>3. adapters \in Seq(Value) /\ Len(adapters) = Len(results)
  <2>1. adapters \in [1..Len(results) -> Value]
    BY <1>1, <1>2
  <2> HIDE DEF adapters
  <2> QED
    BY <1>1, <2>1, FunctionSeq
<1>4. others \in Seq(Value) /\ Len(others) = 4 /\ DOMAIN others = 1..4
  <2>1. /\ DenialDegrades(denied) \in Value /\ NothingUndated \in Value
        /\ Pagination \in Value /\ RankingChecked \in Value
    BY DEF DenialDegrades, NothingUndated, Pagination, RankingChecked
  <2> HIDE DEF Value
  <2> QED
    BY <2>1
<1>5. \A k \in 1..4 : others[k] \in {DenialDegrades(denied), NothingUndated,
                                     Pagination, RankingChecked}
  OBVIOUS
<1>6. \A n \in 1..Len(results) : adapters[n] = AdapterRan(results[n])
  BY <1>1
<1>7. Checks(denied) = adapters \o others
  BY DEF Checks
<1> HIDE DEF adapters, others, Value
<1>8. DOMAIN (adapters \o others) = 1..(Len(adapters) + Len(others))
  BY <1>3, <1>4, ConcatDomain, Zenon
<1>9. \A k \in DOMAIN others : (adapters \o others)[Len(adapters) + k] = others[k]
  <2>1. \A s, t \in Seq(Value) : \A k \in DOMAIN t : (s \o t)[Len(s) + k] = t[k]
    BY ConcatIndex
  <2> QED
    BY <1>3, <1>4, <2>1, Zenon
<1>10. \A k \in 1..4 : k \in DOMAIN others /\ others[k] = Checks(denied)[Len(results) + k]
  BY <1>3, <1>4, <1>7, <1>9
<1>11. \A n \in (Len(results) + 1)..(Len(results) + 4) :
         n - Len(results) \in 1..4 /\ n = Len(results) + (n - Len(results))
  BY <1>1
<1>12. \A n \in (Len(results) + 1)..(Len(results) + 4) :
          Checks(denied)[n] \in {DenialDegrades(denied), NothingUndated,
                                 Pagination, RankingChecked}
  BY <1>1, <1>5, <1>10, <1>11
<1>13. DOMAIN Checks(denied) = 1..(Len(results) + 4)
  BY <1>3, <1>4, <1>7, <1>8
<1>14. \A n \in 1..Len(results) : Checks(denied)[n] = AdapterRan(results[n])
  <2>1. DOMAIN adapters = 1..Len(results)
    BY <1>1, <1>3
  <2>2. \A n \in 1..Len(results) : Checks(denied)[n] = adapters[n]
    BY <1>3, <1>4, <1>7, <2>1, ConcatIndex
  <2> QED
    BY <1>6, <2>2
<1> QED
  BY <1>1, <1>12, <1>13, <1>14

\* awsverify.go: an inconclusive check is not a pass.  An account with nothing in
\* it passes no check, exit 0 means that every adapter that ran was read whole, and
\* an adapter that passes has items of its own in the result.
THEOREM VerdictIsEvident == Spec => []VerdictIsEvidence
<1>1. UTyped /\ Told /\ Tallied /\ Evident => VerdictIsEvidence
  <2> SUFFICES ASSUME UTyped, Told, Tallied, Evident,
                      pc = "done", conf.src = "aws", unit > 0,
                      NEW denied \in SUBSET {n \in DOMAIN results : results[n].failed}
               PROVE  /\ items = <<>> => \A n \in DOMAIN Checks(denied) : Checks(denied)[n] # "passed"
                      /\ VerifyExit(denied) = 0 => err = {} /\ unread = {}
                      /\ \A n \in DOMAIN results :
                            Checks(denied)[n] = "passed" =>
                                \E i \in Range(items) : i.unit = n /\ i \in whole
    BY DEF VerdictIsEvidence
  <2>1. results \in Seq(Result) /\ Len(results) \in Nat /\ DOMAIN results = 1..Len(results)
    BY DEF Tallied
  <2>2. /\ DOMAIN Checks(denied) = 1..(Len(results) + 4)
        /\ \A n \in 1..Len(results) : Checks(denied)[n] = AdapterRan(results[n])
        /\ \A n \in (Len(results) + 1)..(Len(results) + 4) :
              Checks(denied)[n] \in {DenialDegrades(denied), NothingUndated,
                                     Pagination, RankingChecked}
    BY <2>1, ChecksAre
  <2>3. \A n \in DOMAIN results : results[n] \in Result
    BY <2>1
  <2>4. \A n \in DOMAIN results :
           AdapterRan(results[n]) = "passed" => ~results[n].failed /\ results[n].items > 0
    BY <2>3 DEF AdapterRan, Result
  <2>5. NoBlind
    <3>1. conf.src \in DOMAIN Programs /\ "aws" \in DOMAIN Programs
      BY DEF UTyped
    <3>2. \A k \in DOMAIN Units : Units[k] \in Range(Programs["aws"].units)
      BY <3>1, UnitsType DEF Program
    <3> QED
      BY <3>1, <3>2, AWSAssumption DEF NoBlind
  <2>6. ASSUME items = <<>>
        PROVE  \A n \in DOMAIN Checks(denied) : Checks(denied)[n] # "passed"
    <3>1. \A n \in DOMAIN results : ~(results[n].items > 0)
      BY <2>6 DEF Tallied
    <3>2. \A n \in DOMAIN results : AdapterRan(results[n]) # "passed"
      BY <2>4, <3>1
    <3>3. DenialDegrades(denied) # "passed"
      BY <3>1 DEF DenialDegrades
    <3>4. Pagination # "passed"
      BY <2>3, <3>1, AWSAssumption DEF Pagination, Result
    <3>5. NothingUndated # "passed" /\ RankingChecked # "passed"
      BY <2>6 DEF NothingUndated, RankingChecked
    <3> QED
      BY <2>1, <2>2, <3>2, <3>3, <3>4, <3>5
  <2>7. ASSUME VerifyExit(denied) = 0
        PROVE  err = {} /\ unread = {}
    <3>1. \A n \in DOMAIN Checks(denied) : Checks(denied)[n] # "failed"
      BY <2>7 DEF VerifyExit, OK
    <3>2. ASSUME NEW n \in DOMAIN results PROVE ~results[n].failed
      <4>1. n \in 1..Len(results) /\ n \in DOMAIN Checks(denied)
        BY <2>1, <2>2
      <4>2. AdapterRan(results[n]) # "failed"
        BY <2>2, <3>1, <4>1
      <4>3. results[n].skipped => ~results[n].failed
        BY DEF Tallied
      <4> QED
        BY <2>3, <4>2, <4>3 DEF AdapterRan, Result
    <3>3. err = {}
      BY <3>2 DEF Tallied
    <3>4. ~(unit \in DOMAIN Units)
      <4>1. /\ conf.src \in DOMAIN Programs
            /\ Fresh \/ unit = Len(Units) + 1
        BY DEF UTyped
      <4>2. unit = Len(Units) + 1
        BY <4>1 DEF Fresh
      <4> QED
        BY <4>1, <4>2, UnitsType
    <3>5. \A u \in unread : FALSE
      BY <2>5, <3>3, <3>4 DEF Evident, Told, ToldUnread
    <3> QED
      BY <3>3, <3>5
  <2>8. \A n \in DOMAIN results :
           Checks(denied)[n] = "passed" =>
               \E i \in Range(items) : i.unit = n /\ i \in whole
    BY <2>1, <2>2, <2>4, <2>5 DEF Evident
  <2> QED
    BY <2>6, <2>7, <2>8
<1> QED
  BY <1>1, VerdictAlways, PTL
-----------------------------------------------------------------------------
(* Nothing is found twice, nothing that was read whole is dropped *)

\* The lists a unit begins with.
Asked(u) ==
    IF ~u.alone THEN u.once \o u.each
    ELSE IF conf.parents > 0 THEN u.each ELSE u.once

Id(c) == <<c.list.name, c.path>>
IdOf(i) == <<i.list, i.path>>
Known(W, G) == {Id(c) : c \in W} \cup {IdOf(i) : i \in G}

\* What c has still to ask for: below none of its entries, or, if it asks page by
\* page, below none from this page on.
Past(c, x) ==
    \A j \in DOMAIN c.list.kids, at \in Place :
        x = <<c.list.kids[j].name, Append(c.path, at)>> => c.list.eager /\ at[1] < c.page

\* The calls to be made are of lists of the unit,
OfUnit(ls, W) ==
    \A c \in W : \/ c.list \in Range(ls)
                 \/ \E l \in Range(ls) : \E j \in DOMAIN l.kids : c.list = l.kids[j]

\* each asks for something else, and for nothing that has been found.
Tidy(ls, W, G) ==
    /\ OfUnit(ls, W)
    /\ \A c, d \in W : Id(c) = Id(d) => c = d
    /\ \A c \in W, i \in G : IdOf(i) # Id(c)
    /\ \A c \in W : \A x \in Known(W, G) : Past(c, x)

\* The path below an entry.
Under(p, a) == Append(p, a)

LEMMA UnderApart ==
    ASSUME NEW p \in Path, NEW q \in Path, NEW a \in Place, NEW b \in Place,
           Under(p, a) = Under(q, b)
    PROVE  p = q /\ a = b
BY AppendApart DEF Path, Under

LEMMA AskedApart ==
    ASSUME conf.src \in DOMAIN Programs, NEW k \in DOMAIN Units
    PROVE  /\ NamedApart(Asked(Units[k])) /\ FailsAlone(Units[k])
           /\ Units[k].once \in Seq(ListsOf(Units[k])) /\ Units[k].each \in Seq(ListsOf(Units[k]))
<1> DEFINE u == Units[k]
<1>1. /\ \A ls \in IF u.alone THEN {u.once, u.each} ELSE {u.once \o u.each} : NamedApart(ls)
      /\ FailsAlone(u) /\ u.once \in Seq(ListsOf(u)) /\ u.each \in Seq(ListsOf(u))
  BY UnitsType
<1>2. Asked(u) \in IF u.alone THEN {u.once, u.each} ELSE {u.once \o u.each}
  BY DEF Asked
<1> QED
  BY <1>1, <1>2

\* A list with others below it is one the unit begins with; these have names of
\* their own, and nothing below them.
LEMMA KidsApart ==
    ASSUME NEW ls, NamedApart(ls), NEW W, OfUnit(ls, W), NEW c \in W
    PROVE  /\ \A j \in DOMAIN c.list.kids : c.list.kids[j].kids = <<>>
           /\ \A i, j \in DOMAIN c.list.kids :
                 c.list.kids[i].name = c.list.kids[j].name => i = j
           /\ \A d \in W : \A i \in DOMAIN c.list.kids, j \in DOMAIN d.list.kids :
                 c.list.kids[i].name = d.list.kids[j].name => c.list = d.list
           /\ \A j \in DOMAIN c.list.kids : c.list \in Range(ls)
<1>1. ASSUME NEW d \in W, NEW j \in DOMAIN d.list.kids PROVE d.list \in Range(ls)
  <2>1. ASSUME NEW l \in Range(ls), NEW i \in DOMAIN l.kids, d.list = l.kids[i]
        PROVE  FALSE
    <3>1. d.list.kids = <<>>
      BY <2>1 DEF NamedApart
    <3> QED
      BY <1>1, <3>1
  <2> QED
    BY <2>1 DEF OfUnit
<1>2. \A l, m \in Range(ls) : \A i \in DOMAIN l.kids, j \in DOMAIN m.kids :
         /\ l.kids[i].kids = <<>>
         /\ l.kids[i].name = m.kids[j].name => l = m /\ i = j
  BY DEF NamedApart
<1> QED
  BY <1>1, <1>2

\* The calls W and the items G that a page leaves: the call in progress ends, or
\* goes on with `next`, and those below its entries are added.
Onward(es, goes, next, W, G) ==
    LET c == Head(work) IN
    /\ goes \in BOOLEAN
    /\ goes => next.list = c.list /\ next.path = c.path /\ next.page = c.page + 1
    /\ \A d \in W :
          \/ d \in Range(Tail(work))
          \/ d \in Range(Below(c, es)) /\ (goes => c.list.eager)
          \/ goes /\ d = next
    /\ \A i \in G : i \in Range(got) \/ (~goes /\ IdOf(i) = Id(c))

LEMMA TidyOnward ==
    ASSUME UTyped, Reading, IsInjective(work),
           Tidy(Asked(Units[unit]), Range(work), Range(got)),
           NEW es \in Seq(Entry), Apart(es),
           Head(work).list.eager => \A n \in DOMAIN es : es[n].at[1] = Head(work).page,
           NEW goes, NEW next, NEW W, NEW G, Onward(es, goes, next, W, G)
    PROVE  /\ Tidy(Asked(Units[unit]), W, G)
           /\ Range(Below(Head(work), es)) \cap Range(Tail(work)) = {}
           /\ IsInjective(Below(Head(work), es))
           /\ goes => next \notin Range(Below(Head(work), es)) /\ next \notin Range(Tail(work))
<1> DEFINE c == Head(work)
           ls == Asked(Units[unit])
           W0 == Range(work)
           G0 == Range(got)
           rest == Range(Tail(work))
           B == Range(Below(c, es))
           kids == c.list.kids
<1>1. c \in W0 /\ rest \subseteq W0 /\ c \notin rest
  BY InProgress, HeadTailRange
<1>2. /\ c.path \in Path /\ kids \in Seq(Lists) /\ c.page \in Nat
      /\ \A d \in W0 : d.path \in Path
  <2>1. \A d \in W0 : d \in CallOf(Lists)
    BY InProgress, RangeType
  <2> QED
    BY <2>1, InProgress DEF CallOf
<1>3. NamedApart(ls) /\ OfUnit(ls, W0)
  BY InProgress, AskedApart DEF UTyped, Tidy
<1>4. /\ \A j \in DOMAIN kids : kids[j].kids = <<>> /\ c.list \in Range(ls)
      /\ \A i, j \in DOMAIN kids : kids[i].name = kids[j].name => i = j
      /\ \A d \in W0 : \A i \in DOMAIN kids, j \in DOMAIN d.list.kids :
            kids[i].name = d.list.kids[j].name => c.list = d.list
  BY <1>1, <1>3, KidsApart
<1>5. /\ \A c1, d \in W0 : Id(c1) = Id(d) => c1 = d
      /\ \A c1 \in W0, i \in G0 : IdOf(i) # Id(c1)
      /\ \A c1 \in W0 : \A x \in Known(W0, G0) : Past(c1, x)
  BY DEF Tidy
<1>6. /\ \A b \in B : \E k \in DOMAIN es, j \in DOMAIN kids :
            b = Call(kids[j], Append(c.path, es[k].at))
      /\ IsInjective(Below(c, es))
  BY <1>2, <1>4, BelowIs
<1>7. \A k \in DOMAIN es : es[k].at \in Place /\ es[k].at[1] \in Nat
  BY EntryPlace
<1> HIDE DEF c, ls, W0, G0, rest, B, kids
<1>8. ASSUME NEW b \in B
      PROVE  /\ \E k \in DOMAIN es, j \in DOMAIN kids :
                   b.list = kids[j] /\ b.path = Append(c.path, es[k].at)
             /\ b.list.kids = <<>> /\ b.path # c.path
             /\ Id(b) \notin Known(W0, G0)
  <2>1. PICK k \in DOMAIN es, j \in DOMAIN kids : b = Call(kids[j], Append(c.path, es[k].at))
    BY <1>6
  <2>2. b.list = kids[j] /\ b.path = Append(c.path, es[k].at)
    BY <2>1 DEF Call
  <2>3. b.path # c.path
    BY <1>2, <1>7, <2>2, AppendApart DEF Path
  <2>4. Id(b) = <<kids[j].name, Append(c.path, es[k].at)>>
    BY <2>2 DEF Id
  <2>5. ASSUME Id(b) \in Known(W0, G0) PROVE FALSE
    <3>1. Past(c, Id(b))
      BY <1>1, <1>5, <2>5
    <3>2. c.list.eager /\ es[k].at[1] < c.page
      BY <1>7, <2>4, <3>1 DEF Past, kids
    <3>3. es[k].at[1] = c.page
      BY <3>2 DEF c
    <3> QED
      BY <1>2, <3>2, <3>3
  <2> QED
    BY <1>4, <2>2, <2>3, <2>5
<1>9. ASSUME NEW a \in B, NEW b \in B, Id(a) = Id(b) PROVE a = b
  <2>1. PICK k \in DOMAIN es, j \in DOMAIN kids : a = Call(kids[j], Append(c.path, es[k].at))
    BY <1>6
  <2>2. PICK m \in DOMAIN es, n \in DOMAIN kids : b = Call(kids[n], Append(c.path, es[m].at))
    BY <1>6
  <2>3. kids[j].name = kids[n].name /\ Append(c.path, es[k].at) = Append(c.path, es[m].at)
    BY <1>9, <2>1, <2>2 DEF Id, Call
  <2> QED
    BY <1>4, <2>1, <2>2, <2>3
<1>10. /\ \A d \in W0 : Id(d) \in Known(W0, G0)
       /\ \A i \in G0 : IdOf(i) \in Known(W0, G0)
  BY DEF Known
<1>11. goes => Id(next) = Id(c) /\ next \notin B /\ next \notin rest
  <2> SUFFICES ASSUME goes PROVE Id(next) = Id(c) /\ next \notin B /\ next \notin rest
    OBVIOUS
  <2>1. next.list = c.list /\ next.path = c.path
    BY DEF Onward, c
  <2>2. Id(next) = Id(c)
    BY <2>1 DEF Id
  <2> QED
    BY <1>1, <1>5, <1>8, <2>1, <2>2
<1>12. /\ goes \in BOOLEAN
       /\ \A d \in W : d \in rest \/ (d \in B /\ (goes => c.list.eager)) \/ (goes /\ d = next)
       /\ \A i \in G : i \in G0 \/ (~goes /\ IdOf(i) = Id(c))
       /\ goes => next.list = c.list /\ next.path = c.path /\ next.page = c.page + 1
  BY DEF Onward, c, rest, B, G0
<1>13. OfUnit(ls, W)
  <2> SUFFICES ASSUME NEW d \in W
               PROVE  \/ d.list \in Range(ls)
                      \/ \E l \in Range(ls) : \E j \in DOMAIN l.kids : d.list = l.kids[j]
    BY DEF OfUnit
  <2>1. CASE d \in rest
    BY <1>1, <1>3, <2>1 DEF OfUnit
  <2>2. CASE d \in B
    <3>1. PICK j \in DOMAIN kids : d.list = kids[j]
      BY <1>8, <2>2
    <3> QED
      BY <1>4, <3>1 DEF kids
  <2>3. CASE goes /\ d = next
    BY <1>1, <1>3, <1>12, <2>3 DEF OfUnit
  <2> QED
    BY <1>12, <2>1, <2>2, <2>3
<1>14. ASSUME NEW a \in W, NEW d \in W, Id(a) = Id(d) PROVE a = d
  <2>1. CASE a \in B /\ d \in B
    BY <1>9, <1>14, <2>1
  <2>2. CASE a \notin B /\ d \notin B
    <3>1. \A e \in W : e \in B \/ (e \in W0 /\ e # c) \/ (goes /\ e = next)
      BY <1>1, <1>12
    <3> QED
      BY <1>1, <1>5, <1>11, <1>14, <2>2, <3>1
  <2>3. CASE (a \in B /\ d \notin B) \/ (a \notin B /\ d \in B)
    <3>1. \A e \in W : e \in B \/ Id(e) \in Known(W0, G0)
      BY <1>1, <1>10, <1>11, <1>12
    <3> QED
      BY <1>8, <1>14, <2>3, <3>1
  <2> QED
    BY <2>1, <2>2, <2>3
<1>15. ASSUME NEW d \in W, NEW i \in G PROVE IdOf(i) # Id(d)
  <2>1. IdOf(i) \in Known(W0, G0)
    BY <1>1, <1>10, <1>12
  <2>2. CASE d \in B
    BY <1>8, <2>1, <2>2
  <2>3. CASE d \in rest
    BY <1>1, <1>5, <1>12, <2>3
  <2>4. CASE goes /\ d = next
    BY <1>1, <1>5, <1>11, <1>12, <2>4
  <2> QED
    BY <1>12, <2>2, <2>3, <2>4
<1>16. ASSUME NEW d \in W, NEW x \in Known(W, G) PROVE Past(d, x)
  <2>1. x \in Known(W0, G0) \/ \E b \in B : x = Id(b) /\ (goes => c.list.eager)
    <3>1. CASE \E e \in W : x = Id(e)
      BY <1>1, <1>10, <1>11, <1>12, <3>1
    <3>2. CASE \E i \in G : x = IdOf(i)
      BY <1>1, <1>10, <1>12, <3>2
    <3> QED
      BY <1>16, <3>1, <3>2 DEF Known
  <2>2. CASE d \in B
    <3>1. d.list.kids = <<>>
      BY <1>8, <2>2
    <3>2. DOMAIN <<>> = {}
      OBVIOUS
    <3> QED
      BY <3>1, <3>2 DEF Past
  <2>3. ASSUME d \in rest \/ (goes /\ d = next) PROVE Past(d, x)
    <3> SUFFICES ASSUME NEW j \in DOMAIN d.list.kids, NEW at \in Place,
                        x = <<d.list.kids[j].name, Append(d.path, at)>>
                 PROVE  d.list.eager /\ at[1] < d.page
      BY DEF Past
    <3>1. CASE x \in Known(W0, G0) /\ d \in rest
      <4>1. Past(d, x)
        BY <1>1, <1>5, <3>1
      <4> QED
        BY <4>1 DEF Past
    <3>2. CASE x \in Known(W0, G0) /\ goes /\ d = next
      <4>1. Past(c, x)
        BY <1>1, <1>5, <3>2
      <4>2. c.list.eager /\ at[1] < c.page
        BY <1>12, <3>2, <4>1 DEF Past
      <4> QED
        BY <1>2, <1>12, <3>2, <4>2 DEF Place
    <3>3. CASE \E b \in B : x = Id(b) /\ (goes => c.list.eager)
      <4>1. PICK b \in B : x = Id(b) /\ (goes => c.list.eager)
        BY <3>3
      <4>2. PICK k \in DOMAIN es, i \in DOMAIN kids :
               b.list = kids[i] /\ b.path = Append(c.path, es[k].at)
        BY <1>8, <4>1
      <4>3. kids[i].name = d.list.kids[j].name /\ Append(c.path, es[k].at) = Append(d.path, at)
        BY <4>1, <4>2 DEF Id
      <4>4. d.path \in Path
        BY <1>1, <1>2, <1>12, <2>3
      <4>5. c.path = d.path /\ at = es[k].at
        <5>1. c.path \in Path /\ d.path \in Path /\ at \in Place /\ es[k].at \in Place
          BY <1>2, <1>7, <4>4
        <5>2. Under(c.path, es[k].at) = Under(d.path, at)
          BY <4>3 DEF Under
        <5> QED
          BY <5>1, <5>2, UnderApart
      <4>6. CASE d \in rest
        <5>1. c.list = d.list
          BY <1>1, <1>4, <4>3, <4>6
        <5> QED
          BY <1>1, <1>5, <4>5, <4>6, <5>1 DEF Id
      <4>7. CASE goes /\ d = next
        <5>1. c.list.eager /\ es[k].at[1] = c.page
          BY <4>1, <4>7 DEF c
        <5> QED
          BY <1>2, <1>12, <4>5, <4>7, <5>1
      <4> QED
        BY <2>3, <4>6, <4>7
    <3> QED
      BY <2>1, <2>3, <3>1, <3>2, <3>3
  <2> QED
    BY <1>12, <2>2, <2>3
<1>17. B \cap rest = {}
  BY <1>1, <1>8, <1>10
<1>18. Tidy(ls, W, G)
  BY <1>13, <1>14, <1>15, <1>16 DEF Tidy
<1> QED
  BY <1>6, <1>11, <1>17, <1>18 DEF ls, c, rest, B

-----------------------------------------------------------------------------
(* A unit begins *)

\* The first calls of a unit are of the lists it asks for, once or once for each
\* parent, and no two ask for the same.
LEMMA CallsAre ==
    ASSUME conf.parents \in Nat, NEW u, NamedApart(Asked(u)),
           u.once \in Seq(ListsOf(u)), u.each \in Seq(ListsOf(u))
    PROVE  /\ \A d \in Range(Calls(u)) :
                 /\ d.list \in Range(Asked(u))
                 /\ \/ \E k \in DOMAIN u.once : d = Call(u.once[k], <<>>)
                    \/ \E k \in DOMAIN u.each, p \in 1..conf.parents : d = Call(u.each[k], <<p>>)
           /\ \A c, d \in Range(Calls(u)) : Id(c) = Id(d) => c = d
           /\ IsInjective(Calls(u))
<1> DEFINE L == ListsOf(u)
           C == CallOf(L)
           N == conf.parents
           K == IF u.alone /\ N > 0 THEN {} ELSE DOMAIN u.once
           A(k) == Call(u.once[k], <<>>)
           E(k, p) == Call(u.each[k], <<p>>)
           once == IF u.alone /\ N > 0 THEN <<>> ELSE [k \in DOMAIN u.once |-> A(k)]
           row(p) == [k \in DOMAIN u.each |-> E(k, p)]
           each == [p \in 1..N |-> row(p)]
<1>1. /\ \A k \in DOMAIN u.once : u.once[k] \in L
      /\ \A k \in DOMAIN u.each : u.each[k] \in L
      /\ DOMAIN u.once = 1..Len(u.once) /\ Len(u.once) \in Nat
      /\ DOMAIN u.each = 1..Len(u.each) /\ Len(u.each) \in Nat
  OBVIOUS
<1>2. /\ \A k \in DOMAIN u.once : A(k) \in C /\ A(k).list = u.once[k] /\ A(k).path = <<>>
      /\ \A k \in DOMAIN u.each, p \in 1..N :
            E(k, p) \in C /\ E(k, p).list = u.each[k] /\ E(k, p).path = <<p>>
  <2>1. <<>> \in Path /\ \A p \in 1..N : <<p>> \in Path
    BY DEF Path
  <2>2. \A l \in L, path \in Path : /\ Call(l, path) \in C
                                    /\ Call(l, path).list = l /\ Call(l, path).path = path
    BY DEF Call, CallOf
  <2> QED
    BY <1>1, <2>1, <2>2
<1>3. /\ \A k \in K : u.once[k] \in Range(Asked(u))
      /\ \A k \in DOMAIN u.each, p \in 1..N : u.each[k] \in Range(Asked(u))
      /\ \A j, k \in K : u.once[j].name = u.once[k].name => j = k
      /\ \A j, k \in DOMAIN u.each, p \in 1..N : u.each[j].name = u.each[k].name => j = k
  <2>1. \A j, k \in DOMAIN Asked(u) : Asked(u)[j].name = Asked(u)[k].name => j = k
    BY DEF NamedApart
  <2>2. CASE u.alone
    <3>1. Asked(u) = IF N > 0 THEN u.each ELSE u.once
      BY <2>2 DEF Asked
    <3>2. N > 0 => K = {} /\ \A k \in DOMAIN u.each : u.each[k] \in Range(Asked(u))
      BY <2>2, <3>1 DEF Range
    <3>3. ~(N > 0) => 1..N = {} /\ K = DOMAIN u.once
                      /\ \A k \in DOMAIN u.once : u.once[k] \in Range(Asked(u))
      BY <2>2, <3>1 DEF Range
    <3> HIDE DEF K
    <3> QED
      BY <2>1, <3>1, <3>2, <3>3
  <2>3. CASE ~u.alone
    <3> DEFINE both == u.once \o u.each
    <3>1. /\ \A k \in DOMAIN u.once : k \in DOMAIN both /\ both[k] = u.once[k]
          /\ \A k \in DOMAIN u.each : Len(u.once) + k \in DOMAIN both
                                      /\ both[Len(u.once) + k] = u.each[k]
      <4>1. \A s, r \in Seq(L) :
              /\ \A k \in DOMAIN s : k \in DOMAIN (s \o r) /\ (s \o r)[k] = s[k]
              /\ \A k \in DOMAIN r : Len(s) + k \in DOMAIN (s \o r) /\ (s \o r)[Len(s) + k] = r[k]
        BY ConcatIndex
      <4>2. u.once \in Seq(L) /\ u.each \in Seq(L)
        OBVIOUS
      <4> QED
        BY <4>1, <4>2, Zenon
    <3>2. Asked(u) = both
      BY <2>3 DEF Asked
    <3>3. K = DOMAIN u.once
      BY <2>3
    <3> HIDE DEF K, both
    <3>4. /\ \A k \in K : u.once[k] \in Range(Asked(u))
          /\ \A k \in DOMAIN u.each : u.each[k] \in Range(Asked(u))
      BY <3>1, <3>2, <3>3 DEF Range
    <3>5. \A j, k \in DOMAIN u.once : u.once[j].name = u.once[k].name => j = k
      BY <2>1, <3>1, <3>2
    <3>6. ASSUME NEW j \in DOMAIN u.each, NEW k \in DOMAIN u.each, u.each[j].name = u.each[k].name
          PROVE  j = k
      <4>1. Len(u.once) + j = Len(u.once) + k
        BY <2>1, <3>1, <3>2, <3>6
      <4> QED
        BY <1>1, <4>1
    <3> QED
      BY <3>3, <3>4, <3>5, <3>6
  <2> QED
    BY <2>2, <2>3
<1>4. /\ \A j, k \in K : A(j) = A(k) => j = k
      /\ \A j, k \in DOMAIN u.each : \A p, q \in 1..N : E(j, p) = E(k, q) => j = k /\ p = q
      /\ \A j \in DOMAIN u.once, k \in DOMAIN u.each, p \in 1..N : A(j).path # E(k, p).path
  <2>1. K \subseteq DOMAIN u.once
    OBVIOUS
  <2>2. \A p, q : <<p>> = <<q>> => p = q
    OBVIOUS
  <2>3. \A p : <<>> # <<p>>
    OBVIOUS
  <2> HIDE DEF A, E, K
  <2>4. \A j, k \in K : A(j) = A(k) => j = k
    BY <1>2, <1>3, <2>1
  <2>5. ASSUME NEW j \in DOMAIN u.each, NEW k \in DOMAIN u.each,
               NEW p \in 1..N, NEW q \in 1..N, E(j, p) = E(k, q)
        PROVE  j = k /\ p = q
    <3>1. u.each[j] = u.each[k] /\ <<p>> = <<q>>
      BY <1>2, <2>5
    <3> QED
      BY <1>3, <2>2, <3>1
  <2>6. \A j \in DOMAIN u.once, k \in DOMAIN u.each, p \in 1..N : A(j).path # E(k, p).path
    BY <1>2, <2>3
  <2> QED
    BY <2>4, <2>5, <2>6
<1> HIDE DEF A, E, C
<1>5. /\ once \in Seq(C) /\ IsInjective(once)
      /\ \A d \in Range(once) : \E k \in K : d = A(k)
  <2>1. CASE u.alone /\ N > 0
    BY <2>1, EmptyRange
  <2>2. CASE ~(u.alone /\ N > 0)
    <3> DEFINE f == [k \in DOMAIN u.once |-> A(k)]
    <3>1. f \in [1..Len(u.once) -> C]
      BY <1>1, <1>2
    <3>2. f \in Seq(C)
      BY <1>1, <3>1, FunctionSeq
    <3>3. IsInjective(f) /\ \A d \in Range(f) : \E k \in DOMAIN u.once : d = A(k)
      BY <1>4, <2>2 DEF IsInjective, Range
    <3> QED
      BY <2>2, <3>2, <3>3
  <2> QED
    BY <2>1, <2>2
<1>6. ASSUME NEW p \in 1..N
      PROVE  /\ row(p) \in Seq(C) /\ IsInjective(row(p))
             /\ \A d \in Range(row(p)) : \E k \in DOMAIN u.each : d = E(k, p)
  <2>1. row(p) \in [1..Len(u.each) -> C]
    BY <1>1, <1>2
  <2>2. IsInjective(row(p))
    BY <1>4 DEF IsInjective
  <2>3. \A d \in Range(row(p)) : \E k \in DOMAIN u.each : d = E(k, p)
    BY DEF Range
  <2> QED
    BY <1>1, <2>1, <2>2, <2>3, FunctionSeq
<1> HIDE DEF row
<1>7. each \in Seq(Seq(C)) /\ DOMAIN each = 1..N /\ \A p \in 1..N : each[p] = row(p)
  <2>1. each \in [1..N -> Seq(C)]
    BY <1>6
  <2> QED
    BY <2>1, FunctionSeq
<1>8. Calls(u) = once \o FlattenSeq(each)
  BY DEF Calls, A, E, row
<1> HIDE DEF once, each
<1> DEFINE flat == FlattenSeq(each)
<1>9. /\ flat \in Seq(C)
      /\ \A d \in Range(flat) : \E p \in 1..N : d \in Range(row(p))
  BY <1>7, FlattenRange
<1>10. IsInjective(flat)
  <2>1. \A p \in DOMAIN each : IsInjective(each[p])
    BY <1>6, <1>7
  <2>2. \A p, q \in DOMAIN each : p # q => Range(each[p]) \cap Range(each[q]) = {}
    BY <1>4, <1>6, <1>7
  <2> QED
    BY <1>7, <2>1, <2>2, FlattenInjective
<1> HIDE DEF flat
<1>11. \A d \in Range(flat) : \E k \in DOMAIN u.each, p \in 1..N : d = E(k, p)
  BY <1>6, <1>9
<1>12. \A d \in Range(once) : \E k \in K : k \in DOMAIN u.once /\ d = A(k)
  BY <1>5
<1> HIDE DEF K
<1>13. Range(once) \cap Range(flat) = {}
  BY <1>4, <1>11, <1>12
<1>14. IsInjective(Calls(u)) /\ Range(Calls(u)) = Range(once) \cup Range(flat)
  <2>1. Calls(u) = once \o flat
    BY <1>8 DEF flat
  <2>2. IsInjective(once \o flat) /\ Range(once \o flat) = Range(once) \cup Range(flat)
    BY <1>5, <1>9, <1>10, <1>13, ConcatInjective, ConcatRange
  <2> QED
    BY <2>1, <2>2
<1>15. \A d \in Range(Calls(u)) :
          \/ \E k \in K : k \in DOMAIN u.once /\ d = A(k)
          \/ \E k \in DOMAIN u.each, p \in 1..N : d = E(k, p)
  BY <1>11, <1>12, <1>14
<1>16. ASSUME NEW c \in Range(Calls(u)), NEW d \in Range(Calls(u)), Id(c) = Id(d) PROVE c = d
  <2>1. c.list.name = d.list.name /\ c.path = d.path
    BY <1>16 DEF Id
  <2>2. CASE (\E k \in K : k \in DOMAIN u.once /\ c = A(k))
             /\ (\E k \in K : k \in DOMAIN u.once /\ d = A(k))
    BY <1>2, <1>3, <2>1, <2>2
  <2>3. CASE (\E k \in DOMAIN u.each, p \in 1..N : c = E(k, p))
             /\ (\E k \in DOMAIN u.each, p \in 1..N : d = E(k, p))
    <3>1. PICK j \in DOMAIN u.each, p \in 1..N : c = E(j, p)
      BY <2>3
    <3>2. PICK k \in DOMAIN u.each, q \in 1..N : d = E(k, q)
      BY <2>3
    <3>3. <<p>> = <<q>> /\ u.each[j].name = u.each[k].name
      BY <1>2, <2>1, <3>1, <3>2
    <3>4. p = q /\ j = k
      BY <1>3, <3>3
    <3> QED
      BY <3>1, <3>2, <3>4
  <2> QED
    BY <1>4, <1>15, <2>1, <2>2, <2>3
<1>17. \A d \in Range(Calls(u)) : d.list \in Range(Asked(u))
  BY <1>2, <1>3, <1>15
<1> QED
  BY <1>14, <1>15, <1>16, <1>17 DEF A, E

-----------------------------------------------------------------------------
(* Every step keeps the findings apart and whole *)

\* A list whose error drops what its unit has.
Drops(l) == "fail" \in {l.onErr, l.onCut}

\* No item is there twice, no call is made twice.
Distinct ==
    /\ IsInjective(items) /\ IsInjective(got) /\ IsInjective(work)
    /\ unit \in Nat
    /\ \A i \in Range(items) : i.unit < unit
    /\ \A i \in Range(got) : i.unit = unit
    /\ unit \in DOMAIN Units => Tidy(Asked(Units[unit]), Range(work), Range(got))

\* What was read whole is in hand; an error that drops something finds nothing.
Kept ==
    /\ whole \subseteq Range(items) \cup Range(got)
    /\ \A c \in Range(work) : Drops(c.list) => Range(work) = {c} /\ got = <<>>

Local == Distinct /\ Kept

\* A list that drops what its unit has is the only one the unit asks for, and is
\* below no other.
LEMMA DropsAlone ==
    ASSUME conf.src \in DOMAIN Programs, NEW k \in DOMAIN Units,
           NEW l \in ListsOf(Units[k]), Drops(l)
    PROVE  /\ Units[k].once = <<l>> /\ Units[k].each = <<>> /\ ~l.eager
           /\ \A m \in Range(Asked(Units[k])) : \A j \in DOMAIN m.kids : m.kids[j] # l
<1> DEFINE u == Units[k]
<1>1. u.once = <<l>> /\ u.each = <<>> /\ ~l.eager
  BY AskedApart DEF FailsAlone, Drops
<1>2. ASSUME NEW m \in Range(Asked(u)), NEW j \in DOMAIN m.kids, m.kids[j] = l
      PROVE  FALSE
  <2>1. Asked(u) = <<l>> \o <<>> \/ Asked(u) = <<>> \/ Asked(u) = <<l>>
    BY <1>1 DEF Asked
  <2>2. <<l>> \o <<>> = <<l>>
    OBVIOUS
  <2>3. Range(<<l>>) = {l} /\ Range(<<>>) = {}
    BY SingletonRange, EmptyRange
  <2>4. m = l
    BY <1>2, <2>1, <2>2, <2>3
  <2>5. l.kids[j].name # l.name
    BY <1>2, <2>4, AskedApart DEF NamedApart
  <2> QED
    BY <1>2, <2>4, <2>5
<1> QED
  BY <1>1, <1>2

LEMMA LocalInit == Init => Local
<1> SUFFICES ASSUME Init PROVE Local
  OBVIOUS
<1>1. unit = 0 /\ work = <<>> /\ got = <<>> /\ items = <<>> /\ whole = {}
  BY DEF Init
<1>2. unit \notin DOMAIN Units
  BY <1>1, UTypedInit, UnitsType DEF UTyped
<1>3. Range(<<>>) = {} /\ IsInjective(<<>>)
  BY EmptyRange
<1>4. Distinct
  BY <1>1, <1>2, <1>3 DEF Distinct
<1>5. Kept
  BY <1>1, <1>3 DEF Kept
<1> QED
  BY <1>4, <1>5 DEF Local

\* A list that is below the one in progress drops nothing.
LEMMA BelowDropsNone ==
    ASSUME UTyped, Local, Reading, NEW es \in Seq(Entry), Apart(es)
    PROVE  \A d \in Range(Below(Head(work), es)) : ~Drops(d.list)
<1> DEFINE c == Head(work)
           ls == Asked(Units[unit])
<1>1. /\ unit \in DOMAIN Units /\ c.path \in Path /\ c.list.kids \in Seq(Lists)
      /\ conf.src \in DOMAIN Programs
  BY InProgress DEF UTyped
<1>2. c \in Range(work) /\ OfUnit(ls, Range(work)) /\ NamedApart(ls)
  BY <1>1, InProgress, HeadTailRange, AskedApart DEF Local, Distinct, Tidy
<1>3. /\ \A j \in DOMAIN c.list.kids : c.list \in Range(ls)
      /\ \A i, j \in DOMAIN c.list.kids : c.list.kids[i].name = c.list.kids[j].name => i = j
  BY <1>2, KidsApart
<1>4. \A d \in Range(Below(c, es)) : \E k \in DOMAIN es, j \in DOMAIN c.list.kids :
         d = Call(c.list.kids[j], Append(c.path, es[k].at))
  BY <1>1, <1>3, BelowIs
<1> HIDE DEF c, ls
<1> SUFFICES ASSUME NEW d \in Range(Below(c, es)), Drops(d.list) PROVE FALSE
  BY DEF c
<1>5. PICK j \in DOMAIN c.list.kids : d.list = c.list.kids[j]
  BY <1>4 DEF Call
<1>6. d.list \in ListsOf(Units[unit])
  BY <1>1, <1>5 DEF Lists
<1>7. \A m \in Range(ls) : \A i \in DOMAIN m.kids : m.kids[i] # d.list
  BY <1>1, <1>6, DropsAlone DEF ls
<1> QED
  BY <1>3, <1>5, <1>7

LEMMA SettledLocal ==
    ASSUME UTyped, Local, Reading, UNCHANGED <<conf, pc, unit, items, results, err>>,
           NEW es, NEW policy, NEW missed, Settles(Head(work), es, policy, missed)
    PROVE  Local'
<1> DEFINE c == Head(work)
           ls == Asked(Units[unit])
           rest == Tail(work)
           B == Below(c, es)
           Y == Yield(c, es)
<1>1. /\ unit \in DOMAIN Units /\ unit \in Nat /\ c.list \in AnyList /\ c.path \in Path
      /\ c.list.kids \in Seq(Lists) /\ work \in Seq(CallOf(Lists)) /\ work # <<>>
  BY InProgress
<1>2. /\ es \in Seq(Entry) /\ Apart(es)
      /\ c.list.eager => \A n \in DOMAIN es : es[n].at[1] = c.page
      /\ policy = "fail" => Drops(c.list)
  BY DEF Settles, Drops
<1>3. /\ work' = IF policy \in {"fail", "return"} THEN <<>>
                 ELSE IF c.list.last
                      THEN rest \o (IF policy \in {"whole", "keep", "return"} THEN B ELSE <<>>)
                      ELSE (IF policy \in {"whole", "keep", "return"} THEN B ELSE <<>>) \o rest
      /\ got' = IF policy = "fail" THEN <<>>
                ELSE IF policy \in {"whole", "keep", "return"} THEN got \o Y ELSE got
      /\ whole' \subseteq whole \cup (IF policy = "whole" THEN Range(Y) ELSE {})
  BY DEF Settles, Settle
<1>4. /\ rest \in Seq(CallOf(Lists)) /\ Range(work) = {c} \cup Range(rest)
      /\ IsInjective(rest) /\ c \notin Range(rest)
  BY <1>1, HeadTailRange DEF Local, Distinct
<1>5. B \in Seq(CallOf(Lists))
  BY <1>1, <1>2, BelowType
<1>6. /\ Y \in Seq(Found) /\ IsInjective(Y)
      /\ \A i \in Range(Y) : i.unit = unit /\ IdOf(i) = Id(c)
  BY <1>1, <1>2, YieldIs DEF Item, IdOf, Id
<1>7. got \in Seq(Found) /\ Tidy(ls, Range(work), Range(got))
  BY <1>1 DEF UTyped, Local, Distinct
<1>8. Range(work') \subseteq Range(rest) \cup Range(B)
  <2>1. \A k \in DOMAIN work' :
           \/ \E j \in DOMAIN work \ {1} : work'[k] = work[j]
           \/ \E j \in DOMAIN B : work'[k] = B[j]
    BY SettledWork
  <2>2. /\ \A k \in DOMAIN rest : k \in Nat /\ rest[k] = work[k + 1]
        /\ \A k \in DOMAIN work \ {1} : k - 1 \in DOMAIN rest /\ k \in Nat
    BY <1>1, TailIndex
  <2>3. \A k \in DOMAIN work \ {1} : work[k] = rest[k - 1]
    BY <2>2
  <2> HIDE DEF rest, B
  <2> QED
    BY <2>1, <2>2, <2>3 DEF Range
<1>9. /\ IsInjective(got')
      /\ \A i \in Range(got') : i \in Range(got) \/ i \in Range(Y)
      /\ policy \in {"whole", "keep", "return"} => Range(Y) \subseteq Range(got')
      /\ policy # "fail" => Range(got) \subseteq Range(got')
  <2>1. IsInjective(got) /\ Range(got) \cap Range(Y) = {}
    <3>1. c \in Range(work)
      BY <1>4
    <3>2. \A i \in Range(got) : IdOf(i) # Id(c)
      BY <1>7, <3>1 DEF Tidy
    <3> QED
      BY <1>6, <3>2 DEF Local, Distinct
  <2>2. IsInjective(got \o Y) /\ Range(got \o Y) = Range(got) \cup Range(Y)
    BY <1>6, <1>7, <2>1, ConcatInjective, ConcatRange
  <2>3. got' \in {<<>>, got, got \o Y}
    BY <1>3
  <2> HIDE DEF Y
  <2> QED
    BY <1>3, <2>1, <2>2, <2>3, EmptyRange
<1>10. /\ Tidy(ls, Range(work'), Range(got'))
       /\ Range(B) \cap Range(rest) = {} /\ IsInjective(B)
  <2> DEFINE W == Range(work')
             G == Range(got')
  <2>1. Onward(es, FALSE, c, W, G)
    <3>1. \A d \in W : d \in Range(rest) \/ d \in Range(B)
      BY <1>8
    <3>2. \A i \in G : i \in Range(got) \/ IdOf(i) = Id(c)
      BY <1>6, <1>9
    <3> HIDE DEF W, G
    <3> QED
      BY <3>1, <3>2 DEF Onward
  <2>2. IsInjective(work)
    BY DEF Local, Distinct
  <2> HIDE DEF W, G
  <2>3. /\ Tidy(ls, W, G)
        /\ Range(B) \cap Range(rest) = {} /\ IsInjective(B)
    BY <1>2, <1>7, <2>1, <2>2, TidyOnward
  <2> QED
    BY <2>3 DEF W, G
<1>11. IsInjective(work')
  <2>1. IsInjective(B \o rest) /\ IsInjective(rest \o B)
    BY <1>4, <1>5, <1>10, ConcatInjective
  <2>2. rest \o <<>> = rest /\ <<>> \o rest = rest
    BY <1>4
  <2>3. work' \in {<<>>, rest, B \o rest, rest \o B}
    BY <1>3, <2>2
  <2> HIDE DEF rest, B
  <2> QED
    BY <1>4, <2>1, <2>3, EmptyRange
<1>12. ls' = ls /\ Units' = Units
  BY UnitsKept DEF Asked
<1>13. Distinct'
  <2>1. IsInjective(items') /\ \A i \in Range(items') : i.unit < unit'
    BY DEF Local, Distinct
  <2>2. \A i \in Range(got') : i.unit = unit'
    BY <1>6, <1>9 DEF Local, Distinct
  <2>3. Tidy(Asked(Units[unit]), Range(work), Range(got))'
    BY <1>10, <1>12
  <2> QED
    BY <1>1, <1>9, <1>11, <2>1, <2>2, <2>3 DEF Distinct
<1>14. whole' \subseteq Range(items') \cup Range(got')
  <2>1. whole \subseteq Range(items) \cup Range(got) /\ (Drops(c.list) => got = <<>>)
    BY <1>4 DEF Local, Kept
  <2>2. CASE policy = "fail"
    BY <1>2, <1>3, <2>1, <2>2, EmptyRange
  <2>3. CASE policy # "fail"
    BY <1>3, <1>9, <2>1, <2>3
  <2> QED
    BY <2>2, <2>3
<1>15. ASSUME NEW d \in Range(work'), Drops(d.list) PROVE FALSE
  <2>1. CASE d \in Range(rest)
    BY <1>4, <1>15, <2>1 DEF Local, Kept
  <2>2. CASE d \in Range(B)
    BY <1>2, <1>15, <2>2, BelowDropsNone
  <2> QED
    BY <1>8, <2>1, <2>2
<1>16. Kept'
  BY <1>14, <1>15 DEF Kept, Drops
<1> QED
  BY <1>13, <1>16 DEF Local

LEMMA OngoingLocal ==
    ASSUME UTyped, Local, Reading, UNCHANGED <<conf, pc, unit, items, results, err>>,
           NEW r \in Replies(Head(work)), GoesOn(Head(work), r)
    PROVE  Local'
<1> DEFINE c == Head(work)
           ls == Asked(Units[unit])
           rest == Tail(work)
           B == Below(c, r.batch)
           below == IF c.list.eager THEN B ELSE <<>>
           next == NextCall(c, Carried(c, r))
           C == CallOf(Lists)
<1>1. /\ unit \in DOMAIN Units /\ unit \in Nat /\ c.list \in Lists /\ c.path \in Path
      /\ c.list.kids \in Seq(Lists) /\ work \in Seq(C) /\ work # <<>> /\ c.page \in Nat
      /\ conf.src \in DOMAIN Programs
  BY InProgress DEF UTyped
<1>2. /\ r.batch \in Seq(Entry) /\ Apart(r.batch)
      /\ \A n \in DOMAIN r.batch : r.batch[n].at[1] = c.page
  <2>1. r.batch \in Seq(Entry) /\ \A n \in DOMAIN r.batch : r.batch[n].at = <<c.page, n>>
    BY <1>1, RepliesType
  <2>2. \A n \in DOMAIN r.batch : r.batch[n].at[1] = c.page /\ r.batch[n].at[2] = n
    BY <2>1
  <2> QED
    BY <2>1, <2>2 DEF Apart
<1>3. /\ work' = below \o <<next>> \o rest
      /\ got' = got /\ whole' = whole
  BY DEF GoesOn
<1>4. /\ rest \in Seq(C) /\ Range(work) = {c} \cup Range(rest)
      /\ IsInjective(rest) /\ c \notin Range(rest)
  BY <1>1, HeadTailRange DEF Local, Distinct
<1>5. B \in Seq(C)
  BY <1>1, <1>2, BelowType
<1>6. /\ next \in C /\ next.list = c.list /\ next.path = c.path /\ next.page = c.page + 1
  BY OngoingWork
<1>7. IsInjective(work) /\ Tidy(ls, Range(work), Range(got))
  BY <1>1 DEF Local, Distinct
<1> HIDE DEF c, ls, rest, B, C, next
<1>8. /\ below \in Seq(C) /\ Range(below) \subseteq Range(B)
      /\ Range(below) # {} => c.list.eager
      /\ IsInjective(B) => IsInjective(below)
  BY <1>5, EmptyRange
<1> HIDE DEF below
<1>9. <<next>> \in Seq(C) /\ Range(<<next>>) = {next} /\ IsInjective(<<next>>)
  BY <1>6, SingletonRange
<1> DEFINE front == below \o <<next>>
<1>10. front \in Seq(C) /\ Range(front) = Range(below) \cup {next}
  <2> DEFINE one == <<next>>
  <2>1. one \in Seq(C) /\ Range(one) = {next}
    BY <1>9
  <2> HIDE DEF one
  <2>2. below \o one \in Seq(C) /\ Range(below \o one) = Range(below) \cup Range(one)
    BY <1>8, <2>1, ConcatRange
  <2> QED
    BY <2>1, <2>2 DEF one
<1>11. work' = front \o rest
  BY <1>3
<1>12. next \notin Range(below) /\ IsInjective(below) => IsInjective(front)
  BY <1>8, <1>9, ConcatInjective
<1> HIDE DEF front
<1>13. Range(work') = Range(below) \cup {next} \cup Range(rest)
  BY <1>4, <1>10, <1>11, ConcatRange
<1>14. /\ Tidy(ls, Range(work'), Range(got))
       /\ Range(B) \cap Range(rest) = {} /\ IsInjective(B)
       /\ next \notin Range(B) /\ next \notin Range(rest)
  <2> DEFINE W == Range(work')
             G == Range(got)
  <2>1. Onward(r.batch, TRUE, next, W, G)
    <3>1. \A d \in W : \/ d \in Range(rest)
                       \/ d \in Range(B) /\ c.list.eager
                       \/ d = next
      BY <1>8, <1>13
    <3> HIDE DEF W
    <3> QED
      BY <1>6, <3>1 DEF Onward, c, rest, B
  <2> HIDE DEF W, G
  <2>2. Tidy(Asked(Units[unit]), Range(work), Range(got))
    BY <1>7 DEF ls
  <2>3. Head(work).list.eager => \A n \in DOMAIN r.batch : r.batch[n].at[1] = Head(work).page
    BY <1>2 DEF c
  <2>4. /\ Tidy(Asked(Units[unit]), W, G)
        /\ Range(Below(Head(work), r.batch)) \cap Range(Tail(work)) = {}
        /\ IsInjective(Below(Head(work), r.batch))
        /\ next \notin Range(Below(Head(work), r.batch)) /\ next \notin Range(Tail(work))
    BY <1>2, <1>7, <2>1, <2>2, <2>3, TidyOnward
  <2> QED
    BY <2>4 DEF ls, c, rest, B, W, G
<1>15. IsInjective(work')
  <2>1. IsInjective(front) /\ Range(front) \cap Range(rest) = {}
    BY <1>8, <1>10, <1>12, <1>14
  <2> QED
    BY <1>4, <1>10, <1>11, <2>1, ConcatInjective
<1>16. ls' = ls /\ Units' = Units
  BY UnitsKept DEF Asked, ls
<1>17. Distinct'
  <2>1. /\ IsInjective(items') /\ \A i \in Range(items') : i.unit < unit'
        /\ IsInjective(got') /\ \A i \in Range(got') : i.unit = unit'
    BY <1>3 DEF Local, Distinct
  <2>2. Tidy(Asked(Units[unit]), Range(work), Range(got))'
    BY <1>3, <1>14, <1>16 DEF ls
  <2> QED
    BY <1>1, <1>15, <2>1, <2>2 DEF Distinct
<1>18. \A d \in Range(work') : Drops(d.list) => Range(work') = {d} /\ got' = <<>>
  <2> SUFFICES ASSUME NEW d \in Range(work'), Drops(d.list)
               PROVE  Range(work') = {d} /\ got' = <<>>
    OBVIOUS
  <2>1. \A e \in Range(work) : Drops(e.list) => Range(work) = {e} /\ got = <<>>
    BY DEF Local, Kept
  <2>2. d \notin Range(rest)
    BY <1>4, <2>1
  <2>3. d \notin Range(B)
    BY <1>2, BelowDropsNone DEF B, c
  <2>4. d = next /\ Drops(c.list)
    BY <1>6, <1>8, <1>13, <2>2, <2>3
  <2>5. Range(rest) = {} /\ got = <<>>
    BY <1>4, <2>1, <2>4
  <2>6. ~c.list.eager
    BY <1>1, <2>4, DropsAlone DEF Lists
  <2> QED
    BY <1>3, <1>8, <1>13, <2>4, <2>5, <2>6
<1>19. Kept'
  BY <1>3, <1>18 DEF Local, Kept, Drops
<1> QED
  BY <1>17, <1>19 DEF Local

\* The calls of a unit that begins are its own; one that drops what there is
\* comes alone.
LEMMA NextWorkLocal ==
    ASSUME UTyped, NEW k
    PROVE  /\ IsInjective(NextWork(k))
           /\ k \in DOMAIN Units => Tidy(Asked(Units[k]), Range(NextWork(k)), {})
           /\ \A c \in Range(NextWork(k)) : Drops(c.list) => Range(NextWork(k)) = {c}
<1>1. CASE k \in DOMAIN Units /\ ~Skipped(Units[k])
  <2> DEFINE u == Units[k]
             ls == Asked(u)
             W == Range(Calls(u))
  <2>1. NextWork(k) = Calls(u)
    BY <1>1 DEF NextWork
  <2>2. /\ conf.src \in DOMAIN Programs /\ conf.parents \in Nat
        /\ NamedApart(ls) /\ u.once \in Seq(ListsOf(u)) /\ u.each \in Seq(ListsOf(u))
    BY <1>1, AskedApart DEF UTyped
  <2>3. /\ \A d \in W :
              /\ d.list \in Range(ls)
              /\ \/ \E n \in DOMAIN u.once : d = Call(u.once[n], <<>>)
                 \/ \E n \in DOMAIN u.each, p \in 1..conf.parents : d = Call(u.each[n], <<p>>)
        /\ \A c, d \in W : Id(c) = Id(d) => c = d
        /\ IsInjective(Calls(u))
    BY <2>2, CallsAre
  <2> HIDE DEF W, ls
  <2>4. Tidy(ls, W, {})
    <3>1. OfUnit(ls, W)
      BY <2>3 DEF OfUnit
    <3>2. ASSUME NEW c \in W, NEW x \in Known(W, {}) PROVE Past(c, x)
      <4>1. PICK d \in W : x = Id(d)
        BY <3>2 DEF Known
      <4>2. ASSUME NEW j \in DOMAIN c.list.kids, NEW at \in Place,
                   x = <<c.list.kids[j].name, Append(c.path, at)>>
            PROVE  FALSE
        <5>1. d.list.name = c.list.kids[j].name
          BY <4>1, <4>2 DEF Id
        <5> QED
          BY <2>2, <2>3, <5>1 DEF NamedApart
      <4> QED
        BY <4>2 DEF Past
    <3> QED
      BY <2>3, <3>1, <3>2 DEF Tidy
  <2>5. ASSUME NEW c \in W, Drops(c.list) PROVE W = {c}
    <3>1. c.list \in ListsOf(u)
      <4>1. \A n \in DOMAIN u.once : u.once[n] \in ListsOf(u)
        BY <2>2
      <4>2. \A n \in DOMAIN u.each : u.each[n] \in ListsOf(u)
        BY <2>2
      <4> QED
        BY <2>3, <4>1, <4>2 DEF Call
    <3>2. u.once = <<c.list>> /\ u.each = <<>>
      BY <1>1, <2>2, <2>5, <3>1, DropsAlone
    <3>3. DOMAIN u.once = {1} /\ u.once[1] = c.list /\ DOMAIN u.each = {}
      BY <3>2
    <3>4. \A d \in W : d = Call(c.list, <<>>)
      BY <2>3, <3>3
    <3> QED
      BY <3>4
  <2> QED
    BY <1>1, <2>1, <2>3, <2>4, <2>5 DEF W, ls
<1>2. CASE ~(k \in DOMAIN Units /\ ~Skipped(Units[k]))
  <2>1. NextWork(k) = <<>> /\ Range(<<>>) = {} /\ IsInjective(<<>>)
    BY <1>2, EmptyRange DEF NextWork
  <2>2. \A ls : Tidy(ls, {}, {})
    BY DEF Tidy, OfUnit, Known
  <2> QED
    BY <2>1, <2>2
<1> QED
  BY <1>1, <1>2

LEMMA UnitBeginsLocal ==
    ASSUME UTyped, Local, Begin \/ EndUnit
    PROVE  Local'
<1>1. /\ conf' = conf /\ unit' = unit + 1 /\ unit \in Nat
      /\ work' = NextWork(unit + 1) /\ got' = <<>> /\ whole' = whole
  BY UnitBegins
<1>2. Units' = Units
  BY <1>1, UnitsKept
<1>3. Range(got') = {} /\ IsInjective(got')
  BY <1>1, EmptyRange
<1>4. /\ IsInjective(work')
      /\ unit' \in DOMAIN Units' => Tidy(Asked(Units[unit]), Range(work), Range(got))'
      /\ \A c \in Range(work') : Drops(c.list) => Range(work') = {c}
  <2>1. Asked(Units[unit])' = Asked(Units[unit + 1])
    BY <1>1, <1>2 DEF Asked
  <2> QED
    BY <1>1, <1>2, <1>3, <2>1, NextWorkLocal
<1>5. /\ IsInjective(items') /\ \A i \in Range(items') : i.unit < unit'
      /\ Range(items) \cup Range(got) \subseteq Range(items')
  <2>1. CASE EndUnit
    <3>1. items \in Seq(Found) /\ got \in Seq(Found) /\ items' = items \o got
      BY <2>1 DEF UTyped, EndUnit, Gathered
    <3>2. /\ IsInjective(items) /\ IsInjective(got)
          /\ \A i \in Range(items) : i.unit < unit
          /\ \A i \in Range(got) : i.unit = unit
      BY DEF Local, Distinct
    <3>3. Range(items) \cap Range(got) = {}
      BY <1>1, <3>2
    <3>4. IsInjective(items') /\ Range(items') = Range(items) \cup Range(got)
      BY <3>1, <3>2, <3>3, ConcatInjective, ConcatRange
    <3>5. \A i \in Range(items) : i \in Found
      BY <3>1, RangeType
    <3>6. \A i \in Found : i.unit \in Nat
      BY DEF Found
    <3> QED
      BY <1>1, <3>2, <3>4, <3>5, <3>6
  <2>2. CASE Begin
    <3>1. items' = items /\ items = <<>> /\ got = <<>>
      BY <2>2, UnitBegins DEF Fresh
    <3> QED
      BY <3>1, EmptyRange
  <2> QED
    BY <2>1, <2>2
<1>6. Distinct'
  BY <1>1, <1>3, <1>4, <1>5 DEF Distinct
<1>7. Kept'
  <2>1. whole' \subseteq Range(items') \cup Range(got')
    BY <1>1, <1>5 DEF Local, Kept
  <2> QED
    BY <1>1, <1>4, <2>1 DEF Kept, Drops
<1> QED
  BY <1>6, <1>7 DEF Local

LEMMA LocalStep == UTyped /\ Local /\ [Next]_vars => Local'
<1> SUFFICES ASSUME UTyped, Local, [Next]_vars PROVE Local'
  OBVIOUS
<1>1. CASE Begin \/ EndUnit
  BY <1>1, UnitBeginsLocal
<1>2. CASE Answer
  BY <1>2, AnswerCases, SettledLocal, OngoingLocal
<1>3. CASE Deny
  BY <1>3, DenyCase, SettledLocal
<1>4. CASE Refuse \/ Return \/ Ask \/ Tick \/ UNCHANGED vars
  <2>1. UNCHANGED <<conf, unit, work, got, items, whole>>
    BY <1>4 DEF Refuse, Return, Ask, Tick, vars, unitVars, outVars, history
  <2>2. Units' = Units /\ Asked(Units[unit])' = Asked(Units[unit])
    BY <2>1, UnitsKept DEF Asked
  <2>3. Distinct'
    BY <2>1, <2>2 DEF Local, Distinct
  <2>4. Kept'
    BY <2>1 DEF Local, Kept, Drops
  <2> QED
    BY <2>3, <2>4 DEF Local
<1> QED
  BY <1>1, <1>2, <1>3, <1>4 DEF Next

\* One denied permission does not lose the others' findings, in any program that
\* is sound, with any number of parents, pages and failures: what was read to its
\* end is returned, and nothing is returned twice.
THEOREM DenialStaysLocal == Spec => []DenialIsLocal
<1>1. Spec => []Local
  BY LocalInit, LocalStep, UTypedAlways, PTL DEF Spec
<1>2. UTyped /\ Local => DenialIsLocal
  <2> SUFFICES ASSUME UTyped, Local, pc = "done"
               PROVE  whole \subseteq Range(items) /\ IsInjective(items)
    BY DEF DenialIsLocal
  <2>1. got = <<>>
    <3>1. conf.src \in DOMAIN Programs
      BY DEF UTyped
    <3>2. unit = Len(Units) + 1 => unit \notin DOMAIN Units
      BY <3>1, UnitsType
    <3> QED
      BY <3>2 DEF UTyped, Fresh
  <2> QED
    BY <2>1, EmptyRange DEF Local, Distinct, Kept
<1> QED
  BY <1>1, <1>2, UTypedAlways, PTL
=============================================================================
