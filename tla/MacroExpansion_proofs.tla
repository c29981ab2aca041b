------------------------ MODULE MacroExpansion_proofs ------------------------
(***************************************************************************)
(* Theorems about MacroExpansion for every table of macros and every text: *)
(* the types, the counts that end the scans, what a splice leaves alone,   *)
(* and how deep expansions nest.                                           *)
(***************************************************************************)
EXTENDS MacroExpansion, AbiLemmas, SequenceTheorems, FiniteSetTheorems

Frames == TextFrame \cup CallFrame \cup ArgFrame \cup RescanFrame
Arrays == [toks : Seq(Tokens), pos : Nat]

(* The array that frame i of fs works on: one more for each argument.      *)
ArgsUpTo(fs, i) == {j \in 1..i : fs[j].what = "arg"}
ArrayOf(fs, i) == 1 + Cardinality(ArgsUpTo(fs, i))

(* What does not depend on the counts: the types, and where invocations    *)
(* in progress stand.                                                      *)
ArraysOK(ars) ==
  /\ ars \in Seq(Arrays)
  /\ \A a \in DOMAIN ars : ars[a].pos \in 1..(Len(ars[a].toks) + 1)

FramesOK(fs) ==
  /\ fs \in Seq(Frames) /\ fs # <<>>
  /\ \A i \in DOMAIN fs : fs[i].what = "text" <=> i = 1
  /\ \A i \in 2..Len(fs) : fs[i].what = "arg" <=> fs[i - 1].what = "call"

CallAt(f, a) ==
  /\ f.start = a.pos /\ f.end \in (f.start + 1)..(Len(a.toks) + 1)
  /\ a.toks[f.end - 1].kind = ")"
CallsOK(ars, fs) ==
  \A i \in DOMAIN fs : fs[i].what = "call" => CallAt(fs[i], ars[ArrayOf(fs, i)])

(* The text's own array: its last line is complete.                        *)
TailOK(a) ==
  LET n == Len(a.toks) IN
  /\ n >= 1 /\ a.toks[n].kind = "eof"
  /\ a.pos < n => n >= 2 /\ a.toks[n - 1].kind = "nl"

TablesOK ==
  /\ DOMAIN macros \subseteq Texts /\ IsFiniteSet(DOMAIN macros)
  /\ \A name \in DOMAIN macros : macros[name] \in Macros
  /\ skip_newline \in BOOLEAN /\ source \in Seq(Tokens)
  /\ at_start \in BOOLEAN
  /\ status \in {"run", "done", "fatal", "overrun", "overflow"}

PlacedAt(ars, fs) ==
  /\ ArraysOK(ars) /\ FramesOK(fs)
  /\ ArrayOf(fs, Len(fs)) = Len(ars)
  /\ CallsOK(ars, fs) /\ TailOK(ars[1])
Placed == TablesOK /\ PlacedAt(arrays, frames)

(* The counts.  Below(f) tokens stand behind what f may take; a scan that  *)
(* waits for another one has what it will find when that one returns.      *)
Scans == {"arg", "rescan"}
Below(f) == IF f.what = "rescan" THEN f.rest ELSE 0
Left(f) == f.count - f.processed
Remaining(a) == Len(a.toks) + 1 - a.pos
BalancedAt(ars, fs, i) ==
  LET f == fs[i]
      a == ars[ArrayOf(fs, i)]
  IN  /\ f.processed <= f.count
      /\ i = Len(fs) => Remaining(a) = Left(f) + Below(f)
      /\ i < Len(fs) /\ fs[i + 1].what = "call" =>
           Remaining(a) = Left(f) + Below(f) /\ fs[i + 1].end <= Len(a.toks) + 1 - Below(f)
      /\ i < Len(fs) /\ fs[i + 1].what = "rescan" =>
           /\ fs[i + 1].before <= Left(f)
           /\ fs[i + 1].rest = Left(f) - fs[i + 1].before + Below(f)
BalancedIn(ars, fs) == \A i \in DOMAIN fs : fs[i].what \in Scans => BalancedAt(ars, fs, i)
Balanced == BalancedIn(arrays, frames) /\ status # "overrun"

(* The names of expansions in progress: macros, and none of them again     *)
(* within its own expansion.                                               *)
Named(fs, names) ==
  \A i \in DOMAIN fs : fs[i].what \in {"call", "rescan"} => fs[i].name \in names
Apart(fs) ==
  \A i, j \in DOMAIN fs :
    i < j /\ fs[i].what = "rescan" /\ fs[j].what \in {"call", "rescan"} => fs[i].name # fs[j].name
NamesApart == Named(frames, DOMAIN macros) /\ Apart(frames)
----------------------------------------------------------------------------
(* Sequences: one whose last element is another, one with a piece replaced *)
(* (replace_pp_tokens), and pieces put together.                           *)
LEMMA FrontFacts ==
  ASSUME NEW S, NEW s \in Seq(S), s # <<>>, NEW x \in S
  PROVE  /\ Len(s) \in Nat \ {0} /\ Last(s) = s[Len(s)] /\ Last(s) \in S
         /\ Front(s) \in Seq(S) /\ Len(Front(s)) = Len(s) - 1
         /\ \A k \in 1..Len(s) - 1 : Front(s)[k] = s[k]
         /\ Append(Front(s), x) \in Seq(S) /\ Len(Append(Front(s), x)) = Len(s)
         /\ Append(Front(s), x)[Len(s)] = x
         /\ \A k \in 1..Len(s) - 1 : Append(Front(s), x)[k] = s[k]
<1> DEFINE f == Front(s)
           n == Len(s)
<1>1. n \in Nat \ {0} /\ \A k \in 1..n : s[k] \in S
  BY EmptySeq
<1> HIDE DEF n
<1>2. f = SubSeq(s, 1, n - 1)
  BY DEF Front, n
<1>3. n - 1 \in Int /\ \A k \in 1..n - 1 : s[k] \in S
  BY <1>1
<1>4. /\ f \in Seq(S)
      /\ Len(f) = IF 1 <= n - 1 THEN n - 1 - 1 + 1 ELSE 0
      /\ \A k \in 1..(n - 1 - 1 + 1) : f[k] = s[1 + k - 1]
  <2> HIDE DEF f
  <2> QED  BY <1>2, <1>3, SubSeqProperties
<1> HIDE DEF f
<1>5. Len(f) = n - 1 /\ \A k \in 1..n - 1 : f[k] = s[k]
  <2>1. n - 1 - 1 + 1 = n - 1 /\ \A k \in 1..n - 1 : 1 + k - 1 = k
    BY <1>1
  <2>2. (IF 1 <= n - 1 THEN n - 1 - 1 + 1 ELSE 0) = n - 1
    BY <1>1
  <2> QED  BY <1>4, <2>1, <2>2
<1>6. /\ Append(f, x) \in Seq(S) /\ Len(Append(f, x)) = n /\ Append(f, x)[n] = x
      /\ \A k \in 1..n - 1 : Append(f, x)[k] = s[k]
  BY <1>1, <1>4, <1>5
<1>7. Last(s) = s[n] /\ s[n] \in S
  BY <1>1 DEF Last, n
<1> QED  BY <1>1, <1>4, <1>5, <1>6, <1>7 DEF f, n

LEMMA ReplaceFacts ==
  ASSUME NEW S, NEW s \in Seq(S), NEW by \in Seq(S),
         NEW from \in 1..Len(s) + 1, NEW to \in from..Len(s) + 1
  PROVE  /\ Replace(s, from, to, by) \in Seq(S)
         /\ Len(Replace(s, from, to, by)) = Len(s) - (to - from) + Len(by)
         /\ \A i \in 1..from - 1 : Replace(s, from, to, by)[i] = s[i]
         /\ \A i \in 0..Len(s) - to :
              Replace(s, from, to, by)[Len(Replace(s, from, to, by)) - i] = s[Len(s) - i]
<1> DEFINE a == SubSeq(s, 1, from - 1)
           c == SubSeq(s, to, Len(s))
           n == Len(s)
           b == Len(by)
<1>1. n \in Nat /\ b \in Nat /\ from \in Nat /\ to \in Nat /\ 1 <= from /\ from <= to /\ to <= n + 1
  OBVIOUS
<1>2. \A k \in 1..n : s[k] \in S
  OBVIOUS
<1> HIDE DEF n, b
<1>3. a \in Seq(S) /\ Len(a) = from - 1 /\ \A i \in 1..from - 1 : a[i] = s[i]
  <2>1. \A k \in 1..from - 1 : s[k] \in S
    BY <1>1, <1>2
  <2>2. /\ a \in Seq(S) /\ Len(a) = IF 1 <= from - 1 THEN from - 1 - 1 + 1 ELSE 0
        /\ \A i \in 1..from - 1 - 1 + 1 : a[i] = s[1 + i - 1]
    BY <1>1, <2>1, SubSeqProperties
  <2> HIDE DEF a
  <2>3. from - 1 - 1 + 1 = from - 1 /\ \A i \in 1..from - 1 : 1 + i - 1 = i
    BY <1>1
  <2>4. (IF 1 <= from - 1 THEN from - 1 - 1 + 1 ELSE 0) = from - 1
    BY <1>1
  <2> QED  BY <2>2, <2>3, <2>4
<1>4. c \in Seq(S) /\ Len(c) = n - to + 1 /\ \A i \in 1..n - to + 1 : c[i] = s[to + i - 1]
  <2>1. \A k \in to..n : s[k] \in S
    BY <1>1, <1>2
  <2>2. /\ c \in Seq(S) /\ Len(c) = IF to <= n THEN n - to + 1 ELSE 0
        /\ \A i \in 1..n - to + 1 : c[i] = s[to + i - 1]
    BY <1>1, <2>1, SubSeqProperties DEF n
  <2> HIDE DEF c
  <2>3. (IF to <= n THEN n - to + 1 ELSE 0) = n - to + 1
    BY <1>1
  <2> QED  BY <2>2, <2>3
<1> DEFINE r == (a \o by) \o c
<1>5. Replace(s, from, to, by) = r
  BY DEF Replace
<1> HIDE DEF a, c
<1>6. /\ a \o by \in Seq(S) /\ Len(a \o by) = from - 1 + b
      /\ \A i \in 1..from - 1 : (a \o by)[i] = a[i]
  <2>1. /\ a \o by \in Seq(S) /\ Len(a \o by) = Len(a) + Len(by)
        /\ \A i \in 1..Len(a) + Len(by) : (a \o by)[i] = IF i <= Len(a) THEN a[i] ELSE by[i - Len(a)]
    BY <1>3, ConcatProperties
  <2>2. \A i \in 1..from - 1 : i \in 1..from - 1 + b /\ i <= from - 1
    BY <1>1
  <2> QED  BY <1>3, <2>1, <2>2 DEF b
<1>7. /\ r \in Seq(S) /\ Len(r) = from - 1 + b + (n - to + 1)
      /\ \A i \in 1..from - 1 + b + (n - to + 1) :
           r[i] = IF i <= from - 1 + b THEN (a \o by)[i] ELSE c[i - (from - 1 + b)]
  <2>1. /\ r \in Seq(S) /\ Len(r) = Len(a \o by) + Len(c)
        /\ \A i \in 1..Len(a \o by) + Len(c) :
             r[i] = IF i <= Len(a \o by) THEN (a \o by)[i] ELSE c[i - Len(a \o by)]
    <3> DEFINE e == a \o by
    <3>1. e \in Seq(S)
      BY <1>6
    <3> HIDE DEF e
    <3>2. /\ e \o c \in Seq(S) /\ Len(e \o c) = Len(e) + Len(c)
          /\ \A i \in 1..Len(e) + Len(c) : (e \o c)[i] = IF i <= Len(e) THEN e[i] ELSE c[i - Len(e)]
      BY <1>4, <3>1, ConcatProperties
    <3> QED  BY <3>2 DEF e
  <2> HIDE DEF r
  <2> QED  BY <1>4, <1>6, <2>1
<1> HIDE DEF r
<1>8. Len(r) = n - (to - from) + b
  BY <1>1, <1>7
<1>9. \A i \in 1..from - 1 : r[i] = s[i]
  BY <1>1, <1>3, <1>6, <1>7
<1>10. ASSUME NEW i \in 0..n - to  PROVE r[Len(r) - i] = s[n - i]
  <2> DEFINE k == Len(r) - i
  <2>1. k \in 1..from - 1 + b + (n - to + 1) /\ ~(k <= from - 1 + b)
    BY <1>1, <1>7
  <2>2. k - (from - 1 + b) = (n - to + 1) - i
    BY <1>1, <1>7
  <2>3. (n - to + 1) - i \in 1..n - to + 1 /\ to + ((n - to + 1) - i) - 1 = n - i
    BY <1>1
  <2> HIDE DEF k
  <2>4. r[k] = s[n - i]
    BY <1>4, <1>7, <2>1, <2>2, <2>3
  <2> QED  BY <2>4 DEF k
<1> QED  BY <1>5, <1>7, <1>8, <1>9, <1>10 DEF n, b

LEMMA FlattenType ==
  ASSUME NEW S, NEW ss \in Seq(Seq(S))
  PROVE  FlattenSeq(ss) \in Seq(S)
<1> DEFINE n == Len(ss)
           Is(f) == f = [i \in 1..n |-> IF i = 1 THEN ss[i] ELSE f[i - 1] \o ss[i]]
<1>1. CASE n = 0
  <2>1. ss = <<>>
    BY <1>1, EmptySeq
  <2> QED  BY <1>1, <2>1 DEF FlattenSeq
<1>2. CASE n # 0
  <2>1. n \in Nat /\ n - 1 \in Nat /\ n \in 1..n /\ \A i \in 1..n : ss[i] \in Seq(S)
    BY <1>2
  <2> DEFINE next == [k \in 1..n - 1 |-> [t \in Seq(S) |-> t \o ss[k + 1]]]
  <2> HIDE DEF n
  <2>2. \A k \in 1..n - 1 : k + 1 \in 1..n
    BY <2>1
  <2>3. \A k \in 1..n - 1 : \A t \in Seq(S) : next[k][t] = t \o ss[k + 1] /\ next[k][t] \in Seq(S)
    BY <2>1, <2>2, ConcatProperties
  <2>4. PICK after : NumberedTurnsOf(after, next, ss[1], n - 1) /\ \A k \in 0..n - 1 : after[k] \in Seq(S)
    <3>1. ss[1] \in Seq(S)
      BY <2>1
    <3>2. \A k \in 1..n - 1 : \A t \in Seq(S) : next[k][t] \in Seq(S)
      BY <2>3
    <3> HIDE DEF next
    <3> QED  BY <2>1, <3>1, <3>2, NumberedTurnsExist
  <2> HIDE DEF next
  <2>5. \E f : Is(f)
    <3> DEFINE f == [i \in 1..n |-> after[i - 1]]
    <3>1. ASSUME NEW i \in 1..n  PROVE f[i] = IF i = 1 THEN ss[i] ELSE f[i - 1] \o ss[i]
      <4>1. CASE i = 1
        <5>1. 0 \in 0..n - 1
          BY <2>1
        <5>2. after[0] = ss[1]
          BY <2>4, <5>1 DEF NumberedTurnsOf
        <5> QED  BY <4>1, <5>2
      <4>2. CASE i # 1
        <5>1. i - 1 \in 0..n - 1 /\ i - 1 # 0 /\ i - 1 \in 1..n - 1 /\ i - 1 \in 1..n
              /\ (i - 1) - 1 \in 0..n - 1 /\ (i - 1) + 1 = i
          BY <2>1, <4>2
        <5>2. after[i - 1] = next[i - 1][after[(i - 1) - 1]]
          BY <2>4, <5>1 DEF NumberedTurnsOf
        <5>3. after[i - 1] = after[(i - 1) - 1] \o ss[i]
          BY <2>3, <2>4, <5>1, <5>2
        <5>4. f[i] = after[i - 1] /\ f[i - 1] = after[(i - 1) - 1]
          BY <5>1
        <5> QED  BY <4>2, <5>3, <5>4
      <4> QED  BY <4>1, <4>2
    <3> DEFINE u(i) == f[i]
    <3>2. f = [i \in 1..n |-> u(i)]
      OBVIOUS
    <3>3. \A i \in 1..n : u(i) = IF i = 1 THEN ss[i] ELSE f[i - 1] \o ss[i]
      BY <3>1
    <3>4. Is(f)
      <4> HIDE DEF f
      <4> QED  BY <3>2, <3>3
    <3> QED  BY <3>4
  <2> DEFINE g == CHOOSE f : Is(f)
  <2>6. Is(g)
    <3> HIDE DEF Is
    <3> QED  BY <2>5
  <2>7. FlattenSeq(ss) = g[n]
    BY <1>2, Zenon DEF FlattenSeq, n
  <2> HIDE DEF g
  <2>10. \A i \in 1..n : g[i] = IF i = 1 THEN ss[i] ELSE g[i - 1] \o ss[i]
    BY <2>6
  <2> HIDE DEF Is
  <2>8. \A k \in 0..n - 1 : g[k + 1] \in Seq(S)
    <3> DEFINE h == [k \in 0..n - 1 |-> g[k + 1]]
    <3>1. \A k \in 0..n - 1 : h[k] = g[k + 1] /\ k + 1 \in 1..n /\ (k # 0 => k + 1 # 1 /\ (k + 1) - 1 = k)
      BY <2>1
    <3>2. 0 \in 0..n - 1 /\ \A k \in 1..n - 1 : k \in 0..n - 1 /\ k - 1 \in 0..n - 1 /\ k # 0 /\ (k - 1) + 1 = k
      BY <2>1
    <3> HIDE DEF h
    <3>3. h[0] \in Seq(S)
      <4>1. 0 + 1 = 1 /\ 1 \in 1..n
        BY <2>1
      <4>2. g[1] = ss[1]
        BY <2>10, <4>1
      <4> QED  BY <2>1, <3>1, <3>2, <4>1, <4>2
    <3>4. ASSUME NEW k \in 1..n - 1, h[k - 1] \in Seq(S)  PROVE h[k] \in Seq(S)
      <4>1. g[k + 1] = g[k] \o ss[k + 1]
        BY <2>10, <3>1, <3>2
      <4>2. h[k - 1] = g[k]
        BY <3>1, <3>2
      <4>3. ss[k + 1] \in Seq(S)
        BY <2>1, <2>2
      <4>4. g[k] \o ss[k + 1] \in Seq(S)
        BY <3>4, <4>2, <4>3, ConcatProperties
      <4> QED  BY <3>1, <3>2, <4>1, <4>4
    <3>5. \A k \in 0..n - 1 : h[k] \in Seq(S)
      BY <2>1, <3>3, <3>4, TurnsStay
    <3> QED  BY <3>1, <3>5
  <2>9. n - 1 \in 0..n - 1 /\ (n - 1) + 1 = n
    BY <2>1
  <2> QED  BY <2>7, <2>8, <2>9
<1> QED  BY <1>1, <1>2
----------------------------------------------------------------------------
(* The first and the last of a set of places.                              *)
LEMMA MinIs ==
  ASSUME NEW T, T \subseteq Nat, T # {}
  PROVE  Min(T) \in T /\ \A j \in T : Min(T) <= j
<1>1. PICK i \in T : \A j \in T : i <= j
  BY FirstExists
<1> QED  BY <1>1 DEF Min

LEMMA MaxIs ==
  ASSUME NEW n \in Nat, NEW T, T \subseteq 0..n, T # {}
  PROVE  Max(T) \in T /\ \A j \in T : j <= Max(T)
<1>1. PICK i \in T : \A j \in T : j <= i
  BY LastExists
<1> QED  BY <1>1 DEF Max

LEMMA NeighboursAre ==
  ASSUME NEW s \in Seq(Tokens), NEW i \in 1..Len(s)
  PROVE  LeftOf(s, i) \in 0..i - 1 /\ RightOf(s, i) \in {0} \cup (i + 1)..Len(s)
<1>1. LeftOf(s, i) \in 0..i - 1
  <2> DEFINE T == {0} \cup {j \in 1..(i - 1) : s[j].kind # "ws"}
  <2>1. T \subseteq 0..i - 1 /\ T # {} /\ i - 1 \in Nat
    OBVIOUS
  <2>2. Max(T) \in T
    <3> HIDE DEF T
    <3> QED  BY <2>1, MaxIs
  <2>3. LeftOf(s, i) = Max(T)
    BY DEF LeftOf
  <2> HIDE DEF T
  <2> QED  BY <2>1, <2>2, <2>3
<1>2. RightOf(s, i) \in {0} \cup (i + 1)..Len(s)
  <2> DEFINE T == {j \in (i + 1)..Len(s) : s[j].kind # "ws"}
  <2>1. T \subseteq (i + 1)..Len(s) /\ T \subseteq Nat
    OBVIOUS
  <2>2. RightOf(s, i) = IF T = {} THEN 0 ELSE Min(T)
    BY DEF RightOf
  <2>3. T # {} => Min(T) \in T
    <3> HIDE DEF T
    <3> QED  BY <2>1, MinIs
  <2> HIDE DEF T
  <2> QED  BY <2>1, <2>2, <2>3
<1> QED  BY <1>1, <1>2

LEMMA ParamIs ==
  ASSUME NEW m \in Macros, NEW t
  PROVE  macro_find_param(m, t) \in Nat
<1> DEFINE T == {i \in DOMAIN m.params : m.params[i] = t.text}
<1>1. T \subseteq Nat
  <2>1. m.params \in Seq(Texts)
    BY DEF Macros
  <2> QED  BY <2>1
<1>2. T # {} => Min(T) \in Nat
  <2> HIDE DEF T
  <2> QED  BY <1>1, MinIs
<1>3. (\E i \in DOMAIN m.params : m.params[i] = t.text) => T # {}
  OBVIOUS
<1>4. macro_find_param(m, t) = 0 \/ (T # {} /\ macro_find_param(m, t) = Min(T))
  <2> QED  BY <1>3 DEF macro_find_param
<1> HIDE DEF T
<1> QED  BY <1>2, <1>4

LEMMA NoExpandIs ==
  ASSUME NEW m \in Macros
  PROVE  no_expand(m) \subseteq Nat
BY ParamIs DEF no_expand

LEMMA TokenIs ==
  ASSUME NEW k \in TokenKinds, NEW t \in Texts
  PROVE  Token(k, t) \in Tokens
BY DEF Token, Tokens

LEMMA WordlessIs ==
  ASSUME NEW k \in TokenKinds
  PROVE  Token(k, <<>>) \in Tokens
<1>1. <<>> \in Texts
  BY DEF Texts
<1> QED  BY <1>1, TokenIs

LEMMA OneToken ==
  ASSUME NEW t \in Tokens
  PROVE  <<t>> \in Seq(Tokens) /\ Len(<<t>>) = 1
OBVIOUS

LEMMA AsSequence ==
  ASSUME NEW S, NEW n \in Nat, NEW f \in [1..n -> S]
  PROVE  f \in Seq(S) /\ Len(f) = n /\ DOMAIN f = 1..n
OBVIOUS

LEMMA StringifiedIs ==
  ASSUME NEW arg \in Seq(Tokens)
  PROVE  stringify_tokens(arg) \in Tokens
<1> DEFINE f == [i \in DOMAIN arg |-> arg[i].text]
<1>1. DOMAIN arg = 1..Len(arg) /\ Len(arg) \in Nat /\ \A i \in 1..Len(arg) : arg[i] \in Tokens
  OBVIOUS
<1>2. f \in Seq(Texts)
  <2>1. \A t \in Tokens : t.text \in Texts
    BY DEF Tokens
  <2>2. f \in [1..Len(arg) -> Texts]
    BY <1>1, <2>1
  <2> HIDE DEF f
  <2> QED  BY <1>1, <2>2, AsSequence
<1>3. FlattenSeq(f) \in Texts
  <2> HIDE DEF f
  <2> QED  BY <1>2, FlattenType DEF Texts
<1>4. "str" \in TokenKinds
  BY DEF TokenKinds
<1> QED  BY <1>3, <1>4, TokenIs DEF stringify_tokens

LEMMA ConcatenatedIs ==
  ASSUME NEW l \in Tokens, NEW r \in Tokens
  PROVE  concat_two_tokens(l, r) \in Tokens
<1>1. l.text \o r.text \in Texts
  BY ConcatProperties DEF Tokens, Texts
<1>2. "int" \in TokenKinds /\ "ident" \in TokenKinds
  BY DEF TokenKinds
<1> DEFINE t == l.text \o r.text
<1>3. Token("int", t) \in Tokens /\ Token("ident", t) \in Tokens
  <2> HIDE DEF t
  <2> QED  BY <1>1, <1>2, TokenIs DEF t
<1>4. \/ concat_two_tokens(l, r) = l \/ concat_two_tokens(l, r) = r
      \/ concat_two_tokens(l, r) = Token("int", t) \/ concat_two_tokens(l, r) = Token("ident", t)
  BY DEF concat_two_tokens
<1> HIDE DEF t
<1> QED  BY <1>3, <1>4

(* Parameter substitution and the ## operators yield tokens.               *)
LEMMA SubstitutedIs ==
  ASSUME NEW m \in Macros, NEW args \in Seq(Seq(Tokens))
  PROVE  substituted(m, args) \in Seq(Tokens)
<1> DEFINE operand(i) == IF m.body[i].kind = "hash" THEN RightOf(m.body, i) ELSE 0
           strings == {i \in DOMAIN m.body : operand(i) # 0 /\ macro_find_param(m, m.body[operand(i)]) # 0}
           gone == UNION {(i + 1)..operand(i) : i \in strings}
           Piece(i) ==
             LET p == macro_find_param(m, m.body[IF i \in strings THEN operand(i) ELSE i])
             IN  IF i \in gone THEN <<>>
                 ELSE IF i \in strings
                 THEN <<stringify_tokens(IF p \in DOMAIN args THEN args[p] ELSE <<>>)>>
                 ELSE IF p # 0 THEN argument(args, p) ELSE <<m.body[i]>>
           ss == [i \in DOMAIN m.body |-> Piece(i)]
<1>1. /\ DOMAIN m.body = 1..Len(m.body) /\ Len(m.body) \in Nat
      /\ \A i \in 1..Len(m.body) : m.body[i] \in Tokens
  <2>1. m.body \in Seq(Tokens)
    BY DEF Macros
  <2> QED  BY <2>1
<1>2. <<>> \in Seq(Tokens) /\ \A p \in DOMAIN args : args[p] \in Seq(Tokens)
  <2>1. DOMAIN args = 1..Len(args)
    OBVIOUS
  <2> QED  BY <2>1
<1>3. \A p : argument(args, p) \in Seq(Tokens)
  <2>1. Token("placemarker", <<>>) \in Tokens
    BY WordlessIs DEF TokenKinds
  <2>2. <<Token("placemarker", <<>>)>> \in Seq(Tokens)
    BY <2>1, OneToken
  <2> QED  BY <1>2, <2>2 DEF argument
<1>4. \A p : <<stringify_tokens(IF p \in DOMAIN args THEN args[p] ELSE <<>>)>> \in Seq(Tokens)
  <2>1. \A a \in Seq(Tokens) : <<stringify_tokens(a)>> \in Seq(Tokens)
    BY StringifiedIs, OneToken
  <2> QED  BY <1>2, <2>1
<1>5. ASSUME NEW i \in 1..Len(m.body)  PROVE Piece(i) \in Seq(Tokens)
  <2>1. <<m.body[i]>> \in Seq(Tokens)
    BY <1>1, OneToken
  <2> HIDE DEF operand, strings, gone
  <2> QED  BY <1>2, <1>3, <1>4, <2>1
<1>6. ss \in [1..Len(m.body) -> Seq(Tokens)]
  <2> HIDE DEF Piece
  <2> QED  BY <1>1, <1>5
<1>7. substituted(m, args) = FlattenSeq(ss)
  BY DEF substituted
<1> HIDE DEF ss
<1>8. ss \in Seq(Seq(Tokens))
  BY <1>1, <1>6, AsSequence
<1> QED  BY <1>7, <1>8, FlattenType

Pastes == [ok : BOOLEAN, from : Nat \ {0}, toks : Seq(Tokens)]

LEMMA PasteNextIs ==
  ASSUME NEW u \in Pastes
  PROVE  paste_next(u) \in Pastes
<1> DEFINE ops == {i \in u.from..Len(u.toks) : u.toks[i].kind = "hashhash"}
           q   == Min(ops)
           l   == LeftOf(u.toks, q)
           r   == RightOf(u.toks, q)
           c   == concat_two_tokens(u.toks[l], u.toks[r])
           t   == Replace(u.toks, l, r + 1, <<c>>)
<1>1. u.toks \in Seq(Tokens) /\ u.from \in Nat \ {0} /\ u.ok \in BOOLEAN /\ Len(u.toks) \in Nat
  BY DEF Pastes
<1>2. paste_next(u) =
        IF ~u.ok \/ ops = {} THEN u
        ELSE IF l = 0 \/ r = 0 THEN [u EXCEPT !.ok = FALSE]
        ELSE [ok |-> TRUE, from |-> l + 1, toks |-> t]
  BY DEF paste_next
<1>3. [u EXCEPT !.ok = FALSE] \in Pastes
  BY DEF Pastes
<1>4. ASSUME ops # {}, l # 0, r # 0  PROVE t \in Seq(Tokens) /\ l + 1 \in Nat \ {0}
  <2>1. ops \subseteq 1..Len(u.toks) /\ ops \subseteq Nat
    BY <1>1
  <2>2. q \in 1..Len(u.toks)
    <3>1. q \in ops
      <4> HIDE DEF ops
      <4> QED  BY <1>4, <2>1, MinIs
    <3> HIDE DEF q, ops
    <3> QED  BY <2>1, <3>1
  <2> HIDE DEF q
  <2>3. l \in 0..q - 1 /\ r \in {0} \cup (q + 1)..Len(u.toks)
    BY <1>1, <2>2, NeighboursAre
  <2> HIDE DEF l, r
  <2>4. l \in 1..Len(u.toks) /\ r \in 1..Len(u.toks) /\ l \in 1..Len(u.toks) + 1 /\ r + 1 \in l..Len(u.toks) + 1
    BY <1>1, <1>4, <2>2, <2>3
  <2>5. u.toks[l] \in Tokens /\ u.toks[r] \in Tokens
    BY <1>1, <2>4
  <2>6. <<c>> \in Seq(Tokens)
    BY <2>5, ConcatenatedIs, OneToken
  <2> HIDE DEF c
  <2>7. \A from \in 1..Len(u.toks) + 1 : \A to \in from..Len(u.toks) + 1 :
          Replace(u.toks, from, to, <<c>>) \in Seq(Tokens)
    BY <1>1, <2>6, ReplaceFacts
  <2> QED  BY <2>4, <2>7
<1>5. (ops # {} /\ l # 0 /\ r # 0) => [ok |-> TRUE, from |-> l + 1, toks |-> t] \in Pastes
  <2> HIDE DEF ops, l, r, t
  <2> QED  BY <1>4 DEF Pastes
<1> HIDE DEF ops, l, r, t
<1> QED  BY <1>2, <1>3, <1>5

LEMMA PastedIs ==
  ASSUME NEW s \in Seq(Tokens)
  PROVE  pasted(s) \in Pastes
<1> DEFINE n == Cardinality(Operators(s, "hashhash"))
           first == [ok |-> TRUE, from |-> 1, toks |-> s]
           Is(f) == f = [k \in 0..n |-> IF k = 0 THEN first ELSE paste_next(f[k - 1])]
           g == CHOOSE f : Is(f)
           next == [u \in Pastes |-> paste_next(u)]
<1>1. n \in Nat
  <2>1. Operators(s, "hashhash") \subseteq 1..Len(s)
    BY DEF Operators
  <2>2. IsFiniteSet(1..Len(s))
    BY FS_Interval
  <2> QED  BY <2>1, <2>2, FS_Subset, FS_CardinalityType
<1>2. pasted(s) = g[n]
  BY Zenon DEF pasted
<1> HIDE DEF n
<1>3. first \in Pastes
  BY DEF Pastes
<1>4. PICK after : TurnsOf(after, next, first, n) /\ \A k \in 0..n : after[k] \in Pastes
  <2>1. \A u \in Pastes : next[u] \in Pastes
    BY PasteNextIs
  <2> HIDE DEF next, first
  <2> QED  BY <1>1, <1>3, <2>1, TurnsExist
<1>5. Is(after)
  <2>1. \A k \in 0..n : k # 0 => k - 1 \in 0..n
    BY <1>1
  <2>2. \A k \in 0..n : k # 0 => next[after[k - 1]] = paste_next(after[k - 1])
    BY <1>4, <2>1
  <2> HIDE DEF next, first
  <2> QED  BY <1>4, <2>2 DEF TurnsOf
<1>6. Is(g)
  <2> HIDE DEF Is
  <2> QED  BY <1>5
<1> HIDE DEF g, first
<1>7. \A k \in 0..n : g[k] \in Pastes
  <2>1. 0 \in 0..n /\ \A k \in 1..n : k \in 0..n /\ k # 0
    BY <1>1
  <2>2. g[0] \in Pastes /\ \A k \in 1..n : g[k] = paste_next(g[k - 1])
    BY <1>3, <1>6, <2>1
  <2>3. \A k \in 1..n : g[k - 1] \in Pastes => g[k] \in Pastes
    BY <2>2, PasteNextIs
  <2> HIDE DEF Is
  <2> QED  BY <1>1, <2>2, <2>3, TurnsStay
<1>8. n \in 0..n
  BY <1>1
<1> QED  BY <1>2, <1>7, <1>8

LEMMA WithoutPlacemarkersIs ==
  ASSUME NEW s \in Seq(Tokens)
  PROVE  without_placemarkers(s) \in Seq(Tokens)
<1> DEFINE f == without_placemarkers(s)
<1>1. Token("removed", <<>>) \in Tokens
  BY WordlessIs DEF TokenKinds
<1>2. DOMAIN s = 1..Len(s) /\ Len(s) \in Nat /\ \A i \in 1..Len(s) : s[i] \in Tokens
  OBVIOUS
<1>3. f \in [1..Len(s) -> Tokens]
  BY <1>1, <1>2 DEF without_placemarkers
<1> HIDE DEF f
<1>4. f \in Seq(Tokens)
  BY <1>2, <1>3, AsSequence
<1> QED  BY <1>4 DEF f
----------------------------------------------------------------------------
(* The array in use and the innermost frame.                               *)
LEMMA TopArray ==
  ASSUME Placed
  PROVE  /\ Len(arrays) \in Nat \ {0} /\ Last(arrays) = arrays[Len(arrays)]
         /\ Last(arrays) \in Arrays
         /\ Toks = arrays[Len(arrays)].toks /\ Pos = arrays[Len(arrays)].pos
         /\ Toks \in Seq(Tokens) /\ Len(Toks) \in Nat /\ Pos \in 1..Len(Toks) + 1
<1>1. arrays \in Seq(Arrays) /\ \A a \in DOMAIN arrays : arrays[a].pos \in 1..(Len(arrays[a].toks) + 1)
  BY DEF Placed, PlacedAt, ArraysOK
<1>2. Len(arrays) # 0
  <2>1. Len(frames) \in Nat
    BY DEF Placed, PlacedAt, FramesOK
  <2>2. ArgsUpTo(frames, Len(frames)) \subseteq 1..Len(frames) /\ IsFiniteSet(1..Len(frames))
    BY <2>1, FS_Interval DEF ArgsUpTo
  <2>3. Cardinality(ArgsUpTo(frames, Len(frames))) \in Nat
    BY <2>2, FS_Subset, FS_CardinalityType
  <2> QED  BY <2>3 DEF Placed, PlacedAt, ArrayOf
<1>3. Len(arrays) \in Nat \ {0} /\ Len(arrays) \in DOMAIN arrays
  BY <1>1, <1>2
<1>4. arrays[Len(arrays)] \in Arrays /\ Last(arrays) = arrays[Len(arrays)]
  BY <1>1, <1>3 DEF Last
<1>5. arrays[Len(arrays)].toks \in Seq(Tokens)
  BY <1>4 DEF Arrays
<1> QED  BY <1>1, <1>3, <1>4, <1>5 DEF Toks, Pos

LEMMA TopFrame ==
  ASSUME Placed
  PROVE  /\ frames \in Seq(Frames) /\ frames # <<>>
         /\ Len(frames) \in Nat \ {0} /\ Top = frames[Len(frames)] /\ Top \in Frames
         /\ Top.what = "text" <=> Len(frames) = 1
         /\ Top.what = "arg" => Len(frames) > 1 /\ frames[Len(frames) - 1].what = "call"
         /\ Top.what \in {"call", "rescan"} =>
              Len(frames) > 1 /\ frames[Len(frames) - 1].what \in {"text", "arg", "rescan"}
<1>1. frames \in Seq(Frames) /\ frames # <<>>
  BY DEF Placed, PlacedAt, FramesOK
<1>2. Len(frames) \in Nat \ {0} /\ Len(frames) \in DOMAIN frames
  BY <1>1, EmptySeq
<1>3. Top = frames[Len(frames)] /\ Top \in Frames
  BY <1>1, <1>2 DEF Last, Top
<1>4. Top.what = "text" <=> Len(frames) = 1
  BY <1>2, <1>3 DEF Placed, PlacedAt, FramesOK
<1>5. Len(frames) # 1 => /\ Len(frames) > 1 /\ Len(frames) \in 2..Len(frames)
                         /\ Len(frames) - 1 \in 1..Len(frames)
  <2> DEFINE n == Len(frames)
  <2>1. n \in Nat \ {0}
    BY <1>2
  <2> HIDE DEF n
  <2>2. n # 1 => n > 1 /\ n \in 2..n /\ n - 1 \in 1..n
    BY <2>1
  <2> QED  BY <2>2 DEF n
<1>6. Len(frames) # 1 => /\ Top.what = "arg" <=> frames[Len(frames) - 1].what = "call"
                         /\ frames[Len(frames) - 1] \in Frames
  BY <1>1, <1>3, <1>5 DEF Placed, PlacedAt, FramesOK
<1>7. \A f \in Frames : f.what \in {"text", "call", "arg", "rescan"}
  BY DEF Frames, TextFrame, CallFrame, ArgFrame, RescanFrame
<1> QED  BY <1>1, <1>2, <1>3, <1>4, <1>5, <1>6, <1>7

LEMMA TokIs ==
  ASSUME Placed
  PROVE  /\ Tok \in Tokens
         /\ Pos <= Len(Toks) => Tok = Toks[Pos]
         /\ Pos = Len(Toks) + 1 => Tok = Eof
<1>1. Eof \in Tokens
  BY WordlessIs DEF Eof, TokenKinds
<1>2. Pos <= Len(Toks) => Toks[Pos] \in Tokens
  BY TopArray
<1> QED  BY <1>1, <1>2, TopArray DEF Tok, At

LEMMA SkipWithin ==
  ASSUME Placed, NEW i \in 1..Len(Toks) + 1
  PROVE  skip_whitespaces_or_newlines(i) \in i..Len(Toks) + 1
<1> DEFINE T == {j \in i..(Len(Toks) + 1) : ~Blank(j)}
<1>1. Len(Toks) \in Nat
  BY TopArray
<1>2. ~Blank(Len(Toks) + 1)
  BY <1>1 DEF Blank, At, Eof, Token
<1>3. T \subseteq i..Len(Toks) + 1 /\ T \subseteq Nat /\ T # {}
  BY <1>1, <1>2
<1>4. Min(T) \in T
  <2> HIDE DEF T
  <2> QED  BY <1>3, MinIs
<1> HIDE DEF T
<1> QED  BY <1>3, <1>4 DEF skip_whitespaces_or_newlines, T

(* What pp_parse_macro_arguments reads ends behind a parenthesis.          *)
LEMMA ArgumentsAre ==
  ASSUME Toks \in Seq(Tokens), NEW i \in 1..Len(Toks), Toks[i].kind = "("
  PROVE  LET read == pp_parse_macro_arguments(i)
         IN  /\ read.args \in Seq(Seq(Tokens)) /\ read.end \in Nat
             /\ read.end # 0 => /\ read.end \in i + 2..Len(Toks) + 1
                                /\ Toks[read.end - 1].kind = ")"
<1> DEFINE closes == {j \in i..Len(Toks) : Toks[j].kind = ")" /\ Opened(i, j) = 0}
           close  == Min(closes)
           commas == {j \in i..close : Toks[j].kind = "," /\ Opened(i, j) = 1}
           n      == Cardinality(commas) + 1
           Is(f)  == f = [k \in 0..n |-> IF k = 0 THEN i ELSE Min({close} \cup {j \in commas : j > f[k - 1]})]
           bound  == CHOOSE f : Is(f)
           Dropped(t) == t.kind \in {"ws", "removed"} \/ (skip_newline /\ t.kind = "nl")
           Kept(s) == FlattenSeq([j \in DOMAIN s |-> IF Dropped(s[j]) THEN <<>> ELSE <<s[j]>>])
           Arg(k) == Kept(SubSeq(Toks, bound[k - 1] + 1, bound[k] - 1))
           args == IF skip_whitespaces_or_newlines(i + 1) = close THEN <<>>
                   ELSE [k \in 1..n |-> Arg(k)]
<1>1. pp_parse_macro_arguments(i) =
        IF closes = {} THEN [args |-> <<>>, end |-> 0] ELSE [args |-> args, end |-> close + 1]
  BY Zenon DEF pp_parse_macro_arguments
<1>2. <<>> \in Seq(Seq(Tokens))
  OBVIOUS
<1>3. CASE closes = {}
  <2> HIDE DEF closes, args, close
  <2> QED  BY <1>1, <1>2, <1>3
<1>4. CASE closes # {}
  <2>1. close \in i + 1..Len(Toks) /\ Toks[close].kind = ")"
    <3>1. closes \subseteq i + 1..Len(Toks) /\ closes \subseteq Nat /\ \A j \in closes : Toks[j].kind = ")"
      OBVIOUS
    <3>2. close \in closes
      <4> HIDE DEF closes
      <4> QED  BY <1>4, <3>1, MinIs
    <3> HIDE DEF closes, close
    <3> QED  BY <3>1, <3>2
  <2> HIDE DEF closes, close
  <2>2. n \in Nat
    <3>1. commas \subseteq i..close
      OBVIOUS
    <3>2. IsFiniteSet(i..close)
      BY <2>1, FS_Interval
    <3> HIDE DEF commas
    <3>3. Cardinality(commas) \in Nat
      BY <3>1, <3>2, FS_Subset, FS_CardinalityType
    <3> QED  BY <3>3
  <2>3. commas \subseteq i..close
    OBVIOUS
  <2> HIDE DEF n, commas
  <2> DEFINE D == i..close
             next == [t \in D |-> Min({close} \cup {j \in commas : j > t})]
  <2>4. \A t \in D : Min({close} \cup {j \in commas : j > t}) \in D
    <3>1. ASSUME NEW t \in D  PROVE Min({close} \cup {j \in commas : j > t}) \in D
      <4> DEFINE T == {close} \cup {j \in commas : j > t}
      <4>1. T \subseteq D /\ T \subseteq Nat /\ T # {}
        <5>1. close \in i..close /\ i..close \subseteq Nat
          BY <2>1
        <5> QED  BY <2>3, <5>1
      <4> HIDE DEF T, D
      <4>2. Min(T) \in T
        BY <4>1, MinIs
      <4> QED  BY <4>1, <4>2 DEF T
    <3> QED  BY <3>1
  <2>5. i \in D
    BY <2>1
  <2>6. PICK after : TurnsOf(after, next, i, n) /\ \A k \in 0..n : after[k] \in D
    <3>1. \A t \in D : next[t] \in D
      BY <2>4
    <3> HIDE DEF D, next
    <3> QED  BY <2>2, <2>5, <3>1, TurnsExist
  <2>7. Is(after)
    <3>1. \A k \in 0..n : k # 0 => k - 1 \in 0..n
      BY <2>2
    <3>2. \A k \in 0..n : k # 0 => next[after[k - 1]] = Min({close} \cup {j \in commas : j > after[k - 1]})
      BY <2>6, <3>1
    <3> HIDE DEF next, D
    <3> QED  BY <2>6, <3>2 DEF TurnsOf
  <2>8. Is(bound)
    <3> HIDE DEF Is
    <3> QED  BY <2>7
  <2> HIDE DEF bound
  <2>9. \A k \in 0..n : bound[k] \in D
    <3>1. 0 \in 0..n /\ \A k \in 1..n : k \in 0..n /\ k # 0
      BY <2>2
    <3>2. bound[0] \in D /\ \A k \in 1..n : bound[k] = Min({close} \cup {j \in commas : j > bound[k - 1]})
      <4> HIDE DEF D
      <4> QED  BY <2>5, <2>8, <3>1
    <3>3. \A k \in 1..n : bound[k - 1] \in D => bound[k] \in D
      <4> HIDE DEF D
      <4> QED  BY <2>4, <3>2
    <3> HIDE DEF Is, D
    <3> QED  BY <2>2, <3>2, <3>3, TurnsStay
  <2>10. \A s \in Seq(Tokens) : Kept(s) \in Seq(Tokens)
    <3>1. ASSUME NEW s \in Seq(Tokens)  PROVE Kept(s) \in Seq(Tokens)
      <4> DEFINE f == [j \in DOMAIN s |-> IF Dropped(s[j]) THEN <<>> ELSE <<s[j]>>]
      <4>1. DOMAIN s = 1..Len(s) /\ Len(s) \in Nat /\ \A j \in 1..Len(s) : s[j] \in Tokens
        OBVIOUS
      <4>2. \A j \in 1..Len(s) : <<s[j]>> \in Seq(Tokens)
        BY <4>1, OneToken
      <4>3. f \in [1..Len(s) -> Seq(Tokens)]
        <5> HIDE DEF Dropped
        <5> QED  BY <4>1, <4>2
      <4> HIDE DEF f
      <4>4. f \in Seq(Seq(Tokens))
        BY <4>1, <4>3, AsSequence
      <4> QED  BY <4>4, FlattenType DEF f
    <3> HIDE DEF Kept
    <3> QED  BY <3>1
  <2>11. \A k \in 1..n : Arg(k) \in Seq(Tokens)
    <3>1. ASSUME NEW k \in 1..n  PROVE Arg(k) \in Seq(Tokens)
      <4>1. k \in 0..n /\ k - 1 \in 0..n
        BY <2>2
      <4>2. bound[k - 1] \in i..close /\ bound[k] \in i..close
        BY <2>9, <4>1
      <4> DEFINE lo == bound[k - 1] + 1
                 hi == bound[k] - 1
      <4>3. lo \in Int /\ hi \in Int /\ \A j \in lo..hi : j \in 1..Len(Toks)
        BY <2>1, <4>2
      <4> HIDE DEF lo, hi
      <4>4. \A j \in lo..hi : Toks[j] \in Tokens
        BY <4>3
      <4>5. SubSeq(Toks, lo, hi) \in Seq(Tokens)
        BY <4>3, <4>4, SubSeqProperties
      <4> HIDE DEF Kept
      <4> QED  BY <2>10, <4>5 DEF lo, hi
    <3> HIDE DEF Arg
    <3> QED  BY <3>1
  <2>12. [k \in 1..n |-> Arg(k)] \in Seq(Seq(Tokens))
    <3>1. [k \in 1..n |-> Arg(k)] \in [1..n -> Seq(Tokens)]
      <4> HIDE DEF Arg
      <4> QED  BY <2>11
    <3> DEFINE f == [k \in 1..n |-> Arg(k)]
    <3> HIDE DEF f
    <3>2. f \in Seq(Seq(Tokens))
      BY <2>2, <3>1, AsSequence DEF f
    <3> QED  BY <3>2 DEF f
  <2>13. args \in Seq(Seq(Tokens))
    <3> HIDE DEF Arg
    <3> QED  BY <1>2, <2>12
  <2> HIDE DEF args
  <2>14. pp_parse_macro_arguments(i) = [args |-> args, end |-> close + 1]
    BY <1>1, <1>4
  <2>15. close + 1 \in Nat /\ close + 1 \in i + 2..Len(Toks) + 1 /\ (close + 1) - 1 = close
    BY <2>1
  <2> QED  BY <2>1, <2>13, <2>14, <2>15
<1> QED  BY <1>3, <1>4
----------------------------------------------------------------------------
(* Which array a frame works on.                                           *)
LEMMA ArrayOfIs ==
  ASSUME NEW fs, NEW i \in Nat
  PROVE  /\ ArrayOf(fs, i) \in Nat \ {0}
         /\ ArrayOf(fs, i + 1) = ArrayOf(fs, i) + (IF fs[i + 1].what = "arg" THEN 1 ELSE 0)
<1> DEFINE A == ArgsUpTo(fs, i)
           B == ArgsUpTo(fs, i + 1)
<1>1. IsFiniteSet(A) /\ Cardinality(A) \in Nat
  <2>1. A \subseteq 1..i /\ IsFiniteSet(1..i)
    BY FS_Interval DEF ArgsUpTo
  <2> HIDE DEF A
  <2> QED  BY <2>1, FS_Subset, FS_CardinalityType
<1>2. i + 1 \notin A /\ \A j : j \in 1..i + 1 <=> (j \in 1..i \/ j = i + 1)
  BY DEF ArgsUpTo
<1>3. B = IF fs[i + 1].what = "arg" THEN A \cup {i + 1} ELSE A
  BY <1>2 DEF ArgsUpTo
<1>4. Cardinality(A \cup {i + 1}) = Cardinality(A) + 1
  <2> HIDE DEF A
  <2> QED  BY <1>1, <1>2, FS_AddElement
<1> HIDE DEF A, B
<1>5. Cardinality(B) = Cardinality(A) + (IF fs[i + 1].what = "arg" THEN 1 ELSE 0)
  BY <1>1, <1>3, <1>4
<1> QED  BY <1>1, <1>5 DEF ArrayOf, A, B

LEMMA ArrayOfSame ==
  ASSUME NEW fs, NEW gs, NEW i \in Nat, \A j \in 1..i : gs[j].what = fs[j].what
  PROVE  ArrayOf(gs, i) = ArrayOf(fs, i)
<1>1. ArgsUpTo(gs, i) = ArgsUpTo(fs, i)
  BY DEF ArgsUpTo
<1> QED  BY <1>1 DEF ArrayOf

LEMMA ArrayOfGrows ==
  ASSUME NEW fs, NEW i \in Nat, NEW j \in Nat, i <= j
  PROVE  ArrayOf(fs, i) <= ArrayOf(fs, j)
<1>1. ArgsUpTo(fs, i) \subseteq ArgsUpTo(fs, j)
  BY DEF ArgsUpTo
<1>2. IsFiniteSet(ArgsUpTo(fs, j))
  <2>1. ArgsUpTo(fs, j) \subseteq 1..j /\ IsFiniteSet(1..j)
    BY FS_Interval DEF ArgsUpTo
  <2> QED  BY <2>1, FS_Subset
<1>3. /\ Cardinality(ArgsUpTo(fs, i)) <= Cardinality(ArgsUpTo(fs, j))
      /\ Cardinality(ArgsUpTo(fs, i)) \in Nat /\ Cardinality(ArgsUpTo(fs, j)) \in Nat
  BY <1>1, <1>2, FS_Subset, FS_CardinalityType
<1> QED  BY <1>3 DEF ArrayOf

LEMMA PlacedTypes ==
  ASSUME NEW ars, NEW fs, PlacedAt(ars, fs)
  PROVE  /\ ars \in Seq(Arrays) /\ ars # <<>> /\ Len(ars) \in Nat \ {0} /\ DOMAIN ars = 1..Len(ars)
         /\ fs \in Seq(Frames) /\ fs # <<>> /\ Len(fs) \in Nat \ {0} /\ DOMAIN fs = 1..Len(fs)
<1>1. fs \in Seq(Frames) /\ fs # <<>>
  BY DEF PlacedAt, FramesOK
<1>2. ars \in Seq(Arrays) /\ ArrayOf(fs, Len(fs)) = Len(ars)
  BY DEF PlacedAt, ArraysOK
<1>3. Len(fs) \in Nat \ {0} /\ DOMAIN fs = 1..Len(fs)
  BY <1>1, EmptySeq
<1>4. Len(ars) \in Nat \ {0}
  BY <1>2, <1>3, ArrayOfIs
<1>5. ars # <<>>
  <2>1. Len(<<>>) = 0
    OBVIOUS
  <2> QED  BY <1>4, <2>1
<1>6. DOMAIN ars = 1..Len(ars)
  BY <1>2
<1> QED  BY <1>1, <1>2, <1>3, <1>4, <1>5, <1>6

(* Frames below the last array's: what becomes of that is nothing to them. *)
LEMMA CallBelow ==
  ASSUME NEW ars, NEW fs, PlacedAt(ars, fs), NEW i \in 1..Len(fs), fs[i].what = "call", i # Len(fs)
  PROVE  ArrayOf(fs, i) \in 1..Len(ars) - 1
<1>1. Len(fs) \in Nat /\ Len(ars) \in Nat /\ i \in Nat /\ i + 1 <= Len(fs) /\ i + 1 \in 2..Len(fs) /\ (i + 1) - 1 = i
  <2> DEFINE n == Len(fs)
  <2>1. n \in Nat /\ Len(ars) \in Nat /\ i \in 1..n /\ i # n
    BY PlacedTypes
  <2> HIDE DEF n
  <2>2. i \in Nat /\ i + 1 <= n /\ i + 1 \in 2..n /\ (i + 1) - 1 = i
    BY <2>1
  <2> QED  BY <2>1, <2>2 DEF n
<1>2. fs[i + 1].what = "arg"
  BY <1>1 DEF PlacedAt, FramesOK
<1>3. ArrayOf(fs, i + 1) = ArrayOf(fs, i) + 1 /\ ArrayOf(fs, i) \in Nat \ {0}
  BY <1>1, <1>2, ArrayOfIs
<1>4. ArrayOf(fs, i + 1) <= Len(ars)
  <2>1. ArrayOf(fs, Len(fs)) = Len(ars) /\ i + 1 \in Nat
    BY <1>1 DEF PlacedAt
  <2>2. ArrayOf(fs, i + 1) <= ArrayOf(fs, Len(fs))
    BY <1>1, <2>1, ArrayOfGrows
  <2> QED  BY <2>1, <2>2
<1> DEFINE k == ArrayOf(fs, i)
           n == Len(ars)
<1>5. k \in Nat \ {0} /\ n \in Nat /\ k + 1 <= n
  BY <1>1, <1>3, <1>4
<1> HIDE DEF k, n
<1>6. k \in 1..n - 1
  BY <1>5
<1> QED  BY <1>6 DEF k, n

LEMMA FrameTypes ==
  ASSUME NEW f \in Frames
  PROVE  /\ f.what \in {"text", "call", "arg", "rescan"}
         /\ f.what = "call" => f \in CallFrame /\ f.name \in Texts /\ f.start \in Nat /\ f.end \in Nat
                                /\ f.args \in Seq(Seq(Tokens)) /\ f.next \in Nat \ {0}
         /\ f.what = "arg" => f \in ArgFrame /\ f.count \in Nat /\ f.processed \in Nat
         /\ f.what = "rescan" => f \in RescanFrame /\ f.name \in Texts /\ f.count \in Nat /\ f.processed \in Nat
                                  /\ f.before \in Nat /\ f.rest \in Nat
BY DEF Frames, TextFrame, CallFrame, ArgFrame, RescanFrame
----------------------------------------------------------------------------
(* What each kind of step does to arrays and frames, and that they stay    *)
(* where they should be.                                                   *)
LEMMA SameFrames ==
  ASSUME NEW ars, NEW fs, PlacedAt(ars, fs), NEW gs \in Seq(Frames), Len(gs) = Len(fs),
         \A i \in 1..Len(fs) :
           /\ gs[i].what = fs[i].what
           /\ fs[i].what = "call" => gs[i].start = fs[i].start /\ gs[i].end = fs[i].end
  PROVE  PlacedAt(ars, gs)
<1>1. fs \in Seq(Frames) /\ Len(fs) \in Nat \ {0} /\ DOMAIN fs = 1..Len(fs) /\ DOMAIN gs = 1..Len(fs)
  BY EmptySeq DEF PlacedAt, FramesOK
<1>2. \A i \in 0..Len(fs) : ArrayOf(gs, i) = ArrayOf(fs, i)
  BY <1>1, ArrayOfSame
<1>3. FramesOK(gs)
  <2>1. \A i \in 2..Len(fs) : i \in 1..Len(fs) /\ i - 1 \in 1..Len(fs)
    BY <1>1
  <2>2. gs # <<>>
    BY <1>1
  <2>3. \A i \in 1..Len(fs) : gs[i].what = "text" <=> i = 1
    BY <1>1 DEF PlacedAt, FramesOK
  <2>4. \A i \in 2..Len(fs) : gs[i].what = "arg" <=> gs[i - 1].what = "call"
    BY <1>1, <2>1 DEF PlacedAt, FramesOK
  <2> QED  BY <1>1, <2>2, <2>3, <2>4 DEF FramesOK
<1>4. CallsOK(ars, gs)
  <2>1. ASSUME NEW i \in 1..Len(fs), gs[i].what = "call"  PROVE CallAt(gs[i], ars[ArrayOf(gs, i)])
    <3>1. CallAt(fs[i], ars[ArrayOf(fs, i)])
      BY <1>1, <2>1 DEF PlacedAt, CallsOK
    <3>2. ArrayOf(gs, i) = ArrayOf(fs, i) /\ gs[i].start = fs[i].start /\ gs[i].end = fs[i].end
      BY <1>2, <2>1
    <3> QED  BY <3>1, <3>2 DEF CallAt
  <2> QED  BY <1>1, <2>1 DEF CallsOK
<1>5. ArrayOf(gs, Len(gs)) = Len(ars)
  BY <1>1, <1>2 DEF PlacedAt
<1> QED  BY <1>3, <1>4, <1>5 DEF PlacedAt

LEMMA LastReplaced ==
  ASSUME NEW S, NEW s \in Seq(S), s # <<>>, NEW x \in S, NEW t \in {Append(Front(s), x)}
  PROVE  /\ t \in Seq(S) /\ Len(t) = Len(s) /\ DOMAIN t = 1..Len(s) /\ t[Len(s)] = x
         /\ \A k \in 1..Len(s) - 1 : t[k] = s[k]
<1>1. /\ t \in Seq(S) /\ Len(t) = Len(s) /\ t[Len(s)] = x
      /\ \A k \in 1..Len(s) - 1 : t[k] = s[k]
  <2>1. /\ Append(Front(s), x) \in Seq(S) /\ Len(Append(Front(s), x)) = Len(s)
        /\ Append(Front(s), x)[Len(s)] = x
        /\ \A k \in 1..Len(s) - 1 : Append(Front(s), x)[k] = s[k]
    BY FrontFacts
  <2> QED  BY <2>1, Zenon
<1>2. DOMAIN t = 1..Len(t)
  BY <1>1
<1> QED  BY <1>1, <1>2

LEMMA LastDropped ==
  ASSUME NEW S, NEW s \in Seq(S), s # <<>>, NEW t \in {Front(s)}
  PROVE  /\ t \in Seq(S) /\ Len(t) = Len(s) - 1 /\ DOMAIN t = 1..Len(s) - 1
         /\ \A k \in 1..Len(s) - 1 : t[k] = s[k]
<1>1. s[1] \in S
  BY EmptySeq
<1>2. t \in Seq(S) /\ Len(t) = Len(s) - 1 /\ \A k \in 1..Len(s) - 1 : t[k] = s[k]
  BY <1>1, FrontFacts
<1>3. DOMAIN t = 1..Len(t)
  BY <1>2
<1> QED  BY <1>2, <1>3

LEMMA OneMore ==
  ASSUME NEW S, NEW s \in Seq(S), NEW x \in S, NEW t \in {Append(s, x)}
  PROVE  /\ t \in Seq(S) /\ Len(t) = Len(s) + 1 /\ DOMAIN t = 1..Len(s) + 1 /\ t[Len(s) + 1] = x
         /\ \A k \in 1..Len(s) : t[k] = s[k]
OBVIOUS

(* One array for another, with the innermost frame not an invocation.      *)
LEMMA OtherArray ==
  ASSUME NEW ars, NEW fs, PlacedAt(ars, fs), fs[Len(fs)].what # "call",
         NEW b \in Arrays, b.pos \in 1..(Len(b.toks) + 1), Len(ars) = 1 => TailOK(b),
         NEW bs \in {Append(Front(ars), b)}
  PROVE  PlacedAt(bs, fs)
<1> DEFINE n == Len(ars)
<1>1. /\ ars \in Seq(Arrays) /\ ars # <<>> /\ n \in Nat \ {0} /\ DOMAIN ars = 1..n
      /\ Len(fs) \in Nat \ {0} /\ DOMAIN fs = 1..Len(fs)
  BY PlacedTypes
<1>2. /\ bs \in Seq(Arrays) /\ Len(bs) = n /\ bs[n] = b /\ DOMAIN bs = 1..n
      /\ \A k \in 1..n - 1 : bs[k] = ars[k]
  <2>1. /\ ars \in Seq(Arrays) /\ ars # <<>>
        /\ b \in Arrays /\ bs \in {Append(Front(ars), b)}
    BY PlacedTypes
  <2> QED  BY ONLY <2>1, LastReplaced DEF n
<1>4. ArraysOK(bs)
  <2> HIDE DEF n
  <2>1. \A k \in 1..n : k = n \/ k \in 1..n - 1
    BY <1>1
  <2>2. \A k \in 1..n : ars[k].pos \in 1..(Len(ars[k].toks) + 1)
    BY <1>1 DEF PlacedAt, ArraysOK
  <2>3. \A k \in 1..n : bs[k].pos \in 1..(Len(bs[k].toks) + 1)
    BY <1>2, <2>1, <2>2
  <2> QED  BY <1>2, <2>3 DEF ArraysOK
<1>5. CallsOK(bs, fs)
  <2>1. ASSUME NEW i \in 1..Len(fs), fs[i].what = "call"
        PROVE  CallAt(fs[i], bs[ArrayOf(fs, i)])
    <3>1. ArrayOf(fs, i) \in 1..n - 1
      BY <2>1, CallBelow
    <3>2. CallAt(fs[i], ars[ArrayOf(fs, i)])
      BY <1>1, <2>1 DEF PlacedAt, CallsOK
    <3> QED  BY <1>2, <3>1, <3>2
  <2> QED  BY <1>1, <2>1 DEF CallsOK
<1>6. TailOK(bs[1])
  <2> HIDE DEF n
  <2>1. n = 1 \/ 1 \in 1..n - 1
    BY <1>1
  <2>2. n = 1 => TailOK(b)
    BY DEF n
  <2> QED  BY <1>2, <2>1, <2>2 DEF PlacedAt
<1>7. ArrayOf(fs, Len(fs)) = Len(bs) /\ FramesOK(fs)
  BY <1>2 DEF PlacedAt
<1> QED  BY <1>4, <1>5, <1>6, <1>7 DEF PlacedAt

(* One frame more, and one frame less.                                     *)
LEMMA Extended ==
  ASSUME NEW fs, FramesOK(fs), NEW f \in Frames, f.what # "text",
         f.what = "arg" <=> fs[Len(fs)].what = "call", NEW gs \in {Append(fs, f)}
  PROVE  /\ FramesOK(gs) /\ Len(gs) = Len(fs) + 1 /\ DOMAIN gs = 1..Len(fs) + 1
         /\ gs[Len(fs) + 1] = f /\ \A i \in 1..Len(fs) : gs[i] = fs[i]
         /\ \A i \in 0..Len(fs) : ArrayOf(gs, i) = ArrayOf(fs, i)
         /\ ArrayOf(gs, Len(fs) + 1) = ArrayOf(fs, Len(fs)) + (IF f.what = "arg" THEN 1 ELSE 0)
<1> DEFINE n == Len(fs)
<1>1. fs \in Seq(Frames) /\ n \in Nat \ {0} /\ DOMAIN fs = 1..n
  BY EmptySeq DEF FramesOK
<1>2. /\ gs \in Seq(Frames) /\ Len(gs) = n + 1 /\ DOMAIN gs = 1..n + 1 /\ gs[n + 1] = f
      /\ \A i \in 1..n : gs[i] = fs[i]
  BY <1>1, OneMore
<1>3. f.what = "arg" <=> fs[n].what = "call"
  OBVIOUS
<1>4. \A i \in 1..n : fs[i].what = "text" <=> i = 1
  BY <1>1 DEF FramesOK
<1>5. \A i \in 2..n : fs[i].what = "arg" <=> fs[i - 1].what = "call"
  BY DEF FramesOK
<1> HIDE DEF n
<1>6. \A i \in 1..n + 1 : (i \in 1..n \/ i = n + 1) /\ (i = n + 1 => i # 1)
  BY <1>1
<1>7. \A i \in 2..n + 1 : i - 1 \in 1..n /\ (i \in 2..n \/ (i = n + 1 /\ i - 1 = n))
  BY <1>1
<1>8. FramesOK(gs)
  <2>1. gs # <<>> /\ n + 1 # 0
    BY <1>1, <1>2, EmptySeq
  <2>2. \A i \in 1..n + 1 : gs[i].what = "text" <=> i = 1
    BY <1>2, <1>4, <1>6
  <2>3. \A i \in 2..n + 1 : gs[i].what = "arg" <=> gs[i - 1].what = "call"
    <3>1. ASSUME NEW i \in 2..n + 1  PROVE gs[i].what = "arg" <=> gs[i - 1].what = "call"
      <4>1. gs[i - 1] = fs[i - 1]
        BY <1>2, <1>7
      <4>2. CASE i \in 2..n
        BY <1>2, <1>5, <1>1, <4>1, <4>2
      <4>3. CASE i = n + 1 /\ i - 1 = n
        BY <1>2, <1>3, <4>1, <4>3
      <4> QED  BY <1>7, <4>2, <4>3
    <3> QED  BY <3>1
  <2> QED  BY <1>2, <2>1, <2>2, <2>3 DEF FramesOK
<1>9. \A i \in 0..n : ArrayOf(gs, i) = ArrayOf(fs, i)
  <2>1. \A i \in 0..n : i \in Nat /\ \A j \in 1..i : gs[j].what = fs[j].what
    BY <1>1, <1>2
  <2> QED  BY <2>1, ArrayOfSame
<1>10. ArrayOf(gs, n + 1) = ArrayOf(fs, n) + (IF f.what = "arg" THEN 1 ELSE 0)
  <2>1. ArrayOf(gs, n + 1) = ArrayOf(gs, n) + (IF gs[n + 1].what = "arg" THEN 1 ELSE 0)
    BY <1>1, ArrayOfIs
  <2>2. ArrayOf(gs, n) = ArrayOf(fs, n)
    BY <1>1, <1>9
  <2> QED  BY <1>2, <2>1, <2>2
<1> QED  BY <1>2, <1>8, <1>9, <1>10 DEF n

LEMMA Shortened ==
  ASSUME NEW fs, FramesOK(fs), Len(fs) # 1, NEW gs \in {Front(fs)}
  PROVE  /\ FramesOK(gs) /\ Len(gs) = Len(fs) - 1 /\ Len(gs) \in Nat \ {0} /\ DOMAIN gs = 1..Len(gs)
         /\ \A i \in 1..Len(gs) : gs[i] = fs[i]
         /\ \A i \in 0..Len(gs) : ArrayOf(gs, i) = ArrayOf(fs, i)
         /\ ArrayOf(fs, Len(fs)) = ArrayOf(gs, Len(gs)) + (IF fs[Len(fs)].what = "arg" THEN 1 ELSE 0)
         /\ fs[Len(fs)].what = "arg" <=> gs[Len(gs)].what = "call"
<1> DEFINE n == Len(fs)
           m == n - 1
<1>1. fs \in Seq(Frames) /\ fs # <<>> /\ n \in Nat \ {0} /\ DOMAIN fs = 1..n /\ n # 1
  BY EmptySeq DEF FramesOK
<1>2. /\ gs \in Seq(Frames) /\ Len(gs) = m /\ DOMAIN gs = 1..m
      /\ \A i \in 1..m : gs[i] = fs[i]
  BY <1>1, LastDropped
<1>4. \A i \in 1..n : fs[i].what = "text" <=> i = 1
  BY <1>1 DEF FramesOK
<1>5. \A i \in 2..n : fs[i].what = "arg" <=> fs[i - 1].what = "call"
  BY DEF FramesOK
<1> HIDE DEF n
<1>6. m \in Nat \ {0} /\ n \in 2..n /\ n = m + 1 /\ m \in 1..m /\ \A i \in 1..m : i \in 1..n
  BY <1>1
<1>7. \A i \in 2..m : i \in 1..m /\ i - 1 \in 1..m /\ i \in 2..n
  BY <1>1
<1>11. n - 1 = m
  OBVIOUS
<1> HIDE DEF m
<1>8. FramesOK(gs)
  <2>1. gs # <<>>
    BY <1>2, <1>6, EmptySeq
  <2>2. \A i \in 1..m : gs[i].what = "text" <=> i = 1
    BY <1>2, <1>4, <1>6
  <2>3. \A i \in 2..m : gs[i].what = "arg" <=> gs[i - 1].what = "call"
    BY <1>2, <1>5, <1>7
  <2> QED  BY <1>2, <2>1, <2>2, <2>3 DEF FramesOK
<1>9. \A i \in 0..m : ArrayOf(gs, i) = ArrayOf(fs, i)
  <2>1. \A i \in 0..m : i \in Nat /\ \A j \in 1..i : gs[j].what = fs[j].what
    BY <1>2, <1>6
  <2> QED  BY <2>1, ArrayOfSame
<1>10. ArrayOf(fs, n) = ArrayOf(gs, m) + (IF fs[n].what = "arg" THEN 1 ELSE 0)
  <2>1. ArrayOf(fs, m + 1) = ArrayOf(fs, m) + (IF fs[m + 1].what = "arg" THEN 1 ELSE 0)
    BY <1>6, ArrayOfIs
  <2>2. ArrayOf(gs, m) = ArrayOf(fs, m)
    BY <1>6, <1>9
  <2> QED  BY <1>6, <2>1, <2>2
<1>12. fs[n].what = "arg" <=> gs[m].what = "call"
  BY <1>2, <1>5, <1>6, <1>11
<1> QED  BY <1>2, <1>6, <1>8, <1>9, <1>10, <1>11, <1>12 DEF n

LEMMA PushFrame ==
  ASSUME NEW ars, NEW fs, PlacedAt(ars, fs), fs[Len(fs)].what # "call",
         NEW f \in Frames, f.what \in {"call", "rescan"}, f.what = "call" => CallAt(f, ars[Len(ars)]),
         NEW gs \in {Append(fs, f)}
  PROVE  PlacedAt(ars, gs)
<1> DEFINE n == Len(fs)
<1>1. FramesOK(fs) /\ n \in Nat \ {0} /\ DOMAIN fs = 1..n /\ ArrayOf(fs, n) = Len(ars) /\ Len(ars) \in Nat
  BY PlacedTypes DEF PlacedAt
<1>2. f.what # "text" /\ (f.what = "arg" <=> fs[n].what = "call")
  OBVIOUS
<1>3. /\ FramesOK(gs) /\ Len(gs) = n + 1 /\ DOMAIN gs = 1..n + 1 /\ gs[n + 1] = f
      /\ \A i \in 1..n : gs[i] = fs[i]
      /\ \A i \in 0..n : ArrayOf(gs, i) = ArrayOf(fs, i)
      /\ ArrayOf(gs, n + 1) = ArrayOf(fs, n) + (IF f.what = "arg" THEN 1 ELSE 0)
  BY <1>1, <1>2, Extended
<1>4. ArrayOf(gs, n + 1) = Len(ars)
  BY <1>1, <1>3
<1>5. \A i \in 1..n : fs[i].what = "call" => CallAt(fs[i], ars[ArrayOf(fs, i)])
  BY <1>1 DEF PlacedAt, CallsOK
<1> HIDE DEF n
<1>6. \A i \in 1..n + 1 : (i \in 1..n /\ i \in 0..n) \/ i = n + 1
  BY <1>1
<1>7. \A i \in 1..n + 1 : gs[i].what = "call" => CallAt(gs[i], ars[ArrayOf(gs, i)])
  BY <1>3, <1>4, <1>5, <1>6
<1> QED  BY <1>3, <1>4, <1>7 DEF PlacedAt, CallsOK

LEMMA PushArg ==
  ASSUME NEW ars, NEW fs, PlacedAt(ars, fs), fs[Len(fs)].what = "call",
         NEW f \in Frames, f.what = "arg", NEW a \in Arrays, a.pos \in 1..Len(a.toks) + 1,
         NEW bs \in {Append(ars, a)}, NEW gs \in {Append(fs, f)}
  PROVE  PlacedAt(bs, gs)
<1> DEFINE n == Len(fs)
           k == Len(ars)
<1>1. FramesOK(fs) /\ n \in Nat \ {0} /\ DOMAIN fs = 1..n
  BY PlacedTypes DEF PlacedAt
<1>2. /\ ars \in Seq(Arrays) /\ k \in Nat \ {0} /\ DOMAIN ars = 1..k /\ ArrayOf(fs, n) = k
      /\ \A i \in 1..k : ars[i].pos \in 1..(Len(ars[i].toks) + 1)
      /\ TailOK(ars[1])
  <2>1. ars \in Seq(Arrays) /\ k \in Nat \ {0} /\ DOMAIN ars = 1..k
    BY PlacedTypes
  <2> QED  BY <2>1 DEF PlacedAt, ArraysOK
<1>3. f.what # "text" /\ (f.what = "arg" <=> fs[n].what = "call")
  OBVIOUS
<1>4. /\ FramesOK(gs) /\ Len(gs) = n + 1 /\ DOMAIN gs = 1..n + 1 /\ gs[n + 1] = f
      /\ \A i \in 1..n : gs[i] = fs[i]
      /\ \A i \in 0..n : ArrayOf(gs, i) = ArrayOf(fs, i)
      /\ ArrayOf(gs, n + 1) = ArrayOf(fs, n) + (IF f.what = "arg" THEN 1 ELSE 0)
  BY <1>1, <1>3, Extended
<1>5. /\ bs \in Seq(Arrays) /\ Len(bs) = k + 1 /\ DOMAIN bs = 1..k + 1 /\ bs[k + 1] = a
      /\ \A i \in 1..k : bs[i] = ars[i]
  <2>1. ars \in Seq(Arrays) /\ a \in Arrays /\ bs \in {Append(ars, a)}
    BY <1>2
  <2> QED  BY ONLY <2>1, OneMore DEF k
<1>6. \A i \in 1..n : fs[i].what = "call" => CallAt(fs[i], ars[ArrayOf(fs, i)])
  BY <1>1 DEF PlacedAt, CallsOK
<1>7. \A i \in 1..n : ArrayOf(fs, i) \in 1..k
  <2>1. ASSUME NEW i \in 1..n  PROVE ArrayOf(fs, i) \in 1..k
    <3>1. i \in Nat /\ n \in Nat /\ i <= n
      <4> HIDE DEF n
      <4> QED  BY <1>1
    <3>2. ArrayOf(fs, i) \in Nat \ {0} /\ ArrayOf(fs, i) <= ArrayOf(fs, n)
      <4> HIDE DEF n
      <4> QED  BY <3>1, ArrayOfIs, ArrayOfGrows
    <3> DEFINE j == ArrayOf(fs, i)
    <3>3. j \in Nat \ {0} /\ j <= k /\ k \in Nat
      BY <1>2, <3>2
    <3> HIDE DEF j, k
    <3>4. j \in 1..k
      BY <3>3
    <3> QED  BY <3>4 DEF j
  <2> QED  BY <2>1
<1> HIDE DEF n, k
<1>8. \A i \in 1..n + 1 : (i \in 1..n /\ i \in 0..n) \/ i = n + 1
  BY <1>1
<1>9. CallsOK(bs, gs)
  <2>1. \A i \in 1..n + 1 : gs[i].what = "call" => CallAt(gs[i], bs[ArrayOf(gs, i)])
    BY <1>4, <1>5, <1>6, <1>7, <1>8
  <2> QED  BY <1>4, <2>1 DEF CallsOK
<1>10. ArraysOK(bs)
  <2>1. \A i \in 1..k + 1 : i \in 1..k \/ i = k + 1
    BY <1>2
  <2>2. \A i \in 1..k + 1 : bs[i].pos \in 1..(Len(bs[i].toks) + 1)
    BY <1>2, <1>5, <2>1
  <2> QED  BY <1>5, <2>2 DEF ArraysOK
<1>11. TailOK(bs[1])
  <2>1. 1 \in 1..k
    BY <1>2
  <2> QED  BY <1>2, <1>5, <2>1
<1>12. ArrayOf(gs, Len(gs)) = Len(bs)
  BY <1>2, <1>4, <1>5
<1> QED  BY <1>4, <1>9, <1>10, <1>11, <1>12 DEF PlacedAt

LEMMA PopFrame ==
  ASSUME NEW ars, NEW fs, PlacedAt(ars, fs), Len(fs) # 1, fs[Len(fs)].what # "arg",
         NEW gs \in {Front(fs)}
  PROVE  PlacedAt(ars, gs) /\ gs[Len(gs)].what # "call"
<1>1. FramesOK(fs) /\ DOMAIN fs = 1..Len(fs) /\ Len(fs) \in Nat \ {0} /\ ArrayOf(fs, Len(fs)) = Len(ars)
  BY PlacedTypes DEF PlacedAt
<1>2. /\ FramesOK(gs) /\ Len(gs) = Len(fs) - 1 /\ Len(gs) \in Nat \ {0} /\ DOMAIN gs = 1..Len(gs)
      /\ \A i \in 1..Len(gs) : gs[i] = fs[i]
      /\ \A i \in 0..Len(gs) : ArrayOf(gs, i) = ArrayOf(fs, i)
      /\ ArrayOf(fs, Len(fs)) = ArrayOf(gs, Len(gs)) + (IF fs[Len(fs)].what = "arg" THEN 1 ELSE 0)
      /\ fs[Len(fs)].what = "arg" <=> gs[Len(gs)].what = "call"
  BY <1>1, Shortened
<1>3. ArrayOf(gs, Len(gs)) = Len(ars)
  <2>1. ArrayOf(gs, Len(gs)) \in Nat
    BY <1>2, ArrayOfIs
  <2> QED  BY <1>1, <1>2, <2>1
<1> DEFINE m == Len(gs)
<1>4. \A i \in 1..m : i \in 0..m /\ i \in 1..Len(fs)
  <2>1. m \in Nat /\ Len(fs) \in Nat /\ m = Len(fs) - 1
    BY <1>1, <1>2
  <2> HIDE DEF m
  <2> QED  BY <2>1
<1>5. \A i \in 1..Len(fs) : fs[i].what = "call" => CallAt(fs[i], ars[ArrayOf(fs, i)])
  BY <1>1 DEF PlacedAt, CallsOK
<1>6. CallsOK(ars, gs)
  <2>1. \A i \in 1..m : gs[i].what = "call" => CallAt(gs[i], ars[ArrayOf(gs, i)])
    BY <1>2, <1>4, <1>5
  <2> QED  BY <1>2, <2>1 DEF CallsOK
<1> QED  BY <1>2, <1>3, <1>6 DEF PlacedAt

LEMMA PopArg ==
  ASSUME NEW ars, NEW fs, PlacedAt(ars, fs), fs[Len(fs)].what = "arg",
         NEW bs \in {Front(ars)}, NEW gs \in {Front(fs)}
  PROVE  PlacedAt(bs, gs) /\ gs[Len(gs)].what = "call" /\ Len(gs) = Len(fs) - 1
         /\ gs[Len(gs)] = fs[Len(fs) - 1]
<1> DEFINE n == Len(ars)
<1>1. FramesOK(fs) /\ DOMAIN fs = 1..Len(fs) /\ Len(fs) \in Nat \ {0} /\ ArrayOf(fs, Len(fs)) = n
  BY PlacedTypes DEF PlacedAt
<1>2. Len(fs) # 1
  <2>1. fs[Len(fs)].what = "text" <=> Len(fs) = 1
    BY <1>1 DEF FramesOK
  <2> QED  BY <2>1
<1>3. /\ FramesOK(gs) /\ Len(gs) = Len(fs) - 1 /\ Len(gs) \in Nat \ {0} /\ DOMAIN gs = 1..Len(gs)
      /\ \A i \in 1..Len(gs) : gs[i] = fs[i]
      /\ \A i \in 0..Len(gs) : ArrayOf(gs, i) = ArrayOf(fs, i)
      /\ ArrayOf(fs, Len(fs)) = ArrayOf(gs, Len(gs)) + (IF fs[Len(fs)].what = "arg" THEN 1 ELSE 0)
      /\ fs[Len(fs)].what = "arg" <=> gs[Len(gs)].what = "call"
  BY <1>1, <1>2, Shortened
<1>4. /\ ars \in Seq(Arrays) /\ ars # <<>> /\ n \in Nat \ {0}
      /\ \A i \in 1..n : ars[i].pos \in 1..(Len(ars[i].toks) + 1)
      /\ TailOK(ars[1])
  <2>1. ars \in Seq(Arrays) /\ ars # <<>> /\ n \in Nat \ {0} /\ DOMAIN ars = 1..n
    BY PlacedTypes
  <2> QED  BY <2>1 DEF PlacedAt, ArraysOK
<1>5. /\ bs \in Seq(Arrays) /\ Len(bs) = n - 1 /\ DOMAIN bs = 1..n - 1
      /\ \A i \in 1..n - 1 : bs[i] = ars[i]
  BY <1>4, LastDropped
<1> DEFINE m == Len(gs)
<1>6. ArrayOf(gs, m) \in Nat \ {0} /\ ArrayOf(gs, m) = n - 1
  <2>1. ArrayOf(gs, m) \in Nat \ {0}
    BY <1>3, ArrayOfIs
  <2> QED  BY <1>1, <1>3, <1>4, <2>1
<1>7. m \in Nat \ {0} /\ m \in 1..m /\ Len(fs) \in Nat /\ m = Len(fs) - 1 /\ \A i \in 1..m : i \in 0..m /\ i \in 1..Len(fs)
  <2>1. m \in Nat \ {0} /\ Len(fs) \in Nat /\ m = Len(fs) - 1
    BY <1>1, <1>3
  <2> HIDE DEF m
  <2> QED  BY <2>1
<1>8. \A i \in 1..Len(fs) : fs[i].what = "call" => CallAt(fs[i], ars[ArrayOf(fs, i)])
  BY <1>1 DEF PlacedAt, CallsOK
<1>9. \A i \in 1..m : ArrayOf(gs, i) \in 1..n - 1
  <2>1. ASSUME NEW i \in 1..m  PROVE ArrayOf(gs, i) \in 1..n - 1
    <3>1. i \in Nat /\ m \in Nat /\ i <= m
      <4> HIDE DEF m
      <4> QED  BY <1>7
    <3>2. ArrayOf(gs, i) \in Nat \ {0} /\ ArrayOf(gs, i) <= ArrayOf(gs, m)
      <4> HIDE DEF m
      <4> QED  BY <3>1, ArrayOfIs, ArrayOfGrows
    <3> DEFINE j == ArrayOf(gs, i)
    <3>3. j \in Nat \ {0} /\ j <= n - 1 /\ n \in Nat
      BY <1>4, <1>6, <3>2
    <3> HIDE DEF j, n
    <3>4. j \in 1..n - 1
      BY <3>3
    <3> QED  BY <3>4 DEF j
  <2> QED  BY <2>1
<1>10. CallsOK(bs, gs)
  <2>1. \A i \in 1..m : gs[i].what = "call" => CallAt(gs[i], bs[ArrayOf(gs, i)])
    BY <1>3, <1>5, <1>7, <1>8, <1>9
  <2> QED  BY <1>3, <2>1 DEF CallsOK
<1> HIDE DEF n
<1>11. ArraysOK(bs)
  <2>1. \A i \in 1..n - 1 : i \in 1..n
    BY <1>4
  <2>2. \A i \in 1..n - 1 : bs[i].pos \in 1..(Len(bs[i].toks) + 1)
    BY <1>4, <1>5, <2>1
  <2> QED  BY <1>5, <2>2 DEF ArraysOK
<1>12. TailOK(bs[1])
  <2>1. 1 \in 1..n - 1
    BY <1>4, <1>6
  <2> QED  BY <1>4, <1>5, <2>1
<1>13. PlacedAt(bs, gs)
  BY <1>3, <1>5, <1>6, <1>10, <1>11, <1>12 DEF PlacedAt
<1>14. gs[Len(gs)] = fs[Len(fs) - 1]
  BY <1>3, <1>7
<1> QED  BY <1>3, <1>13, <1>14

(* The position moves forward.                                             *)
LEMMA MovedPlaced ==
  ASSUME NEW ars, NEW fs, PlacedAt(ars, fs), fs[Len(fs)].what # "call",
         NEW a \in {ars[Len(ars)]}, NEW p \in a.pos..Len(a.toks) + 1,
         NEW bs \in {Append(Front(ars), [a EXCEPT !.pos = p])}
  PROVE  PlacedAt(bs, fs)
<1> DEFINE b == [a EXCEPT !.pos = p]
<1>1. /\ a \in Arrays /\ a.pos \in 1..Len(a.toks) + 1 /\ Len(a.toks) \in Nat
      /\ Len(ars) = 1 => TailOK(a)
  <2>1. Len(ars) \in DOMAIN ars /\ ars \in Seq(Arrays)
    BY PlacedTypes
  <2>2. a \in Arrays /\ a.pos \in 1..Len(a.toks) + 1
    BY <2>1 DEF PlacedAt, ArraysOK
  <2>3. a.toks \in Seq(Tokens)
    BY <2>2 DEF Arrays
  <2>4. Len(ars) = 1 => TailOK(a)
    BY DEF PlacedAt
  <2> QED  BY <2>2, <2>3, <2>4
<1>2. /\ p \in Nat /\ a.pos \in Nat /\ p \in 1..Len(a.toks) + 1
      /\ p < Len(a.toks) => a.pos < Len(a.toks)
  <2> DEFINE n == Len(a.toks)
             q == a.pos
  <2>1. q \in 1..n + 1 /\ n \in Nat /\ p \in q..n + 1
    BY <1>1
  <2> HIDE DEF n, q
  <2>2. p \in Nat /\ q \in Nat /\ p \in 1..n + 1 /\ (p < n => q < n)
    BY <2>1
  <2> QED  BY <2>2 DEF n, q
<1>3. b \in Arrays /\ b.pos = p /\ b.toks = a.toks
  BY <1>1, <1>2 DEF Arrays
<1> HIDE DEF b
<1>4. Len(ars) = 1 => TailOK(b)
  BY <1>1, <1>2, <1>3 DEF TailOK
<1>5. b.pos \in 1..Len(b.toks) + 1
  BY <1>2, <1>3
<1>6. bs \in {Append(Front(ars), b)}
  BY DEF b
<1> QED  BY <1>3, <1>4, <1>5, <1>6, OtherArray

(* A scan takes note of n tokens.                                          *)
LEMMA ReturnedIs ==
  ASSUME NEW fs \in Seq(Frames), fs # <<>>, fs[Len(fs)].what # "call", NEW n \in Nat
  PROVE  /\ Returned(fs, n) \in Seq(Frames) /\ Len(Returned(fs, n)) = Len(fs)
         /\ \A i \in 1..Len(fs) - 1 : Returned(fs, n)[i] = fs[i]
         /\ fs[Len(fs)].what = "text" => Returned(fs, n)[Len(fs)] = fs[Len(fs)]
         /\ fs[Len(fs)].what \in Scans =>
              LET f == fs[Len(fs)]
                  g == Returned(fs, n)[Len(fs)]
              IN  /\ g.what = f.what /\ g.count = f.count /\ g.processed = f.processed + n
                  /\ f.what = "rescan" => g.name = f.name /\ g.before = f.before /\ g.rest = f.rest
<1> DEFINE f == fs[Len(fs)]
           g == [f EXCEPT !.processed = @ + n]
<1>1. Len(fs) \in Nat \ {0} /\ f \in Frames /\ Last(fs) = f
  BY EmptySeq DEF Last
<1>2. f.what \in {"text", "arg", "rescan"}
  BY <1>1, FrameTypes
<1>3. CASE f.what = "text"
  BY <1>1, <1>3 DEF Returned, Scans
<1>4. CASE f.what \in Scans
  <2>1. /\ g \in Frames
        /\ g.what = f.what /\ g.count = f.count /\ g.processed = f.processed + n
        /\ f.what = "rescan" => g.name = f.name /\ g.before = f.before /\ g.rest = f.rest
    <3>1. f \in ArgFrame \/ f \in RescanFrame
      BY <1>1, <1>4, FrameTypes DEF Scans
    <3>2. CASE f \in ArgFrame
      <4>1. g \in ArgFrame /\ g.what = f.what /\ g.count = f.count /\ g.processed = f.processed + n
        BY <3>2 DEF ArgFrame
      <4>2. f.what = "arg"
        BY <3>2 DEF ArgFrame
      <4> HIDE DEF g, f
      <4> QED  BY <4>1, <4>2 DEF Frames
    <3>3. CASE f \in RescanFrame
      <4>1. /\ g \in RescanFrame /\ g.what = f.what /\ g.count = f.count /\ g.processed = f.processed + n
            /\ g.name = f.name /\ g.before = f.before /\ g.rest = f.rest
        BY <3>3 DEF RescanFrame
      <4> HIDE DEF g, f
      <4> QED  BY <4>1 DEF Frames
    <3> QED  BY <3>1, <3>2, <3>3
  <2>2. Returned(fs, n) = Append(Front(fs), g)
    BY <1>1, <1>4 DEF Returned, Scans
  <2> HIDE DEF g
  <2>3. /\ Append(Front(fs), g) \in Seq(Frames) /\ Len(Append(Front(fs), g)) = Len(fs)
        /\ Append(Front(fs), g)[Len(fs)] = g
        /\ \A k \in 1..Len(fs) - 1 : Append(Front(fs), g)[k] = fs[k]
    BY <2>1, FrontFacts
  <2>4. f.what # "text"
    BY <1>4 DEF Scans
  <2> QED  BY <2>1, <2>2, <2>3, <2>4
<1> QED  BY <1>2, <1>3, <1>4 DEF Scans

LEMMA ReturnedPlaced ==
  ASSUME NEW ars, NEW fs, PlacedAt(ars, fs), fs[Len(fs)].what # "call", NEW n \in Nat
  PROVE  PlacedAt(ars, Returned(fs, n))
<1> DEFINE gs == Returned(fs, n)
           k == Len(fs)
<1>1. fs \in Seq(Frames) /\ fs # <<>> /\ k \in Nat \ {0} /\ fs[k] \in Frames
  BY PlacedTypes
<1>2. /\ gs \in Seq(Frames) /\ Len(gs) = k
      /\ \A i \in 1..k - 1 : gs[i] = fs[i]
      /\ fs[k].what = "text" => gs[k] = fs[k]
      /\ fs[k].what \in Scans => gs[k].what = fs[k].what
  BY <1>1, ReturnedIs
<1>3. fs[k].what \in {"text", "arg", "rescan"}
  BY <1>1, FrameTypes
<1> HIDE DEF gs
<1>4. gs[k].what = fs[k].what
  BY <1>2, <1>3 DEF Scans
<1>5. fs[k].what # "call"
  OBVIOUS
<1> HIDE DEF k
<1>6. \A i \in 1..k : i \in 1..k - 1 \/ i = k
  BY <1>1
<1>7. \A i \in 1..k :
           /\ gs[i].what = fs[i].what
           /\ fs[i].what = "call" => gs[i].start = fs[i].start /\ gs[i].end = fs[i].end
  BY <1>2, <1>4, <1>5, <1>6
<1>8. PlacedAt(ars, gs)
  BY <1>2, <1>7, SameFrames DEF k
<1> QED  BY <1>8 DEF gs

(* What splice_pp_tokens writes, and the expansion of it.                  *)
LEMMA SplicedArray ==
  ASSUME NEW a \in Arrays, a.pos \in 1..Len(a.toks) + 1, NEW by \in Seq(Tokens),
         NEW end \in a.pos + 1..Len(a.toks) + 1, a.toks[end - 1].kind \in {")", "ident"},
         NEW b \in {[toks |-> Replace(a.toks, a.pos, end, by), pos |-> a.pos]}
  PROVE  /\ b \in Arrays /\ b.pos \in 1..Len(b.toks) + 1
         /\ Len(b.toks) = Len(a.toks) - (end - a.pos) + Len(by)
         /\ TailOK(a) => TailOK(b)
<1> DEFINE s == a.toks
           q == a.pos
           r == Replace(s, q, end, by)
           n == Len(s)
           m == Len(r)
           k == Len(by)
<1>1. s \in Seq(Tokens) /\ q \in Nat /\ n \in Nat /\ k \in Nat /\ b = [toks |-> r, pos |-> q]
  BY DEF Arrays
<1>2. q \in 1..n + 1 /\ end \in q + 1..n + 1
  OBVIOUS
<1> HIDE DEF n, q, r, k
<1>3. q \in 1..n + 1 /\ end \in q..n + 1
  BY <1>1, <1>2
<1>4. /\ r \in Seq(Tokens) /\ m = n - (end - q) + k
      /\ \A i \in 0..n - end : r[m - i] = s[n - i]
  <2>1. /\ s \in Seq(Tokens) /\ by \in Seq(Tokens)
        /\ q \in 1..Len(s) + 1 /\ end \in q..Len(s) + 1
    BY <1>1, <1>3 DEF n
  <2> HIDE DEF s
  <2> QED  BY ONLY <2>1, ReplaceFacts DEF n, r, m, k
<1>5. b \in Arrays /\ b.toks = r /\ b.pos = q
  BY <1>1, <1>4 DEF Arrays
<1>6. q \in 1..m + 1
  BY <1>1, <1>2, <1>4
<1>7. ASSUME TailOK(a)  PROVE TailOK(b)
  <2>1. s[n].kind = "eof" /\ (q < n => s[n - 1].kind = "nl") /\ s[end - 1].kind \in {")", "ident"}
    BY <1>7 DEF TailOK, n, q
  <2>2. end - 1 # n
    BY <2>1
  <2>3. end - 1 \in q..n /\ q < n
    BY <1>1, <1>2, <2>2
  <2>4. s[n - 1].kind = "nl"
    BY <2>1, <2>3
  <2>5. end - 1 # n - 1
    BY <2>1, <2>4
  <2>6. end <= n - 1 /\ 0 \in 0..n - end /\ 1 \in 0..n - end
    BY <1>1, <1>2, <2>2, <2>5
  <2>7. r[m - 0] = s[n - 0] /\ r[m - 1] = s[n - 1]
    BY <1>4, <2>6
  <2>8. m - 0 = m /\ n - 0 = n /\ m >= 2
    BY <1>1, <1>2, <1>4, <2>6
  <2>9. Len(b.toks) = m
    BY <1>5
  <2>10. r[m].kind = "eof" /\ r[m - 1].kind = "nl" /\ m >= 1
    BY <2>1, <2>4, <2>7, <2>8, <1>4
  <2> HIDE DEF m
  <2> QED  BY <1>5, <2>8, <2>9, <2>10 DEF TailOK
<1> QED  BY <1>4, <1>5, <1>6, <1>7 DEF n, q, k

RescanOf(name, count, before, rest) ==
  [what |-> "rescan", name |-> name, count |-> count, processed |-> 0, before |-> before, rest |-> rest]

LEMMA SplicedPlaced ==
  ASSUME NEW ars, NEW fs, PlacedAt(ars, fs), fs[Len(fs)].what # "call",
         NEW a \in {ars[Len(ars)]}, NEW by \in Seq(Tokens), NEW name \in Texts,
         NEW end \in a.pos + 1..Len(a.toks) + 1, a.toks[end - 1].kind \in {")", "ident"},
         NEW b \in {[toks |-> Replace(a.toks, a.pos, end, by), pos |-> a.pos]},
         NEW f \in {RescanOf(name, Len(by), end - a.pos, Len(a.toks) - end + 1)},
         NEW bs \in {Append(Front(ars), b)}, NEW gs \in {Append(fs, f)}
  PROVE  PlacedAt(bs, gs)
<1>1. /\ a \in Arrays /\ a.pos \in 1..Len(a.toks) + 1
      /\ Len(ars) = 1 => TailOK(a)
  <2>1. Len(ars) \in DOMAIN ars /\ ars \in Seq(Arrays)
    BY PlacedTypes
  <2>2. a \in Arrays /\ a.pos \in 1..Len(a.toks) + 1
    BY <2>1 DEF PlacedAt, ArraysOK
  <2>3. Len(ars) = 1 => TailOK(a)
    BY DEF PlacedAt
  <2> QED  BY <2>2, <2>3
<1>2. /\ b \in Arrays /\ b.pos \in 1..Len(b.toks) + 1
      /\ TailOK(a) => TailOK(b)
  BY <1>1, SplicedArray
<1>3. PlacedAt(bs, fs)
  BY <1>1, <1>2, OtherArray
<1>4. f \in Frames /\ f.what = "rescan"
  <2>1. a.pos \in Nat /\ Len(a.toks) \in Nat /\ Len(by) \in Nat
    <3>1. a.toks \in Seq(Tokens)
      BY <1>1 DEF Arrays
    <3> QED  BY <1>1, <3>1 DEF Arrays
  <2> DEFINE n == Len(a.toks)
             q == a.pos
  <2>2. q \in Nat /\ n \in Nat /\ end \in q + 1..n + 1
    BY <2>1
  <2> HIDE DEF n, q
  <2>3. end - q \in Nat /\ n - end + 1 \in Nat
    BY <2>2
  <2>4. f = RescanOf(name, Len(by), end - q, n - end + 1)
    BY DEF n, q
  <2>5. f \in RescanFrame
    BY <2>1, <2>3, <2>4 DEF RescanOf, RescanFrame
  <2> QED  BY <2>5 DEF Frames, RescanFrame
<1> QED  BY <1>3, <1>4, PushFrame
----------------------------------------------------------------------------
(* What the steps are, in these terms.                                     *)
LEMMA TokWithin ==
  ASSUME Placed, Tok.kind # "eof"
  PROVE  Pos \in 1..Len(Toks) /\ Tok = Toks[Pos] /\ Tok.text \in Texts
<1> DEFINE n == Len(Toks)
<1>1. Pos \in 1..n + 1 /\ n \in Nat
  BY TopArray
<1>2. Eof.kind = "eof"
  BY DEF Eof, Token
<1>3. Pos # n + 1
  BY <1>2, TokIs
<1>4. Tok \in Tokens
  BY TokIs
<1>5. Tok.text \in Texts
  BY <1>4 DEF Tokens
<1> HIDE DEF n
<1>6. Pos \in 1..n /\ Pos <= n
  BY <1>1, <1>3
<1>7. Tok = Toks[Pos]
  BY <1>6, TokIs DEF n
<1> QED  BY <1>5, <1>6, <1>7 DEF n

Forward(p) == Moved(p) /\ frames' = Returned(frames, p - Pos)

LEMMA MoveIs ==
  ASSUME Placed, TextToken \/ Pass \/ NotExpanded \/ NotInvoked
  PROVE  \/ UNCHANGED <<arrays, frames>>
         \/ /\ Scanning /\ Top.what # "call"
            /\ \E p \in Pos + 1..Len(Toks) + 1 :
                 Forward(p) /\ (p = Pos + 1 \/ (NotInvoked /\ p = skip_whitespaces_or_newlines(Pos + 1)))
<1> DEFINE n == Len(Toks)
           q == Pos
<1>1. q \in 1..n + 1 /\ n \in Nat
  BY TopArray
<1>2. Tok.kind # "eof" => q \in 1..n
  BY TokWithin
<1>3. q <= n => q + 1 \in q + 1..n + 1 /\ (q + 1) - q = 1 /\ q + 1 \in 1..n + 1
  <2> HIDE DEF n, q
  <2> QED  BY <1>1
<1>4. Scanning => Top.what # "call"
  BY DEF Scanning
<1>5. q \in 1..n => q <= n
  <2> HIDE DEF n, q
  <2> QED  BY <1>1
<1>6. CASE TextToken
  <2>1. Scanning /\ Top.what = "text" /\ frames' = frames
    BY <1>6 DEF TextToken
  <2>2. UNCHANGED arrays \/ (Tok.kind # "eof" /\ Moved(q + 1))
    BY <1>6 DEF TextToken
  <2>3. frames' = Returned(frames, (q + 1) - q)
    BY <2>1 DEF Returned, Top
  <2> HIDE DEF n, q
  <2> QED  BY <1>2, <1>3, <1>4, <1>5, <2>1, <2>2, <2>3 DEF Forward, n, q
<1>7. CASE Pass
  <2>1. Scanning /\ (UNCHANGED <<arrays, frames>> \/ (~(q > n) /\ Moved(q + 1) /\ frames' = Returned(frames, 1)))
    BY <1>7 DEF Pass
  <2>2. ~(q > n) => q <= n
    <3> HIDE DEF n, q
    <3> QED  BY <1>1
  <2> QED  BY <1>3, <1>4, <2>1, <2>2 DEF Forward
<1>8. CASE NotExpanded
  <2>1. Scanning /\ Tok.kind # "eof" /\ Moved(q + 1) /\ frames' = Returned(frames, 1)
    BY <1>8 DEF NotExpanded, AtMacro
  <2> QED  BY <1>2, <1>3, <1>4, <1>5, <2>1 DEF Forward
<1>9. CASE NotInvoked
  <2> DEFINE next == skip_whitespaces_or_newlines(q + 1)
  <2>1. Scanning /\ Tok.kind # "eof" /\ Moved(next) /\ frames' = Returned(frames, next - q)
    BY <1>9 DEF NotInvoked, Expandable, AtMacro
  <2>2. q + 1 \in 1..n + 1
    BY <1>2, <1>3, <1>5, <2>1
  <2>3. next \in q + 1..n + 1
    BY <2>2, SkipWithin
  <2>4. Forward(next) /\ NotInvoked /\ next = skip_whitespaces_or_newlines(Pos + 1)
    BY <1>9, <2>1 DEF Forward
  <2> HIDE DEF next
  <2> QED  BY <1>4, <2>1, <2>3, <2>4
<1> QED  BY <1>6, <1>7, <1>8, <1>9

LEMMA InvokeIs ==
  ASSUME Placed, Invoke
  PROVE  /\ UNCHANGED arrays /\ Expandable
         /\ \/ UNCHANGED frames
            \/ \E f \in CallFrame :
                 /\ frames' = Append(frames, f) /\ f.name = Tok.text /\ CallAt(f, Last(arrays))
                 /\ ~At(skip_whitespaces_or_newlines(skip_whitespaces_or_newlines(Pos + 1) + 1)).kind = "nl"
                 /\ At(skip_whitespaces_or_newlines(Pos + 1)).kind = "("
                 /\ f.end = pp_parse_macro_arguments(skip_whitespaces_or_newlines(Pos + 1)).end
<1> DEFINE n == Len(Toks)
           q == Pos
           open == skip_whitespaces_or_newlines(Pos + 1)
           read == pp_parse_macro_arguments(open)
           split == At(skip_whitespaces_or_newlines(open + 1)).kind = "nl"
           further == SUBSET ((Len(Macro.params) + 1)..Len(read.args))
           F(x) == [what |-> "call", name |-> Tok.text, start |-> Pos, end |-> read.end, args |-> read.args,
                    next |-> 1, keep |-> no_expand(Macro) \cup x]
<1>1. /\ Expandable /\ At(open).kind = "(" /\ UNCHANGED arrays
      /\ \/ UNCHANGED frames
         \/ ~split /\ read.end # 0 /\ \E x \in further : frames' = Append(frames, F(x))
  BY DEF Invoke
<1>2. q \in 1..n /\ n \in Nat /\ q \in Nat /\ Tok.text \in Texts
  <2>1. Tok.kind # "eof"
    BY <1>1 DEF Expandable, AtMacro
  <2> QED  BY <2>1, TokWithin, TopArray
<1>3. q + 1 \in 1..n + 1
  <2> HIDE DEF n, q
  <2> QED  BY <1>2
<1>4. open \in q + 1..n + 1
  BY <1>3, SkipWithin
<1>5. open \in q + 1..n /\ Toks[open].kind = "("
  <2> DEFINE o == open
  <2>1. o \in q + 1..n + 1 /\ At(o).kind = "("
    BY <1>1, <1>4
  <2> HIDE DEF o
  <2>2. o <= n
    BY <2>1 DEF At, Eof, Token
  <2>3. Toks[o].kind = "("
    BY <2>1, <2>2 DEF At
  <2> HIDE DEF n, q
  <2>4. o \in q + 1..n
    BY <1>2, <2>1, <2>2
  <2> QED  BY <2>3, <2>4 DEF o
<1>6. /\ read.args \in Seq(Seq(Tokens)) /\ read.end \in Nat
      /\ read.end # 0 => read.end \in open + 2..n + 1 /\ Toks[read.end - 1].kind = ")"
  <2> DEFINE o == open
  <2>1. o \in 1..n /\ Toks[o].kind = "("
    <3>1. o \in q + 1..n /\ Toks[o].kind = "("
      BY <1>5
    <3> HIDE DEF o, n, q
    <3> QED  BY <1>2, <3>1
  <2>2. Toks \in Seq(Tokens)
    BY TopArray
  <2> HIDE DEF o
  <2>3. LET r == pp_parse_macro_arguments(o)
        IN  /\ r.args \in Seq(Seq(Tokens)) /\ r.end \in Nat
            /\ r.end # 0 => r.end \in o + 2..n + 1 /\ Toks[r.end - 1].kind = ")"
    BY <2>1, <2>2, ArgumentsAre
  <2> QED  BY <2>3 DEF o
<1>7. read.end # 0 => read.end \in q + 1..n + 1
  <2> DEFINE e == read.end
             o == open
  <2>1. e # 0 => e \in o + 2..n + 1
    BY <1>6
  <2>2. o \in q + 1..n
    BY <1>5
  <2> HIDE DEF e, o, n, q
  <2>3. e # 0 => e \in q + 1..n + 1
    BY <1>2, <2>1, <2>2
  <2> QED  BY <2>3 DEF e
<1> HIDE DEF open, read
<1>8. ASSUME NEW x \in further  PROVE F(x) \in CallFrame
  <2>1. Macro \in Macros
    BY <1>1 DEF Expandable, Macro, Placed, TablesOK
  <2>2. no_expand(Macro) \subseteq Nat
    BY <2>1, NoExpandIs
  <2>3. Len(Macro.params) \in Nat
    <3>1. Macro.params \in Seq(Texts)
      BY <2>1 DEF Macros
    <3> QED  BY <3>1
  <2>4. x \subseteq Nat
    <3> DEFINE m == Len(Macro.params)
    <3>1. Len(read.args) \in Nat
      BY <1>6
    <3>2. \A y \in (m + 1)..Len(read.args) : y \in Nat
      <4> HIDE DEF m
      <4> QED  BY <2>3, <3>1 DEF m
    <3> QED  BY <3>2
  <2>5. no_expand(Macro) \cup x \in SUBSET Nat
    BY <2>2, <2>4
  <2>6. Tok.text \in Texts /\ Pos \in Nat /\ read.end \in Nat /\ read.args \in Seq(Seq(Tokens))
    BY <1>2, <1>6
  <2> DEFINE keep == no_expand(Macro) \cup x
             e == read.end
             args == read.args
             name == Tok.text
  <2>7. F(x) = [what |-> "call", name |-> name, start |-> Pos, end |-> e, args |-> args,
                next |-> 1, keep |-> keep]
    OBVIOUS
  <2>8. keep \in SUBSET Nat /\ name \in Texts /\ e \in Nat /\ args \in Seq(Seq(Tokens)) /\ 1 \in Nat \ {0}
    BY <2>5, <2>6
  <2> HIDE DEF keep, e, args, name, F
  <2> QED  BY <2>6, <2>7, <2>8 DEF CallFrame
<1>9. ASSUME NEW x \in further, read.end # 0  PROVE CallAt(F(x), Last(arrays))
  <2>1. Last(arrays).toks = Toks /\ Last(arrays).pos = q
    BY DEF Toks, Pos
  <2> QED  BY <1>6, <1>7, <1>9, <2>1 DEF CallAt
<1>10. \A x : F(x).name = Tok.text /\ F(x).end = read.end
  OBVIOUS
<1> HIDE DEF F, further
<1> QED  BY <1>1, <1>8, <1>9, <1>10 DEF open, read

LEMMA ExpandArgIs ==
  ASSUME Placed, ExpandArg
  PROVE  \E a \in Arrays, f \in ArgFrame :
           /\ Top.what = "call" /\ f.what = "arg" /\ a.pos = 1 /\ Len(a.toks) \in Nat
           /\ arrays' = Append(arrays, a) /\ frames' = Append(frames, f)
           /\ f.count = Len(a.toks) /\ f.processed = 0
<1> DEFINE arg == Append(Top.args[Top.next], Eof)
           a == [toks |-> arg, pos |-> 1]
           f == [what |-> "arg", count |-> Len(arg), processed |-> 0]
<1>1. /\ Top.what = "call" /\ Top.next <= Len(Top.args)
      /\ arrays' = Append(arrays, a) /\ frames' = Append(frames, f)
  BY DEF ExpandArg, InCall
<1>2. Top.args \in Seq(Seq(Tokens)) /\ Top.next \in Nat \ {0}
  BY <1>1, TopFrame, FrameTypes
<1>3. Top.args[Top.next] \in Seq(Tokens)
  BY <1>1, <1>2
<1>4. Eof \in Tokens
  BY WordlessIs DEF Eof, TokenKinds
<1>5. arg \in Seq(Tokens) /\ Len(arg) \in Nat
  BY <1>3, <1>4
<1> HIDE DEF arg
<1>6. a \in Arrays /\ a.pos = 1 /\ a.toks = arg
  BY <1>5 DEF Arrays
<1>7. f \in ArgFrame /\ f.count = Len(arg) /\ f.processed = 0 /\ f.what = "arg"
  BY <1>5 DEF ArgFrame
<1> HIDE DEF a, f
<1> QED  BY <1>1, <1>5, <1>6, <1>7

LEMMA NextArgIs ==
  ASSUME NEW c \in CallFrame
  PROVE  /\ NextArg(c) \in CallFrame /\ NextArg(c).name = c.name
         /\ NextArg(c).start = c.start /\ NextArg(c).end = c.end
<1> DEFINE k == c.next + 1
<1>1. k \in Nat \ {0}
  <2>1. c.next \in Nat
    BY DEF CallFrame
  <2> QED  BY <2>1
<1>2. NextArg(c) = [c EXCEPT !.next = k]
  BY DEF NextArg
<1> HIDE DEF k
<1> QED  BY <1>1, <1>2 DEF CallFrame

LEMMA OtherElement ==
  ASSUME NEW S, NEW s \in Seq(S), NEW k, NEW x \in S
  PROVE  [s EXCEPT ![k] = x] \in Seq(S)
<1>1. [s EXCEPT ![k] = x] \in [1..Len(s) -> S] /\ Len(s) \in Nat
  <2>1. Len(s) \in Nat /\ s \in [1..Len(s) -> S]
    OBVIOUS
  <2>2. \A D : \A f \in [D -> S] : [f EXCEPT ![k] = x] \in [D -> S]
    OBVIOUS
  <2> QED  BY <2>1, <2>2
<1> QED  BY <1>1, AsSequence

LEMMA KeepArgIs ==
  ASSUME Placed, KeepArg
  PROVE  \E f \in CallFrame :
           /\ UNCHANGED arrays /\ Top.what = "call" /\ frames' = Append(Front(frames), f)
           /\ f.name = Top.name /\ f.start = Top.start /\ f.end = Top.end
<1> DEFINE f == NextArg(Top)
<1>1. Top.what = "call" /\ UNCHANGED arrays /\ frames' = Append(Front(frames), f)
  BY DEF KeepArg, InCall
<1>2. Top \in CallFrame
  BY <1>1, TopFrame, FrameTypes
<1>3. f \in CallFrame /\ f.name = Top.name /\ f.start = Top.start /\ f.end = Top.end
  BY <1>2, NextArgIs
<1> HIDE DEF f
<1> QED  BY <1>1, <1>3

LEMMA EndArgIs ==
  ASSUME Placed, EndArg
  PROVE  LET call == frames[Len(frames) - 1] IN
         /\ Top.what = "arg" /\ call.what = "call" /\ arrays' = Front(arrays)
         /\ \E f \in CallFrame :
              /\ frames' = Append(Front(Front(frames)), f)
              /\ f.name = call.name /\ f.start = call.start /\ f.end = call.end
<1> DEFINE call == frames[Len(frames) - 1]
           arg == Front(Toks)
           g == [call EXCEPT !.args[call.next] = arg]
           f == NextArg(g)
<1>1. /\ Top.what = "arg" /\ arrays' = Front(arrays)
      /\ frames' = Append(Front(Front(frames)), f)
  BY DEF EndArg
<1>2. call.what = "call" /\ call \in Frames
  <2> DEFINE n == Len(frames)
  <2>1. n \in Nat /\ n > 1 /\ call.what = "call" /\ frames \in Seq(Frames)
    BY <1>1, TopFrame
  <2>2. n - 1 \in 1..n
    <3> HIDE DEF n
    <3> QED  BY <2>1
  <2> QED  BY <2>1, <2>2
<1> HIDE DEF call
<1>3. call \in CallFrame
  BY <1>2, FrameTypes
<1>4. arg \in Seq(Tokens)
  <2> DEFINE n == Len(Toks)
  <2>1. n \in Nat /\ n - 1 \in Int /\ \A i \in 1..n - 1 : Toks[i] \in Tokens
    BY TopArray
  <2>2. arg = SubSeq(Toks, 1, n - 1)
    BY DEF Front
  <2> HIDE DEF n, arg
  <2> QED  BY <2>1, <2>2, SubSeqProperties
<1> HIDE DEF arg
<1>5. [call.args EXCEPT ![call.next] = arg] \in Seq(Seq(Tokens))
  <2>1. call.args \in Seq(Seq(Tokens))
    BY <1>3 DEF CallFrame
  <2> QED  BY <1>4, <2>1, OtherElement
<1>6. g \in CallFrame /\ g.name = call.name /\ g.start = call.start /\ g.end = call.end
  <2> DEFINE args == [call.args EXCEPT ![call.next] = arg]
  <2>1. g = [call EXCEPT !.args = args]
    BY <1>3 DEF CallFrame
  <2> HIDE DEF args
  <2> QED  BY <1>3, <1>5, <2>1 DEF CallFrame, args
<1> HIDE DEF g
<1>7. f \in CallFrame /\ f.name = call.name /\ f.start = call.start /\ f.end = call.end
  BY <1>6, NextArgIs
<1> HIDE DEF f
<1> QED  BY <1>1, <1>2, <1>7 DEF call

(* A replacement: the frames below the invocation, and what it becomes.    *)
Splice(fs, name, end, by) ==
  /\ PlacedAt(arrays, fs) /\ fs[Len(fs)].what # "call" /\ name \in Texts /\ by \in Seq(Tokens)
  /\ end \in Pos + 1..Len(Toks) + 1 /\ Toks[end - 1].kind \in {")", "ident"}
  /\ arrays' = Append(Front(arrays), [toks |-> Replace(Toks, Pos, end, by), pos |-> Pos])
  /\ frames' = Append(fs, RescanOf(name, Len(by), end - Pos, Len(Toks) - end + 1))

LEMMA SubstituteIs ==
  ASSUME Placed, NamesApart, Substitute
  PROVE  /\ Top.what = "call" /\ Len(frames) # 1
         /\ \/ UNCHANGED <<arrays, frames>>
            \/ \E by \in Seq(Tokens) : Splice(Front(frames), Top.name, Top.end, by)
<1> DEFINE m == macros[Top.name]
           region == pasted(substituted(m, Top.args))
           by == without_placemarkers(region.toks)
           fs == Front(frames)
<1>1. /\ Top.what = "call"
      /\ UNCHANGED <<arrays, frames>> \/ Rescan(fs, Top.name, Top.start, Top.end, by)
  BY DEF Substitute, InCall
<1>2. /\ Len(frames) \in Nat \ {0} /\ Top = frames[Len(frames)] /\ Len(frames) # 1 /\ frames \in Seq(Frames)
      /\ Top.name \in Texts /\ Top.args \in Seq(Seq(Tokens))
  BY <1>1, TopFrame, FrameTypes
<1>3. Len(frames) \in DOMAIN frames
  BY <1>2
<1>4. m \in Macros
  BY <1>1, <1>2, <1>3 DEF NamesApart, Named, Placed, TablesOK
<1>5. by \in Seq(Tokens)
  <2>1. substituted(m, Top.args) \in Seq(Tokens)
    <3> HIDE DEF m
    <3> QED  BY <1>2, <1>4, SubstitutedIs
  <2>2. region \in Pastes
    <3> DEFINE s == substituted(m, Top.args)
    <3>1. s \in Seq(Tokens)
      BY <2>1
    <3> HIDE DEF s
    <3>2. pasted(s) \in Pastes
      BY <3>1, PastedIs
    <3> QED  BY <3>2 DEF s
  <2> HIDE DEF region
  <2>3. region.toks \in Seq(Tokens)
    BY <2>2 DEF Pastes
  <2> QED  BY <2>3, WithoutPlacemarkersIs
<1>6. PlacedAt(arrays, fs) /\ fs[Len(fs)].what # "call"
  <2>1. frames[Len(frames)].what # "arg" /\ PlacedAt(arrays, frames) /\ fs \in {Front(frames)}
    BY <1>1, <1>2 DEF Placed
  <2> HIDE DEF fs
  <2> QED  BY <1>2, <2>1, PopFrame
<1>7. CallAt(Top, Last(arrays))
  <2>1. ArrayOf(frames, Len(frames)) = Len(arrays) /\ arrays[Len(arrays)] = Last(arrays)
    BY TopArray DEF Placed, PlacedAt
  <2> QED  BY <1>1, <1>2, <1>3, <2>1 DEF Placed, PlacedAt, CallsOK
<1>8. Top.start = Pos /\ Top.end \in Pos + 1..Len(Toks) + 1 /\ Toks[Top.end - 1].kind = ")"
  BY <1>7 DEF CallAt, Toks, Pos
<1> HIDE DEF by, fs
<1>9. ASSUME Rescan(fs, Top.name, Top.start, Top.end, by)  PROVE Splice(fs, Top.name, Top.end, by)
  BY <1>2, <1>5, <1>6, <1>8, <1>9 DEF Rescan, SetTop, Splice, RescanOf
<1> QED  BY <1>1, <1>2, <1>5, <1>9 DEF fs

LEMMA ExpandObjectIs ==
  ASSUME Placed, ExpandObject
  PROVE  /\ Expandable /\ Pos + 1 <= Len(Toks) + 1
         /\ \/ UNCHANGED <<arrays, frames>>
            \/ \E by \in Seq(Tokens) : Splice(frames, Tok.text, Pos + 1, by)
<1> DEFINE n == Len(Toks)
           q == Pos
<1>1. /\ Expandable
      /\ UNCHANGED <<arrays, frames>> \/ Rescan(frames, Tok.text, Pos, Pos + 1, Macro.body)
  BY DEF ExpandObject
<1>2. Tok.kind = "ident" /\ Top.what # "call" /\ Macro.body \in Seq(Tokens)
  <2>1. Macro \in Macros
    BY <1>1 DEF Expandable, Macro, Placed, TablesOK
  <2> QED  BY <1>1, <2>1 DEF Expandable, AtMacro, Scanning, Macros
<1>3. q \in 1..n /\ Tok = Toks[q] /\ Tok.text \in Texts /\ n \in Nat
  BY <1>2, TokWithin, TopArray
<1>4. q + 1 \in q + 1..n + 1 /\ (q + 1) - 1 = q /\ q + 1 <= n + 1
  <2> HIDE DEF n, q
  <2> QED  BY <1>3
<1>5. PlacedAt(arrays, frames) /\ frames[Len(frames)].what # "call"
  BY <1>2, TopFrame DEF Placed
<1>6. Toks[(q + 1) - 1].kind = "ident"
  BY <1>2, <1>3, <1>4
<1> DEFINE by == Macro.body
<1>7. by \in Seq(Tokens)
  BY <1>2
<1> HIDE DEF by
<1>8. ASSUME Rescan(frames, Tok.text, Pos, Pos + 1, by)  PROVE Splice(frames, Tok.text, Pos + 1, by)
  BY <1>3, <1>4, <1>5, <1>6, <1>7, <1>8 DEF Rescan, SetTop, Splice, RescanOf
<1> QED  BY <1>1, <1>4, <1>7, <1>8 DEF by

LEMMA DirectiveIs ==
  ASSUME Placed, Directive
  PROVE  /\ Len(frames) = 1 /\ Top.what = "text" /\ UNCHANGED frames
         /\ \E b \in Arrays :
              /\ arrays' = Append(Front(arrays), b) /\ Len(b.toks) = Len(Toks)
              /\ b.pos \in Pos + 1..Len(Toks) + 1 /\ TailOK(b)
              /\ \A i \in 1..Pos - 1 : b.toks[i] = Toks[i]
<1> DEFINE n == Len(Toks)
           q == Pos
           ends == {i \in q..n : Toks[i].kind = "nl"}
           e == Min(ends)
           removed == [i \in DOMAIN Toks |-> IF i \in q..e THEN Token("removed", <<>>) ELSE Toks[i]]
           b == [toks |-> removed, pos |-> e + 1]
<1>1. Top.what = "text" /\ Tok.kind = "dir" /\ UNCHANGED frames /\ arrays' = Append(Front(arrays), b)
  BY DEF Directive, SetTop
<1>2. Len(frames) = 1 /\ Len(arrays) = 1
  <2>1. Len(frames) = 1 /\ frames[1].what = "text"
    BY <1>1, TopFrame
  <2>2. ArgsUpTo(frames, 1) = {}
    BY <2>1 DEF ArgsUpTo
  <2>3. ArrayOf(frames, 1) = 1
    BY <2>2, FS_EmptySet DEF ArrayOf
  <2> QED  BY <2>1, <2>3 DEF Placed, PlacedAt
<1>3. q \in 1..n /\ n \in Nat /\ Toks \in Seq(Tokens) /\ Toks[q].kind = "dir"
  BY <1>1, TokWithin, TopArray
<1>4. Toks[n].kind = "eof" /\ (q < n => Toks[n - 1].kind = "nl")
  <2>1. TailOK(Last(arrays))
    BY <1>2, TopArray DEF Placed, PlacedAt
  <2> QED  BY <2>1 DEF TailOK, Toks, Pos
<1> HIDE DEF n, q
<1>5. q < n /\ n - 1 \in q..n
  BY <1>3, <1>4
<1>6. e \in ends /\ \A j \in ends : e <= j
  <2>1. n - 1 \in ends /\ ends \subseteq Nat
    BY <1>3, <1>4, <1>5
  <2> HIDE DEF ends
  <2> QED  BY <2>1, MinIs
<1>7. e \in q..n - 1
  <2>1. n - 1 \in ends /\ \A j \in ends : j \in q..n
    BY <1>4, <1>5
  <2> HIDE DEF ends, e
  <2>2. e \in q..n /\ e <= n - 1
    BY <1>6, <2>1
  <2> QED  BY <1>3, <2>2
<1> HIDE DEF e, ends
<1>8. /\ removed \in Seq(Tokens) /\ Len(removed) = n
      /\ \A i \in 1..n : removed[i] = IF i \in q..e THEN Token("removed", <<>>) ELSE Toks[i]
  <2>1. Token("removed", <<>>) \in Tokens
    BY WordlessIs DEF TokenKinds
  <2>2. DOMAIN Toks = 1..n /\ \A i \in 1..n : Toks[i] \in Tokens
    BY <1>3 DEF n
  <2>3. removed \in [1..n -> Tokens]
    BY <2>1, <2>2
  <2>4. \A i \in 1..n : removed[i] = IF i \in q..e THEN Token("removed", <<>>) ELSE Toks[i]
    BY <2>2
  <2> HIDE DEF removed
  <2> QED  BY <1>3, <2>3, <2>4, AsSequence
<1> HIDE DEF removed
<1>9. e + 1 \in q + 1..n + 1 /\ e + 1 \in Nat /\ n \in 1..n /\ n >= 2 /\ n - 1 \in 1..n
  BY <1>3, <1>5, <1>7
<1>10. b \in Arrays /\ b.toks = removed /\ b.pos = e + 1
  BY <1>8, <1>9 DEF Arrays
<1> HIDE DEF b
<1>11. TailOK(b)
  <2>1. n \notin q..e /\ (e + 1 < n => n - 1 \notin q..e)
    BY <1>3, <1>7
  <2>2. removed[n].kind = "eof" /\ (e + 1 < n => removed[n - 1].kind = "nl")
    BY <1>4, <1>5, <1>8, <1>9, <2>1
  <2>3. n >= 1
    BY <1>9
  <2> QED  BY <1>8, <1>9, <1>10, <2>2, <2>3 DEF TailOK
<1>12. \A i \in 1..q - 1 : b.toks[i] = Toks[i]
  <2>1. \A i \in 1..q - 1 : i \in 1..n /\ i \notin q..e
    BY <1>3, <1>7
  <2> QED  BY <1>8, <1>10, <2>1
<1> QED  BY <1>1, <1>2, <1>8, <1>9, <1>10, <1>11, <1>12 DEF n, q
----------------------------------------------------------------------------
(* Types, arrays and invocations.                                          *)
LEMMA InitPlaced == Init => Placed /\ NamesApart
<1> SUFFICES ASSUME Init  PROVE Placed /\ NamesApart
  OBVIOUS
<1>1. PICK p \in Programs : macros = p.macros /\ source = p.text /\ skip_newline = p.skip_newline
  BY DEF Init
<1>2. /\ IsFiniteSet(DOMAIN macros) /\ DOMAIN macros \subseteq Texts
      /\ \A name \in DOMAIN macros : macros[name] \in Macros
      /\ source \in Seq(Tokens) /\ source # <<>> /\ Last(source).kind = "nl"
      /\ skip_newline \in BOOLEAN
  BY <1>1, ProgramsAssumption
<1>3. TablesOK
  BY <1>2 DEF Init, TablesOK
<1> DEFINE n == Len(source)
           s == Append(source, Eof)
           a == [toks |-> s, pos |-> 1]
           f == [what |-> "text"]
<1>4. arrays = <<a>> /\ frames = <<f>>
  BY DEF Init
<1>5. n \in Nat \ {0} /\ source[n].kind = "nl"
  BY <1>2, EmptySeq DEF Last
<1>6. /\ s \in Seq(Tokens) /\ Len(s) = n + 1 /\ s[n + 1] = Eof /\ s[n] = source[n]
  <2>1. Eof \in Tokens
    BY WordlessIs DEF Eof, TokenKinds
  <2> QED  BY <1>2, <1>5, <2>1
<1> HIDE DEF s, n
<1>7. a \in Arrays /\ a.pos = 1 /\ a.toks = s
  BY <1>6 DEF Arrays
<1> HIDE DEF a
<1>8. ArraysOK(arrays) /\ Len(arrays) = 1 /\ arrays[1] = a
  <2>1. arrays \in Seq(Arrays) /\ Len(arrays) = 1 /\ arrays[1] = a /\ DOMAIN arrays = {1}
    BY <1>4, <1>7
  <2>2. 1 \in 1..(n + 1) + 1
    BY <1>5
  <2> QED  BY <1>6, <1>7, <2>1, <2>2 DEF ArraysOK
<1>9. TailOK(a)
  <2>1. Eof.kind = "eof"
    BY DEF Eof, Token
  <2>2. n + 1 >= 1 /\ n + 1 >= 2 /\ (n + 1) - 1 = n
    BY <1>5
  <2> QED  BY <1>5, <1>6, <1>7, <2>1, <2>2 DEF TailOK
<1>10. f \in Frames /\ f.what = "text"
  BY DEF Frames, TextFrame
<1> HIDE DEF f
<1>11. /\ frames \in Seq(Frames) /\ frames # <<>> /\ Len(frames) = 1 /\ frames[1].what = "text"
       /\ DOMAIN frames = {1}
  BY <1>4, <1>10
<1>12. FramesOK(frames)
  <2>1. 2..1 = {}
    OBVIOUS
  <2> QED  BY <1>11, <2>1 DEF FramesOK
<1>13. ArrayOf(frames, 1) = 1
  <2>1. ArgsUpTo(frames, 1) = {}
    BY <1>11 DEF ArgsUpTo
  <2> QED  BY <2>1, FS_EmptySet DEF ArrayOf
<1>14. CallsOK(arrays, frames)
  BY <1>11 DEF CallsOK
<1>15. NamesApart
  BY <1>11 DEF NamesApart, Named, Apart
<1> QED  BY <1>3, <1>8, <1>9, <1>11, <1>12, <1>13, <1>14, <1>15 DEF Placed, PlacedAt

LEMMA TablesKept == TablesOK /\ [Next]_vars => TablesOK'
<1> SUFFICES ASSUME TablesOK, [Next]_vars  PROVE TablesOK'
  OBVIOUS
<1> USE DEF TablesOK
<1>1. CASE Directive
  BY <1>1 DEF Directive
<1>2. CASE TextToken
  BY <1>2 DEF TextToken
<1>3. CASE Pass
  BY <1>3 DEF Pass
<1>4. CASE NotExpanded
  BY <1>4 DEF NotExpanded
<1>5. CASE NotInvoked
  BY <1>5 DEF NotInvoked
<1>6. CASE Invoke
  BY <1>6 DEF Invoke
<1>7. CASE ExpandArg
  BY <1>7 DEF ExpandArg
<1>8. CASE KeepArg
  BY <1>8 DEF KeepArg
<1>9. CASE EndArg
  BY <1>9 DEF EndArg
<1>10. CASE Substitute
  BY <1>10 DEF Substitute
<1>11. CASE ExpandObject
  BY <1>11 DEF ExpandObject
<1>12. CASE EndRescan
  BY <1>12 DEF EndRescan
<1>13. CASE UNCHANGED vars
  BY <1>13 DEF vars
<1> QED
  BY <1>1, <1>2, <1>3, <1>4, <1>5, <1>6, <1>7, <1>8, <1>9, <1>10, <1>11, <1>12, <1>13 DEF Next

LEMMA PlacedKept == Placed /\ NamesApart /\ [Next]_vars => Placed'
<1> SUFFICES ASSUME Placed, NamesApart, [Next]_vars  PROVE PlacedAt(arrays', frames')
  BY TablesKept DEF Placed
<1>1. PlacedAt(arrays, frames) /\ Last(arrays) = arrays[Len(arrays)] /\ Top = frames[Len(frames)]
  BY TopArray, TopFrame DEF Placed
<1>2. CASE UNCHANGED <<arrays, frames>>
  BY <1>1, <1>2
<1>3. CASE Directive
  <2>1. PICK b \in Arrays :
          /\ arrays' = Append(Front(arrays), b) /\ Len(b.toks) = Len(Toks)
          /\ b.pos \in Pos + 1..Len(Toks) + 1 /\ TailOK(b)
    BY <1>3, DirectiveIs
  <2>2. UNCHANGED frames /\ Top.what = "text"
    BY <1>3, DirectiveIs
  <2>3. b.pos \in 1..Len(b.toks) + 1
    <3> DEFINE n == Len(Toks)
               q == Pos
    <3>1. q \in 1..n + 1 /\ n \in Nat /\ b.pos \in q + 1..n + 1
      BY <2>1, TopArray
    <3> HIDE DEF n, q
    <3>2. b.pos \in 1..n + 1
      BY <3>1
    <3> QED  BY <2>1, <3>2 DEF n
  <2>4. PlacedAt(arrays', frames)
    BY <1>1, <2>1, <2>2, <2>3, OtherArray
  <2> QED  BY <2>2, <2>4
<1>4. ASSUME NEW p \in Pos + 1..Len(Toks) + 1, Forward(p), Top.what # "call"
      PROVE  PlacedAt(arrays', frames')
  <2> DEFINE n == Len(Toks)
             q == Pos
             a == arrays[Len(arrays)]
  <2>1. q \in 1..n + 1 /\ n \in Nat /\ p \in q + 1..n + 1
    BY <1>4, TopArray
  <2>2. a.toks = Toks /\ a.pos = q
    BY <1>1 DEF Toks, Pos
  <2>3. p \in q..n + 1 /\ p - q \in Nat
    <3> HIDE DEF n, q
    <3> QED  BY <2>1
  <2>4. arrays' = Append(Front(arrays), [a EXCEPT !.pos = p]) /\ frames' = Returned(frames, p - q)
    BY <1>1, <1>4 DEF Forward, Moved, SetTop
  <2>5. p \in a.pos..Len(a.toks) + 1
    BY <2>2, <2>3
  <2>6. frames[Len(frames)].what # "call" /\ a \in {arrays[Len(arrays)]}
    BY <1>1, <1>4
  <2> HIDE DEF a, q, n
  <2>7. PlacedAt(arrays', frames)
    BY <1>1, <2>4, <2>5, <2>6, MovedPlaced
  <2>8. PlacedAt(arrays', Returned(frames, p - q))
    BY <2>3, <2>6, <2>7, ReturnedPlaced
  <2> QED  BY <2>4, <2>8
<1>5. CASE TextToken \/ Pass \/ NotExpanded \/ NotInvoked
  BY <1>2, <1>4, <1>5, MoveIs
<1>6. CASE Invoke
  <2>1. CASE UNCHANGED frames
    BY <1>2, <1>6, <2>1, InvokeIs
  <2>2. CASE \E f \in CallFrame : frames' = Append(frames, f) /\ CallAt(f, Last(arrays))
    <3>1. PICK f \in CallFrame : frames' = Append(frames, f) /\ CallAt(f, Last(arrays))
      BY <2>2
    <3>2. UNCHANGED arrays /\ Top.what # "call"
      BY <1>6, InvokeIs DEF Expandable, AtMacro, Scanning
    <3>3. f \in Frames /\ f.what = "call"
      BY DEF Frames, CallFrame
    <3>4. PlacedAt(arrays, frames')
      BY <1>1, <3>1, <3>2, <3>3, PushFrame
    <3> QED  BY <3>2, <3>4
  <2> QED  BY <1>6, <2>1, <2>2, InvokeIs
<1>7. CASE ExpandArg
  <2>1. PICK a \in Arrays, f \in ArgFrame :
          /\ Top.what = "call" /\ f.what = "arg" /\ a.pos = 1 /\ Len(a.toks) \in Nat
          /\ arrays' = Append(arrays, a) /\ frames' = Append(frames, f)
    BY <1>7, ExpandArgIs
  <2>2. a.pos \in 1..Len(a.toks) + 1
    BY <2>1
  <2>3. f \in Frames
    BY DEF Frames
  <2> QED  BY <1>1, <2>1, <2>2, <2>3, PushArg
<1>8. CASE KeepArg
  <2>1. PICK f \in CallFrame :
          /\ UNCHANGED arrays /\ Top.what = "call" /\ frames' = Append(Front(frames), f)
          /\ f.name = Top.name /\ f.start = Top.start /\ f.end = Top.end
    BY <1>8, KeepArgIs
  <2> DEFINE n == Len(frames)
  <2>2. n \in Nat \ {0} /\ frames \in Seq(Frames) /\ frames # <<>>
    BY TopFrame
  <2>3. f \in Frames /\ f.what = "call"
    BY DEF Frames, CallFrame
  <2>4. /\ frames' \in Seq(Frames) /\ Len(frames') = n /\ frames'[n] = f
        /\ \A k \in 1..n - 1 : frames'[k] = frames[k]
    BY <2>1, <2>2, <2>3, FrontFacts
  <2>5. \A k \in 1..n : k \in 1..n - 1 \/ k = n
    <3> HIDE DEF n
    <3> QED  BY <2>2
  <2>6. \A k \in 1..n :
          /\ frames'[k].what = frames[k].what
          /\ frames[k].what = "call" => frames'[k].start = frames[k].start /\ frames'[k].end = frames[k].end
    BY <1>1, <2>1, <2>3, <2>4, <2>5
  <2>7. PlacedAt(arrays, frames')
    BY <1>1, <2>4, <2>6, SameFrames
  <2> QED  BY <2>1, <2>7
<1>9. CASE EndArg
  <2> DEFINE gs == Front(frames)
             call == frames[Len(frames) - 1]
             k == Len(gs)
  <2>1. Top.what = "arg" /\ call.what = "call" /\ arrays' = Front(arrays)
    BY <1>9, EndArgIs
  <2>2. PICK f \in CallFrame :
          /\ frames' = Append(Front(gs), f)
          /\ f.name = call.name /\ f.start = call.start /\ f.end = call.end
    BY <1>9, EndArgIs
  <2>3. PlacedAt(arrays', gs) /\ gs[k] = call
    BY <1>1, <2>1, PopArg
  <2> HIDE DEF gs, call
  <2>4. k \in Nat \ {0} /\ gs \in Seq(Frames) /\ gs # <<>>
    BY <2>3, PlacedTypes
  <2>5. f \in Frames /\ f.what = "call"
    BY DEF Frames, CallFrame
  <2>6. /\ frames' \in Seq(Frames) /\ Len(frames') = k /\ frames'[k] = f
        /\ \A i \in 1..k - 1 : frames'[i] = gs[i]
    BY <2>2, <2>4, <2>5, FrontFacts
  <2>7. \A i \in 1..k : i \in 1..k - 1 \/ i = k
    <3> HIDE DEF k
    <3> QED  BY <2>4
  <2>8. \A i \in 1..k :
          /\ frames'[i].what = gs[i].what
          /\ gs[i].what = "call" => frames'[i].start = gs[i].start /\ frames'[i].end = gs[i].end
    BY <2>1, <2>2, <2>3, <2>5, <2>6, <2>7
  <2> QED  BY <2>3, <2>6, <2>8, SameFrames
<1>10. ASSUME NEW fs, NEW name, NEW end, NEW by, Splice(fs, name, end, by)
       PROVE  PlacedAt(arrays', frames')
  <2> DEFINE a == arrays[Len(arrays)]
             b == [toks |-> Replace(a.toks, a.pos, end, by), pos |-> a.pos]
             f == RescanOf(name, Len(by), end - a.pos, Len(a.toks) - end + 1)
  <2>1. a.toks = Toks /\ a.pos = Pos
    BY <1>1 DEF Toks, Pos
  <2>2. /\ PlacedAt(arrays, fs) /\ fs[Len(fs)].what # "call" /\ name \in Texts /\ by \in Seq(Tokens)
        /\ end \in a.pos + 1..Len(a.toks) + 1 /\ a.toks[end - 1].kind \in {")", "ident"}
        /\ arrays' = Append(Front(arrays), b) /\ frames' = Append(fs, f)
    BY <1>10, <2>1 DEF Splice
  <2>3. a \in {arrays[Len(arrays)]}
    OBVIOUS
  <2>4. b \in {[toks |-> Replace(a.toks, a.pos, end, by), pos |-> a.pos]}
        /\ f \in {RescanOf(name, Len(by), end - a.pos, Len(a.toks) - end + 1)}
    OBVIOUS
  <2>5. arrays' \in {Append(Front(arrays), b)} /\ frames' \in {Append(fs, f)}
    BY <2>2
  <2> HIDE DEF a, b, f
  <2> QED  BY <2>2, <2>3, <2>4, <2>5, SplicedPlaced
<1>11. CASE Substitute
  BY <1>2, <1>10, <1>11, SubstituteIs
<1>12. CASE ExpandObject
  BY <1>2, <1>10, <1>12, ExpandObjectIs
<1>13. CASE EndRescan
  <2> DEFINE gs == Front(frames)
             k == token_count_before_expansion(Top)
  <2>1. UNCHANGED arrays /\ Top.what = "rescan" /\ frames' = Returned(gs, k)
    BY <1>13 DEF EndRescan
  <2>2. Len(frames) # 1 /\ k \in Nat
    BY <2>1, TopFrame, FrameTypes DEF token_count_before_expansion
  <2>3. PlacedAt(arrays, gs) /\ gs[Len(gs)].what # "call"
    <3>1. frames[Len(frames)].what # "arg" /\ gs \in {Front(frames)}
      BY <1>1, <2>1
    <3> HIDE DEF gs
    <3> QED  BY <1>1, <2>2, <3>1, PopFrame
  <2> HIDE DEF gs, k
  <2> QED  BY <2>1, <2>2, <2>3, ReturnedPlaced
<1>14. CASE UNCHANGED vars
  BY <1>2, <1>14 DEF vars
<1> QED
  BY <1>3, <1>5, <1>6, <1>7, <1>8, <1>9, <1>11, <1>12, <1>13, <1>14 DEF Next
----------------------------------------------------------------------------
(* The names of expansions in progress.                                    *)
NamesIn(fs, names) == Named(fs, names) /\ Apart(fs)

LEMMA NamesSame ==
  ASSUME NEW fs, NEW gs, NEW names, NamesIn(fs, names), DOMAIN gs = DOMAIN fs,
         \A i \in DOMAIN fs :
           /\ gs[i].what = fs[i].what
           /\ fs[i].what \in {"call", "rescan"} => gs[i].name = fs[i].name
  PROVE  NamesIn(gs, names)
<1>1. Named(gs, names)
  BY DEF NamesIn, Named
<1>2. Apart(gs)
  BY DEF NamesIn, Apart
<1> QED  BY <1>1, <1>2 DEF NamesIn

LEMMA NamesPush ==
  ASSUME NEW fs, NEW gs, NEW names, NEW n \in Nat, NamesIn(fs, names),
         DOMAIN fs = 1..n, DOMAIN gs = 1..n + 1, \A i \in 1..n : gs[i] = fs[i],
         gs[n + 1].what \in {"call", "rescan"} =>
           /\ gs[n + 1].name \in names
           /\ \A i \in 1..n : fs[i].what = "rescan" => fs[i].name # gs[n + 1].name
  PROVE  NamesIn(gs, names)
<1>1. \A i \in 1..n + 1 : i \in 1..n \/ i = n + 1
  OBVIOUS
<1>2. Named(gs, names)
  BY <1>1 DEF NamesIn, Named
<1>3. ASSUME NEW i \in 1..n + 1, NEW j \in 1..n + 1, i < j,
             gs[i].what = "rescan", gs[j].what \in {"call", "rescan"}
      PROVE  gs[i].name # gs[j].name
  <2>1. i \in 1..n
    BY <1>3
  <2>2. CASE j \in 1..n
    BY <1>3, <2>1, <2>2 DEF NamesIn, Apart
  <2>3. CASE j = n + 1
    BY <1>3, <2>1, <2>3
  <2> QED  BY <1>1, <2>2, <2>3
<1>4. Apart(gs)
  BY <1>3 DEF Apart
<1> QED  BY <1>2, <1>4 DEF NamesIn

LEMMA NamesPop ==
  ASSUME NEW fs, NEW gs, NEW names, NEW n \in Nat, NamesIn(fs, names),
         DOMAIN fs = 1..n, DOMAIN gs = 1..n - 1, \A i \in 1..n - 1 : gs[i] = fs[i]
  PROVE  NamesIn(gs, names)
<1>1. \A i \in 1..n - 1 : i \in 1..n
  OBVIOUS
<1>2. Named(gs, names)
  BY <1>1 DEF NamesIn, Named
<1>3. Apart(gs)
  BY <1>1 DEF NamesIn, Apart
<1> QED  BY <1>2, <1>3 DEF NamesIn

LEMMA NamesReturned ==
  ASSUME NEW fs \in Seq(Frames), fs # <<>>, fs[Len(fs)].what # "call", NEW n \in Nat,
         NEW names, NamesIn(fs, names)
  PROVE  NamesIn(Returned(fs, n), names)
<1> DEFINE gs == Returned(fs, n)
           k == Len(fs)
<1>1. k \in Nat \ {0} /\ DOMAIN fs = 1..k /\ fs[k] \in Frames
  BY EmptySeq
<1>2. /\ gs \in Seq(Frames) /\ Len(gs) = k
      /\ \A i \in 1..k - 1 : gs[i] = fs[i]
      /\ fs[k].what = "text" => gs[k] = fs[k]
      /\ fs[k].what \in Scans => /\ gs[k].what = fs[k].what
                                 /\ fs[k].what = "rescan" => gs[k].name = fs[k].name
  BY ReturnedIs
<1>3. fs[k].what \in {"text", "arg", "rescan"}
  BY <1>1, FrameTypes
<1> HIDE DEF gs
<1>4. DOMAIN gs = 1..k
  BY <1>2
<1> HIDE DEF k
<1>5. \A i \in 1..k : i \in 1..k - 1 \/ i = k
  BY <1>1
<1>6. /\ gs[k].what = fs[k].what
      /\ fs[k].what \in {"call", "rescan"} => gs[k].name = fs[k].name
  BY <1>2, <1>3 DEF Scans
<1>7. \A i \in 1..k :
           /\ gs[i].what = fs[i].what
           /\ fs[i].what \in {"call", "rescan"} => gs[i].name = fs[i].name
  BY <1>2, <1>5, <1>6
<1>8. NamesIn(gs, names)
  BY <1>1, <1>4, <1>7, NamesSame
<1> QED  BY <1>8 DEF gs

LEMMA MacrosKept == [Next]_vars => UNCHANGED macros
BY DEF Next, vars, Directive, TextToken, Pass, NotExpanded, NotInvoked, Invoke, ExpandArg, KeepArg, EndArg,
       Substitute, ExpandObject, EndRescan

LEMMA NamesKept == Placed /\ NamesApart /\ [Next]_vars => NamesApart'
<1> DEFINE names == DOMAIN macros
           n == Len(frames)
<1> SUFFICES ASSUME Placed, NamesApart, [Next]_vars  PROVE NamesIn(frames', names)
  <2>1. ASSUME [Next]_vars, NamesIn(frames', names)  PROVE NamesApart'
    <3>1. macros' = macros
      BY <2>1, MacrosKept
    <3>2. DOMAIN macros' = names
      BY <3>1
    <3> HIDE DEF names
    <3> QED  BY <2>1, <3>2 DEF NamesIn, NamesApart
  <2> QED  BY <2>1
<1>1. /\ frames \in Seq(Frames) /\ frames # <<>> /\ n \in Nat \ {0} /\ DOMAIN frames = 1..n
      /\ Top = frames[n] /\ n \in 1..n
  <2>1. frames \in Seq(Frames) /\ frames # <<>> /\ n \in Nat \ {0} /\ Top = frames[n]
    BY TopFrame
  <2>2. n \in 1..n
    <3> HIDE DEF n
    <3> QED  BY <2>1
  <2> QED  BY <2>1, <2>2
<1>2. NamesIn(frames, names)
  BY DEF NamesApart, NamesIn
<1> HIDE DEF names
<1>3. CASE UNCHANGED frames
  BY <1>2, <1>3
<1>4. CASE Directive
  BY <1>3, <1>4 DEF Directive
<1>5. CASE TextToken \/ Pass \/ NotExpanded \/ NotInvoked
  <2>1. CASE Top.what # "call" /\ \E p \in Pos + 1..Len(Toks) + 1 : Forward(p)
    <3>1. PICK p \in Pos + 1..Len(Toks) + 1 : Forward(p)
      BY <2>1
    <3>2. p - Pos \in Nat
      <4> DEFINE m == Len(Toks)
      <4>1. p \in Pos + 1..m + 1 /\ m \in Nat /\ Pos \in 1..m + 1
        BY TopArray
      <4> HIDE DEF m
      <4> QED  BY <4>1
    <3>3. frames' = Returned(frames, p - Pos)
      BY <3>1 DEF Forward
    <3> QED  BY <1>1, <1>2, <2>1, <3>2, <3>3, NamesReturned
  <2> QED  BY <1>3, <1>5, <2>1, MoveIs
<1>6. ASSUME NEW f \in Frames, frames' = Append(frames, f),
             f.what \in {"call", "rescan"} => f.name \in names \ already_expanded
      PROVE  NamesIn(frames', names)
  <2>1. /\ DOMAIN frames' = 1..n + 1 /\ frames'[n + 1] = f
        /\ \A i \in 1..n : frames'[i] = frames[i]
    <3>1. frames \in Seq(Frames) /\ f \in Frames /\ frames' \in {Append(frames, f)}
      BY <1>1, <1>6
    <3> QED  BY ONLY <3>1, OneMore DEF n
  <2>2. \A i \in 1..n : frames[i].what = "rescan" => frames[i].name \in already_expanded
    BY <1>1 DEF already_expanded
  <2> HIDE DEF n
  <2> QED  BY <1>1, <1>2, <1>6, <2>1, <2>2, NamesPush
<1>7. CASE Invoke
  <2>1. CASE \E f \in CallFrame : frames' = Append(frames, f) /\ f.name = Tok.text
    <3>1. PICK f \in CallFrame : frames' = Append(frames, f) /\ f.name = Tok.text
      BY <2>1
    <3>2. f.name \in names \ already_expanded
      BY <1>7, <3>1, InvokeIs DEF Expandable, names
    <3>3. f \in Frames
      BY DEF Frames
    <3> QED  BY <1>6, <3>1, <3>2, <3>3
  <2> QED  BY <1>3, <1>7, <2>1, InvokeIs
<1>8. CASE ExpandArg
  <2>1. PICK f \in ArgFrame : frames' = Append(frames, f) /\ f.what = "arg"
    BY <1>8, ExpandArgIs
  <2>2. f \in Frames
    BY DEF Frames
  <2> QED  BY <1>6, <2>1, <2>2
<1>9. CASE KeepArg
  <2>1. PICK f \in CallFrame : Top.what = "call" /\ frames' = Append(Front(frames), f) /\ f.name = Top.name
    BY <1>9, KeepArgIs
  <2>2. f \in Frames /\ f.what = "call"
    BY DEF Frames, CallFrame
  <2>3. /\ DOMAIN frames' = 1..n /\ frames'[n] = f
        /\ \A k \in 1..n - 1 : frames'[k] = frames[k]
    <3>1. frames \in Seq(Frames) /\ frames # <<>> /\ f \in Frames /\ frames' \in {Append(Front(frames), f)}
      BY <1>1, <2>1, <2>2
    <3> QED  BY ONLY <3>1, LastReplaced DEF n
  <2> HIDE DEF n
  <2>4. \A k \in 1..n : k \in 1..n - 1 \/ k = n
    BY <1>1
  <2>5. \A k \in 1..n :
          /\ frames'[k].what = frames[k].what
          /\ frames[k].what \in {"call", "rescan"} => frames'[k].name = frames[k].name
    BY <1>1, <2>1, <2>2, <2>3, <2>4
  <2> QED  BY <1>1, <1>2, <2>3, <2>5, NamesSame
<1>10. ASSUME n # 1
       PROVE  /\ Front(frames) \in Seq(Frames) /\ Front(frames) # <<>> /\ Len(Front(frames)) = n - 1
              /\ DOMAIN Front(frames) = 1..n - 1
              /\ \A i \in 1..n - 1 : Front(frames)[i] = frames[i]
              /\ NamesIn(Front(frames), names)
  <2> DEFINE gs == Front(frames)
  <2>1. /\ gs \in Seq(Frames) /\ Len(gs) = n - 1 /\ DOMAIN gs = 1..n - 1
        /\ \A i \in 1..n - 1 : gs[i] = frames[i]
    BY <1>1, LastDropped
  <2> HIDE DEF gs, n
  <2>2. NamesIn(gs, names)
    BY <1>1, <1>2, <2>1, NamesPop
  <2>3. gs # <<>>
    <3>1. n - 1 # 0
      BY <1>1, <1>10
    <3> QED  BY <2>1, <3>1, EmptySeq
  <2> QED  BY <2>1, <2>2, <2>3 DEF gs
<1>11. CASE EndArg
  <2> DEFINE gs == Front(frames)
             call == frames[n - 1]
             k == Len(gs)
  <2>1. Top.what = "arg" /\ call.what = "call" /\ n # 1
    BY <1>11, EndArgIs, TopFrame
  <2>2. PICK f \in CallFrame : frames' = Append(Front(gs), f) /\ f.name = call.name
    BY <1>11, EndArgIs
  <2>3. f \in Frames /\ f.what = "call"
    BY DEF Frames, CallFrame
  <2>4. /\ gs \in Seq(Frames) /\ gs # <<>> /\ k = n - 1 /\ k \in Nat \ {0} /\ DOMAIN gs = 1..k
        /\ NamesIn(gs, names) /\ gs[k] = call
    <3>1. /\ gs \in Seq(Frames) /\ gs # <<>> /\ k = n - 1 /\ DOMAIN gs = 1..n - 1
          /\ \A i \in 1..n - 1 : gs[i] = frames[i]
          /\ NamesIn(gs, names)
      BY <1>10, <2>1
    <3>2. n - 1 \in 1..n - 1 /\ n - 1 \in Nat \ {0}
      <4> HIDE DEF n
      <4> QED  BY <1>1, <2>1
    <3> QED  BY <3>1, <3>2
  <2>5. /\ DOMAIN frames' = 1..k /\ frames'[k] = f
        /\ \A i \in 1..k - 1 : frames'[i] = gs[i]
    <3>1. gs \in Seq(Frames) /\ gs # <<>> /\ f \in Frames /\ frames' \in {Append(Front(gs), f)}
      BY <2>2, <2>3, <2>4
    <3> HIDE DEF gs
    <3> QED  BY ONLY <3>1, LastReplaced DEF k
  <2> HIDE DEF k, gs, call
  <2>6. \A i \in 1..k : i \in 1..k - 1 \/ i = k
    BY <2>4
  <2>7. \A i \in 1..k :
          /\ frames'[i].what = gs[i].what
          /\ gs[i].what \in {"call", "rescan"} => frames'[i].name = gs[i].name
    BY <2>1, <2>2, <2>3, <2>4, <2>5, <2>6
  <2> QED  BY <2>4, <2>5, <2>7, NamesSame
<1>12. ASSUME NEW name, NEW end, NEW by, Splice(Front(frames), name, end, by),
              name = Top.name, Top.what = "call", n # 1
       PROVE  NamesIn(frames', names)
  <2> DEFINE gs == Front(frames)
             f == RescanOf(name, Len(by), end - Pos, Len(Toks) - end + 1)
  <2>1. frames' = Append(gs, f)
    BY <1>12 DEF Splice
  <2>2. f.what = "rescan" /\ f.name = name
    BY DEF RescanOf
  <2>3. /\ gs \in Seq(Frames) /\ Len(gs) = n - 1 /\ DOMAIN gs = 1..n - 1
        /\ \A i \in 1..n - 1 : gs[i] = frames[i]
        /\ NamesIn(gs, names)
    BY <1>10, <1>12
  <2> HIDE DEF gs, f
  <2>4. /\ DOMAIN frames' = 1..Len(gs) + 1 /\ frames'[Len(gs) + 1] = f
        /\ \A i \in 1..Len(gs) : frames'[i] = gs[i]
    BY <2>1, <2>3
  <2>5. name \in names /\ \A i \in 1..n - 1 : frames[i].what = "rescan" => frames[i].name # name
    <3>1. \A i \in 1..n - 1 : i \in 1..n /\ i < n
      <4> HIDE DEF n
      <4> QED  BY <1>1
    <3> HIDE DEF n
    <3> QED  BY <1>1, <1>2, <1>12, <3>1 DEF NamesIn, Named, Apart
  <2> DEFINE k == Len(gs)
  <2>6. k \in Nat /\ k = n - 1
    BY <2>3
  <2> HIDE DEF k, n
  <2>7. /\ DOMAIN gs = 1..k /\ DOMAIN frames' = 1..k + 1 /\ \A i \in 1..k : frames'[i] = gs[i]
        /\ frames'[k + 1] = f /\ \A i \in 1..k : gs[i].what = "rescan" => gs[i].name # name
    BY <2>3, <2>4, <2>5, <2>6 DEF k
  <2> QED  BY <2>2, <2>3, <2>5, <2>6, <2>7, NamesPush
<1>13. CASE Substitute
  BY <1>3, <1>12, <1>13, SubstituteIs
<1>14. CASE ExpandObject
  <2>1. ASSUME NEW end, NEW by, Splice(frames, Tok.text, end, by)  PROVE NamesIn(frames', names)
    <3> DEFINE f == RescanOf(Tok.text, Len(by), end - Pos, Len(Toks) - end + 1)
    <3>1. frames' = Append(frames, f)
      BY <2>1 DEF Splice
    <3>2. f.what = "rescan" /\ f.name = Tok.text
      BY DEF RescanOf
    <3>3. Tok.text \in names \ already_expanded
      BY <1>14, ExpandObjectIs DEF Expandable, names
    <3>4. \A i \in 1..n : frames[i].what = "rescan" => frames[i].name \in already_expanded
      BY <1>1 DEF already_expanded
    <3> HIDE DEF f
    <3>5. DOMAIN frames' = 1..n + 1 /\ frames'[n + 1] = f /\ \A i \in 1..n : frames'[i] = frames[i]
      BY <1>1, <3>1
    <3> HIDE DEF n
    <3> QED  BY <1>1, <1>2, <3>2, <3>3, <3>4, <3>5, NamesPush
  <2> QED  BY <1>3, <1>14, <2>1, ExpandObjectIs
<1>15. CASE EndRescan
  <2> DEFINE gs == Front(frames)
             k == token_count_before_expansion(Top)
  <2>1. Top.what = "rescan" /\ frames' = Returned(gs, k) /\ n # 1 /\ k \in Nat
    BY <1>15, TopFrame, FrameTypes DEF EndRescan, token_count_before_expansion
  <2>2. gs \in Seq(Frames) /\ gs # <<>> /\ NamesIn(gs, names)
    BY <1>10, <2>1
  <2>3. gs[Len(gs)].what # "call"
    <3>1. PlacedAt(arrays, frames) /\ frames[Len(frames)].what # "arg" /\ gs \in {Front(frames)}
      BY <1>1, <2>1 DEF Placed
    <3> HIDE DEF gs
    <3> QED  BY <2>1, <3>1, PopFrame
  <2> HIDE DEF gs, k
  <2> QED  BY <2>1, <2>2, <2>3, NamesReturned
<1>16. CASE UNCHANGED vars
  BY <1>3, <1>16 DEF vars
<1> QED
  BY <1>4, <1>5, <1>7, <1>8, <1>9, <1>11, <1>13, <1>14, <1>15, <1>16 DEF Next

THEOREM PlacedAlways == Spec => [](Placed /\ NamesApart)
<1>1. Placed /\ NamesApart /\ [Next]_vars => (Placed /\ NamesApart)'
  BY PlacedKept, NamesKept
<1> QED  BY <1>1, InitPlaced, PTL DEF Spec

(* The types: frames are the text's, then invocations, arguments and       *)
(* expansions, every position is in its array, and there is one array for  *)
(* the text and one for each argument being expanded.                      *)
THEOREM TypesCorrect == Spec => []TypeOK
<1>1. Placed => TypeOK
  <2> SUFFICES ASSUME Placed  PROVE TypeOK
    OBVIOUS
  <2>1. ArraysOK(arrays) /\ FramesOK(frames) /\ ArrayOf(frames, Len(frames)) = Len(arrays)
    BY DEF Placed, PlacedAt
  <2>2. ArgsUpTo(frames, Len(frames)) = {i \in DOMAIN frames : frames[i].what = "arg"}
    <3>1. DOMAIN frames = 1..Len(frames)
      BY <2>1 DEF FramesOK
    <3> QED  BY <3>1 DEF ArgsUpTo
  <2>3. Len(arrays) = 1 + Cardinality({i \in DOMAIN frames : frames[i].what = "arg"})
    BY <2>1, <2>2 DEF ArrayOf
  <2>4. at_start \in BOOLEAN /\ status \in {"run", "done", "fatal", "overrun", "overflow"}
    BY DEF Placed, TablesOK
  <2>5. arrays \in Seq([toks : Seq(Tokens), pos : Nat])
    BY <2>1 DEF ArraysOK, Arrays
  <2>6. frames \in Seq(TextFrame \cup CallFrame \cup ArgFrame \cup RescanFrame)
    BY <2>1 DEF FramesOK, Frames
  <2> QED  BY <2>1, <2>3, <2>4, <2>5, <2>6 DEF TypeOK, ArraysOK, FramesOK
<1> QED  BY <1>1, PlacedAlways, PTL

(* No macro is expanded within its own expansion, however the macros refer *)
(* to each other: also not by way of the arguments of an invocation.       *)
THEOREM NotWithinItself == Spec => []NoMacroWithinItself
<1>1. Placed /\ NamesApart => NoMacroWithinItself
  <2> SUFFICES ASSUME Placed, NamesApart, NEW i \in DOMAIN frames, NEW j \in DOMAIN frames,
                      frames[i].what = "rescan", frames[j].what = "rescan", frames[i].name = frames[j].name
               PROVE  i = j
    BY DEF NoMacroWithinItself
  <2>1. i \in Nat /\ j \in Nat
    <3>1. DOMAIN frames = 1..Len(frames)
      BY TopFrame
    <3> QED  BY <3>1
  <2>2. ~(i < j) /\ ~(j < i)
    BY DEF NamesApart, Apart
  <2> QED  BY <2>1, <2>2
<1> QED  BY <1>1, PlacedAlways, PTL
----------------------------------------------------------------------------
(* The counts.  A frame that is not the innermost keeps its balance if     *)
(* what counts of the one above it stays.                                  *)
LEMMA BalanceBelow ==
  ASSUME NEW ars, NEW fs, NEW bs, NEW gs, NEW i,
         BalancedAt(ars, fs, i), i # Len(gs), i < Len(fs), i < Len(gs),
         gs[i] = fs[i], ArrayOf(gs, i) = ArrayOf(fs, i), gs[i + 1].what = fs[i + 1].what,
         fs[i + 1].what = "call" =>
           gs[i + 1].end = fs[i + 1].end /\ bs[ArrayOf(fs, i)] = ars[ArrayOf(fs, i)],
         fs[i + 1].what = "rescan" =>
           gs[i + 1].before = fs[i + 1].before /\ gs[i + 1].rest = fs[i + 1].rest
  PROVE  BalancedAt(bs, gs, i)
<1> DEFINE k == ArrayOf(fs, i)
<1>1. gs[i].processed <= gs[i].count
  BY DEF BalancedAt
<1>2. fs[i + 1].what = "call" =>
        /\ Remaining(bs[k]) = Left(gs[i]) + Below(gs[i])
        /\ gs[i + 1].end <= Len(bs[k].toks) + 1 - Below(gs[i])
  BY DEF BalancedAt
<1>3. fs[i + 1].what = "rescan" =>
        /\ gs[i + 1].before <= Left(gs[i])
        /\ gs[i + 1].rest = Left(gs[i]) - gs[i + 1].before + Below(gs[i])
  BY DEF BalancedAt
<1> QED  BY <1>1, <1>2, <1>3 DEF BalancedAt

(* The array of a frame below an invocation in progress is not the last.   *)
LEMMA ArrayBelow ==
  ASSUME NEW ars, NEW fs, PlacedAt(ars, fs), NEW i \in 1..Len(fs) - 1,
         fs[i + 1].what = "call", i + 1 # Len(fs)
  PROVE  ArrayOf(fs, i) \in 1..Len(ars) - 1
<1> DEFINE n == Len(fs)
<1>1. n \in Nat /\ i \in 1..n - 1
  BY PlacedTypes
<1>2. i + 1 \in 1..n /\ i \in Nat
  <2> HIDE DEF n
  <2> QED  BY <1>1
<1>3. ArrayOf(fs, i + 1) \in 1..Len(ars) - 1
  BY <1>2, CallBelow
<1>4. ArrayOf(fs, i + 1) = ArrayOf(fs, i) /\ ArrayOf(fs, i) \in Nat
  <2>1. /\ ArrayOf(fs, i) \in Nat \ {0}
        /\ ArrayOf(fs, i + 1) = ArrayOf(fs, i) + (IF fs[i + 1].what = "arg" THEN 1 ELSE 0)
    BY <1>2, ArrayOfIs
  <2>2. fs[i + 1].what # "arg"
    OBVIOUS
  <2>3. ArrayOf(fs, i + 1) = ArrayOf(fs, i) + 0
    BY <2>1, <2>2
  <2> QED  BY <2>1, <2>3
<1> QED  BY <1>3, <1>4

LEMMA LastArray ==
  ASSUME NEW ars, NEW fs, PlacedAt(ars, fs)
  PROVE  LET a == ars[Len(ars)]
         IN  /\ a \in Arrays /\ a.toks \in Seq(Tokens) /\ Len(a.toks) \in Nat
             /\ a.pos \in Nat /\ a.pos \in 1..Len(a.toks) + 1 /\ ArrayOf(fs, Len(fs)) = Len(ars)
<1> DEFINE a == ars[Len(ars)]
<1>1. Len(ars) \in DOMAIN ars /\ ars \in Seq(Arrays)
  BY PlacedTypes
<1>2. a \in Arrays /\ a.pos \in 1..Len(a.toks) + 1 /\ ArrayOf(fs, Len(fs)) = Len(ars)
  BY <1>1 DEF PlacedAt, ArraysOK
<1> HIDE DEF a
<1>3. a.toks \in Seq(Tokens) /\ a.pos \in Nat
  BY <1>2 DEF Arrays
<1> QED  BY <1>2, <1>3 DEF a

LEMMA BalancedTop ==
  ASSUME NEW ars, NEW fs, PlacedAt(ars, fs), BalancedIn(ars, fs), fs[Len(fs)].what \in Scans
  PROVE  LET f == fs[Len(fs)] IN
         /\ f.processed <= f.count /\ f.processed \in Nat /\ f.count \in Nat /\ Below(f) \in Nat
         /\ Remaining(ars[Len(ars)]) = Left(f) + Below(f)
<1> DEFINE f == fs[Len(fs)]
<1>1. f \in Frames /\ Len(fs) \in DOMAIN fs /\ ArrayOf(fs, Len(fs)) = Len(ars)
  BY PlacedTypes DEF PlacedAt
<1>2. BalancedAt(ars, fs, Len(fs))
  BY <1>1 DEF BalancedIn
<1>3. f.processed <= f.count /\ Remaining(ars[Len(ars)]) = Left(f) + Below(f)
  BY <1>1, <1>2 DEF BalancedAt
<1>4. f.processed \in Nat /\ f.count \in Nat /\ Below(f) \in Nat
  <2> HIDE DEF f
  <2>1. f.what \in Scans
    BY DEF f
  <2> QED  BY <1>1, <2>1, FrameTypes DEF Scans, Below
<1> QED  BY <1>3, <1>4

LEMMA BalancedBelow ==
  ASSUME NEW ars, NEW fs, PlacedAt(ars, fs), BalancedIn(ars, fs), NEW bs, NEW gs,
         NEW k \in 1..Len(fs), k \in 1..Len(gs), gs \in Seq(Frames),
         \A i \in 1..k - 1 : gs[i] = fs[i], gs[k].what = fs[k].what,
         fs[k].what = "call" => gs[k].end = fs[k].end,
         fs[k].what = "rescan" => gs[k].before = fs[k].before /\ gs[k].rest = fs[k].rest,
         \A j \in 1..Len(ars) - 1 : bs[j] = ars[j],
         k = Len(fs) /\ fs[k].what = "call" => bs[Len(ars)] = ars[Len(ars)]
  PROVE  \A i \in 1..k - 1 : gs[i].what \in Scans => BalancedAt(bs, gs, i)
<1> SUFFICES ASSUME NEW i \in 1..k - 1, gs[i].what \in Scans  PROVE BalancedAt(bs, gs, i)
  OBVIOUS
<1> DEFINE n == Len(fs)
           m == Len(gs)
<1>1. n \in Nat /\ m \in Nat /\ DOMAIN fs = 1..n /\ k \in 1..n /\ k \in 1..m
  BY PlacedTypes
<1> HIDE DEF n, m
<1>2. /\ i # m /\ i < n /\ i < m /\ i \in Nat /\ i \in 1..n /\ i \in 1..n - 1
      /\ i + 1 \in 1..k - 1 \/ i + 1 = k
      /\ \A j \in 1..i : j \in 1..k - 1
  BY <1>1
<1>3. gs[i] = fs[i] /\ BalancedAt(ars, fs, i)
  BY <1>1, <1>2 DEF BalancedIn
<1>4. ArrayOf(gs, i) = ArrayOf(fs, i)
  <2>1. \A j \in 1..i : gs[j].what = fs[j].what
    BY <1>2
  <2> QED  BY <1>2, <2>1, ArrayOfSame
<1>5. /\ gs[i + 1].what = fs[i + 1].what
      /\ fs[i + 1].what = "call" => gs[i + 1].end = fs[i + 1].end
      /\ fs[i + 1].what = "rescan" => gs[i + 1].before = fs[i + 1].before /\ gs[i + 1].rest = fs[i + 1].rest
  BY <1>2
<1>6. fs[i + 1].what = "call" => bs[ArrayOf(fs, i)] = ars[ArrayOf(fs, i)]
  <2>1. CASE fs[i + 1].what = "call" /\ i + 1 # n
    <3>1. ArrayOf(fs, i) \in 1..Len(ars) - 1
      BY <1>2, <2>1, ArrayBelow DEF n
    <3> QED  BY <3>1
  <2>2. CASE fs[i + 1].what = "call" /\ i + 1 = n
    <3>1. k = n
      BY <1>1, <1>2, <2>2
    <3>2. ArrayOf(fs, i + 1) = Len(ars)
      BY <2>2 DEF PlacedAt, n
    <3>3. ArrayOf(fs, i) \in Nat /\ ArrayOf(fs, i + 1) = ArrayOf(fs, i) + (IF fs[i + 1].what = "arg" THEN 1 ELSE 0)
      BY <1>2, ArrayOfIs
    <3>4. fs[i + 1].what # "arg"
      BY <2>2
    <3>5. ArrayOf(fs, i + 1) = ArrayOf(fs, i) + 0
      BY <3>3, <3>4
    <3>6. ArrayOf(fs, i) = Len(ars)
      BY <3>2, <3>3, <3>5
    <3>7. bs[Len(ars)] = ars[Len(ars)]
      BY <2>2, <3>1 DEF n
    <3> QED  BY <3>6, <3>7
  <2> QED  BY <2>1, <2>2
<1> QED  BY <1>2, <1>3, <1>4, <1>5, <1>6, BalanceBelow DEF n, m

LEMMA BalancedMoved ==
  ASSUME NEW ars, NEW fs, PlacedAt(ars, fs), BalancedIn(ars, fs), fs[Len(fs)].what # "call",
         NEW a \in {ars[Len(ars)]}, NEW p \in a.pos..Len(a.toks) + 1,
         fs[Len(fs)].what \in Scans => p - a.pos <= Left(fs[Len(fs)]),
         NEW bs \in {Append(Front(ars), [a EXCEPT !.pos = p])},
         NEW gs \in {Returned(fs, p - a.pos)}
  PROVE  BalancedIn(bs, gs)
<1> DEFINE n == Len(fs)
           k == Len(ars)
           d == p - a.pos
           b == [a EXCEPT !.pos = p]
<1>1. /\ fs \in Seq(Frames) /\ fs # <<>> /\ n \in Nat \ {0} /\ DOMAIN fs = 1..n /\ fs[n] \in Frames
      /\ ars \in Seq(Arrays) /\ ars # <<>> /\ k \in Nat \ {0}
  BY PlacedTypes
<1>2. a \in Arrays /\ Len(a.toks) \in Nat /\ a.pos \in Nat /\ p \in Nat /\ d \in Nat
  <2>1. a \in Arrays /\ Len(a.toks) \in Nat /\ a.pos \in Nat
    BY LastArray
  <2> DEFINE m == Len(a.toks)
             q == a.pos
  <2>2. m \in Nat /\ q \in Nat /\ p \in q..m + 1
    BY <2>1
  <2> HIDE DEF m, q
  <2>3. p \in Nat /\ p - q \in Nat
    BY <2>2
  <2> QED  BY <2>1, <2>3 DEF q
<1>3. b \in Arrays /\ b.pos = p /\ b.toks = a.toks
  BY <1>2 DEF Arrays
<1> HIDE DEF b
<1>4. bs[k] = b /\ \A j \in 1..k - 1 : bs[j] = ars[j]
  <2>1. ars \in Seq(Arrays) /\ ars # <<>> /\ b \in Arrays /\ bs \in {Append(Front(ars), b)}
    BY <1>1, <1>3 DEF b
  <2> QED  BY ONLY <2>1, LastReplaced DEF k
<1>5. /\ gs \in Seq(Frames) /\ Len(gs) = n
      /\ \A i \in 1..n - 1 : gs[i] = fs[i]
      /\ fs[n].what = "text" => gs[n] = fs[n]
      /\ fs[n].what \in Scans =>
           /\ gs[n].what = fs[n].what /\ gs[n].count = fs[n].count /\ gs[n].processed = fs[n].processed + d
           /\ fs[n].what = "rescan" => gs[n].before = fs[n].before /\ gs[n].rest = fs[n].rest
  <2>1. gs = Returned(fs, d)
    OBVIOUS
  <2> HIDE DEF d
  <2> QED  BY <1>1, <1>2, <2>1, ReturnedIs
<1>6. DOMAIN gs = 1..n
  BY <1>5
<1>7. fs[n].what \in {"text", "arg", "rescan"}
  BY <1>1, FrameTypes
<1>8. gs[n].what = fs[n].what
  BY <1>5, <1>7 DEF Scans
<1>9. fs[n].what \in Scans =>
         /\ fs[n].processed <= fs[n].count /\ fs[n].processed \in Nat /\ fs[n].count \in Nat /\ Below(fs[n]) \in Nat
         /\ Remaining(a) = Left(fs[n]) + Below(fs[n]) /\ d <= Left(fs[n])
  BY BalancedTop
<1>10. ArrayOf(fs, n) = k /\ ArrayOf(gs, n) = k
  <2>1. ArrayOf(fs, n) = k
    BY DEF PlacedAt
  <2> HIDE DEF n, k
  <2>2. \A j \in 1..n : j \in 1..n - 1 \/ j = n
    BY <1>1
  <2>3. \A j \in 1..n : gs[j].what = fs[j].what
    BY <1>5, <1>8, <2>2
  <2> QED  BY <1>1, <2>1, <2>3, ArrayOfSame
<1>11. fs[n].what \in Scans => BalancedAt(bs, gs, n)
  <2> SUFFICES ASSUME fs[n].what \in Scans  PROVE BalancedAt(bs, gs, n)
    OBVIOUS
  <2>1. gs[n].processed <= gs[n].count /\ Left(gs[n]) = Left(fs[n]) - d
    BY <1>2, <1>5, <1>9 DEF Left
  <2>2. Below(gs[n]) = Below(fs[n])
    BY <1>5 DEF Below
  <2>3. Remaining(b) = Remaining(a) - d
    <3> DEFINE m == Len(a.toks)
               q == a.pos
    <3>1. m \in Nat /\ q \in Nat /\ p \in Nat /\ Len(b.toks) = m
      BY <1>2, <1>3
    <3>2. Remaining(b) = m + 1 - p /\ Remaining(a) = m + 1 - q /\ d = p - q
      BY <1>3, <3>1 DEF Remaining
    <3> HIDE DEF m, q, d
    <3> QED  BY <3>1, <3>2
  <2>4. Left(fs[n]) \in Int
    BY <1>9 DEF Left
  <2>5. Remaining(b) = Left(gs[n]) + Below(gs[n])
    BY <1>2, <1>9, <2>1, <2>2, <2>3, <2>4
  <2> QED  BY <1>4, <1>5, <1>10, <2>1, <2>5 DEF BalancedAt
<1>12. \A i \in 1..n - 1 : gs[i].what \in Scans => BalancedAt(bs, gs, i)
  <2>1. /\ n \in 1..n /\ n \in 1..Len(gs) /\ fs[n].what # "call"
        /\ fs[n].what = "rescan" => gs[n].before = fs[n].before /\ gs[n].rest = fs[n].rest
    <3>1. n \in 1..n
      <4> HIDE DEF n
      <4> QED  BY <1>1
    <3> QED  BY <1>5, <3>1 DEF Scans
  <2> HIDE DEF d
  <2> QED  BY <1>4, <1>5, <1>8, <2>1, BalancedBelow
<1>13. \A i \in 1..n : i \in 1..n - 1 \/ i = n
  <2> HIDE DEF n
  <2> QED  BY <1>1
<1> QED  BY <1>6, <1>8, <1>11, <1>12, <1>13 DEF BalancedIn

LEMMA BalancedPush ==
  ASSUME NEW ars, NEW fs, PlacedAt(ars, fs), BalancedIn(ars, fs), NEW f \in Frames, NEW gs \in {Append(fs, f)},
         NEW bs, \A j \in 1..Len(ars) - 1 : bs[j] = ars[j],
         fs[Len(fs)].what = "call" => bs[Len(ars)] = ars[Len(ars)],
         fs[Len(fs)].what \in Scans => BalancedAt(bs, gs, Len(fs)),
         f.what \in Scans => BalancedAt(bs, gs, Len(fs) + 1)
  PROVE  BalancedIn(bs, gs)
<1> DEFINE n == Len(fs)
<1>1. fs \in Seq(Frames) /\ n \in Nat \ {0}
  BY PlacedTypes
<1>2. /\ gs \in Seq(Frames) /\ Len(gs) = n + 1 /\ DOMAIN gs = 1..n + 1 /\ gs[n + 1] = f
      /\ \A i \in 1..n : gs[i] = fs[i]
  <2>1. fs \in Seq(Frames) /\ f \in Frames /\ gs \in {Append(fs, f)}
    BY <1>1
  <2> QED  BY ONLY <2>1, OneMore DEF n
<1>3. /\ n \in 1..n /\ n \in 1..n + 1 /\ \A i \in 1..n - 1 : i \in 1..n
      /\ \A i \in 1..n + 1 : i \in 1..n - 1 \/ i = n \/ i = n + 1
  <2> HIDE DEF n
  <2> QED  BY <1>1
<1>4. \A i \in 1..n - 1 : gs[i].what \in Scans => BalancedAt(bs, gs, i)
  <2>1. n \in 1..Len(gs) /\ gs[n] = fs[n] /\ \A i \in 1..n - 1 : gs[i] = fs[i]
    BY <1>2, <1>3
  <2> QED  BY <1>2, <1>3, <2>1, BalancedBelow
<1>5. gs[n] = fs[n]
  BY <1>2, <1>3
<1>6. /\ fs[n].what \in Scans => BalancedAt(bs, gs, n)
      /\ f.what \in Scans => BalancedAt(bs, gs, n + 1)
  OBVIOUS
<1> HIDE DEF n
<1> QED  BY <1>2, <1>3, <1>4, <1>5, <1>6 DEF BalancedIn

(* An invocation within what the innermost scan may take.                  *)
LEMMA BalancedCall ==
  ASSUME NEW ars, NEW fs, PlacedAt(ars, fs), BalancedIn(ars, fs), fs[Len(fs)].what # "call",
         NEW a \in {ars[Len(ars)]}, NEW f \in Frames, f.what = "call",
         fs[Len(fs)].what \in Scans => f.end <= Len(a.toks) + 1 - Below(fs[Len(fs)]),
         NEW gs \in {Append(fs, f)}
  PROVE  BalancedIn(ars, gs)
<1> DEFINE n == Len(fs)
<1>1. fs \in Seq(Frames) /\ n \in Nat \ {0} /\ FramesOK(fs)
  BY PlacedTypes DEF PlacedAt
<1>2. f.what # "text" /\ (f.what = "arg" <=> fs[n].what = "call")
  OBVIOUS
<1>3. /\ Len(gs) = n + 1 /\ gs[n + 1] = f /\ \A i \in 1..n : gs[i] = fs[i]
      /\ \A i \in 0..n : ArrayOf(gs, i) = ArrayOf(fs, i)
  BY <1>1, <1>2, Extended
<1>4. ArrayOf(gs, n) = Len(ars) /\ gs[n] = fs[n] /\ n < n + 1 /\ n # n + 1
  <2>1. n \in 0..n /\ n \in 1..n /\ n < n + 1 /\ n # n + 1
    <3> HIDE DEF n
    <3> QED  BY <1>1
  <2>2. ArrayOf(fs, n) = Len(ars)
    BY DEF PlacedAt
  <2> QED  BY <1>3, <2>1, <2>2
<1>5. fs[n].what \in Scans => BalancedAt(ars, gs, n)
  <2> SUFFICES ASSUME fs[n].what \in Scans  PROVE BalancedAt(ars, gs, n)
    OBVIOUS
  <2>1. fs[n].processed <= fs[n].count /\ Remaining(a) = Left(fs[n]) + Below(fs[n])
    BY BalancedTop
  <2>2. f.end <= Len(a.toks) + 1 - Below(fs[n])
    OBVIOUS
  <2>3. gs[n + 1].what = "call"
    BY <1>3
  <2> HIDE DEF n
  <2> QED  BY <1>3, <1>4, <2>1, <2>2, <2>3 DEF BalancedAt
<1>6. f.what \notin Scans
  BY DEF Scans
<1> QED  BY <1>5, <1>6, BalancedPush

LEMMA BalancedArg ==
  ASSUME NEW ars, NEW fs, PlacedAt(ars, fs), BalancedIn(ars, fs), fs[Len(fs)].what = "call",
         NEW a \in Arrays, a.pos = 1, NEW f \in Frames, f.what = "arg",
         f.count = Len(a.toks), f.processed = 0,
         NEW bs \in {Append(ars, a)}, NEW gs \in {Append(fs, f)}
  PROVE  BalancedIn(bs, gs)
<1> DEFINE n == Len(fs)
           k == Len(ars)
<1>1. fs \in Seq(Frames) /\ n \in Nat \ {0} /\ FramesOK(fs) /\ ars \in Seq(Arrays) /\ k \in Nat \ {0}
      /\ ArrayOf(fs, n) = k
  BY PlacedTypes DEF PlacedAt
<1>2. f.what # "text" /\ (f.what = "arg" <=> fs[n].what = "call")
  OBVIOUS
<1>3. /\ Len(gs) = n + 1 /\ gs[n + 1] = f
      /\ ArrayOf(gs, n + 1) = ArrayOf(fs, n) + (IF f.what = "arg" THEN 1 ELSE 0)
  <2>1. FramesOK(fs) /\ f \in Frames /\ gs \in {Append(fs, f)}
    BY <1>1
  <2> QED  BY ONLY <1>2, <2>1, Extended DEF n
<1>4. bs[k + 1] = a /\ \A j \in 1..k : bs[j] = ars[j]
  <2>1. ars \in Seq(Arrays) /\ a \in Arrays /\ bs \in {Append(ars, a)}
    BY <1>1
  <2> QED  BY ONLY <2>1, OneMore DEF k
<1>5. k \in 1..k /\ \A j \in 1..k - 1 : j \in 1..k
  <2> HIDE DEF k
  <2> QED  BY <1>1
<1>6. BalancedAt(bs, gs, n + 1)
  <2>1. Len(a.toks) \in Nat
    <3>1. a.toks \in Seq(Tokens)
      BY DEF Arrays
    <3> QED  BY <3>1
  <2>2. Remaining(a) = Len(a.toks)
    BY <2>1 DEF Remaining
  <2>3. f.processed <= f.count /\ Left(f) = Len(a.toks) /\ Below(f) = 0
    BY <2>1 DEF Left, Below
  <2>4. ArrayOf(gs, n + 1) = k + 1
    BY <1>1, <1>3
  <2> HIDE DEF n, k
  <2>5. ~(n + 1 < n + 1)
    BY <1>1
  <2>6. Remaining(a) = Left(f) + Below(f)
    BY <2>1, <2>2, <2>3
  <2> QED  BY <1>3, <1>4, <2>3, <2>4, <2>5, <2>6 DEF BalancedAt
<1>7. fs[n].what \notin Scans
  BY DEF Scans
<1>8. bs[Len(ars)] = ars[Len(ars)] /\ \A j \in 1..Len(ars) - 1 : bs[j] = ars[j]
  BY <1>4, <1>5
<1>9. /\ fs[Len(fs)].what \in Scans => BalancedAt(bs, gs, Len(fs))
      /\ f.what \in Scans => BalancedAt(bs, gs, Len(fs) + 1)
  BY <1>6, <1>7
<1>10. PlacedAt(ars, fs) /\ BalancedIn(ars, fs) /\ f \in Frames /\ gs \in {Append(fs, f)}
  OBVIOUS
<1> QED  BY ONLY <1>8, <1>9, <1>10, BalancedPush

(* The invocation is the innermost frame again, with other arguments.      *)
LEMMA BalancedBack ==
  ASSUME NEW ars, NEW fs, PlacedAt(ars, fs), BalancedIn(ars, fs), NEW k \in 1..Len(fs), fs[k].what = "call",
         NEW gs \in Seq(Frames), Len(gs) = k, \A i \in 1..k - 1 : gs[i] = fs[i],
         gs[k].what = "call", gs[k].end = fs[k].end,
         NEW bs, \A j \in 1..Len(ars) - 1 : bs[j] = ars[j], k = Len(fs) => bs = ars
  PROVE  BalancedIn(bs, gs)
<1>1. k \in Nat \ {0} /\ k \in 1..Len(gs) /\ DOMAIN gs = 1..k
  <2>1. Len(fs) \in Nat
    BY PlacedTypes
  <2>2. k \in Nat \ {0}
    BY <2>1
  <2> QED  BY <2>2
<1>2. \A i \in 1..k - 1 : gs[i].what \in Scans => BalancedAt(bs, gs, i)
  BY <1>1, BalancedBelow
<1>3. \A i \in 1..k : i \in 1..k - 1 \/ i = k
  BY <1>1
<1>4. gs[k].what \notin Scans
  BY DEF Scans
<1> QED  BY <1>1, <1>2, <1>3, <1>4 DEF BalancedIn

LEMMA BalancedPopCall ==
  ASSUME NEW ars, NEW fs, PlacedAt(ars, fs), BalancedIn(ars, fs), Len(fs) # 1, fs[Len(fs)].what = "call",
         NEW gs \in {Front(fs)}
  PROVE  /\ BalancedIn(ars, gs)
         /\ gs[Len(gs)].what \in Scans =>
              fs[Len(fs)].end <= Len(ars[Len(ars)].toks) + 1 - Below(gs[Len(gs)])
<1> DEFINE n == Len(fs)
           k == Len(gs)
<1>1. FramesOK(fs) /\ DOMAIN fs = 1..n /\ n \in Nat \ {0} /\ ArrayOf(fs, n) = Len(ars)
  BY PlacedTypes DEF PlacedAt
<1>2. /\ FramesOK(gs) /\ k = n - 1 /\ k \in Nat \ {0} /\ DOMAIN gs = 1..k
      /\ \A i \in 1..k : gs[i] = fs[i]
      /\ \A i \in 0..k : ArrayOf(gs, i) = ArrayOf(fs, i)
      /\ ArrayOf(fs, n) = ArrayOf(gs, k) + (IF fs[n].what = "arg" THEN 1 ELSE 0)
  BY <1>1, Shortened
<1>3. ArrayOf(gs, k) = Len(ars)
  <2>1. ArrayOf(gs, k) \in Nat
    BY <1>2, ArrayOfIs
  <2>2. fs[n].what # "arg"
    OBVIOUS
  <2>3. ArrayOf(fs, n) = ArrayOf(gs, k) + 0
    BY <1>2, <2>2
  <2> QED  BY <1>1, <2>1, <2>3
<1>4. /\ k \in 1..n /\ k \in 1..k /\ k \in 0..k /\ k < n /\ k # n /\ k + 1 = n
      /\ \A i \in 1..k - 1 : i \in 1..k
      /\ \A i \in 1..k : i \in 1..k - 1 \/ i = k
  <2>1. k = n - 1 /\ k \in Nat \ {0} /\ n \in Nat
    BY <1>1, <1>2
  <2> HIDE DEF k, n
  <2> QED  BY <2>1
<1>5. gs[k] = fs[k] /\ ArrayOf(fs, k) = Len(ars) /\ fs[k + 1].what = "call"
  BY <1>2, <1>3, <1>4
<1>6. fs[k].what \in Scans => BalancedAt(ars, fs, k)
  BY <1>1, <1>4 DEF BalancedIn
<1> HIDE DEF n, k
<1>7. fs[k].what \in Scans =>
        /\ fs[k].processed <= fs[k].count
        /\ Remaining(ars[Len(ars)]) = Left(fs[k]) + Below(fs[k])
        /\ fs[n].end <= Len(ars[Len(ars)].toks) + 1 - Below(fs[k])
  BY <1>4, <1>5, <1>6 DEF BalancedAt, n
<1>8. gs[k].what \in Scans => BalancedAt(ars, gs, k)
  BY <1>3, <1>4, <1>5, <1>7 DEF BalancedAt, k
<1>9. \A i \in 1..k - 1 : gs[i].what \in Scans => BalancedAt(ars, gs, i)
  <2>1. k \in 1..Len(fs) /\ k \in 1..Len(gs) /\ gs \in Seq(Frames) /\ k # Len(fs)
    BY <1>2, <1>4 DEF n, k, FramesOK
  <2>2. \A i \in 1..k - 1 : gs[i] = fs[i]
    BY <1>2, <1>4
  <2> QED  BY <1>5, <2>1, <2>2, BalancedBelow
<1>10. BalancedIn(ars, gs)
  BY <1>2, <1>4, <1>8, <1>9 DEF BalancedIn
<1> QED  BY <1>5, <1>7, <1>10 DEF n, k

LEMMA ArrayReplaced ==
  ASSUME NEW ars, NEW fs, PlacedAt(ars, fs), NEW b \in Arrays, NEW bs \in {Append(Front(ars), b)}
  PROVE  bs[Len(ars)] = b /\ \A j \in 1..Len(ars) - 1 : bs[j] = ars[j]
<1>1. ars \in Seq(Arrays) /\ ars # <<>>
  BY PlacedTypes
<1> QED  BY <1>1, LastReplaced

(* The same replacement, of any arrays and frames.                         *)
SplicedTo(ars, fs, name, end, by, bs, gs) ==
  LET a == ars[Len(ars)] IN
  /\ PlacedAt(ars, fs) /\ fs[Len(fs)].what # "call" /\ name \in Texts /\ by \in Seq(Tokens)
  /\ end \in a.pos + 1..Len(a.toks) + 1 /\ a.toks[end - 1].kind \in {")", "ident"}
  /\ bs = Append(Front(ars), [toks |-> Replace(a.toks, a.pos, end, by), pos |-> a.pos])
  /\ gs = Append(fs, RescanOf(name, Len(by), end - a.pos, Len(a.toks) - end + 1))

LEMMA BalancedSpliced ==
  ASSUME NEW ars, NEW fs, NEW name, NEW end, NEW by, NEW bs, NEW gs,
         SplicedTo(ars, fs, name, end, by, bs, gs), BalancedIn(ars, fs),
         fs[Len(fs)].what \in Scans => end <= Len(ars[Len(ars)].toks) + 1 - Below(fs[Len(fs)])
  PROVE  BalancedIn(bs, gs)
<1> DEFINE a == ars[Len(ars)]
           b == [toks |-> Replace(a.toks, a.pos, end, by), pos |-> a.pos]
           f == RescanOf(name, Len(by), end - a.pos, Len(a.toks) - end + 1)
<1>0. /\ PlacedAt(ars, fs) /\ fs[Len(fs)].what # "call" /\ a \in {ars[Len(ars)]}
      /\ by \in Seq(Tokens) /\ name \in Texts
      /\ end \in a.pos + 1..Len(a.toks) + 1 /\ a.toks[end - 1].kind \in {")", "ident"}
      /\ fs[Len(fs)].what \in Scans => end <= Len(a.toks) + 1 - Below(fs[Len(fs)])
      /\ b = [toks |-> Replace(a.toks, a.pos, end, by), pos |-> a.pos]
      /\ f = RescanOf(name, Len(by), end - a.pos, Len(a.toks) - end + 1)
      /\ bs \in {Append(Front(ars), b)} /\ gs \in {Append(fs, f)}
  BY DEF SplicedTo
<1> HIDE DEF a, b, f
<1> DEFINE n == Len(fs)
           m == Len(a.toks)
           q == a.pos
           c == Len(by)
<1>1. /\ FramesOK(fs) /\ n \in Nat \ {0} /\ ArrayOf(fs, n) = Len(ars)
      /\ ars \in Seq(Arrays) /\ ars # <<>>
  BY <1>0, PlacedTypes DEF PlacedAt
<1>2. a \in Arrays /\ m \in Nat /\ q \in Nat /\ q \in 1..m + 1 /\ c \in Nat /\ end \in q + 1..m + 1
  BY <1>0, LastArray
<1>3. b \in Arrays /\ Len(b.toks) = m - (end - q) + c /\ b.pos = q
  <2>1. b \in Arrays /\ Len(b.toks) = m - (end - q) + c
    BY <1>0, <1>2, SplicedArray
  <2> QED  BY <1>0, <2>1
<1>4. bs[Len(ars)] = b /\ \A j \in 1..Len(ars) - 1 : bs[j] = ars[j]
  <2>1. PlacedAt(ars, fs) /\ b \in Arrays /\ bs \in {Append(Front(ars), b)}
    BY <1>0, <1>3
  <2> QED  BY ONLY <2>1, ArrayReplaced
<1>5. f = RescanOf(name, c, end - q, m - end + 1)
  BY <1>0
<1> HIDE DEF m, q, c
<1>6. /\ f \in Frames /\ f.what = "rescan" /\ f.count = c /\ f.processed = 0
      /\ f.before = end - q /\ f.rest = m - end + 1
  <2>1. end - q \in Nat /\ m - end + 1 \in Nat
    BY <1>2
  <2>2. f \in RescanFrame
    BY <1>0, <1>2, <1>5, <2>1 DEF RescanOf, RescanFrame
  <2> QED  BY <1>5, <2>2 DEF RescanOf, Frames
<1>7. /\ Len(gs) = n + 1 /\ gs[n + 1] = f /\ \A i \in 1..n : gs[i] = fs[i]
      /\ \A i \in 0..n : ArrayOf(gs, i) = ArrayOf(fs, i)
      /\ ArrayOf(gs, n + 1) = ArrayOf(fs, n) + (IF f.what = "arg" THEN 1 ELSE 0)
  <2>1. FramesOK(fs) /\ f \in Frames /\ gs \in {Append(fs, f)} /\ f.what # "text"
        /\ (f.what = "arg" <=> fs[Len(fs)].what = "call")
    BY <1>0, <1>1, <1>6
  <2> QED  BY ONLY <2>1, Extended DEF n
<1>8. n \in 1..n /\ n < n + 1 /\ n # n + 1 /\ ~(n + 1 < n + 1)
  <2> HIDE DEF n
  <2> QED  BY <1>1
<1>9. gs[n] = fs[n]
  BY <1>7, <1>8
<1>10. ArrayOf(gs, n + 1) = Len(ars)
  <2>1. f.what # "arg" /\ Len(ars) \in Nat
    BY <1>1, <1>6
  <2>2. ArrayOf(gs, n + 1) = ArrayOf(fs, n) + 0
    BY <1>7, <2>1
  <2> QED  BY <1>1, <2>1, <2>2
<1>11. fs[n].what \in Scans => BalancedAt(bs, gs, n)
  <2> SUFFICES ASSUME fs[n].what \in Scans  PROVE BalancedAt(bs, gs, n)
    OBVIOUS
  <2> DEFINE l == Left(fs[n])
             u == Below(fs[n])
  <2>1. fs[n].processed <= fs[n].count /\ l \in Int /\ u \in Nat /\ m + 1 - q = l + u
    <3>1. /\ fs[n].processed <= fs[n].count /\ fs[n].processed \in Nat /\ fs[n].count \in Nat /\ u \in Nat
          /\ Remaining(a) = l + u
      BY <1>0, BalancedTop
    <3>2. l \in Int
      BY <3>1 DEF Left
    <3> QED  BY <3>1, <3>2 DEF Remaining, m, q
  <2>2. end <= m + 1 - u
    BY <1>0 DEF m
  <2> HIDE DEF l, u, n
  <2>3. end - q <= l /\ m - end + 1 = l - (end - q) + u
    BY <1>2, <2>1, <2>2
  <2>4. gs[n].processed <= gs[n].count /\ gs[n + 1].before <= Left(gs[n])
        /\ gs[n + 1].rest = Left(gs[n]) - gs[n + 1].before + Below(gs[n])
    BY <1>6, <1>7, <1>9, <2>1, <2>3 DEF l, u
  <2> QED  BY <1>6, <1>7, <1>8, <1>9, <2>4 DEF BalancedAt
<1>12. BalancedAt(bs, gs, n + 1)
  <2>1. f.processed <= f.count /\ Left(f) = c /\ Below(f) = m - end + 1
    BY <1>2, <1>6 DEF Left, Below
  <2>2. Remaining(b) = c + (m - end + 1)
    BY <1>2, <1>3 DEF Remaining
  <2> HIDE DEF n
  <2> QED  BY <1>4, <1>7, <1>8, <1>10, <2>1, <2>2 DEF BalancedAt
<1>13. /\ \A j \in 1..Len(ars) - 1 : bs[j] = ars[j]
       /\ fs[Len(fs)].what = "call" => bs[Len(ars)] = ars[Len(ars)]
       /\ fs[Len(fs)].what \in Scans => BalancedAt(bs, gs, Len(fs))
       /\ f.what \in Scans => BalancedAt(bs, gs, Len(fs) + 1)
  BY <1>0, <1>4, <1>11, <1>12
<1>14. PlacedAt(ars, fs) /\ BalancedIn(ars, fs) /\ f \in Frames /\ gs \in {Append(fs, f)}
  BY <1>0, <1>6
<1> QED  BY ONLY <1>13, <1>14, BalancedPush

(* An expansion at its end: its tokens count as those it replaced.         *)
LEMMA BalancedEnd ==
  ASSUME NEW ars, NEW fs, PlacedAt(ars, fs), BalancedIn(ars, fs), Len(fs) # 1,
         NEW f \in {fs[Len(fs)]}, f.what = "rescan", f.processed >= f.count,
         NEW gs \in {Returned(Front(fs), f.before)}
  PROVE  BalancedIn(ars, gs)
<1> DEFINE n == Len(fs)
           es == Front(fs)
           k == Len(es)
           d == f.before
<1>1. FramesOK(fs) /\ DOMAIN fs = 1..n /\ n \in Nat \ {0} /\ ArrayOf(fs, n) = Len(ars) /\ f \in Frames
  BY PlacedTypes DEF PlacedAt
<1>2. /\ FramesOK(es) /\ k = n - 1 /\ k \in Nat \ {0} /\ DOMAIN es = 1..k
      /\ \A i \in 1..k : es[i] = fs[i]
      /\ \A i \in 0..k : ArrayOf(es, i) = ArrayOf(fs, i)
      /\ ArrayOf(fs, n) = ArrayOf(es, k) + (IF fs[n].what = "arg" THEN 1 ELSE 0)
      /\ fs[n].what = "arg" <=> es[k].what = "call"
  BY <1>1, Shortened
<1> HIDE DEF es
<1>3. ArrayOf(es, k) = Len(ars)
  <2>1. ArrayOf(es, k) \in Nat
    BY <1>2, ArrayOfIs
  <2>2. fs[n].what # "arg"
    OBVIOUS
  <2>3. ArrayOf(fs, n) = ArrayOf(es, k) + 0
    BY <1>2, <2>2
  <2> QED  BY <1>1, <2>1, <2>3
<1>4. /\ k \in 1..n /\ k \in 1..k /\ k \in 0..k /\ k < n /\ k # n /\ k + 1 = n
      /\ \A i \in 1..k - 1 : i \in 1..k
      /\ \A i \in 1..k : i \in 1..k - 1 \/ i = k
  <2>1. k = n - 1 /\ k \in Nat \ {0} /\ n \in Nat
    BY <1>1, <1>2
  <2> HIDE DEF k, n
  <2> QED  BY <2>1
<1>5. es[k] = fs[k] /\ ArrayOf(fs, k) = Len(ars) /\ es[k].what # "call" /\ es[k] \in Frames
      /\ es \in Seq(Frames) /\ es # <<>>
  BY <1>2, <1>3, <1>4 DEF FramesOK
<1>6. /\ d \in Nat /\ f.rest \in Nat /\ f.count \in Nat /\ f.processed \in Nat
      /\ f.processed <= f.count /\ Remaining(ars[Len(ars)]) = Left(f) + f.rest
  <2>1. d \in Nat /\ f.rest \in Nat /\ f.count \in Nat /\ f.processed \in Nat
    BY <1>1, FrameTypes
  <2>2. f.processed <= f.count /\ Remaining(ars[Len(ars)]) = Left(f) + Below(f)
    BY BalancedTop DEF Scans
  <2>3. Below(f) = f.rest
    BY DEF Below
  <2> QED  BY <2>1, <2>2, <2>3
<1>7. Remaining(ars[Len(ars)]) = f.rest
  <2>1. Left(f) = 0
    BY <1>6 DEF Left
  <2> QED  BY <1>6, <2>1
<1>8. /\ gs \in Seq(Frames) /\ Len(gs) = k
      /\ \A i \in 1..k - 1 : gs[i] = es[i]
      /\ es[k].what = "text" => gs[k] = es[k]
      /\ es[k].what \in Scans =>
           /\ gs[k].what = es[k].what /\ gs[k].count = es[k].count /\ gs[k].processed = es[k].processed + d
           /\ es[k].what = "rescan" => gs[k].before = es[k].before /\ gs[k].rest = es[k].rest
  <2>1. gs = Returned(es, d) /\ d \in Nat
    BY <1>6 DEF es
  <2> HIDE DEF d
  <2> QED  BY <1>5, <2>1, ReturnedIs
<1>9. es[k].what \in {"text", "arg", "rescan"}
  BY <1>5, FrameTypes
<1>10. gs[k].what = es[k].what
  BY <1>8, <1>9 DEF Scans
<1>11. ArrayOf(gs, k) = Len(ars)
  <2>1. \A i \in 1..k : gs[i].what = es[i].what
    BY <1>4, <1>8, <1>10
  <2>2. ArrayOf(gs, k) = ArrayOf(es, k)
    BY <1>2, <2>1, ArrayOfSame
  <2> QED  BY <1>3, <2>2
<1>12. es[k].what \in Scans => BalancedAt(ars, gs, k)
  <2> SUFFICES ASSUME es[k].what \in Scans  PROVE BalancedAt(ars, gs, k)
    OBVIOUS
  <2> DEFINE g == es[k]
             l == Left(g)
             u == Below(g)
  <2>1. g.processed \in Nat /\ g.count \in Nat /\ u \in Nat
    <3> HIDE DEF g
    <3>1. g \in Frames /\ g.what \in Scans
      BY <1>5 DEF g
    <3> QED  BY <3>1, FrameTypes DEF Scans, Below
  <2>2. BalancedAt(ars, fs, k)
    BY <1>1, <1>4, <1>5 DEF BalancedIn
  <2>3. fs[k + 1] = f
    BY <1>4
  <2>4. d <= l /\ f.rest = l - d + u
    <3> HIDE DEF n, k
    <3>1. k < Len(fs) /\ fs[k + 1].what = "rescan" /\ fs[k + 1].before = d /\ fs[k + 1].rest = f.rest
      BY <1>4, <2>3 DEF n
    <3>2. fs[k + 1].before <= Left(fs[k]) /\ fs[k + 1].rest = Left(fs[k]) - fs[k + 1].before + Below(fs[k])
      BY <2>2, <3>1 DEF BalancedAt
    <3> QED  BY <1>5, <3>1, <3>2
  <2>5. l = g.count - g.processed
    BY DEF Left
  <2>6. gs[k].processed <= gs[k].count /\ Left(gs[k]) = l - d
    <3>1. gs[k].processed = g.processed + d /\ gs[k].count = g.count
      BY <1>8
    <3> DEFINE x == gs[k]
    <3>2. x.processed = g.processed + d /\ x.count = g.count /\ Left(x) = x.count - x.processed
      BY <3>1 DEF Left
    <3> HIDE DEF g, l, d, u, x
    <3>3. x.processed <= x.count /\ Left(x) = l - d
      BY <1>6, <2>1, <2>4, <2>5, <3>2
    <3> QED  BY <3>3 DEF x
  <2>7. Below(gs[k]) = u
    BY <1>8, <1>10 DEF Below
  <2>8. Remaining(ars[Len(ars)]) = Left(gs[k]) + Below(gs[k])
    BY <1>7, <2>4, <2>6, <2>7
  <2>9. ~(k < k)
    BY <1>2
  <2> HIDE DEF k
  <2> QED  BY <1>8, <1>11, <2>6, <2>8, <2>9 DEF BalancedAt
<1>13. \A i \in 1..k - 1 : gs[i].what \in Scans => BalancedAt(ars, gs, i)
  <2>1. /\ k \in 1..Len(fs) /\ k \in 1..Len(gs) /\ k # Len(fs) /\ gs[k].what = fs[k].what /\ fs[k].what # "call"
        /\ \A i \in 1..k - 1 : gs[i] = fs[i]
    BY <1>2, <1>4, <1>5, <1>8, <1>10
  <2>2. fs[k].what = "rescan" => gs[k].before = fs[k].before /\ gs[k].rest = fs[k].rest
    BY <1>5, <1>8 DEF Scans
  <2> HIDE DEF k
  <2> QED  BY <1>8, <2>1, <2>2, BalancedBelow
<1>14. DOMAIN gs = 1..k
  BY <1>8
<1> HIDE DEF k
<1> QED  BY <1>4, <1>10, <1>12, <1>13, <1>14 DEF BalancedIn

LEMMA TopBalance ==
  ASSUME Placed, Balanced, Top.what \in Scans
  PROVE  /\ OwnEnd = Len(Toks) + 1 - Below(Top) /\ OwnEnd - Pos = Left(Top)
         /\ Left(Top) = Top.count - Top.processed /\ Left(Top) \in Nat /\ Below(Top) \in Nat
         /\ Scanning => Left(Top) >= 1 /\ Pos + 1 <= OwnEnd /\ Pos <= Len(Toks)
<1> DEFINE n == Len(Toks)
           l == Left(Top)
           u == Below(Top)
<1>1. Top = frames[Len(frames)] /\ PlacedAt(arrays, frames) /\ BalancedIn(arrays, frames)
  BY TopFrame DEF Placed, Balanced
<1>2. n \in Nat /\ Pos \in 1..n + 1 /\ Remaining(arrays[Len(arrays)]) = n + 1 - Pos
  BY TopArray DEF Remaining
<1>3. /\ Top.processed <= Top.count /\ Top.processed \in Nat /\ Top.count \in Nat /\ u \in Nat
      /\ n + 1 - Pos = l + u
  BY <1>1, <1>2, BalancedTop
<1>4. l = Top.count - Top.processed /\ l \in Nat
  BY <1>3 DEF Left
<1>5. OwnEnd = n + 1 - u
  BY DEF OwnEnd, Behind, Below
<1>6. Scanning => Top.processed < Top.count
  BY DEF Scanning, Scans
<1> HIDE DEF n, u
<1>7. OwnEnd - Pos = l
  BY <1>2, <1>3, <1>4, <1>5
<1>8. Scanning => l >= 1
  BY <1>3, <1>4, <1>6
<1> HIDE DEF l
<1>9. Scanning => Pos + 1 <= OwnEnd /\ Pos <= n
  BY <1>2, <1>3, <1>4, <1>5, <1>8
<1> QED  BY <1>3, <1>4, <1>5, <1>7, <1>8, <1>9 DEF n, l, u

LEMMA NoOverrun ==
  ASSUME Placed, Balanced, InvocationsWithin, [Next]_vars
  PROVE  status' # "overrun"
<1> USE DEF Balanced
<1>1. CASE Directive
  BY <1>1 DEF Directive
<1>2. CASE TextToken
  BY <1>2 DEF TextToken
<1>3. CASE Pass
  <2>1. Top.what \in Scans /\ Scanning
    BY <1>3 DEF Pass, Scanning, Scans
  <2>2. Pos <= Len(Toks)
    BY <2>1, TopBalance
  <2>3. ~(Pos > Len(Toks))
    BY <2>2, TopArray
  <2> QED  BY <1>3, <2>3 DEF Pass
<1>4. CASE NotExpanded
  BY <1>4 DEF NotExpanded
<1>5. CASE NotInvoked
  BY <1>5 DEF NotInvoked
<1>6. CASE Invoke
  <2> DEFINE open == skip_whitespaces_or_newlines(Pos + 1)
             read == pp_parse_macro_arguments(open)
             split == At(skip_whitespaces_or_newlines(open + 1)).kind = "nl"
  <2>1. /\ Expandable /\ Macro.kind = "func" /\ At(open).kind = "("
        /\ \/ split /\ status' = "fatal"
           \/ ~split /\ read.end = 0
           \/ UNCHANGED status
    BY <1>6 DEF Invoke
  <2>2. ~split => read.end \in 1..OwnEnd
    BY <2>1 DEF InvocationsWithin
  <2>3. ~split => read.end # 0
    <3> HIDE DEF read, split
    <3> QED  BY <2>2
  <2> HIDE DEF read, split
  <2> QED  BY <2>1, <2>3
<1>7. CASE ExpandArg
  BY <1>7 DEF ExpandArg
<1>8. CASE KeepArg
  BY <1>8 DEF KeepArg
<1>9. CASE EndArg
  BY <1>9 DEF EndArg
<1>10. CASE Substitute
  BY <1>10 DEF Substitute
<1>11. CASE ExpandObject
  BY <1>11 DEF ExpandObject
<1>12. CASE EndRescan
  BY <1>12 DEF EndRescan
<1>13. CASE UNCHANGED vars
  BY <1>13 DEF vars
<1> QED
  BY <1>1, <1>2, <1>3, <1>4, <1>5, <1>6, <1>7, <1>8, <1>9, <1>10, <1>11, <1>12, <1>13 DEF Next

LEMMA BalancedKept == Placed /\ NamesApart /\ Balanced /\ InvocationsWithin /\ [Next]_vars => Balanced'
<1> SUFFICES ASSUME Placed, NamesApart, Balanced, InvocationsWithin, [Next]_vars
             PROVE  BalancedIn(arrays', frames')
  BY NoOverrun DEF Balanced
<1> DEFINE a == arrays[Len(arrays)]
           n == Len(frames)
<1>1. /\ PlacedAt(arrays, frames) /\ BalancedIn(arrays, frames) /\ a \in {arrays[Len(arrays)]}
      /\ Last(arrays) = a /\ Toks = a.toks /\ Pos = a.pos /\ Top = frames[n]
  BY TopArray, TopFrame DEF Placed, Balanced
<1>2. /\ frames \in Seq(Frames) /\ frames # <<>> /\ n \in Nat \ {0} /\ DOMAIN frames = 1..n /\ n \in 1..n
      /\ arrays \in Seq(Arrays) /\ arrays # <<>>
  <2>1. /\ frames \in Seq(Frames) /\ frames # <<>> /\ n \in Nat \ {0} /\ DOMAIN frames = 1..n
        /\ arrays \in Seq(Arrays) /\ arrays # <<>>
    BY <1>1, PlacedTypes
  <2>2. n \in 1..n
    <3> HIDE DEF n
    <3> QED  BY <2>1
  <2> QED  BY <2>1, <2>2
<1> HIDE DEF a
<1>3. CASE UNCHANGED <<arrays, frames>>
  BY <1>1, <1>3
<1>4. CASE Directive
  <2>1. n = 1 /\ frames[1].what = "text" /\ UNCHANGED frames
    BY <1>1, <1>4, DirectiveIs
  <2> HIDE DEF n
  <2> QED  BY <1>2, <2>1 DEF BalancedIn, Scans
<1>5. ASSUME NEW p \in Pos + 1..Len(Toks) + 1, Forward(p), Top.what # "call",
             Top.what \in Scans => p <= OwnEnd
      PROVE  BalancedIn(arrays', frames')
  <2> DEFINE m == Len(a.toks)
             q == a.pos
             b == [a EXCEPT !.pos = p]
  <2>1. m \in Nat /\ q \in Nat /\ p \in q + 1..m + 1
    BY <1>1, <1>5, TopArray
  <2>2. p \in q..m + 1 /\ p \in Nat
    <3> HIDE DEF m, q
    <3> QED  BY <2>1
  <2>3. Top.what \in Scans => p - q <= Left(Top)
    <3> SUFFICES ASSUME Top.what \in Scans  PROVE p - q <= Left(Top)
      OBVIOUS
    <3>1. OwnEnd - q = Left(Top) /\ OwnEnd = m + 1 - Below(Top) /\ Below(Top) \in Nat
      BY <1>1, TopBalance
    <3>2. p <= OwnEnd
      BY <1>5
    <3> DEFINE e == OwnEnd
               u == Below(Top)
               l == Left(Top)
    <3>3. e - q = l /\ e = m + 1 - u /\ u \in Nat /\ p <= e
      BY <3>1, <3>2
    <3> HIDE DEF e, u, l, m, q
    <3>4. p - q <= l
      BY <2>1, <2>2, <3>3
    <3> QED  BY <3>4 DEF l
  <2>4. arrays' = Append(Front(arrays), b) /\ frames' = Returned(frames, p - q)
    BY <1>1, <1>5 DEF Forward, Moved, SetTop
  <2>5. frames[Len(frames)].what # "call"
        /\ (frames[Len(frames)].what \in Scans => p - a.pos <= Left(frames[Len(frames)]))
    BY <1>1, <1>5, <2>3
  <2>6. /\ p \in a.pos..Len(a.toks) + 1 /\ arrays' \in {Append(Front(arrays), [a EXCEPT !.pos = p])}
        /\ frames' \in {Returned(frames, p - a.pos)}
    BY <2>2, <2>4
  <2> HIDE DEF m, q, b, n
  <2> QED  BY <1>1, <2>5, <2>6, BalancedMoved
<1>6. CASE TextToken \/ Pass \/ NotExpanded \/ NotInvoked
  <2>1. ASSUME NEW p \in Pos + 1..Len(Toks) + 1, Scanning, Top.what # "call", Forward(p),
               p = Pos + 1 \/ (NotInvoked /\ p = skip_whitespaces_or_newlines(Pos + 1))
        PROVE  BalancedIn(arrays', frames')
    <3>1. Top.what \in Scans => p <= OwnEnd
      <4>1. CASE p = Pos + 1
        BY <2>1, <4>1, TopBalance
      <4>2. CASE NotInvoked /\ p = skip_whitespaces_or_newlines(Pos + 1)
        <5>1. Expandable /\ Macro.kind = "func"
          BY <4>2 DEF NotInvoked
        <5> QED  BY <4>2, <5>1 DEF InvocationsWithin
      <4> QED  BY <2>1, <4>1, <4>2
    <3> QED  BY <1>5, <2>1, <3>1
  <2> QED  BY <1>3, <1>6, <2>1, MoveIs
<1>7. CASE Invoke
  <2> DEFINE open == skip_whitespaces_or_newlines(Pos + 1)
             split == At(skip_whitespaces_or_newlines(open + 1)).kind = "nl"
             end == pp_parse_macro_arguments(open).end
  <2>1. ASSUME NEW f \in CallFrame, frames' = Append(frames, f), ~split, At(open).kind = "(", f.end = end
        PROVE  BalancedIn(arrays', frames')
    <3>1. Expandable /\ Macro.kind = "func" /\ UNCHANGED arrays
      BY <1>7, InvokeIs DEF Invoke
    <3>2. end \in 1..OwnEnd
      BY <2>1, <3>1 DEF InvocationsWithin
    <3>3. Top.what # "call"
      BY <3>1 DEF Expandable, AtMacro, Scanning
    <3>4. Top.what \in Scans => f.end <= Len(a.toks) + 1 - Below(Top)
      <4> SUFFICES ASSUME Top.what \in Scans  PROVE f.end <= Len(a.toks) + 1 - Below(Top)
        OBVIOUS
      <4>1. OwnEnd = Len(a.toks) + 1 - Below(Top) /\ Below(Top) \in Nat /\ Len(a.toks) \in Nat
        BY <1>1, TopArray, TopBalance
      <4> DEFINE e == OwnEnd
      <4>2. e \in Int /\ f.end \in 1..e
        BY <2>1, <3>2, <4>1
      <4> HIDE DEF e
      <4>3. f.end <= e
        BY <4>2
      <4> QED  BY <4>1, <4>3 DEF e
    <3>5. f \in Frames /\ f.what = "call"
      BY DEF Frames, CallFrame
    <3>6. /\ frames[Len(frames)].what # "call" /\ frames' \in {Append(frames, f)}
          /\ frames[Len(frames)].what \in Scans => f.end <= Len(a.toks) + 1 - Below(frames[Len(frames)])
      BY <1>1, <2>1, <3>3, <3>4
    <3>7. BalancedIn(arrays, frames')
      BY <1>1, <3>5, <3>6, BalancedCall
    <3> QED  BY <3>1, <3>7
  <2>2. \/ UNCHANGED <<arrays, frames>>
        \/ \E f \in CallFrame : frames' = Append(frames, f) /\ ~split /\ At(open).kind = "(" /\ f.end = end
    BY <1>7, InvokeIs
  <2> HIDE DEF open, split, end
  <2> QED  BY <1>3, <2>1, <2>2
<1>8. CASE ExpandArg
  <2>1. PICK b \in Arrays, f \in ArgFrame :
          /\ Top.what = "call" /\ f.what = "arg" /\ b.pos = 1 /\ Len(b.toks) \in Nat
          /\ arrays' = Append(arrays, b) /\ frames' = Append(frames, f)
          /\ f.count = Len(b.toks) /\ f.processed = 0
    BY <1>8, ExpandArgIs
  <2>2. f \in Frames /\ frames[Len(frames)].what = "call"
    BY <1>1, <2>1 DEF Frames
  <2> QED  BY <1>1, <2>1, <2>2, BalancedArg
<1>9. CASE KeepArg
  <2>1. PICK f \in CallFrame :
          /\ UNCHANGED arrays /\ Top.what = "call" /\ frames' = Append(Front(frames), f)
          /\ f.end = Top.end
    BY <1>9, KeepArgIs
  <2>2. f \in Frames /\ f.what = "call"
    BY DEF Frames, CallFrame
  <2>3. /\ frames' \in Seq(Frames) /\ Len(frames') = n /\ frames'[n] = f
        /\ \A k \in 1..n - 1 : frames'[k] = frames[k]
    <3>1. frames \in Seq(Frames) /\ frames # <<>> /\ f \in Frames /\ frames' \in {Append(Front(frames), f)}
      BY <1>2, <2>1, <2>2
    <3> QED  BY ONLY <3>1, LastReplaced DEF n
  <2>4. BalancedIn(arrays, frames')
    BY <1>1, <1>2, <2>1, <2>2, <2>3, BalancedBack
  <2> QED  BY <2>1, <2>4
<1>10. CASE EndArg
  <2> DEFINE gs == Front(frames)
             call == frames[Len(frames) - 1]
             k == Len(gs)
  <2>1. Top.what = "arg" /\ call.what = "call" /\ arrays' = Front(arrays)
    BY <1>10, EndArgIs
  <2>2. PICK f \in CallFrame : frames' = Append(Front(gs), f) /\ f.end = call.end
    BY <1>10, EndArgIs
  <2>3. /\ PlacedAt(arrays', gs) /\ gs[k] = call /\ k = n - 1
    BY <1>1, <2>1, PopArg
  <2>4. \A i \in 1..n - 1 : gs[i] = frames[i]
    BY <1>2, LastDropped
  <2>5. \A j \in 1..Len(arrays) - 1 : arrays'[j] = arrays[j]
    BY <1>2, <2>1, LastDropped
  <2> HIDE DEF gs
  <2>6. k \in Nat \ {0} /\ gs \in Seq(Frames) /\ gs # <<>>
    BY <2>3, PlacedTypes
  <2>7. f \in Frames /\ f.what = "call"
    BY DEF Frames, CallFrame
  <2>8. /\ frames' \in Seq(Frames) /\ Len(frames') = k /\ frames'[k] = f
        /\ \A i \in 1..k - 1 : frames'[i] = gs[i]
    BY <2>2, <2>6, <2>7, FrontFacts
  <2>9. frames[k] = call
    BY <2>3
  <2> HIDE DEF k, n, call
  <2>10. k \in 1..n /\ k # n /\ \A i \in 1..k - 1 : i \in 1..n - 1
    BY <1>2, <2>3, <2>6
  <2>11. /\ \A i \in 1..k - 1 : frames'[i] = frames[i]
         /\ frames[k].what = "call" /\ frames'[k].what = "call" /\ frames'[k].end = frames[k].end
    BY <2>1, <2>2, <2>4, <2>7, <2>8, <2>9, <2>10
  <2> QED  BY <1>1, <2>5, <2>8, <2>10, <2>11, BalancedBack DEF n
<1>11. ASSUME NEW fs, NEW name, NEW end, NEW by, Splice(fs, name, end, by), BalancedIn(arrays, fs),
              fs[Len(fs)].what \in Scans => end <= Len(a.toks) + 1 - Below(fs[Len(fs)])
       PROVE  BalancedIn(arrays', frames')
  <2>1. SplicedTo(arrays, fs, name, end, by, arrays', frames')
    BY <1>1, <1>11 DEF Splice, SplicedTo
  <2>2. fs[Len(fs)].what \in Scans => end <= Len(arrays[Len(arrays)].toks) + 1 - Below(fs[Len(fs)])
    BY <1>1, <1>11
  <2> QED  BY <1>11, <2>1, <2>2, BalancedSpliced
<1>12. CASE Substitute
  <2> DEFINE gs == Front(frames)
  <2>1. Top.what = "call" /\ n # 1
    BY <1>12, SubstituteIs
  <2>2. /\ BalancedIn(arrays, gs)
        /\ gs[Len(gs)].what \in Scans => Top.end <= Len(a.toks) + 1 - Below(gs[Len(gs)])
    <3>1. gs \in {Front(frames)} /\ frames[Len(frames)].what = "call" /\ Len(frames) # 1
      BY <1>1, <2>1
    <3> HIDE DEF gs
    <3>2. /\ BalancedIn(arrays, gs)
          /\ gs[Len(gs)].what \in Scans =>
               frames[Len(frames)].end <= Len(arrays[Len(arrays)].toks) + 1 - Below(gs[Len(gs)])
      BY <1>1, <3>1, BalancedPopCall
    <3> QED  BY <1>1, <3>2 DEF a
  <2>3. UNCHANGED <<arrays, frames>> \/ \E by \in Seq(Tokens) : Splice(gs, Top.name, Top.end, by)
    BY <1>12, SubstituteIs
  <2> HIDE DEF gs
  <2> QED  BY <1>3, <1>11, <2>2, <2>3
<1>13. CASE ExpandObject
  <2>1. UNCHANGED <<arrays, frames>> \/ \E by \in Seq(Tokens) : Splice(frames, Tok.text, Pos + 1, by)
    BY <1>13, ExpandObjectIs
  <2>2. Scanning
    BY <1>13, ExpandObjectIs DEF Expandable, AtMacro
  <2>3. frames[Len(frames)].what \in Scans => Pos + 1 <= Len(a.toks) + 1 - Below(frames[Len(frames)])
    <3>1. Top.what \in Scans => Pos + 1 <= OwnEnd /\ OwnEnd = Len(Toks) + 1 - Below(Top)
      BY <2>2, TopBalance
    <3> QED  BY <1>1, <3>1
  <2> QED  BY <1>1, <1>3, <1>11, <2>1, <2>3
<1>14. CASE EndRescan
  <2>1. UNCHANGED arrays /\ Top.what = "rescan" /\ frames' = Returned(Front(frames), Top.before)
        /\ Top.processed >= Top.count
    BY <1>14 DEF EndRescan, token_count_before_expansion
  <2>2. n # 1
    BY <2>1, TopFrame
  <2> DEFINE f == Top
  <2>3. f \in {frames[Len(frames)]} /\ frames' \in {Returned(Front(frames), f.before)}
        /\ f.what = "rescan" /\ f.processed >= f.count /\ Len(frames) # 1
    BY <1>1, <2>1, <2>2
  <2> HIDE DEF f, n
  <2>4. BalancedIn(arrays, frames')
    BY <1>1, <2>3, BalancedEnd
  <2> QED  BY <2>1, <2>4
<1>15. CASE UNCHANGED vars
  BY <1>3, <1>15 DEF vars
<1> QED
  BY <1>4, <1>6, <1>7, <1>8, <1>9, <1>10, <1>12, <1>13, <1>14, <1>15 DEF Next

LEMMA InitBalanced == Init => Balanced
<1> SUFFICES ASSUME Init  PROVE Balanced
  OBVIOUS
<1>1. frames = <<[what |-> "text"]>> /\ status = "run"
  BY DEF Init
<1>2. \A i \in DOMAIN frames : frames[i].what = "text"
  BY <1>1
<1> QED  BY <1>1, <1>2 DEF Balanced, BalancedIn, Scans

(* As long as the invocations within an expansion end within it, every     *)
(* expansion stops exactly where the tokens end that it wrote, at whatever *)
(* depth, and none runs out of its array.                                  *)
THEOREM ScansEndWhereWritten == Spec /\ []InvocationsWithin => []ScansOwnTokens
<1>1. Placed /\ Balanced /\ InvocationsWithin => ScansOwnTokens
  <2> SUFFICES ASSUME Placed, Balanced, InvocationsWithin  PROVE StopsAtOwnEnd
    BY DEF ScansOwnTokens
  <2>1. Top.what \in Scans => OwnEnd - Pos = Top.count - Top.processed
    BY TopBalance
  <2> QED  BY <2>1 DEF StopsAtOwnEnd, Balanced, Scans
<1>2. Init => Balanced
  BY InitBalanced
<1>3. (Placed /\ NamesApart) /\ Balanced /\ InvocationsWithin /\ [Next]_vars => Balanced'
  BY BalancedKept
<1> QED  BY <1>1, <1>2, <1>3, PlacedAlways, PTL DEF Spec
----------------------------------------------------------------------------
(* The splices.                                                            *)
LEMMA LastOther ==
  ASSUME Placed, NEW b \in Arrays, arrays' = Append(Front(arrays), b), Pos <= b.pos,
         \A i \in 1..Pos - 1 : b.toks[i] = Toks[i]
  PROVE  InFrontKept /\ arrays'[Len(arrays)] = b
<1> DEFINE n == Len(arrays)
<1>1. /\ arrays \in Seq(Arrays) /\ arrays # <<>> /\ n \in Nat \ {0} /\ DOMAIN arrays = 1..n
      /\ Toks = arrays[n].toks /\ Pos = arrays[n].pos
  BY PlacedTypes, TopArray DEF Placed
<1>2. arrays'[n] = b /\ \A k \in 1..n - 1 : arrays'[k] = arrays[k]
  <2>1. arrays \in Seq(Arrays) /\ arrays # <<>> /\ b \in Arrays /\ arrays' \in {Append(Front(arrays), b)}
    BY <1>1
  <2> QED  BY ONLY <2>1, LastReplaced DEF n
<1> HIDE DEF n
<1>3. \A k \in 1..n : k \in 1..n - 1 \/ k = n
  BY <1>1
<1>4. \A k \in 1..n : arrays[k].pos \in Nat
  <2>1. \A k \in 1..n : arrays[k] \in Arrays
    BY <1>1
  <2> QED  BY <2>1 DEF Arrays
<1>5. ASSUME NEW k \in DOMAIN arrays
      PROVE  /\ arrays[k].pos <= arrays'[k].pos
             /\ \A i \in 1..(arrays[k].pos - 1) : arrays'[k].toks[i] = arrays[k].toks[i]
  <2>1. CASE k = n
    BY <1>1, <1>2, <2>1
  <2>2. CASE k \in 1..n - 1
    <3>1. arrays'[k] = arrays[k] /\ arrays[k].pos \in Nat
      BY <1>1, <1>2, <1>4, <1>5, <2>2
    <3> QED  BY <3>1
  <2> QED  BY <1>1, <1>3, <1>5, <2>1, <2>2
<1> QED  BY <1>2, <1>5 DEF InFrontKept, n

LEMMA FrontStays ==
  ASSUME Placed, \A k \in DOMAIN arrays \cap DOMAIN arrays' : arrays'[k] = arrays[k]
  PROVE  InFrontKept
<1>1. \A k \in DOMAIN arrays : arrays[k].pos \in Nat
  <2>1. arrays \in Seq(Arrays)
    BY PlacedTypes DEF Placed
  <2>2. \A k \in DOMAIN arrays : arrays[k] \in Arrays
    BY <2>1
  <2> QED  BY <2>2 DEF Arrays
<1> QED  BY <1>1 DEF InFrontKept

LEMMA FrontKept == Placed /\ NamesApart /\ [Next]_vars => InFrontKept
<1> SUFFICES ASSUME Placed, NamesApart, [Next]_vars  PROVE InFrontKept
  OBVIOUS
<1>1. /\ Toks \in Seq(Tokens) /\ Len(Toks) \in Nat /\ Pos \in 1..Len(Toks) + 1
      /\ Last(arrays) = [toks |-> Toks, pos |-> Pos] /\ Last(arrays) \in Arrays
      /\ arrays \in Seq(Arrays) /\ arrays # <<>>
  BY TopArray, PlacedTypes DEF Placed, Arrays, Toks, Pos
<1>2. CASE UNCHANGED arrays
  BY <1>2, FrontStays
<1>3. CASE Directive
  <2>1. PICK b \in Arrays :
          /\ arrays' = Append(Front(arrays), b) /\ b.pos \in Pos + 1..Len(Toks) + 1
          /\ \A i \in 1..Pos - 1 : b.toks[i] = Toks[i]
    BY <1>3, DirectiveIs
  <2>2. Pos <= b.pos
    BY <1>1, <2>1
  <2> QED  BY <2>1, <2>2, LastOther
<1>4. CASE TextToken \/ Pass \/ NotExpanded \/ NotInvoked
  <2>1. ASSUME NEW p \in Pos + 1..Len(Toks) + 1, Moved(p)  PROVE InFrontKept
    <3> DEFINE b == [toks |-> Toks, pos |-> p]
    <3>1. p \in Nat /\ Pos <= p
      BY <1>1
    <3>2. b \in Arrays
      BY <1>1, <3>1 DEF Arrays
    <3>3. arrays' = Append(Front(arrays), b)
      BY <1>1, <2>1 DEF Moved, SetTop
    <3> QED  BY <3>1, <3>2, <3>3, LastOther
  <2> QED  BY <1>2, <1>4, <2>1, MoveIs DEF Forward
<1>5. CASE Invoke
  BY <1>2, <1>5, InvokeIs
<1>6. CASE ExpandArg
  <2>1. PICK b \in Arrays : arrays' = Append(arrays, b)
    BY <1>6, ExpandArgIs
  <2>2. \A k \in DOMAIN arrays : arrays'[k] = arrays[k]
    BY <1>1, <2>1
  <2> QED  BY <2>2, FrontStays
<1>7. CASE KeepArg
  BY <1>2, <1>7 DEF KeepArg
<1>8. CASE EndArg
  <2>1. arrays' \in {Front(arrays)}
    BY <1>8, EndArgIs
  <2>2. DOMAIN arrays' = 1..Len(arrays) - 1 /\ \A k \in 1..Len(arrays) - 1 : arrays'[k] = arrays[k]
    BY <1>1, <2>1, LastDropped
  <2> QED  BY <2>2, FrontStays
<1>9. ASSUME NEW fs, NEW name, NEW end, NEW by, Splice(fs, name, end, by)  PROVE InFrontKept
  <2> DEFINE b == [toks |-> Replace(Toks, Pos, end, by), pos |-> Pos]
  <2>1. by \in Seq(Tokens) /\ end \in Pos + 1..Len(Toks) + 1 /\ arrays' = Append(Front(arrays), b)
    BY <1>9 DEF Splice
  <2>2. end \in Pos..Len(Toks) + 1 /\ Pos \in Nat
    BY <1>1, <2>1
  <2>3. b.toks \in Seq(Tokens) /\ \A i \in 1..Pos - 1 : b.toks[i] = Toks[i]
    <3>1. Toks \in Seq(Tokens) /\ by \in Seq(Tokens) /\ Pos \in 1..Len(Toks) + 1 /\ end \in Pos..Len(Toks) + 1
      BY <1>1, <2>1, <2>2
    <3> QED  BY ONLY <3>1, ReplaceFacts
  <2>4. b \in Arrays /\ b.pos = Pos /\ Pos <= b.pos
    BY <2>2, <2>3 DEF Arrays
  <2> HIDE DEF b
  <2> QED  BY <2>1, <2>3, <2>4, LastOther
<1>10. CASE Substitute
  BY <1>2, <1>9, <1>10, SubstituteIs
<1>11. CASE ExpandObject
  BY <1>2, <1>9, <1>11, ExpandObjectIs
<1>12. CASE EndRescan
  BY <1>2, <1>12 DEF EndRescan
<1>13. CASE UNCHANGED vars
  BY <1>2, <1>13 DEF vars
<1> QED
  BY <1>3, <1>4, <1>5, <1>6, <1>7, <1>8, <1>10, <1>11, <1>12, <1>13 DEF Next

(* Which scan the tokens belong to, and how many it leaves alone.          *)
Scan == IF Top.what = "call" THEN frames[Len(frames) - 1] ELSE Top

LEMMA BehindStays ==
  ASSUME Len(arrays) \in DOMAIN arrays' => arrays'[Len(arrays)].toks = Toks
  PROVE  BehindKept
BY DEF BehindKept

LEMMA BehindSpliced ==
  ASSUME Placed, NEW fs, NEW name, NEW end, NEW by, Splice(fs, name, end, by),
         Scan.what \in Scans => end <= Len(Toks) + 1 - Below(Scan)
  PROVE  BehindKept
<1> DEFINE rest == IF Scan.what = "rescan" THEN Scan.rest ELSE 0
           s == Replace(Toks, Pos, end, by)
           b == [toks |-> s, pos |-> Pos]
           m == Len(Toks)
<1>1. Toks \in Seq(Tokens) /\ m \in Nat /\ Pos \in 1..m + 1 /\ Pos \in Nat
  BY TopArray
<1>2. by \in Seq(Tokens) /\ end \in Pos + 1..m + 1 /\ arrays' = Append(Front(arrays), b)
  BY DEF Splice
<1>3. end \in Pos..m + 1 /\ end \in Nat /\ end <= m + 1
  BY <1>1, <1>2
<1>4. s \in Seq(Tokens) /\ \A i \in 1..Pos - 1 : s[i] = Toks[i]
  BY <1>1, <1>2, <1>3, ReplaceFacts
<1>5. \A i \in 0..m - end : s[Len(s) - i] = Toks[m - i]
  BY <1>1, <1>2, <1>3, ReplaceFacts
<1>6. rest \in Int => rest <= m - end + 1
  <2>1. CASE Scan.what = "rescan"
    <3>1. end <= m + 1 - rest
      BY <2>1 DEF Scans, Below
    <3> HIDE DEF rest, m
    <3> QED  BY <1>1, <1>3, <3>1
  <2>2. CASE Scan.what # "rescan"
    <3>1. rest = 0
      BY <2>2
    <3> HIDE DEF rest, m
    <3> QED  BY <1>1, <1>3, <3>1
  <2> QED  BY <2>1, <2>2
<1>7. rest \in Int
  <2>1. Scan \in Frames
    BY TopFrame DEF Scan
  <2> QED  BY <2>1, FrameTypes
<1>8. arrays'[Len(arrays)] = b
  <2>1. b \in Arrays /\ b.pos = Pos /\ b.toks = s
    BY <1>1, <1>4 DEF Arrays
  <2>2. Pos <= b.pos
    BY <1>1, <2>1
  <2> HIDE DEF b, s
  <2> QED  BY <1>2, <1>4, <2>1, <2>2, LastOther
<1>9. \A i \in 0..(rest - 1) : i \in 0..m - end
  <2> HIDE DEF rest, m
  <2> QED  BY <1>1, <1>3, <1>6, <1>7
<1>10. \A i \in 0..(rest - 1) :
         arrays'[Len(arrays)].toks[Len(arrays'[Len(arrays)].toks) - i] = Toks[Len(Toks) - i]
  <2>1. arrays'[Len(arrays)].toks = s
    BY <1>8
  <2> HIDE DEF rest, s
  <2> QED  BY <1>5, <1>9, <2>1
<1> QED  BY <1>10 DEF BehindKept, Scan

LEMMA TokensBehindKept == Placed /\ NamesApart /\ Balanced /\ [Next]_vars => BehindKept
<1> SUFFICES ASSUME Placed, NamesApart, Balanced, [Next]_vars  PROVE BehindKept
  OBVIOUS
<1>1. /\ arrays \in Seq(Arrays) /\ arrays # <<>> /\ Len(arrays) \in Nat \ {0}
      /\ Toks = arrays[Len(arrays)].toks /\ Pos = arrays[Len(arrays)].pos
      /\ PlacedAt(arrays, frames) /\ BalancedIn(arrays, frames) /\ Top = frames[Len(frames)]
  BY TopArray, TopFrame, PlacedTypes DEF Placed, Balanced
<1>2. CASE UNCHANGED arrays
  BY <1>1, <1>2, BehindStays
<1>3. CASE Directive
  <2>1. Top.what = "text"
    BY <1>3, DirectiveIs
  <2> QED  BY <2>1 DEF BehindKept
<1>4. CASE TextToken \/ Pass \/ NotExpanded \/ NotInvoked
  <2>1. ASSUME NEW p \in Pos + 1..Len(Toks) + 1, Moved(p)  PROVE BehindKept
    <3> DEFINE b == [toks |-> Toks, pos |-> p]
    <3>1. /\ Toks \in Seq(Tokens) /\ Pos \in Nat /\ p \in Nat /\ Pos <= p
          /\ Last(arrays) = [toks |-> Toks, pos |-> Pos]
      BY TopArray DEF Arrays, Toks, Pos
    <3>2. b \in Arrays
      BY <3>1 DEF Arrays
    <3>3. arrays' = Append(Front(arrays), b)
      BY <2>1, <3>1 DEF Moved, SetTop
    <3>4. arrays'[Len(arrays)] = b
      BY <3>1, <3>2, <3>3, LastOther
    <3> QED  BY <3>4, BehindStays
  <2> QED  BY <1>2, <1>4, <2>1, MoveIs DEF Forward
<1>5. CASE Invoke
  BY <1>2, <1>5, InvokeIs
<1>6. CASE ExpandArg
  <2>1. PICK b \in Arrays : arrays' = Append(arrays, b)
    BY <1>6, ExpandArgIs
  <2>2. arrays'[Len(arrays)] = arrays[Len(arrays)]
    BY <1>1, <2>1
  <2> QED  BY <1>1, <2>2, BehindStays
<1>7. CASE KeepArg
  BY <1>2, <1>7 DEF KeepArg
<1>8. CASE EndArg
  <2>1. arrays' \in {Front(arrays)}
    BY <1>8, EndArgIs
  <2>2. DOMAIN arrays' = 1..Len(arrays) - 1
    BY <1>1, <2>1, LastDropped
  <2>3. Len(arrays) \notin DOMAIN arrays'
    BY <1>1, <2>2
  <2> QED  BY <2>3, BehindStays
<1>9. CASE Substitute
  <2> DEFINE gs == Front(frames)
  <2>1. Top.what = "call" /\ Len(frames) # 1
    BY <1>9, SubstituteIs
  <2>2. gs[Len(gs)] = Scan
    <3>1. frames \in Seq(Frames) /\ frames # <<>> /\ Len(frames) \in Nat \ {0} /\ gs \in {Front(frames)}
      BY <1>1, PlacedTypes
    <3>2. Len(gs) = Len(frames) - 1 /\ \A k \in 1..Len(frames) - 1 : gs[k] = frames[k]
      BY <3>1, LastDropped
    <3>3. Len(frames) - 1 \in 1..Len(frames) - 1
      <4> DEFINE n == Len(frames)
      <4>1. n \in Nat \ {0} /\ n # 1
        BY <2>1, <3>1
      <4> HIDE DEF n
      <4>2. n - 1 \in 1..n - 1
        BY <4>1
      <4> QED  BY <4>2 DEF n
    <3> HIDE DEF gs
    <3> QED  BY <2>1, <3>2, <3>3 DEF Scan
  <2>3. gs[Len(gs)].what \in Scans => Top.end <= Len(Toks) + 1 - Below(gs[Len(gs)])
    <3>1. gs \in {Front(frames)} /\ frames[Len(frames)].what = "call" /\ Len(frames) # 1
      BY <1>1, <2>1
    <3> HIDE DEF gs
    <3>2. gs[Len(gs)].what \in Scans =>
            frames[Len(frames)].end <= Len(arrays[Len(arrays)].toks) + 1 - Below(gs[Len(gs)])
      BY <1>1, <3>1, BalancedPopCall
    <3> QED  BY <1>1, <3>2
  <2>4. UNCHANGED <<arrays, frames>> \/ \E by \in Seq(Tokens) : Splice(gs, Top.name, Top.end, by)
    BY <1>9, SubstituteIs
  <2> HIDE DEF gs
  <2> QED  BY <1>2, <2>2, <2>3, <2>4, BehindSpliced
<1>10. CASE ExpandObject
  <2>1. Scanning /\ (UNCHANGED <<arrays, frames>> \/ \E by \in Seq(Tokens) : Splice(frames, Tok.text, Pos + 1, by))
    BY <1>10, ExpandObjectIs DEF Expandable, AtMacro
  <2>2. Scan = Top
    BY <2>1 DEF Scanning, Scan
  <2>3. Scan.what \in Scans => Pos + 1 <= Len(Toks) + 1 - Below(Scan)
    <3>1. Top.what \in Scans => Pos + 1 <= OwnEnd /\ OwnEnd = Len(Toks) + 1 - Below(Top)
      BY <2>1, TopBalance
    <3> QED  BY <2>2, <3>1
  <2> QED  BY <1>2, <2>1, <2>3, BehindSpliced
<1>11. CASE EndRescan
  BY <1>2, <1>11 DEF EndRescan
<1>12. CASE UNCHANGED vars
  BY <1>2, <1>12 DEF vars
<1> QED
  BY <1>3, <1>4, <1>5, <1>6, <1>7, <1>8, <1>9, <1>10, <1>11, <1>12 DEF Next

(* Whatever the macros and the text are, nothing in front of the position  *)
(* of any array is ever written again.                                     *)
THEOREM FrontIsKept == Spec => [][InFrontKept]_vars
<1>1. Placed /\ NamesApart /\ [Next]_vars => [InFrontKept]_vars
  BY FrontKept
<1> QED  BY <1>1, PlacedAlways, PTL DEF Spec

(* As long as the invocations within an expansion end within it, a splice  *)
(* also leaves alone what stands behind the expansion it is part of.       *)
THEOREM SplicesKeepTheRest == Spec /\ []InvocationsWithin => SplicesInPlace
<1>1. Placed /\ NamesApart /\ Balanced /\ [Next]_vars => [InFrontKept /\ BehindKept]_vars
  BY FrontKept, TokensBehindKept
<1>2. Init => Balanced
  BY InitBalanced
<1>3. (Placed /\ NamesApart) /\ Balanced /\ InvocationsWithin /\ [Next]_vars => Balanced'
  BY BalancedKept
<1> QED  BY <1>1, <1>2, <1>3, PlacedAlways, PTL DEF Spec, SplicesInPlace
----------------------------------------------------------------------------
(* The depth: expansions in progress have names that are all different.    *)
Rescans(fs) == {i \in DOMAIN fs : fs[i].what = "rescan"}

LEMMA RescansBounded ==
  ASSUME NEW fs \in Seq(Frames), Apart(fs), NEW names, IsFiniteSet(names),
         \A i \in Rescans(fs) : fs[i].name \in names
  PROVE  IsFiniteSet(Rescans(fs)) /\ Cardinality(Rescans(fs)) <= Cardinality(names)
<1> DEFINE S == Rescans(fs)
           f == [i \in S |-> fs[i].name]
<1>1. S \subseteq Nat
  BY DEF Rescans
<1>2. \A i, j \in S : fs[i].name = fs[j].name => i = j
  <2> SUFFICES ASSUME NEW i \in S, NEW j \in S, fs[i].name = fs[j].name  PROVE i = j
    OBVIOUS
  <2>1. ~(i < j) /\ ~(j < i)
    BY DEF Apart, Rescans
  <2>2. i \in Nat /\ j \in Nat
    BY <1>1
  <2> HIDE DEF S
  <2> QED  BY <2>1, <2>2
<1>3. \A i \in S : fs[i].name \in names
  OBVIOUS
<1> HIDE DEF S
<1>4. f \in Injection(S, names)
  BY <1>2, <1>3 DEF Injection, IsInjective
<1> HIDE DEF f
<1>5. IsFiniteSet(S) /\ Cardinality(S) <= Cardinality(names)
  BY <1>4, FS_Injection
<1> QED  BY <1>5 DEF S

(* There are never more expansions in progress than macros, whatever the   *)
(* macros are: the rescans of expand_macro do not recurse without end.     *)
THEOREM ExpansionsBounded ==
  Spec => [](Cardinality({i \in DOMAIN frames : frames[i].what = "rescan"}) <= Cardinality(DOMAIN macros))
<1>1. Placed /\ NamesApart =>
        Cardinality({i \in DOMAIN frames : frames[i].what = "rescan"}) <= Cardinality(DOMAIN macros)
  <2> SUFFICES ASSUME Placed, NamesApart  PROVE Cardinality(Rescans(frames)) <= Cardinality(DOMAIN macros)
    BY DEF Rescans
  <2>1. frames \in Seq(Frames) /\ Apart(frames) /\ IsFiniteSet(DOMAIN macros)
    BY TopFrame DEF NamesApart, Placed, TablesOK
  <2>2. \A i \in Rescans(frames) : frames[i].name \in DOMAIN macros
    BY DEF NamesApart, Named, Rescans
  <2> QED  BY <2>1, <2>2, RescansBounded
<1> QED  BY <1>1, PlacedAlways, PTL

(* Tables of object-like macros only, with room for an expansion of each.  *)
ObjectLike == \A p \in Programs : \A name \in DOMAIN p.macros : p.macros[name].kind = "obj"
RoomForAll == MaxFrames \in Nat /\ \A p \in Programs : Cardinality(DOMAIN p.macros) < MaxFrames

Simple ==
  /\ \A name \in DOMAIN macros : macros[name].kind = "obj"
  /\ MaxFrames \in Nat /\ Cardinality(DOMAIN macros) < MaxFrames
  /\ \A i \in DOMAIN frames : frames[i].what \in {"text", "rescan"}
  /\ status # "overflow"

LEMMA SimpleInvoked == Simple => InvocationsWithin
BY DEF Simple, InvocationsWithin, Expandable, AtMacro, Macro

LEMMA NoOverflow ==
  ASSUME Placed, NamesApart, Simple, Expandable
  PROVE  Len(frames) # MaxFrames
<1> DEFINE n == Len(frames)
           c == Cardinality(DOMAIN macros)
           d == Cardinality(Rescans(frames))
           others == DOMAIN macros \ {Tok.text}
<1>1. frames \in Seq(Frames) /\ n \in Nat \ {0} /\ DOMAIN frames = 1..n /\ FramesOK(frames)
      /\ Apart(frames) /\ IsFiniteSet(DOMAIN macros)
  BY TopFrame DEF NamesApart, Placed, PlacedAt, TablesOK
<1>2. \A i \in Rescans(frames) : frames[i].name \in others
  BY DEF NamesApart, Named, Rescans, Expandable, already_expanded
<1>3. IsFiniteSet(others) /\ Cardinality(others) = c - 1
  <2>1. Tok.text \in DOMAIN macros
    BY DEF Expandable
  <2> QED  BY <1>1, <2>1, FS_RemoveElement
<1>4. c \in Nat
  BY <1>1, FS_CardinalityType
<1> HIDE DEF others
<1>5. d <= c - 1
  BY <1>1, <1>2, <1>3, RescansBounded
<1>6. Rescans(frames) = 2..n
  <2>1. \A i \in 1..n : frames[i].what = "rescan" <=> i # 1
    BY <1>1 DEF Simple, FramesOK
  <2>2. 2..n = {i \in 1..n : i # 1}
    <3> HIDE DEF n
    <3> QED  BY <1>1
  <2> QED  BY <1>1, <2>1, <2>2 DEF Rescans
<1>7. d = n - 1
  <2> HIDE DEF n
  <2>1. Cardinality(2..n) = IF 2 > n THEN 0 ELSE n - 2 + 1
    BY <1>1, FS_Interval
  <2> QED  BY <1>1, <1>6, <2>1
<1>8. c < MaxFrames /\ MaxFrames \in Nat
  BY DEF Simple
<1> HIDE DEF n, c, d
<1>9. n # MaxFrames
  BY <1>1, <1>4, <1>5, <1>7, <1>8
<1> QED  BY <1>9 DEF n

LEMMA SimpleReturned ==
  ASSUME NEW fs \in Seq(Frames), fs # <<>>, NEW d \in Nat,
         \A i \in DOMAIN fs : fs[i].what \in {"text", "rescan"}
  PROVE  \A i \in DOMAIN Returned(fs, d) : Returned(fs, d)[i].what \in {"text", "rescan"}
<1> DEFINE n == Len(fs)
           gs == Returned(fs, d)
<1>1. n \in Nat \ {0} /\ DOMAIN fs = 1..n
  BY EmptySeq
<1>2. n \in 1..n /\ (\A i \in 1..n : i \in 1..n - 1 \/ i = n) /\ 1..n - 1 \subseteq 1..n
  <2> HIDE DEF n
  <2> QED  BY <1>1
<1>3. fs[n].what # "call"
  BY <1>1, <1>2
<1>4. /\ gs \in Seq(Frames) /\ Len(gs) = n /\ \A i \in 1..n - 1 : gs[i] = fs[i]
      /\ fs[n].what = "text" => gs[n] = fs[n]
      /\ fs[n].what \in Scans => gs[n].what = fs[n].what
  <2> HIDE DEF gs
  <2> QED  BY <1>3, ReturnedIs DEF gs
<1> HIDE DEF gs
<1>5. DOMAIN gs = 1..n
  BY <1>4
<1>6. gs[n].what = fs[n].what
  BY <1>1, <1>2, <1>4 DEF Scans
<1>7. \A i \in 1..n : gs[i].what = fs[i].what
  BY <1>2, <1>4, <1>6
<1> HIDE DEF n
<1>8. \A i \in DOMAIN gs : gs[i].what \in {"text", "rescan"}
  BY <1>1, <1>5, <1>7
<1> QED  BY <1>8 DEF gs

LEMMA SimpleTop == Placed /\ Simple => Top.what \in {"text", "rescan"}
<1> SUFFICES ASSUME Placed, Simple  PROVE Top.what \in {"text", "rescan"}
  OBVIOUS
<1> DEFINE n == Len(frames)
<1>1. Top = frames[n] /\ DOMAIN frames = 1..n /\ n \in Nat \ {0}
  BY TopFrame
<1>2. n \in 1..n
  <2> HIDE DEF n
  <2> QED  BY <1>1
<1> QED  BY <1>1, <1>2 DEF Simple

LEMMA SimpleKept == Placed /\ NamesApart /\ Simple /\ [Next]_vars => Simple'
<1> DEFINE OnlyScans(fs) == \A i \in DOMAIN fs : fs[i].what \in {"text", "rescan"}
<1> SUFFICES ASSUME Placed, NamesApart, Simple, [Next]_vars
             PROVE  OnlyScans(frames') /\ status' # "overflow"
  <2>1. ASSUME [Next]_vars, Simple, OnlyScans(frames'), status' # "overflow"  PROVE Simple'
    BY <2>1, MacrosKept DEF Simple
  <2> QED  BY <2>1
<1>1. /\ frames \in Seq(Frames) /\ frames # <<>> /\ OnlyScans(frames) /\ status # "overflow"
      /\ Pos \in Nat /\ Len(Toks) \in Nat /\ Top \in Frames
  BY TopFrame, TopArray DEF Simple
<1>2. Top.what \in {"text", "rescan"}
  BY SimpleTop
<1>3. ASSUME NEW d \in Nat  PROVE OnlyScans(Returned(frames, d))
  BY <1>1, <1>3, SimpleReturned
<1> HIDE DEF OnlyScans
<1>4. CASE Directive
  BY <1>1, <1>4 DEF Directive
<1>5. CASE TextToken \/ Pass \/ NotExpanded \/ NotInvoked
  <2>1. status' # "overflow"
    BY <1>1, <1>5 DEF TextToken, Pass, NotExpanded, NotInvoked
  <2>2. ASSUME NEW p \in Pos + 1..Len(Toks) + 1, frames' = Returned(frames, p - Pos)
        PROVE  OnlyScans(frames')
    <3>1. p - Pos \in Nat
      BY <1>1
    <3> QED  BY <1>3, <2>2, <3>1
  <2>3. OnlyScans(frames')
    BY <1>1, <1>5, <2>2, MoveIs DEF Forward
  <2> QED  BY <2>1, <2>3
<1>6. CASE Invoke
  BY <1>6 DEF Invoke, Expandable, AtMacro, Macro, Simple
<1>7. CASE ExpandArg \/ KeepArg \/ EndArg \/ Substitute
  BY <1>2, <1>7 DEF ExpandArg, KeepArg, EndArg, Substitute, InCall
<1>8. CASE ExpandObject
  <2>1. Expandable /\ Len(frames) # MaxFrames
    BY <1>8, NoOverflow DEF ExpandObject
  <2>2. UNCHANGED status
    BY <1>8, <2>1 DEF ExpandObject
  <2>3. UNCHANGED frames \/ \E by \in Seq(Tokens) : Splice(frames, Tok.text, Pos + 1, by)
    BY <1>8, ExpandObjectIs
  <2>4. ASSUME NEW by, Splice(frames, Tok.text, Pos + 1, by)  PROVE OnlyScans(frames')
    <3>1. PICK f : frames' = Append(frames, f) /\ f.what = "rescan"
      BY <2>4 DEF Splice, RescanOf
    <3>2. DOMAIN frames' = 1..Len(frames) + 1 /\ frames'[Len(frames) + 1] = f
          /\ \A i \in 1..Len(frames) : frames'[i] = frames[i]
      BY <1>1, <3>1
    <3>3. Len(frames) \in Nat /\ DOMAIN frames = 1..Len(frames)
      BY <1>1
    <3>4. ASSUME NEW i \in 1..Len(frames) + 1  PROVE frames'[i].what \in {"text", "rescan"}
      <4>1. CASE i \in 1..Len(frames)
        BY <1>1, <3>2, <3>3, <4>1 DEF OnlyScans
      <4>2. CASE i = Len(frames) + 1
        BY <3>1, <3>2, <4>2
      <4> QED  BY <3>3, <3>4, <4>1, <4>2
    <3> QED  BY <3>2, <3>4 DEF OnlyScans
  <2> QED  BY <1>1, <2>2, <2>3, <2>4
<1>9. CASE EndRescan
  <2> DEFINE es == Front(frames)
  <2>1. Top.what = "rescan" /\ frames' = Returned(es, Top.before) /\ UNCHANGED status
    BY <1>9 DEF EndRescan, token_count_before_expansion
  <2>2. Top.before \in Nat /\ Len(frames) \in Nat \ {0} /\ Len(frames) > 1
    BY <1>1, <2>1, FrameTypes, TopFrame
  <2>3. es \in Seq(Frames) /\ Len(es) = Len(frames) - 1 /\ DOMAIN es = 1..Len(frames) - 1
        /\ \A k \in 1..Len(frames) - 1 : es[k] = frames[k]
    <3>1. es \in {Front(frames)}
      OBVIOUS
    <3> HIDE DEF es
    <3> QED  BY <1>1, <3>1, LastDropped
  <2> HIDE DEF es
  <2>4. es # <<>>
    BY <2>2, <2>3
  <2>5. \A k \in DOMAIN es : es[k].what \in {"text", "rescan"}
    <3>1. \A k \in 1..Len(frames) - 1 : k \in DOMAIN frames
      BY <1>1
    <3> QED  BY <1>1, <2>3, <3>1 DEF OnlyScans
  <2>6. OnlyScans(Returned(es, Top.before))
    BY <2>2, <2>3, <2>4, <2>5, SimpleReturned DEF OnlyScans
  <2> QED  BY <1>1, <2>1, <2>6
<1>10. CASE UNCHANGED vars
  BY <1>1, <1>10 DEF vars
<1> QED
  BY <1>4, <1>5, <1>6, <1>7, <1>8, <1>9, <1>10 DEF Next

(* With object-like macros only nothing is left to assume: however they    *)
(* refer to each other and to themselves, the recursion ends within as     *)
(* many levels as there are macros, and every expansion stops where its    *)
(* tokens end.                                                             *)
THEOREM ObjectLikeMacrosEnd ==
  ASSUME ObjectLike, RoomForAll
  PROVE  Spec => [](RecursionEnds /\ ScansOwnTokens)
<1>1. Init => Simple
  <2> SUFFICES ASSUME Init  PROVE Simple
    OBVIOUS
  <2>1. PICK p \in Programs : macros = p.macros
    BY DEF Init
  <2>2. frames = <<[what |-> "text"]>> /\ status = "run"
    BY DEF Init
  <2>3. \A i \in DOMAIN frames : frames[i].what \in {"text", "rescan"}
    BY <2>2
  <2> QED  BY <2>1, <2>2, <2>3 DEF Simple, ObjectLike, RoomForAll
<1>2. Simple => RecursionEnds /\ InvocationsWithin
  BY SimpleInvoked DEF Simple, RecursionEnds
<1>3. (Placed /\ NamesApart) /\ Simple /\ [Next]_vars => Simple'
  BY SimpleKept
<1>4. Spec => []Simple
  BY <1>1, <1>3, PlacedAlways, PTL DEF Spec
<1> QED  BY <1>2, <1>4, ScansEndWhereWritten, PTL
=============================================================================
