-------------------------- MODULE Tokenizer_proofs --------------------------
(***************************************************************************)
(* That the line of every token is the line of the text it begins on,      *)
(* whatever the text: the reader has, at each of its positions, counted    *)
(* the line ends in front of it, and is never between a CR and its LF.     *)
(* And that a text is rejected just if its last character is a backslash   *)
(* and the tokenizer gets there: the reader is never behind one.           *)
(***************************************************************************)
EXTENDS TokenPipeline, AbiLemmas, FiniteSetTheorems, SequenceTheorems

(* Whether a line ends with the character at p, and whether p is within a  *)
(* line end.                                                               *)
Ends(b, p) ==
  p <= Len(b) /\ (b[p] = "CR" \/ (b[p] = "LF" /\ (p = 1 \/ b[p - 1] # "CR")))
Split(b, p) == p > 1 /\ p <= Len(b) /\ b[p - 1] = "CR" /\ b[p] = "LF"

(* Whether the text ends with a backslash, and whether a position is not   *)
(* behind it then.                                                         *)
EndsInBackslash(b) == b # <<>> /\ b[Len(b)] = "BS"
Held(b, p) == EndsInBackslash(b) => p <= Len(b)

(* The states of a reader of the text b, at a position in lo..hi, that has *)
(* counted the lines and has not passed a backslash at the end.            *)
Counted(b, lo, hi) ==
  {f \in [buf : {b}, pos : Nat \ {0}, line : Nat \ {0}] :
     /\ lo <= f.pos /\ f.pos <= hi
     /\ f.line = 1 + LineEnds(b, f.pos) /\ ~Split(b, f.pos) /\ Held(b, f.pos)}
----------------------------------------------------------------------------
(* The line ends in front of a position: none at the first, and behind a   *)
(* character one more if it ends a line.                                   *)
LEMMA LineEndsFirst ==
  ASSUME NEW b
  PROVE  LineEnds(b, 1) = 0
<1>1. 1..(1 - 1) = {}
  OBVIOUS
<1> QED  BY <1>1, FS_EmptySet DEF LineEnds

LEMMA LineEndsFinite ==
  ASSUME NEW b, NEW p \in Nat \ {0}, NEW S \in SUBSET (1..(p - 1))
  PROVE  IsFiniteSet(S) /\ Cardinality(S) \in Nat
<1>1. IsFiniteSet(1..(p - 1))
  BY FS_Interval
<1> QED  BY <1>1, FS_Subset, FS_CardinalityType

LEMMA LineEndsStep ==
  ASSUME NEW b \in Seq(Chars), NEW p \in Nat \ {0}
  PROVE  /\ LineEnds(b, p) \in Nat
         /\ LineEnds(b, p + 1) = LineEnds(b, p) + (IF Ends(b, p) THEN 1 ELSE 0)
<1> DEFINE E(q) == {i \in 1..(q - 1) : i <= Len(b) /\ \/ b[i] = "LF" /\ (i = 1 \/ b[i - 1] # "CR")
                                                      \/ b[i] = "CR"}
<1>1. LineEnds(b, p) = Cardinality(E(p)) /\ LineEnds(b, p + 1) = Cardinality(E(p + 1))
  BY DEF LineEnds
<1>2. IsFiniteSet(E(p)) /\ Cardinality(E(p)) \in Nat
  BY LineEndsFinite
<1>3. E(p + 1) = IF Ends(b, p) THEN E(p) \cup {p} ELSE E(p)
  <2>1. Len(b) \in Nat
    OBVIOUS
  <2>2. 1..((p + 1) - 1) = (1..(p - 1)) \cup {p}
    OBVIOUS
  <2> QED  BY <2>1, <2>2 DEF Ends
<1>4. p \notin E(p)
  OBVIOUS
<1> HIDE DEF E
<1>5. Cardinality(E(p) \cup {p}) = Cardinality(E(p)) + 1
  BY <1>2, <1>4, FS_AddElement
<1> QED  BY <1>1, <1>2, <1>3, <1>5

LEMMA LineEndsGrows ==
  ASSUME NEW b \in Seq(Chars), NEW p \in Nat \ {0}, NEW q \in Nat \ {0}, p <= q
  PROVE  LineEnds(b, p) <= LineEnds(b, q)
<1> DEFINE E(r) == {i \in 1..(r - 1) : i <= Len(b) /\ \/ b[i] = "LF" /\ (i = 1 \/ b[i - 1] # "CR")
                                                      \/ b[i] = "CR"}
<1>1. LineEnds(b, p) = Cardinality(E(p)) /\ LineEnds(b, q) = Cardinality(E(q))
  BY DEF LineEnds
<1>2. IsFiniteSet(E(q))
  BY LineEndsFinite
<1>3. E(p) \in SUBSET E(q)
  OBVIOUS
<1> HIDE DEF E
<1> QED  BY <1>1, <1>2, <1>3, FS_Subset
(* A reader that is moved has counted the lines if its line is the one     *)
(* there.                                                                  *)
LEMMA Placed ==
  ASSUME NEW b, NEW lo, NEW hi, NEW f, f \in [buf : {b}, pos : Nat \ {0}, line : Nat \ {0}],
         NEW q \in Nat \ {0}, NEW l \in Nat \ {0},
         lo <= q, q <= hi, l = 1 + LineEnds(b, q), ~Split(b, q), Held(b, q)
  PROVE  [f EXCEPT !.pos = q, !.line = l] \in Counted(b, lo, hi)
BY DEF Counted
----------------------------------------------------------------------------
(* What a text holds, and what the reader sees behind it.                  *)
LEMMA AtIs ==
  ASSUME NEW b \in Seq(Chars), NEW f, f.buf = b, NEW p \in Nat \ {0}
  PROVE  /\ At(f, p) = (IF p <= Len(b) THEN b[p] ELSE "NUL")
         /\ p <= Len(b) => At(f, p) \in Chars
         /\ At(f, p) \in Peeked
<1>1. p <= Len(b) => b[p] \in Chars
  OBVIOUS
<1> QED  BY <1>1 DEF At, Peeked

(* Behind a splice the lines are counted as they were in front of it.      *)
LEMMA SpliceCounts ==
  ASSUME NEW b \in Seq(Chars), NEW lo, NEW hi, hi \in Nat, lo \in Nat, hi >= Len(b) + 1,
         NEW f \in Counted(b, lo, hi), splice_length(f) # 0
  PROVE  [f EXCEPT !.pos = @ + splice_length(f), !.line = @ + 1] \in Counted(b, lo, hi)
<1> DEFINE p == f.pos
           w == splice_length(f)
<1>1. /\ f.buf = b /\ p \in Nat \ {0} /\ lo <= p /\ p <= hi /\ Len(b) \in Nat
      /\ f.line = 1 + LineEnds(b, p) /\ ~Split(b, p)
  BY DEF Counted
<1>2. /\ At(f, p) = (IF p <= Len(b) THEN b[p] ELSE "NUL")
      /\ At(f, p + 1) = (IF p + 1 <= Len(b) THEN b[p + 1] ELSE "NUL")
      /\ At(f, p + 2) = (IF p + 2 <= Len(b) THEN b[p + 2] ELSE "NUL")
  <2>1. p + 1 \in Nat \ {0} /\ p + 2 \in Nat \ {0}
    BY <1>1
  <2> QED  BY <1>1, <2>1, AtIs
<1>3. /\ p + 1 <= Len(b) /\ b[p] = "BS"
      /\ \/ w = 3 /\ b[p + 1] = "CR" /\ p + 2 <= Len(b) /\ b[p + 2] = "LF"
         \/ w = 2 /\ b[p + 1] = "CR" /\ ~(p + 2 <= Len(b) /\ b[p + 2] = "LF")
         \/ w = 2 /\ b[p + 1] = "LF"
  <2>1. /\ At(f, p) = "BS"
        /\ \/ w = 3 /\ At(f, p + 1) = "CR" /\ At(f, p + 2) = "LF"
           \/ w = 2 /\ At(f, p + 1) = "CR" /\ At(f, p + 2) # "LF"
           \/ w = 2 /\ At(f, p + 1) = "LF"
    BY DEF splice_length
  <2> HIDE DEF w, p
  <2> QED  BY <1>1, <1>2, <2>1
<1>4. /\ LineEnds(b, p) \in Nat /\ LineEnds(b, p + 1) \in Nat /\ LineEnds(b, p + 2) \in Nat
      /\ LineEnds(b, p + 1) = LineEnds(b, p) + (IF Ends(b, p) THEN 1 ELSE 0)
      /\ LineEnds(b, p + 2) = LineEnds(b, p + 1) + (IF Ends(b, p + 1) THEN 1 ELSE 0)
      /\ LineEnds(b, p + 3) = LineEnds(b, p + 2) + (IF Ends(b, p + 2) THEN 1 ELSE 0)
  <2>1. /\ p + 1 \in Nat \ {0} /\ p + 2 \in Nat \ {0}
        /\ (p + 1) + 1 = p + 2 /\ (p + 2) + 1 = p + 3
    BY <1>1
  <2> QED  BY <1>1, <2>1, LineEndsStep
<1>5. ~Ends(b, p) /\ Ends(b, p + 1) /\ (w = 3 => ~Ends(b, p + 2))
  BY <1>1, <1>3 DEF Ends
<1>6. LineEnds(b, p + w) = LineEnds(b, p) + 1
  BY <1>1, <1>3, <1>4, <1>5
<1>7. ~Split(b, p + w)
  BY <1>1, <1>3 DEF Split
<1>8. p + w \in Nat \ {0} /\ lo <= p + w /\ p + w <= hi /\ Held(b, p + w)
  BY <1>1, <1>3 DEF Held, EndsInBackslash
<1>9. f.line + 1 = 1 + LineEnds(b, p + w) /\ f.line + 1 \in Nat \ {0}
  BY <1>1, <1>4, <1>6
<1>10. f \in [buf : {b}, pos : Nat \ {0}, line : Nat \ {0}]
  BY DEF Counted
<1>11. [f EXCEPT !.pos = p + w, !.line = f.line + 1] \in Counted(b, lo, hi)
  <2> HIDE DEF p, w
  <2> QED  BY <1>7, <1>8, <1>9, <1>10, Placed
<1> QED  BY <1>11

(* Behind a character too, a line end being one; and unless there is none, *)
(* the position is not behind the end.                                     *)
LEMMA CharacterCounts ==
  ASSUME NEW b \in Seq(Chars), NEW lo \in Nat, NEW hi \in Nat, hi >= Len(b) + 1,
         NEW f \in Counted(b, lo, hi), seen(f) # "fatal",
         NEW w, w = (IF At(f, f.pos) = "CR" /\ At(f, f.pos + 1) = "LF" THEN 2 ELSE 1)
  PROVE  LET g == [f EXCEPT !.pos = @ + w, !.line = IF seen(f) = "LF" THEN @ + 1 ELSE @]
         IN  /\ g \in Counted(b, lo, hi + 1)
             /\ seen(f) # "NUL" => g \in Counted(b, lo, Len(b) + 1)
<1> DEFINE p == f.pos
           l == IF seen(f) = "LF" THEN f.line + 1 ELSE f.line
<1>1. /\ f.buf = b /\ p \in Nat \ {0} /\ lo <= p /\ p <= hi /\ Len(b) \in Nat
      /\ f.line = 1 + LineEnds(b, p) /\ ~Split(b, p) /\ w \in {1, 2}
      /\ f \in [buf : {b}, pos : Nat \ {0}, line : Nat \ {0}] /\ f.line \in Nat \ {0}
  BY DEF Counted
<1>2. /\ At(f, p) = (IF p <= Len(b) THEN b[p] ELSE "NUL")
      /\ At(f, p + 1) = (IF p + 1 <= Len(b) THEN b[p + 1] ELSE "NUL")
      /\ p <= Len(b) => b[p] # "NUL"
  <2>1. p + 1 \in Nat \ {0}
    BY <1>1
  <2>2. p <= Len(b) => b[p] \in Chars
    BY <1>1
  <2>3. "NUL" \notin Chars
    BY DEF Chars, WordChars, Digits
  <2> QED  BY <1>1, <2>1, <2>2, <2>3, AtIs
<1>3. seen(f) = (IF p <= Len(b) THEN (IF b[p] = "CR" THEN "LF" ELSE b[p]) ELSE "NUL")
  BY <1>1, <1>2 DEF seen
<1>4. /\ LineEnds(b, p) \in Nat /\ LineEnds(b, p + 1) \in Nat
      /\ LineEnds(b, p + 1) = LineEnds(b, p) + (IF Ends(b, p) THEN 1 ELSE 0)
      /\ LineEnds(b, p + 2) = LineEnds(b, p + 1) + (IF Ends(b, p + 1) THEN 1 ELSE 0)
  <2>1. p + 1 \in Nat \ {0} /\ (p + 1) + 1 = p + 2
    BY <1>1
  <2> QED  BY <1>1, <2>1, LineEndsStep
<1>5. Ends(b, p) <=> seen(f) = "LF"
  BY <1>1, <1>2, <1>3 DEF Ends, Split
<1>6. w = 2 => p + 1 <= Len(b) /\ b[p] = "CR" /\ b[p + 1] = "LF" /\ ~Ends(b, p + 1)
  <2>1. w = 2 => At(f, p) = "CR" /\ At(f, p + 1) = "LF"
    OBVIOUS
  <2> QED  BY <1>1, <1>2, <2>1 DEF Ends
<1>7. l = 1 + LineEnds(b, p + w) /\ l \in Nat \ {0}
  BY <1>1, <1>4, <1>5, <1>6
<1>8. ~Split(b, p + w)
  BY <1>1, <1>2, <1>6 DEF Split
<1>9. p + w \in Nat \ {0} /\ lo <= p + w /\ p + w <= hi + 1 /\ Held(b, p + w)
  <2>1. ASSUME EndsInBackslash(b)  PROVE p + w <= Len(b)
    <3>1. p <= Len(b) /\ b[Len(b)] = "BS"
      BY <2>1 DEF Counted, Held, EndsInBackslash
    <3>2. p # Len(b)
      <4> HIDE DEF p
      <4>1. ASSUME p = Len(b)  PROVE FALSE
        <5>1. At(f, p) = "BS" /\ At(f, p + 1) = "NUL"
          BY <1>1, <1>2, <3>1, <4>1
        <5> QED  BY <5>1 DEF seen, p
      <4> QED  BY <4>1
    <3>3. p + 1 # Len(b) \/ w = 1
      BY <1>1, <1>6, <3>1
    <3> QED  BY <1>1, <1>6, <3>1, <3>2, <3>3
  <2> QED  BY <1>1, <1>6, <2>1 DEF Held
<1>10. seen(f) # "NUL" => p + w <= Len(b) + 1
  BY <1>1, <1>3, <1>6
<1>11. /\ [f EXCEPT !.pos = p + w, !.line = l] \in Counted(b, lo, hi + 1)
       /\ seen(f) # "NUL" => [f EXCEPT !.pos = p + w, !.line = l] \in Counted(b, lo, Len(b) + 1)
  <2> HIDE DEF p, l
  <2> QED  BY <1>1, <1>7, <1>8, <1>9, <1>10, Placed
<1> QED  BY <1>11
----------------------------------------------------------------------------
(* The operations of the reader, one by one.                               *)
LEMMA SplicedStays ==
  ASSUME NEW b \in Seq(Chars), NEW lo \in Nat, NEW hi \in Nat, hi >= Len(b) + 1,
         NEW f \in Counted(b, lo, hi)
  PROVE  spliced(f) \in Counted(b, lo, hi)
<1> DEFINE D == Counted(b, lo, hi)
           n == Len(b) + 1
           turn(t) == IF splice_length(t) # 0
                      THEN [t EXCEPT !.pos = @ + splice_length(t), !.line = @ + 1] ELSE t
           next == [t \in D |-> turn(t)]
           Is(a) == a = [k \in 0..n |-> IF k = 0 THEN f ELSE turn(a[k - 1])]
<1>1. \A t \in D : turn(t) \in D
  BY SpliceCounts
<1>2. Turns(f) = n /\ n \in Nat
  BY DEF Turns, Counted
<1>3. \E a : Is(a)
  <2> HIDE DEF D, n, turn
  <2>1. PICK a : TurnsOf(a, next, f, n) /\ \A k \in 0..n : a[k] \in D
    <3>1. \A t \in D : next[t] \in D
      BY <1>1
    <3>2. f \in D
      BY DEF D
    <3>3. n \in Nat
      BY <1>2
    <3> HIDE DEF next
    <3> QED  BY <3>1, <3>2, <3>3, TurnsExist
  <2>2. \A k \in 0..n : k # 0 => next[a[k - 1]] = turn(a[k - 1])
    <3>1. \A k \in 0..n : k # 0 => k - 1 \in 0..n
      BY <1>2
    <3> QED  BY <2>1, <3>1
  <2>3. Is(a)
    BY <2>1, <2>2 DEF TurnsOf
  <2> QED  BY <2>3
<1>4. spliced(f) = (CHOOSE a : Is(a))[n]
  BY <1>2, Zenon DEF spliced, While
<1>5. \A k \in 0..n : (CHOOSE a : Is(a))[k] \in D
  <2> DEFINE a == CHOOSE x : Is(x)
  <2>1. Is(a)
    <3> HIDE DEF Is
    <3> QED  BY <1>3
  <2>2. a[0] \in D /\ \A k \in 1..n : a[k] = turn(a[k - 1])
    <3>1. f \in D
      OBVIOUS
    <3>2. 0 \in 0..n /\ \A k \in 1..n : k \in 0..n /\ k # 0
      <4> HIDE DEF n
      <4> QED  BY <1>2
    <3>3. \A k \in 0..n : a[k] = IF k = 0 THEN f ELSE turn(a[k - 1])
      <4> HIDE DEF a, turn, n
      <4> QED  BY <2>1
    <3> HIDE DEF a, turn, D, n, Is
    <3> QED  BY <3>1, <3>2, <3>3
  <2>3. \A k \in 0..n : a[k] \in D
    <3> HIDE DEF a, turn, D, n
    <3> QED  BY <1>1, <1>2, <2>2, TurnsStay
  <2> QED  BY <2>3
<1>6. n \in 0..n
  <2> HIDE DEF n
  <2> QED  BY <1>2
<1> HIDE DEF Is, n
<1> QED  BY <1>4, <1>5, <1>6

(* A peek that gives a character of the text is not from behind its end.   *)
LEMMA PeekInside ==
  ASSUME NEW b \in Seq(Chars), NEW lo \in Nat, NEW hi \in Nat, hi >= Len(b) + 1,
         NEW f \in Counted(b, lo, hi)
  PROVE  /\ infile_peek_char(f) \in Peeked
         /\ infile_peek_char(f) # "NUL" =>
              /\ spliced(f) \in Counted(b, lo, Len(b) + 1)
              /\ f \in Counted(b, lo, Len(b) + 1)
         /\ infile_peek_char(f) = "fatal" => EndsInBackslash(b)
         /\ infile_peek_char(f) = "NUL" => ~EndsInBackslash(b)
<1> DEFINE g == spliced(f)
<1>1. g \in Counted(b, lo, hi) /\ g \in Counted(b, f.pos, hi)
  <2>1. f.pos \in Nat /\ f \in Counted(b, f.pos, hi)
    BY DEF Counted
  <2> QED  BY <2>1, SplicedStays
<1>2. /\ infile_peek_char(f) = seen(g) /\ g.buf = b /\ f.buf = b
      /\ g.pos \in Nat \ {0} /\ f.pos \in Nat \ {0} /\ f.pos <= g.pos /\ Len(b) \in Nat
  <2> HIDE DEF g
  <2>1. infile_peek_char(f) = seen(g)
    BY DEF infile_peek_char, g
  <2> QED  BY <1>1, <2>1 DEF Counted
<1> HIDE DEF g
<1>3. seen(g) \in Peeked /\ (seen(g) # "NUL" => g.pos <= Len(b))
  <2>1. /\ At(g, g.pos) \in Peeked /\ "LF" \in Peeked /\ "fatal" \in Peeked
        /\ At(g, g.pos) = (IF g.pos <= Len(b) THEN b[g.pos] ELSE "NUL")
    BY <1>2, AtIs DEF Peeked, Chars
  <2> QED  BY <1>2, <2>1 DEF seen
<1>4. ASSUME seen(g) # "NUL"  PROVE g \in Counted(b, lo, Len(b) + 1) /\ f \in Counted(b, lo, Len(b) + 1)
  <2>1. g.pos <= Len(b) + 1 /\ f.pos <= Len(b) + 1
    BY <1>2, <1>3, <1>4
  <2> QED  BY <1>1, <2>1 DEF Counted
<1>5. /\ seen(g) = "fatal" => EndsInBackslash(b)
      /\ seen(g) = "NUL" => ~EndsInBackslash(b)
  <2>1. /\ At(g, g.pos) = (IF g.pos <= Len(b) THEN b[g.pos] ELSE "NUL")
        /\ At(g, g.pos + 1) = (IF g.pos + 1 <= Len(b) THEN b[g.pos + 1] ELSE "NUL")
        /\ \A i \in 1..Len(b) : b[i] \notin {"NUL", "fatal"}
    <3>1. g.pos + 1 \in Nat \ {0}
      BY <1>2
    <3>2. \A i \in 1..Len(b) : b[i] \in Chars
      OBVIOUS
    <3>3. "NUL" \notin Chars /\ "fatal" \notin Chars
      BY DEF Chars, WordChars, Digits
    <3> QED  BY <1>2, <3>1, <3>2, <3>3, AtIs
  <2>2. ASSUME seen(g) = "fatal"  PROVE EndsInBackslash(b)
    <3>1. At(g, g.pos) = "BS" /\ At(g, g.pos + 1) = "NUL"
      <4>1. At(g, g.pos) # "fatal"
        BY <1>2, <2>1
      <4> QED  BY <2>2, <4>1 DEF seen
    <3>2. g.pos <= Len(b) /\ b[g.pos] = "BS" /\ ~(g.pos + 1 <= Len(b))
      <4>1. g.pos + 1 <= Len(b) => g.pos + 1 \in 1..Len(b)
        BY <1>2
      <4> QED  BY <2>1, <3>1, <4>1
    <3>3. g.pos = Len(b) /\ b # <<>>
      BY <1>2, <3>2
    <3> QED  BY <3>2, <3>3 DEF EndsInBackslash
  <2>3. ASSUME seen(g) = "NUL"  PROVE ~EndsInBackslash(b)
    <3>1. At(g, g.pos) = "NUL"
      BY <2>3 DEF seen
    <3>2. ~(g.pos <= Len(b))
      <4>1. g.pos <= Len(b) => g.pos \in 1..Len(b)
        BY <1>2
      <4> QED  BY <2>1, <3>1, <4>1
    <3>3. Held(b, g.pos)
      BY <1>1 DEF Counted
    <3> QED  BY <3>2, <3>3 DEF Held
  <2> QED  BY <2>2, <2>3
<1> QED  BY <1>2, <1>3, <1>4, <1>5 DEF g

LEMMA NextStays ==
  ASSUME NEW b \in Seq(Chars), NEW lo \in Nat, NEW hi \in Nat, hi >= Len(b) + 1,
         NEW f \in Counted(b, lo, hi)
  PROVE  /\ infile_next_char(f) \in Counted(b, lo, hi + 1)
         /\ infile_peek_char(f) # "NUL" => infile_next_char(f) \in Counted(b, lo, Len(b) + 1)
<1> DEFINE g == spliced(f)
           w == IF At(g, g.pos) = "CR" /\ At(g, g.pos + 1) = "LF" THEN 2 ELSE 1
           h == [g EXCEPT !.pos = @ + w, !.line = IF seen(g) = "LF" THEN @ + 1 ELSE @]
<1>1. infile_peek_char(f) = seen(g) /\ infile_next_char(f) = IF seen(g) = "fatal" THEN g ELSE h
  BY DEF infile_peek_char, infile_next_char
<1>2. g \in Counted(b, lo, hi)
  BY SplicedStays
<1>3. seen(g) # "NUL" => g \in Counted(b, lo, Len(b) + 1)
  BY <1>1, PeekInside
<1>4. g \in Counted(b, lo, hi + 1)
  <2> HIDE DEF g
  <2> QED  BY <1>2 DEF Counted
<1>5. seen(g) # "fatal" => /\ h \in Counted(b, lo, hi + 1)
                           /\ seen(g) # "NUL" => h \in Counted(b, lo, Len(b) + 1)
  <2> HIDE DEF g
  <2> QED  BY <1>2, CharacterCounts
<1> HIDE DEF g, h
<1> QED  BY <1>1, <1>3, <1>4, <1>5

LEMMA ConsumeStays ==
  ASSUME NEW b \in Seq(Chars), NEW lo \in Nat, NEW hi \in Nat, hi >= Len(b) + 1,
         NEW f \in Counted(b, lo, hi), NEW S, "NUL" \notin S
  PROVE  /\ consume_if(f, S).file \in Counted(b, lo, hi)
         /\ consume_if(f, S).text \in Seq(Peeked)
<1>1. infile_peek_char(f) \in Peeked /\ spliced(f) \in Counted(b, lo, hi)
  BY PeekInside, SplicedStays
<1>2. infile_peek_char(f) \in S => infile_next_char(f) \in Counted(b, lo, hi)
  <2>1. ASSUME infile_peek_char(f) \in S  PROVE infile_next_char(f) \in Counted(b, lo, Len(b) + 1)
    BY <2>1, NextStays
  <2> QED  BY <2>1 DEF Counted
<1>3. \/ consume_if(f, S) = [file |-> f, text |-> <<>>]
      \/ /\ infile_peek_char(f) \in S
         /\ consume_if(f, S) = [file |-> infile_next_char(f), text |-> <<infile_peek_char(f)>>]
      \/ consume_if(f, S) = [file |-> spliced(f), text |-> <<>>]
  BY DEF consume_if
<1>4. <<>> \in Seq(Peeked) /\ <<infile_peek_char(f)>> \in Seq(Peeked)
  BY <1>1
<1> DEFINE R == [file : Counted(b, lo, hi), text : Seq(Peeked)]
<1>5. /\ [file |-> f, text |-> <<>>] \in R
      /\ [file |-> spliced(f), text |-> <<>>] \in R
      /\ infile_peek_char(f) \in S =>
           [file |-> infile_next_char(f), text |-> <<infile_peek_char(f)>>] \in R
  BY <1>1, <1>2, <1>4
<1>6. consume_if(f, S) \in R
  <2> HIDE DEF R
  <2> QED  BY <1>3, <1>5
<1> QED  BY <1>6

LEMMA TakeStays ==
  ASSUME NEW b \in Seq(Chars), NEW lo \in Nat, NEW hi \in Nat, hi >= Len(b) + 1,
         NEW f \in Counted(b, lo, hi), NEW S, "NUL" \notin S
  PROVE  /\ take_while(f, S).file \in Counted(b, lo, hi)
         /\ take_while(f, S).text \in Seq(Peeked)
<1> DEFINE D == [file : Counted(b, lo, hi), text : Seq(Peeked)]
           n == Len(b) + 1
           s == [file |-> f, text |-> <<>>]
           turn(t) == IF infile_peek_char(t.file) \in S
                      THEN [file |-> infile_next_char(t.file),
                            text |-> Append(t.text, infile_peek_char(t.file))] ELSE t
           next == [t \in D |-> turn(t)]
           Is(a) == a = [k \in 0..n |-> IF k = 0 THEN s ELSE turn(a[k - 1])]
           taken == (CHOOSE a : Is(a))[n]
<1>1. \A t \in D : turn(t) \in D
  <2> SUFFICES ASSUME NEW t \in D, infile_peek_char(t.file) \in S
               PROVE  /\ infile_next_char(t.file) \in Counted(b, lo, hi)
                      /\ Append(t.text, infile_peek_char(t.file)) \in Seq(Peeked)
    OBVIOUS
  <2>1. infile_peek_char(t.file) \in Peeked
    BY PeekInside
  <2>2. infile_next_char(t.file) \in Counted(b, lo, Len(b) + 1)
    BY NextStays
  <2> QED  BY <2>1, <2>2 DEF Counted
<1>2. Turns(f) = n /\ n \in Nat
  BY DEF Turns, Counted
<1>3. \E a : Is(a)
  <2> HIDE DEF D, n, turn
  <2>1. PICK a : TurnsOf(a, next, s, n) /\ \A k \in 0..n : a[k] \in D
    <3>1. \A t \in D : next[t] \in D
      BY <1>1
    <3>2. s \in D
      BY DEF D
    <3>3. n \in Nat
      BY <1>2
    <3> HIDE DEF next
    <3> QED  BY <3>1, <3>2, <3>3, TurnsExist
  <2>2. \A k \in 0..n : k # 0 => next[a[k - 1]] = turn(a[k - 1])
    <3>1. \A k \in 0..n : k # 0 => k - 1 \in 0..n
      BY <1>2
    <3> QED  BY <2>1, <3>1
  <2>3. Is(a)
    BY <2>1, <2>2 DEF TurnsOf
  <2> QED  BY <2>3
<1>4. take_while(f, S) = [taken EXCEPT !.file = spliced(@)]
  BY <1>2, Zenon DEF take_while, While
<1>5. \A k \in 0..n : (CHOOSE a : Is(a))[k] \in D
  <2> DEFINE a == CHOOSE x : Is(x)
  <2>1. Is(a)
    <3> HIDE DEF Is
    <3> QED  BY <1>3
  <2>2. a[0] \in D /\ \A k \in 1..n : a[k] = turn(a[k - 1])
    <3>1. s \in D
      OBVIOUS
    <3>2. 0 \in 0..n /\ \A k \in 1..n : k \in 0..n /\ k # 0
      <4> HIDE DEF n
      <4> QED  BY <1>2
    <3>3. \A k \in 0..n : a[k] = IF k = 0 THEN s ELSE turn(a[k - 1])
      <4> HIDE DEF a, turn, n, s
      <4> QED  BY <2>1
    <3> HIDE DEF a, turn, D, n, s, Is
    <3> QED  BY <3>1, <3>2, <3>3
  <2>3. \A k \in 0..n : a[k] \in D
    <3> HIDE DEF a, turn, D, n
    <3> QED  BY <1>1, <1>2, <2>2, TurnsStay
  <2> QED  BY <2>3
<1>6. taken \in D
  <2>1. n \in 0..n
    <3> HIDE DEF n
    <3> QED  BY <1>2
  <2> HIDE DEF Is, n, D
  <2> QED  BY <1>5, <2>1
<1> HIDE DEF taken
<1>7. spliced(taken.file) \in Counted(b, lo, hi)
  BY <1>6, SplicedStays
<1> QED  BY <1>4, <1>6, <1>7

(* Behind a line comment, and behind a block comment.                      *)
LEMMA LineCommentStays ==
  ASSUME NEW b \in Seq(Chars), NEW lo \in Nat, NEW f \in Counted(b, lo, Len(b) + 2)
  PROVE  behind_line(f) \in Counted(b, lo, Len(b) + 2)
<1> DEFINE D == Counted(b, lo, Len(b) + 2)
           n == Len(b) + 1
           s == f
           turn(t) == IF ~infile_eof(t) /\ infile_peek_char(t) \notin {"LF", "fatal"}
                      THEN infile_next_char(t) ELSE t
           next == [t \in D |-> turn(t)]
           Is(a) == a = [k \in 0..n |-> IF k = 0 THEN s ELSE turn(a[k - 1])]
           left == (CHOOSE a : Is(a))[n]
<1>1. \A t \in D : turn(t) \in D
  <2> SUFFICES ASSUME NEW t \in D, ~infile_eof(t)
               PROVE  infile_next_char(t) \in D
    OBVIOUS
  <2>1. t.pos <= Len(b) /\ Len(b) \in Nat
    BY DEF infile_eof, At, Counted
  <2>2. t \in Counted(b, lo, Len(b) + 1)
    BY <2>1 DEF Counted
  <2>3. infile_next_char(t) \in Counted(b, lo, (Len(b) + 1) + 1)
    BY <2>1, <2>2, NextStays
  <2>4. (Len(b) + 1) + 1 = Len(b) + 2
    BY <2>1
  <2> QED  BY <2>3, <2>4
<1>2. Turns(f) = n /\ n \in Nat
  BY DEF Turns, Counted
<1>3. \E a : Is(a)
  <2> HIDE DEF D, n, turn
  <2>1. PICK a : TurnsOf(a, next, s, n) /\ \A k \in 0..n : a[k] \in D
    <3>1. \A t \in D : next[t] \in D
      BY <1>1
    <3>2. s \in D
      BY DEF D
    <3>3. n \in Nat
      BY <1>2
    <3> HIDE DEF next
    <3> QED  BY <3>1, <3>2, <3>3, TurnsExist
  <2>2. \A k \in 0..n : k # 0 => next[a[k - 1]] = turn(a[k - 1])
    <3>1. \A k \in 0..n : k # 0 => k - 1 \in 0..n
      BY <1>2
    <3> QED  BY <2>1, <3>1
  <2>3. Is(a)
    BY <2>1, <2>2 DEF TurnsOf
  <2> QED  BY <2>3
<1>4. behind_line(f) = spliced(left)
  BY <1>2, Zenon DEF behind_line, While
<1>5. \A k \in 0..n : (CHOOSE a : Is(a))[k] \in D
  <2> DEFINE a == CHOOSE x : Is(x)
  <2>1. Is(a)
    <3> HIDE DEF Is
    <3> QED  BY <1>3
  <2>2. a[0] \in D /\ \A k \in 1..n : a[k] = turn(a[k - 1])
    <3>1. s \in D
      OBVIOUS
    <3>2. 0 \in 0..n /\ \A k \in 1..n : k \in 0..n /\ k # 0
      <4> HIDE DEF n
      <4> QED  BY <1>2
    <3>3. \A k \in 0..n : a[k] = IF k = 0 THEN s ELSE turn(a[k - 1])
      <4> HIDE DEF a, turn, n, s
      <4> QED  BY <2>1
    <3> HIDE DEF a, turn, D, n, s, Is
    <3> QED  BY <3>1, <3>2, <3>3
  <2>3. \A k \in 0..n : a[k] \in D
    <3> HIDE DEF a, turn, D, n
    <3> QED  BY <1>1, <1>2, <2>2, TurnsStay
  <2> QED  BY <2>3
<1>6. left \in D
  <2>1. n \in 0..n
    <3> HIDE DEF n
    <3> QED  BY <1>2
  <2> HIDE DEF Is, n, D
  <2> QED  BY <1>5, <2>1
<1> HIDE DEF left
<1>7. Len(b) + 2 \in Nat /\ Len(b) + 2 >= Len(b) + 1
  OBVIOUS
<1> QED  BY <1>4, <1>6, <1>7, SplicedStays

LEMMA BlockCommentStays ==
  ASSUME NEW b \in Seq(Chars), NEW lo \in Nat, NEW f \in Counted(b, lo, Len(b) + 1)
  PROVE  behind_comment(f) \in Counted(b, lo, Len(b) + 1)
<1> DEFINE D == Counted(b, lo, Len(b) + 1)
           n == Len(b) + 1
           s == f
           turn(t) == IF infile_peek_char(t) \notin {"NUL", "fatal"} /\ ~closes(t)
                      THEN infile_next_char(t) ELSE t
           next == [t \in D |-> turn(t)]
           Is(a) == a = [k \in 0..n |-> IF k = 0 THEN s ELSE turn(a[k - 1])]
           left == (CHOOSE a : Is(a))[n]
<1>0. Len(b) + 1 \in Nat /\ Len(b) + 1 >= Len(b) + 1
  OBVIOUS
<1>1. \A t \in D : turn(t) \in D
  <2> SUFFICES ASSUME NEW t \in D, infile_peek_char(t) # "NUL"
               PROVE  infile_next_char(t) \in D
    OBVIOUS
  <2> QED  BY <1>0, NextStays
<1>2. Turns(f) = n /\ n \in Nat
  BY DEF Turns, Counted
<1>3. \E a : Is(a)
  <2> HIDE DEF D, n, turn
  <2>1. PICK a : TurnsOf(a, next, s, n) /\ \A k \in 0..n : a[k] \in D
    <3>1. \A t \in D : next[t] \in D
      BY <1>1
    <3>2. s \in D
      BY DEF D
    <3>3. n \in Nat
      BY <1>2
    <3> HIDE DEF next
    <3> QED  BY <3>1, <3>2, <3>3, TurnsExist
  <2>2. \A k \in 0..n : k # 0 => next[a[k - 1]] = turn(a[k - 1])
    <3>1. \A k \in 0..n : k # 0 => k - 1 \in 0..n
      BY <1>2
    <3> QED  BY <2>1, <3>1
  <2>3. Is(a)
    BY <2>1, <2>2 DEF TurnsOf
  <2> QED  BY <2>3
<1>4. behind_comment(f) = IF closes(left) THEN infile_next_char(infile_next_char(left))
                         ELSE spliced(left)
  <2> DEFINE passed == While(LAMBDA g : infile_peek_char(g) \notin {"NUL", "fatal"} /\ ~closes(g),
                             infile_next_char, f, Turns(f))
  <2>1. passed = left
    BY <1>2, Zenon DEF While
  <2>2. behind_comment(f) = IF closes(passed) THEN infile_next_char(infile_next_char(passed))
                            ELSE spliced(passed)
    BY DEF behind_comment
  <2> HIDE DEF passed, left
  <2> QED  BY <2>1, <2>2
<1>5. \A k \in 0..n : (CHOOSE a : Is(a))[k] \in D
  <2> DEFINE a == CHOOSE x : Is(x)
  <2>1. Is(a)
    <3> HIDE DEF Is
    <3> QED  BY <1>3
  <2>2. a[0] \in D /\ \A k \in 1..n : a[k] = turn(a[k - 1])
    <3>1. s \in D
      OBVIOUS
    <3>2. 0 \in 0..n /\ \A k \in 1..n : k \in 0..n /\ k # 0
      <4> HIDE DEF n
      <4> QED  BY <1>2
    <3>3. \A k \in 0..n : a[k] = IF k = 0 THEN s ELSE turn(a[k - 1])
      <4> HIDE DEF a, turn, n, s
      <4> QED  BY <2>1
    <3> HIDE DEF a, turn, D, n, s, Is
    <3> QED  BY <3>1, <3>2, <3>3
  <2>3. \A k \in 0..n : a[k] \in D
    <3> HIDE DEF a, turn, D, n
    <3> QED  BY <1>1, <1>2, <2>2, TurnsStay
  <2> QED  BY <2>3
<1>6. left \in D
  <2>1. n \in 0..n
    <3> HIDE DEF n
    <3> QED  BY <1>2
  <2> HIDE DEF Is, n, D
  <2> QED  BY <1>5, <2>1
<1> HIDE DEF left
<1>7. spliced(left) \in D
  BY <1>0, <1>6, SplicedStays
<1>8. ASSUME closes(left)  PROVE infile_next_char(infile_next_char(left)) \in D
  <2>1. infile_peek_char(left) # "NUL" /\ infile_peek_char(infile_next_char(left)) # "NUL"
    BY <1>8 DEF closes, infile_peek_char2
  <2>2. infile_next_char(left) \in D
    BY <1>0, <1>6, <2>1, NextStays
  <2> QED  BY <1>0, <2>1, <2>2, NextStays
<1> QED  BY <1>4, <1>7, <1>8

(* A quoted text that is closed ends within the text of the file.          *)
LEMMA QuotedStays ==
  ASSUME NEW b \in Seq(Chars), NEW lo \in Nat, NEW f \in Counted(b, lo, Len(b) + 1),
         NEW close, close # "NUL"
  PROVE  /\ quoted(f, close).end # "NUL" => quoted(f, close).file \in Counted(b, lo, Len(b) + 1)
         /\ quoted(f, close).end = "NUL" => ~EndsInBackslash(b)
         /\ quoted(f, close).text \in Seq(Peeked)
<1> DEFINE D == [file : Counted(b, lo, Len(b) + 2), text : Seq(Peeked)]
           n == Len(b) + 1
           s == [file |-> f, text |-> <<>>]
           turn(t) == IF infile_peek_char(t.file) \notin {"NUL", "fatal", close}
                      THEN LET d    == infile_peek_char(t.file)
                               g    == infile_next_char(t.file)
                               pair == d = "BS" /\ close = "dq"
                           IN  [file |-> IF pair THEN infile_next_char(g) ELSE g,
                                text |-> t.text \o IF pair THEN <<d, infile_peek_char(g)>>
                                                            ELSE <<d>>]
                      ELSE t
           next == [t \in D |-> turn(t)]
           Is(a) == a = [k \in 0..n |-> IF k = 0 THEN s ELSE turn(a[k - 1])]
           read == (CHOOSE a : Is(a))[n]
<1>0. /\ Len(b) + 1 \in Nat /\ Len(b) + 1 >= Len(b) + 1 /\ (Len(b) + 1) + 1 = Len(b) + 2
      /\ Len(b) + 2 \in Nat /\ Len(b) + 2 >= Len(b) + 1
      /\ Counted(b, lo, Len(b) + 1) \subseteq Counted(b, lo, Len(b) + 2)
  BY DEF Counted
<1>1. \A t \in D : turn(t) \in D
  <2> SUFFICES ASSUME NEW t \in D, infile_peek_char(t.file) # "NUL"
               PROVE  LET d    == infile_peek_char(t.file)
                          g    == infile_next_char(t.file)
                          pair == d = "BS" /\ close = "dq"
                      IN  /\ (IF pair THEN infile_next_char(g) ELSE g) \in Counted(b, lo, Len(b) + 2)
                          /\ t.text \o (IF pair THEN <<d, infile_peek_char(g)>> ELSE <<d>>)
                               \in Seq(Peeked)
    OBVIOUS
  <2> DEFINE d == infile_peek_char(t.file)
             g == infile_next_char(t.file)
  <2>1. d \in Peeked /\ g \in Counted(b, lo, Len(b) + 1)
    BY <1>0, PeekInside, NextStays
  <2>2. infile_peek_char(g) \in Peeked /\ infile_next_char(g) \in Counted(b, lo, Len(b) + 2)
    <3> HIDE DEF g
    <3>1. infile_next_char(g) \in Counted(b, lo, (Len(b) + 1) + 1)
      BY <1>0, <2>1, NextStays
    <3> QED  BY <1>0, <2>1, <3>1, PeekInside
  <2>3. t.text \in Seq(Peeked)
    OBVIOUS
  <2> HIDE DEF d, g
  <2>4. <<d, infile_peek_char(g)>> \in Seq(Peeked) /\ <<d>> \in Seq(Peeked)
    BY <2>1, <2>2
  <2>5. t.text \o <<d, infile_peek_char(g)>> \in Seq(Peeked) /\ t.text \o <<d>> \in Seq(Peeked)
    BY <2>3, <2>4
  <2> QED  BY <1>0, <2>1, <2>2, <2>5 DEF d, g
<1>2. Turns(f) = n /\ n \in Nat
  BY DEF Turns, Counted
<1>3. \E a : Is(a)
  <2> HIDE DEF D, n, turn
  <2>1. PICK a : TurnsOf(a, next, s, n) /\ \A k \in 0..n : a[k] \in D
    <3>1. \A t \in D : next[t] \in D
      BY <1>1
    <3>2. s \in D
      BY <1>0 DEF D
    <3>3. n \in Nat
      BY <1>2
    <3> HIDE DEF next
    <3> QED  BY <3>1, <3>2, <3>3, TurnsExist
  <2>2. \A k \in 0..n : k # 0 => next[a[k - 1]] = turn(a[k - 1])
    <3>1. \A k \in 0..n : k # 0 => k - 1 \in 0..n
      BY <1>2
    <3> QED  BY <2>1, <3>1
  <2>3. Is(a)
    BY <2>1, <2>2 DEF TurnsOf
  <2> QED  BY <2>3
<1>4. quoted(f, close) =
        [file |-> IF infile_peek_char(read.file) = close THEN infile_next_char(read.file)
                  ELSE read.file,
         text |-> read.text, end |-> infile_peek_char(read.file)]
  <2> DEFINE passed ==
               While(LAMBDA t : infile_peek_char(t.file) \notin {"NUL", "fatal", close},
                     LAMBDA t : LET d    == infile_peek_char(t.file)
                                    g    == infile_next_char(t.file)
                                    pair == d = "BS" /\ close = "dq"
                                IN  [file |-> IF pair THEN infile_next_char(g) ELSE g,
                                     text |-> t.text \o IF pair THEN <<d, infile_peek_char(g)>>
                                                                 ELSE <<d>>],
                     s, Turns(f))
  <2>1. passed = read
    BY <1>2, Zenon DEF While
  <2>2. quoted(f, close) =
          [file |-> IF infile_peek_char(passed.file) = close THEN infile_next_char(passed.file)
                    ELSE passed.file,
           text |-> passed.text, end |-> infile_peek_char(passed.file)]
    BY Zenon DEF quoted
  <2> HIDE DEF passed, read
  <2> QED  BY <2>1, <2>2
<1>5. \A k \in 0..n : (CHOOSE a : Is(a))[k] \in D
  <2> DEFINE a == CHOOSE x : Is(x)
  <2>1. Is(a)
    <3> HIDE DEF Is
    <3> QED  BY <1>3
  <2>2. a[0] \in D /\ \A k \in 1..n : a[k] = turn(a[k - 1])
    <3>1. s \in D
      BY <1>0
    <3>2. 0 \in 0..n /\ \A k \in 1..n : k \in 0..n /\ k # 0
      <4> HIDE DEF n
      <4> QED  BY <1>2
    <3>3. \A k \in 0..n : a[k] = IF k = 0 THEN s ELSE turn(a[k - 1])
      <4> HIDE DEF a, turn, n, s
      <4> QED  BY <2>1
    <3> HIDE DEF a, turn, D, n, s, Is
    <3> QED  BY <3>1, <3>2, <3>3
  <2>3. \A k \in 0..n : a[k] \in D
    <3> HIDE DEF a, turn, D, n
    <3> QED  BY <1>1, <1>2, <2>2, TurnsStay
  <2> QED  BY <2>3
<1>6. read \in D
  <2>1. n \in 0..n
    <3> HIDE DEF n
    <3> QED  BY <1>2
  <2> HIDE DEF Is, n, D
  <2> QED  BY <1>5, <2>1
<1> HIDE DEF read
<1>7. infile_peek_char(read.file) # "NUL" =>
        /\ infile_next_char(read.file) \in Counted(b, lo, Len(b) + 1)
        /\ read.file \in Counted(b, lo, Len(b) + 1)
  BY <1>0, <1>6, NextStays, PeekInside
<1>8. infile_peek_char(read.file) = "NUL" => ~EndsInBackslash(b)
  BY <1>0, <1>6, PeekInside
<1> QED  BY <1>4, <1>6, <1>7, <1>8
----------------------------------------------------------------------------
(* The inductive invariant: TypeOK with a reader that has counted, and     *)
(* what the status says of the end of the text.                            *)
TInv ==
  /\ file.buf \in Seq(Chars) /\ file \in Counted(file.buf, 1, Len(file.buf) + 3)
  /\ at_bol \in BOOLEAN /\ expect_header_name \in BOOLEAN
  /\ tokens \in Seq(Token) /\ \A i \in DOMAIN tokens : tokens[i].line <= file.line
  /\ status \in {"run", "done", "fatal", "overrun"}
  /\ status = "fatal" => EndsInBackslash(file.buf)
  /\ status \in {"done", "overrun"} => ~EndsInBackslash(file.buf)

LEMMA TInvIs ==
  ASSUME TInv
  PROVE  TypeOK /\ LinesCounted /\ RejectsLastBackslash
<1>1. /\ file.pos \in Nat \ {0} /\ file.line \in Nat \ {0} /\ Len(file.buf) \in Nat
      /\ file.pos <= Len(file.buf) + 3 /\ file.line = 1 + LineEnds(file.buf, file.pos)
  BY DEF TInv, Counted
<1>2. RejectsLastBackslash
  BY DEF TInv, RejectsLastBackslash, EndsInBackslash
<1> QED  BY <1>1, <1>2 DEF TInv, TypeOK, LinesCounted

LEMMA TInvInit ==
  ASSUME Init
  PROVE  TInv
<1>1. PICK text \in Files : file = infile_open(text)
  BY DEF Init
<1>2. text \in Seq(Chars) /\ Len(text) \in Nat
  BY FilesAssumption
<1>3. /\ file \in [buf : {text}, pos : Nat \ {0}, line : Nat \ {0}]
      /\ file.buf = text /\ file.pos = 1 /\ file.line = 1
  BY <1>1 DEF infile_open
<1>4. LineEnds(text, 1) = 0 /\ ~Split(text, 1) /\ Held(text, 1)
  <2>1. text # <<>> => 1 <= Len(text)
    BY <1>2
  <2> QED  BY <2>1, LineEndsFirst DEF Split, Held, EndsInBackslash
<1>5. file \in Counted(text, 1, Len(text) + 3)
  BY <1>2, <1>3, <1>4 DEF Counted
<1>6. tokens = <<>> /\ at_bol = TRUE /\ expect_header_name = FALSE /\ status = "run"
  BY DEF Init
<1>7. <<>> \in Seq(Token) /\ DOMAIN <<>> = {}
  OBVIOUS
<1>8. tokens \in Seq(Token) /\ \A i \in DOMAIN tokens : tokens[i].line <= file.line
  BY <1>6, <1>7, Zenon
<1>9. file.buf \in Seq(Chars) /\ file \in Counted(file.buf, 1, Len(file.buf) + 3)
  BY <1>2, <1>3, <1>5
<1>10. at_bol \in BOOLEAN /\ expect_header_name \in BOOLEAN /\ status = "run"
  BY <1>6
<1> QED  BY <1>8, <1>9, <1>10 DEF TInv

(* What a token has been read from is not behind what is left: its line is *)
(* not a later one.                                                        *)
LEMMA LineGrows ==
  ASSUME NEW b \in Seq(Chars), NEW lo, NEW hi, NEW f \in Counted(b, lo, hi),
         NEW mid, NEW top, NEW g \in Counted(b, mid, top), f.pos <= g.pos
  PROVE  f.line <= g.line
<1>1. /\ f.pos \in Nat \ {0} /\ g.pos \in Nat \ {0}
      /\ f.line = 1 + LineEnds(b, f.pos) /\ g.line = 1 + LineEnds(b, g.pos)
  BY DEF Counted
<1>2. LineEnds(b, f.pos) \in Nat /\ LineEnds(b, g.pos) \in Nat /\ LineEnds(b, f.pos) <= LineEnds(b, g.pos)
  BY <1>1, LineEndsStep, LineEndsGrows
<1> QED  BY <1>1, <1>2

LEMMA PushKeeps ==
  ASSUME TInv, NEW kind \in Kinds, NEW text \in Seq(Peeked),
         NEW f \in Counted(file.buf, file.pos, Len(file.buf) + 3),
         Push(kind, text, f), expect_header_name' \in BOOLEAN
  PROVE  TInv'
<1> DEFINE b == file.buf
           tok == [kind |-> kind, text |-> text, line |-> file.line]
<1>1. /\ file' = f /\ tokens' = Append(tokens, tok)
      /\ at_bol' \in BOOLEAN /\ status' \in {"fatal", "run"}
      /\ status' = "fatal" => infile_peek_char(f) = "fatal"
  BY DEF Push
<1>2. /\ b \in Seq(Chars) /\ file \in Counted(b, 1, Len(b) + 3) /\ tokens \in Seq(Token)
      /\ \A i \in DOMAIN tokens : tokens[i].line <= file.line
  BY DEF TInv
<1>3. /\ f.buf = b /\ f.pos \in Nat \ {0} /\ file.pos <= f.pos /\ f.pos \in Nat /\ 1 <= f.pos
      /\ f.line \in Nat /\ file.line \in Nat \ {0} /\ file.line \in Nat
  BY <1>2 DEF Counted
<1>4. f \in Counted(b, 1, Len(b) + 3)
  BY <1>3 DEF Counted
<1>5. file.line <= f.line
  BY <1>2, <1>3, <1>4, LineGrows
<1>6. tok \in Token
  BY <1>3 DEF Token
<1>7. tokens' \in Seq(Token)
  BY <1>1, <1>2, <1>6
<1>8. ASSUME NEW i \in DOMAIN tokens'  PROVE tokens'[i].line <= f.line
  <2>1. Len(tokens) \in Nat /\ DOMAIN tokens = 1..Len(tokens) /\ DOMAIN tokens' = 1..(Len(tokens) + 1)
    BY <1>1, <1>2
  <2>2. CASE i = Len(tokens) + 1
    <3>1. tokens'[i] = tok
      BY <1>1, <1>2, <2>2
    <3> QED  BY <1>5, <3>1
  <2>3. CASE i \in DOMAIN tokens
    <3>1. tokens'[i] = tokens[i]
      BY <1>1, <1>2, <2>1, <2>3
    <3>2. tokens[i].line <= file.line
      BY <1>2, <2>3
    <3>3. tokens[i] \in Token
      BY <1>2, <2>1, <2>3
    <3>4. tokens[i].line \in Nat
      BY <3>3 DEF Token
    <3> QED  BY <1>3, <1>5, <3>1, <3>2, <3>4
  <2> QED  BY <2>1, <2>2, <2>3
<1>9. status' = "fatal" => EndsInBackslash(b)
  <2>1. Len(b) + 3 \in Nat /\ Len(b) + 3 >= Len(b) + 1 /\ 1 \in Nat
    BY <1>2
  <2> QED  BY <1>1, <1>2, <1>4, <2>1, PeekInside
<1> QED  BY <1>1, <1>2, <1>3, <1>4, <1>7, <1>8, <1>9 DEF TInv

(* Where a token begins, inside the text, the reader is in front of its    *)
(* end; and what is left of a token is in front of it as long as it has    *)
(* not taken the terminator.                                               *)
Inside(f) == f \in Counted(file.buf, file.pos, Len(file.buf) + 1)

LEMMA InsideStays ==
  ASSUME TInv, NEW f, Inside(f)
  PROVE  /\ infile_peek_char(f) \in Peeked
         /\ Inside(spliced(f))
         /\ infile_next_char(f) \in Counted(file.buf, file.pos, Len(file.buf) + 2)
         /\ infile_peek_char(f) # "NUL" => Inside(infile_next_char(f))
         /\ infile_peek_char(f) = "fatal" => EndsInBackslash(file.buf)
<1> DEFINE b == file.buf
<1>1. b \in Seq(Chars) /\ file.pos \in Nat
  BY DEF TInv, Counted
<1>2. /\ Len(b) + 1 \in Nat /\ Len(b) + 1 >= Len(b) + 1 /\ (Len(b) + 1) + 1 = Len(b) + 2
  BY <1>1
<1>3. f \in Counted(b, file.pos, Len(b) + 1)
  BY DEF Inside
<1>4. infile_peek_char(f) \in Peeked /\ (infile_peek_char(f) = "fatal" => EndsInBackslash(b))
  BY <1>1, <1>2, <1>3, PeekInside
<1>5. spliced(f) \in Counted(b, file.pos, Len(b) + 1)
  BY <1>1, <1>2, <1>3, SplicedStays
<1>6. /\ infile_next_char(f) \in Counted(b, file.pos, (Len(b) + 1) + 1)
      /\ infile_peek_char(f) # "NUL" => infile_next_char(f) \in Counted(b, file.pos, Len(b) + 1)
  BY <1>1, <1>2, <1>3, NextStays
<1> QED  BY <1>2, <1>4, <1>5, <1>6 DEF Inside

LEMMA InsideLoops ==
  ASSUME TInv, NEW f, Inside(f)
  PROVE  /\ \A S : "NUL" \notin S =>
              /\ Inside(consume_if(f, S).file) /\ consume_if(f, S).text \in Seq(Peeked)
              /\ Inside(take_while(f, S).file) /\ take_while(f, S).text \in Seq(Peeked)
         /\ behind_line(f) \in Counted(file.buf, file.pos, Len(file.buf) + 2)
         /\ Inside(behind_comment(f))
         /\ \A close : close # "NUL" =>
              /\ quoted(f, close).end # "NUL" => Inside(quoted(f, close).file)
              /\ quoted(f, close).end = "NUL" => ~EndsInBackslash(file.buf)
              /\ quoted(f, close).text \in Seq(Peeked)
<1> DEFINE b == file.buf
<1>1. b \in Seq(Chars) /\ file.pos \in Nat
  BY DEF TInv, Counted
<1>2. Len(b) + 1 \in Nat /\ Len(b) + 1 >= Len(b) + 1
  BY <1>1
<1>3. f \in Counted(b, file.pos, Len(b) + 1)
  BY DEF Inside
<1>4. f \in Counted(b, file.pos, Len(b) + 2)
  BY <1>1, <1>3 DEF Counted
<1>5. \A S : "NUL" \notin S =>
        /\ Inside(consume_if(f, S).file) /\ consume_if(f, S).text \in Seq(Peeked)
        /\ Inside(take_while(f, S).file) /\ take_while(f, S).text \in Seq(Peeked)
  BY <1>1, <1>2, <1>3, ConsumeStays, TakeStays DEF Inside
<1>6. behind_line(f) \in Counted(b, file.pos, Len(b) + 2)
  BY <1>1, <1>4, LineCommentStays
<1>7. behind_comment(f) \in Counted(b, file.pos, Len(b) + 1)
  BY <1>1, <1>3, BlockCommentStays
<1>8. \A close : close # "NUL" =>
        /\ quoted(f, close).end # "NUL" => quoted(f, close).file \in Counted(b, file.pos, Len(b) + 1)
        /\ quoted(f, close).end = "NUL" => ~EndsInBackslash(b)
        /\ quoted(f, close).text \in Seq(Peeked)
  BY <1>1, <1>3, QuotedStays
<1> QED  BY <1>5, <1>6, <1>7, <1>8 DEF Inside

LEMMA PushInside ==
  ASSUME TInv, NEW kind \in Kinds, NEW text \in Seq(Peeked), NEW f,
         \/ Inside(f)
         \/ f \in Counted(file.buf, file.pos, Len(file.buf) + 2)
         \/ f \in Counted(file.buf, file.pos, Len(file.buf) + 3),
         Push(kind, text, f), expect_header_name' \in BOOLEAN
  PROVE  TInv'
<1>1. f \in Counted(file.buf, file.pos, Len(file.buf) + 3)
  <2>1. Len(file.buf) \in Nat
    BY DEF TInv
  <2> QED  BY <2>1 DEF Inside, Counted
<1> QED  BY <1>1, PushKeeps

(* The directive that is read behind a #.                                  *)
LEMMA DirectiveKeeps ==
  ASSUME TInv, NEW f, Inside(f), PushDirective(f)
  PROVE  TInv'
<1> DEFINE blanks == take_while(f, {"sp"})
           name == take_while(blanks.file, WordChars)
           nop == name.text = <<>> /\ infile_peek_char(name.file) = "LF"
           kind == IF nop THEN "nop" ELSE IF name.text = <<>> THEN "punct" ELSE "directive"
           text == IF name.text = <<>> /\ ~nop THEN <<"#">> ELSE name.text
<1>1. "NUL" \notin {"sp"} /\ "NUL" \notin WordChars
  BY DEF WordChars, Digits
<1>2. Inside(blanks.file)
  BY <1>1, InsideLoops
<1>3. Inside(name.file) /\ name.text \in Seq(Peeked)
  <2> HIDE DEF blanks
  <2> QED  BY <1>1, <1>2, InsideLoops
<1>4. Push(kind, text, name.file) /\ expect_header_name' \in BOOLEAN
  BY DEF PushDirective, TInv
<1>5. kind \in Kinds
  <2> HIDE DEF name
  <2> QED  BY DEF Kinds
<1>6. text \in Seq(Peeked)
  <2>1. <<"#">> \in Seq(Peeked)
    BY DEF Peeked, Chars
  <2> HIDE DEF name, nop
  <2> QED  BY <1>3, <2>1
<1> HIDE DEF kind, text, name
<1> QED  BY <1>3, <1>4, <1>5, <1>6, PushInside

LEMMA QuotedKeeps ==
  ASSUME TInv, Inside(Rest), NEW kind \in Kinds, NEW close, close # "NUL",
         PushQuoted(kind, close), expect_header_name' \in BOOLEAN
  PROVE  TInv'
<1> DEFINE q == quoted(Rest, close)
<1>1. /\ q.text \in Seq(Peeked) /\ (q.end # "NUL" => Inside(q.file))
      /\ q.end = "NUL" => ~EndsInBackslash(file.buf)
  BY InsideLoops
<1>2. CASE q.end = "NUL"
  <2>1. status' = "overrun" /\ UNCHANGED <<file, at_bol, tokens>>
    BY <1>2 DEF PushQuoted
  <2>2. ~EndsInBackslash(file.buf)
    BY <1>1, <1>2
  <2> QED  BY <2>1, <2>2 DEF TInv
<1>3. CASE q.end # "NUL"
  <2>1. Push(kind, q.text, q.file)
    BY <1>3 DEF PushQuoted
  <2> HIDE DEF q
  <2> QED  BY <1>1, <1>3, <2>1, PushInside
<1> QED  BY <1>2, <1>3

(* Every step keeps the invariant, token by token.                         *)
LEMMA NextKeeps ==
  ASSUME TInv, [Next]_tvars
  PROVE  TInv'
<1>1. CASE UNCHANGED tvars
  BY <1>1 DEF tvars, TInv
<1>2. CASE status = "run" /\ EndOfFile
  <2> DEFINE tok == [kind |-> "eof", text |-> <<>>, line |-> file.line]
  <2>1. /\ tokens' = Append(tokens, tok) /\ status' = "done"
        /\ UNCHANGED <<file, at_bol, expect_header_name>>
    BY <1>2 DEF EndOfFile
  <2>2. file.line \in Nat \ {0} /\ tokens \in Seq(Token)
        /\ \A i \in DOMAIN tokens : tokens[i].line <= file.line
    BY DEF TInv, Counted
  <2>3. tok \in Token
    BY <2>2 DEF Token, Kinds
  <2>4. tok.line <= file.line
    BY <2>2
  <2>5. tokens' \in Seq(Token) /\ \A i \in DOMAIN tokens' : tokens'[i].line <= file.line
    <3> HIDE DEF tok
    <3>1. /\ DOMAIN tokens = 1..Len(tokens) /\ DOMAIN tokens' = 1..(Len(tokens) + 1)
          /\ Len(tokens) \in Nat /\ tokens'[Len(tokens) + 1] = tok
          /\ \A i \in DOMAIN tokens : tokens'[i] = tokens[i]
      BY <2>1, <2>2
    <3> QED  BY <2>1, <2>2, <2>3, <2>4, <3>1
  <2>6. ~EndsInBackslash(file.buf)
    <3>1. file.pos \in Nat \ {0} /\ Held(file.buf, file.pos) /\ file.buf \in Seq(Chars)
      BY DEF TInv, Counted
    <3>2. At(file, file.pos) = "NUL"
      BY <1>2 DEF EndOfFile, infile_eof
    <3>3. file.pos <= Len(file.buf) => At(file, file.pos) \in Chars
      BY <3>1, AtIs
    <3>4. "NUL" \notin Chars
      BY DEF Chars, WordChars, Digits
    <3> QED  BY <3>1, <3>2, <3>3, <3>4 DEF Held
  <2> QED  BY <2>1, <2>5, <2>6 DEF TInv
<1>3. CASE status = "run" /\ ~infile_eof(file) /\ Read
  <2> DEFINE b == file.buf
  <2>1. Inside(file)
    <3>1. b \in Seq(Chars) /\ file \in Counted(b, 1, Len(b) + 3)
      BY DEF TInv
    <3>2. file.pos <= Len(b) /\ Len(b) \in Nat /\ file.pos \in Nat
      BY <1>3, <3>1 DEF infile_eof, At, Counted
    <3> QED  BY <3>1, <3>2 DEF Inside, Counted
  <2>2. /\ c \in Peeked /\ Rest \in Counted(b, file.pos, Len(b) + 2)
        /\ c # "NUL" => Inside(Rest)
        /\ c = "fatal" => EndsInBackslash(b)
    BY <2>1, InsideStays DEF c, Rest
  <2>3. expect_header_name \in BOOLEAN /\ <<>> \in Seq(Peeked)
    BY DEF TInv
  <2>4. ASSUME HeaderName  PROVE TInv'
    <3>1. /\ c \in {"dq", "<"} /\ expect_header_name' = FALSE
          /\ PushQuoted("header", IF c = "<" THEN ">" ELSE c)
      BY <2>4 DEF HeaderName
    <3>2. Inside(Rest) /\ "header" \in Kinds /\ (IF c = "<" THEN ">" ELSE c) # "NUL"
      BY <2>2, <3>1 DEF Kinds
    <3> QED  BY <3>1, <3>2, QuotedKeeps
  <2>5. ASSUME StringLiteral  PROVE TInv'
    <3>1. c = "dq" /\ expect_header_name' = expect_header_name /\ PushQuoted("string", "dq")
      BY <2>5 DEF StringLiteral
    <3>2. Inside(Rest) /\ "string" \in Kinds
      BY <2>2, <3>1 DEF Kinds
    <3> QED  BY <2>3, <3>1, <3>2, QuotedKeeps
  <2>6. ASSUME Punctuator  PROVE TInv'
    <3> DEFINE second == consume_if(Rest, may_follow(c))
               third == consume_if(second.file, may_be_third(<<c>> \o second.text))
               text == <<c>> \o second.text \o third.text
               kind == IF text = <<".", ".">> THEN "other" ELSE "punct"
    <3>1. Push(kind, text, third.file) /\ expect_header_name' = expect_header_name
      BY <2>6 DEF Punctuator
    <3>2. c # "NUL"
      BY <2>6 DEF Punctuator, Alone, may_follow
    <3>3. "NUL" \notin may_follow(c)
      BY <3>2 DEF may_follow
    <3>4. Inside(second.file) /\ second.text \in Seq(Peeked)
      BY <2>2, <3>2, <3>3, InsideLoops
    <3>5. Inside(third.file) /\ third.text \in Seq(Peeked)
      <4> HIDE DEF second
      <4>1. "NUL" \notin may_be_third(<<c>> \o second.text)
        <5> DEFINE x == <<c>> \o second.text
        <5> HIDE DEF x
        <5>1. "NUL" \notin may_be_third(x)
          BY DEF may_be_third
        <5> QED  BY <5>1 DEF x
      <4> QED  BY <3>4, <4>1, InsideLoops
    <3>6. text \in Seq(Peeked) /\ kind \in Kinds
      <4> HIDE DEF second, third
      <4>1. text \in Seq(Peeked)
        BY <2>2, <3>4, <3>5
      <4> HIDE DEF text
      <4> QED  BY <4>1 DEF Kinds
    <3> HIDE DEF third, text, kind
    <3> QED  BY <2>3, <3>1, <3>5, <3>6, PushInside
  <2>7. ASSUME LineComment  PROVE TInv'
    <3>1. /\ c = "/" /\ infile_peek_char(Rest) = "/" /\ expect_header_name' = expect_header_name
          /\ Push("whitespace", <<>>, behind_line(infile_next_char(Rest)))
      BY <2>7 DEF LineComment, Comment
    <3>2. Inside(infile_next_char(Rest)) /\ "whitespace" \in Kinds
      BY <2>2, <3>1, InsideStays DEF Kinds
    <3>3. behind_line(infile_next_char(Rest)) \in Counted(b, file.pos, Len(b) + 2)
      BY <3>2, InsideLoops
    <3> QED  BY <2>3, <3>1, <3>2, <3>3, PushInside
  <2>8. ASSUME BlockComment  PROVE TInv'
    <3>1. /\ c = "/" /\ infile_peek_char(Rest) = "*" /\ expect_header_name' = expect_header_name
          /\ Push("whitespace", <<>>, behind_comment(infile_next_char(Rest)))
      BY <2>8 DEF BlockComment, Comment
    <3>2. Inside(infile_next_char(Rest)) /\ "whitespace" \in Kinds
      BY <2>2, <3>1, InsideStays DEF Kinds
    <3>3. Inside(behind_comment(infile_next_char(Rest)))
      BY <3>2, InsideLoops
    <3> QED  BY <2>3, <3>1, <3>2, <3>3, PushInside
  <2>9. ASSUME Hash  PROVE TInv'
    <3>1. c = "#" /\ Inside(Rest)
      BY <2>2, <2>9 DEF Hash
    <3>2. /\ Inside(spliced(Rest)) /\ "punct" \in Kinds
          /\ <<"#">> \in Seq(Peeked) /\ <<"#", "#">> \in Seq(Peeked)
      <4>1. Inside(spliced(Rest)) /\ "punct" \in Kinds /\ "#" \in Peeked
        BY <3>1, InsideStays DEF Kinds, Peeked, Chars
      <4> QED  BY <4>1
    <3>3. CASE infile_peek_char(Rest) = "#"
      <4>1. Push("punct", <<"#", "#">>, infile_next_char(Rest)) /\ expect_header_name' = expect_header_name
        BY <2>9, <3>3 DEF Hash
      <4>2. Inside(infile_next_char(Rest))
        BY <3>1, <3>3, InsideStays
      <4> QED  BY <2>3, <3>2, <4>1, <4>2, PushInside
    <3>4. CASE infile_peek_char(Rest) # "#" /\ at_bol
      <4>1. PushDirective(spliced(Rest))
        BY <2>9, <3>4 DEF Hash
      <4> QED  BY <3>2, <4>1, DirectiveKeeps
    <3>5. CASE infile_peek_char(Rest) # "#" /\ ~at_bol
      <4>1. Push("punct", <<"#">>, spliced(Rest)) /\ expect_header_name' = expect_header_name
        BY <2>9, <3>5 DEF Hash
      <4> QED  BY <2>3, <3>2, <4>1, PushInside
    <3> QED  BY <3>3, <3>4, <3>5
  <2>10. ASSUME Whitespace  PROVE TInv'
    <3> DEFINE blanks == take_while(file, {"sp"}).file
    <3>1. Inside(blanks) /\ "whitespace" \in Kinds
      BY <2>1, InsideLoops DEF Kinds
    <3>2. CASE at_bol /\ infile_peek_char(blanks) = "#"
      <4>1. PushDirective(infile_next_char(blanks))
        BY <2>10, <3>2 DEF Whitespace
      <4> HIDE DEF blanks
      <4>2. Inside(infile_next_char(blanks))
        BY <3>1, <3>2, InsideStays
      <4> QED  BY <4>1, <4>2, DirectiveKeeps
    <3>3. CASE ~(at_bol /\ infile_peek_char(blanks) = "#")
      <4>1. Push("whitespace", <<>>, blanks) /\ expect_header_name' = expect_header_name
        BY <2>10, <3>3 DEF Whitespace
      <4> HIDE DEF blanks
      <4> QED  BY <2>3, <3>1, <4>1, PushInside
    <3> QED  BY <3>2, <3>3
  <2>11. ASSUME CharacterConstant  PROVE TInv'
    <3> DEFINE first == infile_peek_char(Rest)
               second == IF first = "BS" THEN infile_next_char(Rest) ELSE Rest
               text == IF first = "BS" THEN <<first, infile_peek_char(second)>> ELSE <<first>>
    <3>1. /\ c = "sq" /\ Push("char", text, infile_next_char(infile_next_char(second)))
          /\ expect_header_name' = expect_header_name
      BY <2>11 DEF CharacterConstant
    <3>2. Inside(Rest) /\ "char" \in Kinds
      BY <2>2, <3>1 DEF Kinds
    <3>3. Inside(second) /\ first \in Peeked
      BY <3>2, InsideStays
    <3> HIDE DEF second, first
    <3>4. infile_peek_char(second) \in Peeked
      BY <3>3, InsideStays
    <3>5. text \in Seq(Peeked)
      <4>1. <<first, infile_peek_char(second)>> \in Seq(Peeked) /\ <<first>> \in Seq(Peeked)
        BY <3>3, <3>4
      <4> QED  BY <4>1
    <3>6. infile_next_char(infile_next_char(second)) \in Counted(b, file.pos, Len(b) + 3)
      <4>1. infile_next_char(second) \in Counted(b, file.pos, Len(b) + 2)
        BY <3>3, InsideStays
      <4>2. b \in Seq(Chars) /\ file.pos \in Nat
        BY DEF TInv, Counted
      <4>3. Len(b) + 2 \in Nat /\ Len(b) + 2 >= Len(b) + 1 /\ (Len(b) + 2) + 1 = Len(b) + 3
        BY <4>2
      <4>4. infile_next_char(infile_next_char(second)) \in Counted(b, file.pos, (Len(b) + 2) + 1)
        <5> HIDE DEF b
        <5> QED  BY <4>1, <4>2, <4>3, NextStays
      <4> QED  BY <4>3, <4>4
    <3> HIDE DEF text
    <3> QED  BY <2>3, <3>1, <3>2, <3>5, <3>6, PushInside
  <2>12. ASSUME Number  PROVE TInv'
    <3> DEFINE whole == take_while(file, WordChars \ {"_"})
               digits == take_while(infile_next_char(whole.file), Digits)
               fraction == infile_peek_char(whole.file) = "." /\ infile_peek_char2(whole.file) \in Digits
    <3>1. "NUL" \notin WordChars \ {"_"} /\ "NUL" \notin Digits /\ "double" \in Kinds /\ "int" \in Kinds
      BY DEF WordChars, Digits, Kinds
    <3>2. Inside(whole.file) /\ whole.text \in Seq(Peeked)
      BY <2>1, <3>1, InsideLoops
    <3>3. CASE fraction
      <4>1. /\ Push("double", whole.text \o <<".">> \o digits.text, digits.file)
            /\ expect_header_name' = expect_header_name
        BY <2>12, <3>3 DEF Number
      <4>2. Inside(infile_next_char(whole.file))
        <5> HIDE DEF whole
        <5> QED  BY <3>2, <3>3, InsideStays
      <4>3. Inside(digits.file) /\ digits.text \in Seq(Peeked)
        <5> HIDE DEF whole
        <5> QED  BY <3>1, <4>2, InsideLoops
      <4> HIDE DEF whole, digits
      <4>4. <<".">> \in Seq(Peeked)
        BY DEF Peeked, Chars
      <4>5. whole.text \o <<".">> \o digits.text \in Seq(Peeked)
        BY <3>2, <4>3, <4>4
      <4> QED  BY <2>3, <3>1, <4>1, <4>3, <4>5, PushInside
    <3>4. CASE ~fraction
      <4>1. Push("int", whole.text, whole.file) /\ expect_header_name' = expect_header_name
        BY <2>12, <3>4 DEF Number
      <4> HIDE DEF whole
      <4> QED  BY <2>3, <3>1, <3>2, <4>1, PushInside
    <3> QED  BY <3>3, <3>4
  <2>13. ASSUME Identifier  PROVE TInv'
    <3> DEFINE word == take_while(file, WordChars)
    <3>1. Push("ident", word.text, word.file) /\ expect_header_name' = expect_header_name
      BY <2>13 DEF Identifier
    <3>2. "NUL" \notin WordChars /\ "ident" \in Kinds
      BY DEF WordChars, Digits, Kinds
    <3>3. Inside(word.file) /\ word.text \in Seq(Peeked)
      BY <2>1, <3>2, InsideLoops
    <3> HIDE DEF word
    <3> QED  BY <2>3, <3>1, <3>2, <3>3, PushInside
  <2>14. ASSUME NewLine  PROVE TInv'
    <3>1. Push("newline", <<>>, Rest) /\ expect_header_name' = FALSE /\ "newline" \in Kinds
      BY <2>14 DEF NewLine, reset_header_name, Kinds
    <3> QED  BY <2>2, <2>3, <3>1, PushInside
  <2>15. ASSUME Other  PROVE TInv'
    <3>1. Push("other", <<c>>, Rest) /\ expect_header_name' = expect_header_name /\ "other" \in Kinds
      BY <2>15 DEF Other, Kinds
    <3>2. <<c>> \in Seq(Peeked)
      BY <2>2
    <3> QED  BY <2>2, <2>3, <3>1, <3>2, PushInside
  <2>16. ASSUME Fatal  PROVE TInv'
    <3>1. EndsInBackslash(file.buf)
      BY <2>2, <2>16 DEF Fatal
    <3> QED  BY <2>16, <3>1 DEF Fatal, TInv
  <2> QED
    BY <1>3, <2>4, <2>5, <2>6, <2>7, <2>8, <2>9, <2>10, <2>11, <2>12, <2>13, <2>14, <2>15, <2>16
    DEF Read
<1> QED  BY <1>1, <1>2, <1>3 DEF Next
----------------------------------------------------------------------------
(* The reader, the tokens and their lines have their types: of the position *)
(* it says how far behind the terminator the loops may read.               *)
THEOREM TypesCorrect == Spec => []TypeOK
<1>1. Init => TInv
  BY TInvInit
<1>2. TInv /\ [Next]_tvars => TInv'
  BY NextKeeps
<1>3. TInv => TypeOK
  BY TInvIs
<1> QED  BY <1>1, <1>2, <1>3, PTL DEF Spec

(* The line of the reader, and so that of a token that begins there, is    *)
(* one more than the line ends in front of it, in every text: whatever     *)
(* splices, comments, quoted texts and forms of line end it has, and in    *)
(* whatever tokens they are.                                               *)
THEOREM LinesCorrect == Spec => []LinesCounted
<1>1. Init => TInv
  BY TInvInit
<1>2. TInv /\ [Next]_tvars => TInv'
  BY NextKeeps
<1>3. TInv => LinesCounted
  BY TInvIs
<1> QED  BY <1>1, <1>2, <1>3, PTL DEF Spec

(* The tokenizer neither ends nor leaves the buffer with a text whose last *)
(* character is a backslash, and rejects no other: no token, and no loop   *)
(* over a literal or a comment that is not closed, takes that backslash.   *)
THEOREM LastBackslashRejected == Spec => []RejectsLastBackslash
<1>1. Init => TInv
  BY TInvInit
<1>2. TInv /\ [Next]_tvars => TInv'
  BY NextKeeps
<1>3. TInv => RejectsLastBackslash
  BY TInvIs
<1> QED  BY <1>1, <1>2, <1>3, PTL DEF Spec
----------------------------------------------------------------------------
(* The whole pipeline.  The first pass takes the tokens of a text without  *)
(* directives and keeps them in their places; the second adds at most one  *)
(* token for each place it has passed.                                     *)
Plain == Kinds \ {"directive", "nop", "header"}
PToken(kinds) == [kind : kinds, text : Seq(Peeked), line : 1..file.line]
OutToken == {converted(t) : t \in PToken(Plain \ (Empty \cup {"other"}))}

PInv ==
  /\ TInv
  /\ phase \in {"tokenize", "concat", "convert", "parse", "unreachable"}
  /\ IF phase = "tokenize" THEN pp = <<>> ELSE status = "done"
  /\ phase \in {"tokenize", "concat"} => out = <<>>
  /\ pp \in Seq(PToken(Plain \cup {"removed"}))
  /\ pos \in 1..(Len(pp) + 1) /\ last \in 0..Len(pp)
  /\ phase = "concat" => last < pos
  /\ out \in Seq(OutToken) /\ Len(out) <= Len(pp) /\ (phase = "convert" => Len(out) < pos)

(* A sequence of which one element is replaced, and of elements of a set.  *)
LEMMA Replaced ==
  ASSUME NEW S, NEW q \in Seq(S), NEW i \in 1..Len(q), NEW x \in S
  PROVE  [q EXCEPT ![i] = x] \in Seq(S) /\ Len([q EXCEPT ![i] = x]) = Len(q)
OBVIOUS

LEMMA SeqWidens ==
  ASSUME NEW S, NEW T, S \subseteq T, NEW q \in Seq(S)
  PROVE  q \in Seq(T)
OBVIOUS

(* What a token that is converted becomes.                                 *)
LEMMA ConvertedIs ==
  ASSUME NEW t \in PToken(Plain \ (Empty \cup {"other"}))
  PROVE  /\ converted(t).kind \in {"punct", "int", "double", "string", "ident", "keyword", "eof"}
         /\ converted(t).line = t.line
<1>1. t.kind \in {"punct", "char", "int", "double", "string", "ident", "eof"}
  BY DEF PToken, Plain, Empty, Kinds
<1>2. CASE t.kind = "char"
  BY <1>2 DEF converted, PToken
<1>3. CASE t.kind = "string"
  BY <1>3 DEF converted, PToken
<1>4. CASE t.kind = "ident"
  BY <1>4 DEF converted, PToken
<1>5. CASE t.kind \in {"punct", "int", "double", "eof"}
  BY <1>5 DEF converted, PToken
<1> QED  BY <1>1, <1>2, <1>3, <1>4, <1>5

LEMMA PInvIs ==
  ASSUME PInv
  PROVE  PipelineTypeOK /\ LinesCounted /\ RejectsLastBackslash
<1>1. TypeOK /\ LinesCounted /\ RejectsLastBackslash
  BY TInvIs DEF PInv
<1>2. pp \in Seq([kind : Kinds \cup {"removed"}, text : Seq(Peeked), line : 1..file.line])
  <2>1. PToken(Plain \cup {"removed"}) \subseteq
          [kind : Kinds \cup {"removed"}, text : Seq(Peeked), line : 1..file.line]
    BY DEF PToken, Plain
  <2>2. pp \in Seq(PToken(Plain \cup {"removed"}))
    BY DEF PInv
  <2> QED  BY <2>1, <2>2, SeqWidens
<1>3. ASSUME NEW i \in DOMAIN out
      PROVE  /\ out[i].kind \in {"punct", "int", "double", "string", "ident", "keyword", "eof"}
             /\ out[i].line \in 1..file.line
  <2>1. out[i] \in OutToken
    BY DEF PInv
  <2>2. PICK t \in PToken(Plain \ (Empty \cup {"other"})) : out[i] = converted(t)
    BY <2>1 DEF OutToken
  <2>3. t.line \in 1..file.line
    BY DEF PToken
  <2> QED  BY <2>2, <2>3, ConvertedIs
<1> QED  BY <1>1, <1>2, <1>3 DEF PInv, PipelineTypeOK

LEMMA PInvInit ==
  ASSUME PipelineInit
  PROVE  PInv
<1>1. TInv
  BY TInvInit DEF PipelineInit
<1> QED  BY <1>1 DEF PipelineInit, PInv

LEMMA PipelineKeeps ==
  ASSUME PInv, [PipelineNext]_<<tvars, pvars>>
  PROVE  PInv'
<1> DEFINE P == PToken(Plain \cup {"removed"})
<1>1. ASSUME UNCHANGED tvars
      PROVE  TInv' /\ file' = file /\ status' = status /\ P' = P /\ OutToken' = OutToken
  <2>1. file' = file /\ status' = status /\ P' = P
    BY <1>1 DEF tvars, PToken
  <2>2. PToken(Plain \ (Empty \cup {"other"}))' = PToken(Plain \ (Empty \cup {"other"}))
    BY <2>1 DEF PToken
  <2> QED  BY <1>1, <2>1, <2>2 DEF tvars, TInv, PInv, OutToken
<1>2. ASSUME Tokenize  PROVE PInv'
  <2>1. TInv'
    BY <1>2, NextKeeps DEF Tokenize, PInv
  <2>2. /\ phase' = phase /\ pp' = <<>> /\ out' = <<>> /\ pos' = pos /\ last' = last
        /\ pp = <<>> /\ phase = "tokenize"
    BY <1>2 DEF Tokenize, pvars, PInv
  <2> QED  BY <2>1, <2>2 DEF PInv
<1>3. ASSUME Preprocessed  PROVE PInv'
  <2>1. /\ \A i \in DOMAIN tokens : /\ tokens[i] \in Token /\ tokens[i].kind \in Plain
                                    /\ tokens[i].line <= file.line
        /\ tokens \in Seq(Token) /\ file.line \in Nat
    <3>1. tokens \in Seq(Token) /\ \A i \in DOMAIN tokens : tokens[i].line <= file.line
      BY DEF PInv, TInv
    <3>2. file.line \in Nat
      BY DEF PInv, TInv, Counted
    <3>3. \A i \in DOMAIN tokens : tokens[i] \in Token /\ tokens[i].kind \notin {"directive", "nop", "header"}
      BY <1>3, <3>1 DEF Preprocessed
    <3> QED  BY <3>1, <3>2, <3>3 DEF Token, Plain
  <2>2. tokens \in Seq(P)
    <3>1. \A i \in DOMAIN tokens : tokens[i] \in P
      BY <2>1 DEF PToken, Token
    <3> HIDE DEF P
    <3> QED  BY <2>1, <3>1
  <2>3. pp' \in Seq(P) /\ UNCHANGED tvars /\ phase' = "concat" /\ out' = <<>> /\ status = "done"
    BY <1>3, <2>2 DEF Preprocessed, PInv
  <2>4. pos' = 1 /\ last' = 0
    BY <1>3 DEF Preprocessed, PInv
  <2> HIDE DEF P
  <2> QED  BY <1>1, <2>3, <2>4 DEF PInv, P
<1>4. ASSUME Concat  PROVE PInv'
  <2>1. /\ UNCHANGED tvars /\ phase' = "concat" /\ out' = <<>> /\ status = "done"
        /\ pos' = pos + 1 /\ pos \in 1..Len(pp) /\ last < pos
        /\ pp \in Seq(P) /\ Len(pp) \in Nat /\ last \in 0..Len(pp)
    BY <1>4 DEF Concat, PInv
  <2>2. last' \in {last, pos}
    BY <1>4 DEF Concat, last_nonempty_token_pos
  <2>3. pp' \in Seq(P) /\ Len(pp') = Len(pp)
    <3>1. CASE pp' = pp
      BY <2>1, <3>1
    <3>2. ASSUME last # 0,
                 pp' = [pp EXCEPT ![last].text = @ \o pp[pos].text, ![pos].kind = "removed"]
          PROVE  pp' \in Seq(P) /\ Len(pp') = Len(pp)
      <4>1. /\ pp[last] \in P /\ pp[pos] \in P
            /\ [pp[last] EXCEPT !.text = @ \o pp[pos].text] \in P
            /\ [pp[pos] EXCEPT !.kind = "removed"] \in P
        <5>1. pp[last] \in P /\ pp[pos] \in P
          <6> HIDE DEF P
          <6> QED  BY <2>1, <3>2
        <5>2. pp[last].text \o pp[pos].text \in Seq(Peeked)
          BY <5>1 DEF PToken
        <5> QED  BY <5>1, <5>2 DEF PToken
      <4>2. pp' = [[pp EXCEPT ![last] = [pp[last] EXCEPT !.text = @ \o pp[pos].text]]
                      EXCEPT ![pos] = [pp[pos] EXCEPT !.kind = "removed"]]
        <5>1. last \in DOMAIN pp /\ pos \in DOMAIN pp /\ last # pos
          <6> HIDE DEF P
          <6> QED  BY <2>1, <3>2
        <5> HIDE DEF P
        <5> QED  BY <2>1, <3>2, <5>1
      <4> DEFINE u == [pp[last] EXCEPT !.text = @ \o pp[pos].text]
                 v == [pp[pos] EXCEPT !.kind = "removed"]
      <4> HIDE DEF P, u, v
      <4>3. pp' = [[pp EXCEPT ![last] = u] EXCEPT ![pos] = v]
        BY <4>2 DEF u, v
      <4>4. u \in P /\ v \in P
        BY <4>1 DEF u, v
      <4>5. last \in 1..Len(pp)
        BY <2>1, <3>2
      <4>6. [pp EXCEPT ![last] = u] \in Seq(P) /\ Len([pp EXCEPT ![last] = u]) = Len(pp)
        BY <2>1, <4>4, <4>5, Replaced
      <4> QED  BY <2>1, <4>3, <4>4, <4>6, Replaced
    <3> QED  BY <1>4, <3>1, <3>2 DEF Concat
  <2> HIDE DEF P
  <2> QED  BY <1>1, <2>1, <2>2, <2>3 DEF PInv, P
<1>5. ASSUME Concatenated  PROVE PInv'
  <2>1. UNCHANGED tvars /\ phase' = "convert" /\ pos' = 1 /\ last' = last /\ pp' = pp /\ out' = <<>>
        /\ status = "done"
    BY <1>5 DEF Concatenated, PInv
  <2> HIDE DEF P
  <2> QED  BY <1>1, <2>1 DEF PInv, P
<1>6. ASSUME Convert  PROVE PInv'
  <2>1. /\ UNCHANGED tvars /\ phase' \in {"convert", "unreachable"} /\ status = "done"
        /\ pos' = pos + 1 /\ pos \in 1..Len(pp) /\ last' = last /\ pp' = pp
        /\ Len(out) < pos /\ out \in Seq(OutToken)
    BY <1>6 DEF Convert, PInv
  <2>2. out' = out \/ (out' = Append(out, converted(pp[pos])) /\ converted(pp[pos]) \in OutToken)
    <3>1. pp[pos] \in PToken(Plain \cup {"removed"})
      BY <2>1 DEF PInv
    <3>2. pp[pos].kind \notin Empty \cup {"other"} => converted(pp[pos]) \in OutToken
      <4>1. pp[pos].kind \notin Empty \cup {"other"} =>
              pp[pos] \in PToken(Plain \ (Empty \cup {"other"}))
        BY <3>1 DEF PToken, Empty
      <4> QED  BY <4>1 DEF OutToken
    <3> QED  BY <1>6, <3>2 DEF Convert
  <2>3. out' \in Seq(OutToken) /\ Len(out') <= pos /\ Len(out') \in Nat
    BY <2>1, <2>2
  <2> HIDE DEF P
  <2> QED  BY <1>1, <2>1, <2>3 DEF PInv, P
<1>7. ASSUME Converted  PROVE PInv'
  BY <1>1, <1>7 DEF Converted, PInv
<1>8. ASSUME UNCHANGED <<tvars, pvars>>  PROVE PInv'
  BY <1>1, <1>8 DEF PInv, pvars
<1> QED  BY <1>2, <1>3, <1>4, <1>5, <1>6, <1>7, <1>8 DEF PipelineNext

(* What the two passes get and give has its types: the second pass has at  *)
(* most one token for each place it has been at, and none of the kinds the *)
(* parser does not know.                                                   *)
THEOREM PipelineTypes == PipelineSpec => []PipelineTypeOK
<1>1. PipelineInit => PInv
  BY PInvInit
<1>2. PInv /\ [PipelineNext]_<<tvars, pvars>> => PInv'
  BY PipelineKeeps
<1>3. PInv => PipelineTypeOK
  BY PInvIs
<1> QED  BY <1>1, <1>2, <1>3, PTL DEF PipelineSpec

(* LinesCounted holds with the passes behind the tokenizer too.            *)
THEOREM PipelineLines == PipelineSpec => []LinesCounted
<1>1. PipelineInit => PInv
  BY PInvInit
<1>2. PInv /\ [PipelineNext]_<<tvars, pvars>> => PInv'
  BY PipelineKeeps
<1>3. PInv => LinesCounted
  BY PInvIs
<1> QED  BY <1>1, <1>2, <1>3, PTL DEF PipelineSpec

(* And so does RejectsLastBackslash.                                       *)
THEOREM PipelineRejects == PipelineSpec => []RejectsLastBackslash
<1>1. PipelineInit => PInv
  BY PInvInit
<1>2. PInv /\ [PipelineNext]_<<tvars, pvars>> => PInv'
  BY PipelineKeeps
<1>3. PInv => RejectsLastBackslash
  BY PInvIs
<1> QED  BY <1>1, <1>2, <1>3, PTL DEF PipelineSpec
----------------------------------------------------------------------------
(* What the first pass has done to the tokens ts in front of a place p,    *)
(* with q as what they are now: it is behind the start l, or behind none,  *)
(* with white space and joined literals between, and the text it has there *)
(* is what it will have, but for what follows p.                           *)
Behind(ts, q, p, l) ==
  IF l = 0 THEN \A i \in 1..(p - 1) : ts[i].kind \in Empty
  ELSE /\ l \in Starts(ts) /\ l < p
       /\ \A i \in (l + 1)..(p - 1) : i \notin Starts(ts)
       /\ \E j \in l..(p - 1) :
            /\ ts[j].kind \notin Empty
            /\ ts[j].kind = "string" <=> ts[l].kind = "string"
            /\ \A k \in (j + 1)..(p - 1) : ts[k].kind \in Empty
       /\ IF ts[l].kind # "string" THEN q[l] = ts[l]
          ELSE /\ q[l].kind = "string" /\ q[l].line = ts[l].line
               /\ q[l].text \o Following(ts)[p] = Joined(ts, l).text

(* The places in front of p have what the parser gets of them, but for l.  *)
Settled(ts, q, p, l) ==
  \A i \in 1..(p - 1) : IF i \notin Starts(ts) THEN q[i].kind \in Empty
                        ELSE i # l => q[i] = Joined(ts, i)

Before(ts, p) == {i \in Starts(ts) : i < p}

Given(ts, o, p) ==
  /\ Len(o) = Cardinality(Before(ts, p))
  /\ \A i \in Before(ts, p) : o[Cardinality(Before(ts, i + 1))] = converted(Joined(ts, i))

JInv ==
  /\ PInv
  /\ phase # "tokenize" => Len(pp) = Len(tokens)
  /\ phase = "concat" =>
       /\ \A i \in pos..Len(tokens) : pp[i] = tokens[i]
       /\ Behind(tokens, pp, pos, last) /\ Settled(tokens, pp, pos, last)
  /\ phase \in {"convert", "parse"} =>
       Settled(tokens, pp, Len(tokens) + 1, 0) /\ Given(tokens, out, pos)
  /\ phase = "parse" => pos = Len(tokens) + 1

(* What follows a literal, from one place to the next.                     *)
LEMMA FollowingIs ==
  ASSUME NEW ts \in Seq(Token)
  PROVE  \A i \in 1..(Len(ts) + 1) :
           /\ Following(ts)[i] \in Seq(Peeked)
           /\ Following(ts)[i] =
                IF i > Len(ts) \/ i \in Starts(ts) THEN <<>>
                ELSE IF ts[i].kind = "string" THEN ts[i].text \o Following(ts)[i + 1]
                ELSE Following(ts)[i + 1]
<1> DEFINE n == Len(ts)
           stops(i) == i > n \/ i \in Starts(ts)
           here(i, t) == IF stops(i) THEN <<>> ELSE IF ts[i].kind = "string" THEN ts[i].text \o t ELSE t
           Is(a) == a = [i \in 1..(n + 1) |-> here(i, a[i + 1])]
           D == [i : Int, t : Seq(Peeked)]
           next == [d \in D |-> [i |-> d.i - 1,
                                 t |-> IF d.i - 1 \in 1..n THEN here(d.i - 1, d.t) ELSE <<>>]]
           s == [i |-> n + 1, t |-> <<>>]
<1>1. n \in Nat /\ s \in D
  OBVIOUS
<1>2. ASSUME NEW i \in 1..n, NEW t \in Seq(Peeked)  PROVE here(i, t) \in Seq(Peeked)
  <2>1. ts[i] \in Token
    OBVIOUS
  <2>2. ts[i].text \in Seq(Peeked)
    BY <2>1 DEF Token
  <2> HIDE DEF stops
  <2> QED  BY <2>2
<1>3. \A d \in D : next[d] \in D
  <2> SUFFICES ASSUME NEW d \in D  PROVE next[d] \in D
    OBVIOUS
  <2>1. d.i - 1 \in Int /\ <<>> \in Seq(Peeked) /\ d.t \in Seq(Peeked)
    OBVIOUS
  <2>2. d.i - 1 \in 1..n => here(d.i - 1, d.t) \in Seq(Peeked)
    BY <1>2, <2>1
  <2> HIDE DEF here, n
  <2> QED  BY <2>1, <2>2
<1>4. PICK a : TurnsOf(a, next, s, n) /\ \A k \in 0..n : a[k] \in D
  <2> HIDE DEF D, next, s, n
  <2> QED  BY <1>1, <1>3, TurnsExist
<1>5. /\ a[0] = s
      /\ \A k \in 1..n : a[k] = next[a[k - 1]] /\ a[k - 1] \in D
  <2>1. 0 \in 0..n /\ \A k \in 1..n : k \in 0..n /\ k # 0 /\ k - 1 \in 0..n
    BY <1>1
  <2> HIDE DEF D, next, s, n
  <2> QED  BY <1>4, <2>1 DEF TurnsOf
<1>6. \A k \in 0..n : a[k].i = (n + 1) - k
  <2> DEFINE off == [k \in 0..n |-> a[k].i + k]
             E == {n + 1}
  <2>1. off[0] \in E
    BY <1>1, <1>5
  <2>2. \A k \in 1..n : off[k - 1] \in E => off[k] \in E
    <3> SUFFICES ASSUME NEW k \in 1..n, off[k - 1] \in E
                 PROVE  off[k] \in E
      OBVIOUS
    <3>1. k \in 0..n /\ k - 1 \in 0..n
      BY <1>1
    <3>2. \A d \in D : next[d].i = d.i - 1 /\ d.i \in Int
      <4> HIDE DEF here, n
      <4> QED  OBVIOUS
    <3>3. a[k].i = a[k - 1].i - 1 /\ a[k - 1].i \in Int
      <4> HIDE DEF D, next, n
      <4> QED  BY <1>5, <3>2
    <3> HIDE DEF n, D, next, here
    <3> QED  BY <3>1, <3>3, <1>1
  <2>3. \A k \in 0..n : off[k] \in E
    <3> HIDE DEF off, E, n
    <3> QED  BY <1>1, <2>1, <2>2, TurnsStay
  <2>4. \A k \in 0..n : a[k].i \in Int
    BY <1>4
  <2> HIDE DEF n
  <2> QED  BY <1>1, <2>3, <2>4
<1> DEFINE F == [i \in 1..(n + 1) |-> a[(n + 1) - i].t]
<1>7. Is(F)
  <2>1. ASSUME NEW i \in 1..n
        PROVE  F[i] = here(i, F[i + 1])
    <3> DEFINE k == (n + 1) - i
    <3>1. k \in 1..n /\ k - 1 = (n + 1) - (i + 1) /\ i \in 1..(n + 1) /\ i + 1 \in 1..(n + 1)
          /\ k - 1 \in 0..n /\ (n + 1) - (k - 1) = i + 1
      BY <1>1
    <3>2. F[i] = a[k].t /\ F[i + 1] = a[k - 1].t
      BY <3>1
    <3>3. a[k] = next[a[k - 1]] /\ a[k - 1] \in D /\ a[k - 1].i = i + 1
      <4> HIDE DEF k, next, n
      <4> QED  BY <1>5, <1>6, <3>1
    <3>4. a[k - 1].i - 1 = i
      BY <3>3
    <3> HIDE DEF k, n, here, F
    <3> QED  BY <3>2, <3>3, <3>4
  <2>2. F[n + 1] = <<>> /\ stops(n + 1)
    BY <1>1, <1>5
  <2>3. \A i \in 1..(n + 1) : F[i] = here(i, F[i + 1])
    <3>1. \A i \in 1..(n + 1) : i \in 1..n \/ i = n + 1
      BY <1>1
    <3> HIDE DEF F, n, stops
    <3> QED  BY <2>1, <2>2, <3>1
  <2> DEFINE u(i) == F[i]
  <2>4. F = [i \in 1..(n + 1) |-> u(i)]
    OBVIOUS
  <2> HIDE DEF F, here
  <2> QED  BY <2>3, <2>4
<1>8. Is(Following(ts))
  <2>1. Following(ts) = CHOOSE e : Is(e)
    BY Zenon DEF Following
  <2> HIDE DEF Is
  <2> QED  BY <1>7, <2>1
<1>9. \A i \in 1..(n + 1) : Following(ts)[i] = here(i, Following(ts)[i + 1])
  <2> HIDE DEF here
  <2> QED  BY <1>8
<1>10. \A i \in 1..(n + 1) : Following(ts)[i] \in Seq(Peeked)
  <2> DEFINE fo == [k \in 0..n |-> Following(ts)[(n + 1) - k]]
  <2>1. fo[0] \in Seq(Peeked)
    <3>1. n + 1 \in 1..(n + 1) /\ stops(n + 1) /\ fo[0] = Following(ts)[n + 1]
      BY <1>1
    <3>2. fo[0] = <<>>
      <4> HIDE DEF n, stops, fo
      <4> QED  BY <1>9, <3>1
    <3> QED  BY <3>2
  <2>2. \A k \in 1..n : fo[k - 1] \in Seq(Peeked) => fo[k] \in Seq(Peeked)
    <3> SUFFICES ASSUME NEW k \in 1..n, fo[k - 1] \in Seq(Peeked)
                 PROVE  fo[k] \in Seq(Peeked)
      OBVIOUS
    <3> DEFINE i == (n + 1) - k
    <3>1. i \in 1..n /\ i \in 1..(n + 1) /\ (n + 1) - (k - 1) = i + 1 /\ k \in 0..n /\ k - 1 \in 0..n
      BY <1>1
    <3>2. fo[k] = Following(ts)[i] /\ fo[k - 1] = Following(ts)[i + 1]
      BY <3>1
    <3>3. Following(ts)[i] = here(i, Following(ts)[i + 1])
      BY <1>9, <3>1
    <3> HIDE DEF fo, i, here, n
    <3> QED  BY <1>2, <3>1, <3>2, <3>3
  <2>3. \A k \in 0..n : fo[k] \in Seq(Peeked)
    <3> HIDE DEF fo, n
    <3> QED  BY <1>1, <2>1, <2>2, TurnsStay
  <2>4. \A i \in 1..(n + 1) : (n + 1) - i \in 0..n /\ fo[(n + 1) - i] = Following(ts)[i]
    <3> TAKE i \in 1..(n + 1)
    <3>1. (n + 1) - i \in 0..n /\ (n + 1) - ((n + 1) - i) = i
      BY <1>1
    <3> QED  BY <3>1
  <2> HIDE DEF fo, n
  <2> QED  BY <2>3, <2>4
<1> QED  BY <1>9, <1>10

(* The first pass passes white space.                                      *)
PPToken == [kind : Kinds \cup {"removed"}, text : Seq(Peeked), line : Nat]

LEMMA TokenIsPP ==
  ASSUME NEW ts \in Seq(Token), NEW i \in 1..Len(ts)
  PROVE  ts[i] \in PPToken
<1>1. ts[i] \in Token
  OBVIOUS
<1> QED  BY <1>1 DEF Token, PPToken

LEMMA TokenChanged ==
  ASSUME NEW t \in PPToken, NEW s
  PROVE  /\ [t EXCEPT !.text = s] = [kind |-> t.kind, text |-> s, line |-> t.line]
         /\ [t EXCEPT !.kind = s] = [kind |-> s, text |-> t.text, line |-> t.line]
BY DEF PPToken

LEMMA TokenFields ==
  ASSUME NEW t, NEW k, NEW s, NEW n, t = [kind |-> k, text |-> s, line |-> n]
  PROVE  t.kind = k /\ t.text = s /\ t.line = n
OBVIOUS

LEMMA TextsAssociate ==
  ASSUME NEW s \in Seq(Peeked), NEW t \in Seq(Peeked), NEW u \in Seq(Peeked)
  PROVE  (s \o t) \o u = s \o (t \o u)
BY ConcatAssociative

LEMMA PassesBlank ==
  ASSUME NEW ts \in Seq(Token), NEW q \in Seq(PPToken), Len(q) = Len(ts),
         NEW p \in 1..Len(ts), NEW l \in 0..(p - 1),
         Behind(ts, q, p, l), Settled(ts, q, p, l), q[p] = ts[p], ts[p].kind \in Empty
  PROVE  Behind(ts, q, p + 1, l) /\ Settled(ts, q, p + 1, l)
<1>1. Len(ts) \in Nat /\ p \in Nat /\ p \in 1..(Len(ts) + 1) /\ ~(p > Len(ts))
  OBVIOUS
<1>2. p \notin Starts(ts) /\ ts[p].kind # "string"
  BY DEF Starts, Empty
<1>3. Following(ts)[p] = Following(ts)[p + 1]
  BY <1>1, <1>2, FollowingIs
<1>4. \A i \in 1..((p + 1) - 1) : i \in 1..(p - 1) \/ i = p
  BY <1>1
<1>5. Settled(ts, q, p + 1, l)
  BY <1>2, <1>4 DEF Settled
<1>6. CASE l = 0
  BY <1>4, <1>5, <1>6 DEF Behind
<1>7. CASE l # 0
  <2>1. \A i \in (l + 1)..((p + 1) - 1) : i \in (l + 1)..(p - 1) \/ i = p
    BY <1>1
  <2>2. PICK j \in l..(p - 1) :
          /\ ts[j].kind \notin Empty
          /\ ts[j].kind = "string" <=> ts[l].kind = "string"
          /\ \A k \in (j + 1)..(p - 1) : ts[k].kind \in Empty
    BY <1>7 DEF Behind
  <2>3. j \in l..((p + 1) - 1) /\ \A k \in (j + 1)..((p + 1) - 1) : k \in (j + 1)..(p - 1) \/ k = p
    BY <1>1
  <2>4. l < p + 1
    BY <1>1
  <2>5. \A k \in (j + 1)..((p + 1) - 1) : ts[k].kind \in Empty
    BY <2>2, <2>3
  <2>6. \A i \in (l + 1)..((p + 1) - 1) : i \notin Starts(ts)
    BY <1>2, <1>7, <2>1 DEF Behind
  <2>7. Behind(ts, q, p + 1, l)
    BY <1>3, <1>7, <2>2, <2>3, <2>4, <2>5, <2>6 DEF Behind
  <2> QED  BY <1>5, <2>7
<1> QED  BY <1>5, <1>6, <1>7

(* It joins a literal to the one it is behind.                             *)
LEMMA JoinsLiteral ==
  ASSUME NEW ts \in Seq(Token), NEW q \in Seq(PPToken), Len(q) = Len(ts),
         NEW p \in 1..Len(ts), NEW l \in 1..(p - 1),
         Behind(ts, q, p, l), Settled(ts, q, p, l), \A i \in p..Len(ts) : q[i] = ts[i],
         ts[p].kind = "string", q[l].kind = "string",
         NEW r, r = [q EXCEPT ![l].text = @ \o q[p].text, ![p].kind = "removed"]
  PROVE  /\ Behind(ts, r, p + 1, l) /\ Settled(ts, r, p + 1, l)
         /\ \A i \in (p + 1)..Len(ts) : r[i] = ts[i]
<1>1. Len(ts) \in Nat /\ p \in Nat /\ p \in 1..(Len(ts) + 1) /\ ~(p > Len(ts)) /\ l \in Nat /\ l # 0
      /\ l \in 1..Len(q) /\ p \in 1..Len(q) /\ l # p /\ p \in p..Len(ts) /\ p + 1 \in 1..(Len(ts) + 1)
  OBVIOUS
<1>2. ts[l].kind = "string"
  BY <1>1 DEF Behind
<1>3. Joins(ts, p) /\ p \notin Starts(ts)
  <2>1. PICK j \in l..(p - 1) :
          /\ ts[j].kind \notin Empty
          /\ ts[j].kind = "string" <=> ts[l].kind = "string"
          /\ \A k \in (j + 1)..(p - 1) : ts[k].kind \in Empty
    BY <1>1 DEF Behind
  <2>2. j \in 1..(p - 1)
    BY <1>1
  <2>3. Joins(ts, p)
    BY <1>2, <2>1, <2>2 DEF Joins
  <2> QED  BY <2>3 DEF Starts
<1>4. Following(ts)[p] = ts[p].text \o Following(ts)[p + 1]
  BY <1>1, <1>3, FollowingIs
<1>5. /\ q[l] \in PPToken /\ ts[p] \in PPToken /\ q[p] = ts[p]
      /\ q[l].text \in Seq(Peeked) /\ ts[p].text \in Seq(Peeked)
  <2>1. q[l] \in PPToken /\ q[p] \in PPToken /\ q[p] = ts[p]
    BY <1>1
  <2> QED  BY <2>1 DEF PPToken
<1>6. /\ r[l] = [q[l] EXCEPT !.text = @ \o ts[p].text]
      /\ r[p] = [q[p] EXCEPT !.kind = "removed"]
      /\ \A i \in 1..Len(ts) : i # l /\ i # p => r[i] = q[i]
  <2>1. DOMAIN q = 1..Len(ts)
    OBVIOUS
  <2> QED  BY <1>1, <1>5, <2>1
<1>7. r[l].kind = "string" /\ r[l].line = q[l].line /\ r[l].text = q[l].text \o ts[p].text
      /\ r[p].kind = "removed"
  <2> DEFINE s == q[l].text \o ts[p].text
  <2>1. r[l] = [q[l] EXCEPT !.text = s]
    BY <1>6
  <2> HIDE DEF s
  <2>2. r[l] = [kind |-> q[l].kind, text |-> s, line |-> q[l].line]
    BY <1>5, <2>1, TokenChanged
  <2>3. q[p] \in PPToken /\ r[p] = [q[p] EXCEPT !.kind = "removed"]
    BY <1>5, <1>6
  <2>4. r[p] = [kind |-> "removed", text |-> q[p].text, line |-> q[p].line]
    BY <2>3, TokenChanged
  <2>5. r[l].kind = q[l].kind /\ r[l].text = s /\ r[l].line = q[l].line /\ r[p].kind = "removed"
    <3> DEFINE x == r[l]
               y == r[p]
               k == q[l].kind
               n == q[l].line
    <3>1. x = [kind |-> k, text |-> s, line |-> n]
      BY <2>2
    <3>2. y = [kind |-> "removed", text |-> q[p].text, line |-> q[p].line]
      BY <2>4
    <3> HIDE DEF x, y, k, n
    <3>3. x.kind = k /\ x.text = s /\ x.line = n
      BY ONLY <3>1, TokenFields
    <3>4. y.kind = "removed"
      BY ONLY <3>2, TokenFields
    <3> QED  BY <3>3, <3>4 DEF x, y, k, n
  <2> QED  BY <2>5 DEF s
<1>8. r[l].text \o Following(ts)[p + 1] = Joined(ts, l).text
  <2>1. q[l].text \o (ts[p].text \o Following(ts)[p + 1]) = Joined(ts, l).text
    BY <1>1, <1>2, <1>4 DEF Behind
  <2>2. Following(ts)[p + 1] \in Seq(Peeked)
    BY <1>1, FollowingIs
  <2>3. (q[l].text \o ts[p].text) \o Following(ts)[p + 1]
          = q[l].text \o (ts[p].text \o Following(ts)[p + 1])
    BY <1>5, <2>2, TextsAssociate, Zenon
  <2> QED  BY <1>7, <2>1, <2>3
<1>9. Settled(ts, r, p + 1, l)
  <2> SUFFICES ASSUME NEW i \in 1..((p + 1) - 1)
               PROVE  IF i \notin Starts(ts) THEN r[i].kind \in Empty
                      ELSE i # l => r[i] = Joined(ts, i)
    BY DEF Settled
  <2>1. l \in Starts(ts)
    BY <1>1 DEF Behind
  <2>2. CASE i = p
    BY <1>3, <1>7, <2>2 DEF Empty
  <2>3. CASE i = l
    BY <2>1, <2>3
  <2>4. CASE i # p /\ i # l
    <3>1. i \in 1..(p - 1) /\ i \in 1..Len(ts)
      BY <1>1, <2>4
    <3> QED  BY <1>6, <2>4, <3>1 DEF Settled
  <2> QED  BY <2>2, <2>3, <2>4
<1>10. \A i \in (p + 1)..Len(ts) : r[i] = ts[i]
  <2>1. \A i \in (p + 1)..Len(ts) : i \in 1..Len(ts) /\ i # l /\ i # p /\ i \in p..Len(ts)
    BY <1>1
  <2> QED  BY <1>6, <2>1
<1>11. Behind(ts, r, p + 1, l)
  <2>1. \A i \in (l + 1)..((p + 1) - 1) : i \notin Starts(ts)
    <3>1. \A i \in (l + 1)..((p + 1) - 1) : i \in (l + 1)..(p - 1) \/ i = p
      BY <1>1
    <3> QED  BY <1>1, <1>3, <3>1 DEF Behind
  <2>2. \E j \in l..((p + 1) - 1) :
          /\ ts[j].kind \notin Empty
          /\ ts[j].kind = "string" <=> ts[l].kind = "string"
          /\ \A k \in (j + 1)..((p + 1) - 1) : ts[k].kind \in Empty
    <3>1. p \in l..((p + 1) - 1) /\ (p + 1)..((p + 1) - 1) = {}
      BY <1>1
    <3> QED  BY <1>2, <3>1 DEF Empty
  <2>3. l \in Starts(ts) /\ l < p + 1 /\ q[l].line = ts[l].line
    BY <1>1, <1>2 DEF Behind
  <2> QED  BY <1>1, <1>2, <1>7, <1>8, <2>1, <2>2, <2>3 DEF Behind
<1> QED  BY <1>9, <1>10, <1>11

(* What it is behind has its text when nothing follows.                    *)
LEMMA LastIsJoined ==
  ASSUME NEW ts \in Seq(Token), NEW q \in Seq(PPToken), Len(q) = Len(ts),
         NEW p \in 1..(Len(ts) + 1), NEW l \in 1..(p - 1),
         Behind(ts, q, p, l), p > Len(ts) \/ p \in Starts(ts)
  PROVE  q[l] = Joined(ts, l)
<1>1. Len(ts) \in Nat /\ l \in 1..Len(ts) /\ l \in 1..Len(q) /\ l # 0 /\ l + 1 \in 1..(Len(ts) + 1)
  OBVIOUS
<1>2. Following(ts)[p] = <<>>
  BY FollowingIs
<1>3. CASE ts[l].kind # "string"
  BY <1>1, <1>3 DEF Behind, Joined
<1>4. CASE ts[l].kind = "string"
  <2>1. q[l].kind = "string" /\ q[l].line = ts[l].line /\ q[l].text \o <<>> = Joined(ts, l).text
    BY <1>1, <1>2, <1>4 DEF Behind
  <2>2. q[l] \in PPToken /\ ts[l] \in Token
    BY <1>1
  <2>3. q[l].text \o <<>> = q[l].text
    <3>1. q[l].text \in Seq(Peeked)
      BY <2>2 DEF PPToken
    <3> QED  BY <3>1, ConcatEmptySeq
  <2>4. Joined(ts, l) = [ts[l] EXCEPT !.text = ts[l].text \o Following(ts)[l + 1]]
    BY <1>4 DEF Joined
  <2> DEFINE x == ts[l].text \o Following(ts)[l + 1]
  <2>5. Joined(ts, l).text = x
    BY <2>2, <2>4 DEF Token
  <2> HIDE DEF x
  <2>6. q[l].text = x
    BY <2>1, <2>3, <2>5
  <2>7. q[l] = [kind |-> "string", text |-> x, line |-> ts[l].line]
    BY <2>1, <2>2, <2>6 DEF PPToken
  <2>8. [ts[l] EXCEPT !.text = x] = [kind |-> "string", text |-> x, line |-> ts[l].line]
    <3>1. ts[l] \in PPToken
      BY <2>2 DEF Token, PPToken
    <3> QED  BY <1>4, <3>1, TokenChanged
  <2> QED  BY <2>4, <2>7, <2>8 DEF x
<1> QED  BY <1>3, <1>4

(* Any other token is a start, and what the pass was behind is done.       *)
LEMMA StartsAnew ==
  ASSUME NEW ts \in Seq(Token), NEW q \in Seq(PPToken), Len(q) = Len(ts),
         NEW p \in 1..Len(ts), NEW l \in 0..(p - 1),
         Behind(ts, q, p, l), Settled(ts, q, p, l), \A i \in p..Len(ts) : q[i] = ts[i],
         ts[p].kind \notin Empty, ~(ts[p].kind = "string" /\ l # 0 /\ q[l].kind = "string")
  PROVE  Behind(ts, q, p + 1, p) /\ Settled(ts, q, p + 1, p)
<1>1. Len(ts) \in Nat /\ p \in Nat /\ p # 0 /\ p \in 1..(Len(ts) + 1) /\ q[p] = ts[p]
      /\ p \in DOMAIN ts
  OBVIOUS
<1>2. ASSUME Joins(ts, p)  PROVE FALSE
  <2>1. PICK i \in 1..(p - 1) :
          ts[i].kind = "string" /\ \A k \in (i + 1)..(p - 1) : ts[k].kind \in Empty
    BY <1>2 DEF Joins
  <2>2. l # 0
    BY <2>1 DEF Behind, Empty
  <2>3. PICK j \in l..(p - 1) :
          /\ ts[j].kind \notin Empty
          /\ ts[j].kind = "string" <=> ts[l].kind = "string"
          /\ \A k \in (j + 1)..(p - 1) : ts[k].kind \in Empty
    BY <2>2 DEF Behind
  <2>4. i \in (j + 1)..(p - 1) \/ j \in (i + 1)..(p - 1) \/ i = j
    BY <1>1
  <2>5. ts[l].kind = "string"
    BY <2>1, <2>3, <2>4 DEF Empty
  <2>6. q[l].kind = "string" /\ ts[p].kind = "string"
    BY <1>2, <2>2, <2>5 DEF Behind, Joins
  <2> QED  BY <2>2, <2>6
<1>3. p \in Starts(ts)
  BY <1>1, <1>2 DEF Starts
<1>4. l # 0 => q[l] = Joined(ts, l)
  BY <1>1, <1>3, LastIsJoined
<1>5. Settled(ts, q, p + 1, p)
  <2> SUFFICES ASSUME NEW i \in 1..((p + 1) - 1)
               PROVE  IF i \notin Starts(ts) THEN q[i].kind \in Empty
                      ELSE i # p => q[i] = Joined(ts, i)
    BY DEF Settled
  <2>1. i = p \/ i \in 1..(p - 1)
    BY <1>1
  <2>2. i \in 1..(p - 1) => i # 0
    OBVIOUS
  <2> QED  BY <1>3, <1>4, <2>1, <2>2 DEF Settled
<1>6. ts[p].kind = "string" => q[p].text \o Following(ts)[p + 1] = Joined(ts, p).text
  <2> DEFINE s == ts[p].text \o Following(ts)[p + 1]
  <2>1. ts[p] \in PPToken
    BY TokenIsPP
  <2>2. ts[p].kind = "string" => Joined(ts, p) = [ts[p] EXCEPT !.text = s]
    BY DEF Joined
  <2>3. [ts[p] EXCEPT !.text = s] = [kind |-> ts[p].kind, text |-> s, line |-> ts[p].line]
    BY <2>1, TokenChanged
  <2> HIDE DEF s
  <2>4. ts[p].kind = "string" => Joined(ts, p).text = s
    BY <2>2, <2>3
  <2> QED  BY <1>1, <2>4 DEF s
<1>7. Behind(ts, q, p + 1, p)
  <2>1. p < p + 1 /\ (p + 1)..((p + 1) - 1) = {} /\ p \in p..((p + 1) - 1)
    BY <1>1
  <2> QED  BY <1>1, <1>3, <1>6, <2>1 DEF Behind
<1> QED  BY <1>5, <1>7

(* Behind the last token all places have what the parser gets of them.     *)
LEMMA PassEnds ==
  ASSUME NEW ts \in Seq(Token), NEW q \in Seq(PPToken), Len(q) = Len(ts),
         NEW l \in 0..Len(ts),
         Behind(ts, q, Len(ts) + 1, l), Settled(ts, q, Len(ts) + 1, l)
  PROVE  Settled(ts, q, Len(ts) + 1, 0)
<1> DEFINE p == Len(ts) + 1
<1>1. Len(ts) \in Nat /\ p \in 1..(Len(ts) + 1) /\ p > Len(ts)
      /\ (l # 0 => l \in 1..(p - 1)) /\ p - 1 = Len(ts)
  OBVIOUS
<1>2. l # 0 => q[l] = Joined(ts, l)
  <2> HIDE DEF p
  <2>1. p = Len(ts) + 1
    BY DEF p
  <2> QED  BY <1>1, <2>1, LastIsJoined
<1> QED  BY <1>2 DEF Settled

(* The second pass gives one token for each start.                         *)
LEMMA BeforeFinite ==
  ASSUME NEW ts \in Seq(Token), NEW p \in Nat
  PROVE  IsFiniteSet(Before(ts, p)) /\ Cardinality(Before(ts, p)) \in Nat
<1>1. Before(ts, p) \in SUBSET (1..Len(ts)) /\ Len(ts) \in Int
  BY DEF Before, Starts
<1>2. IsFiniteSet(1..Len(ts))
  BY <1>1, FS_Interval
<1> QED  BY <1>1, <1>2, FS_Subset, FS_CardinalityType

LEMMA BeforeStep ==
  ASSUME NEW ts \in Seq(Token), NEW p \in 1..Len(ts)
  PROVE  Cardinality(Before(ts, p + 1)) =
           Cardinality(Before(ts, p)) + (IF p \in Starts(ts) THEN 1 ELSE 0)
<1>1. Before(ts, p + 1) = Before(ts, p) \cup (IF p \in Starts(ts) THEN {p} ELSE {})
  <2>1. \A i \in Starts(ts) : i \in Nat
    BY DEF Starts
  <2> QED  BY <2>1 DEF Before
<1>2. p \notin Before(ts, p)
  BY DEF Before
<1>3. IsFiniteSet(Before(ts, p)) /\ Cardinality(Before(ts, p)) \in Nat
  BY BeforeFinite
<1>4. Cardinality(Before(ts, p) \cup {p}) = Cardinality(Before(ts, p)) + 1
  BY <1>2, <1>3, FS_AddElement
<1>5. CASE p \in Starts(ts)
  BY <1>1, <1>4, <1>5
<1>6. CASE p \notin Starts(ts)
  <2>1. Before(ts, p + 1) = Before(ts, p)
    BY <1>1, <1>6
  <2> QED  BY <1>3, <1>6, <2>1
<1> QED  BY <1>5, <1>6

LEMMA BeforePlace ==
  ASSUME NEW ts \in Seq(Token), NEW p \in 1..(Len(ts) + 1), NEW i \in Before(ts, p)
  PROVE  Cardinality(Before(ts, i + 1)) \in 1..Cardinality(Before(ts, p))
<1>1. i \in Nat /\ i + 1 \in Nat /\ i < p /\ p \in Nat /\ i \in Starts(ts)
  BY DEF Before, Starts
<1>2. Before(ts, i + 1) \subseteq Before(ts, p) /\ i \in Before(ts, i + 1)
  <2>1. \A j \in Starts(ts) : j \in Nat
    BY DEF Starts
  <2>2. ASSUME NEW j \in Starts(ts), j < i + 1  PROVE j < p
    BY <1>1, <2>1, <2>2
  <2>3. Before(ts, i + 1) \subseteq Before(ts, p)
    BY <2>2 DEF Before
  <2>4. i < i + 1
    BY <1>1
  <2> QED  BY <1>1, <2>3, <2>4 DEF Before
<1>3. IsFiniteSet(Before(ts, p)) /\ IsFiniteSet(Before(ts, i + 1))
      /\ Cardinality(Before(ts, p)) \in Nat /\ Cardinality(Before(ts, i + 1)) \in Nat
  BY <1>1, BeforeFinite
<1>4. Cardinality(Before(ts, i + 1)) <= Cardinality(Before(ts, p))
  BY <1>2, <1>3, FS_Subset
<1>5. Cardinality(Before(ts, i + 1)) # 0
  BY <1>2, <1>3, FS_EmptySet
<1> QED  BY <1>3, <1>4, <1>5

LEMMA GivenStep ==
  ASSUME NEW ts \in Seq(Token), NEW q, NEW S, NEW o \in Seq(S), NEW p \in 1..Len(ts),
         Settled(ts, q, Len(ts) + 1, 0), Given(ts, o, p)
  PROVE  IF q[p].kind \in Empty THEN Given(ts, o, p + 1)
         ELSE Given(ts, Append(o, converted(q[p])), p + 1)
<1>1. Len(ts) \in Nat /\ p \in 1..(Len(ts) + 1) /\ p # 0 /\ p \in 1..((Len(ts) + 1) - 1) /\ p \in Nat
  OBVIOUS
<1>2. p \in Starts(ts) => q[p] = Joined(ts, p) /\ q[p].kind \notin Empty
  <2>1. ASSUME p \in Starts(ts)  PROVE q[p] = Joined(ts, p)
    BY <1>1, <2>1 DEF Settled
  <2>2. ts[p] \in PPToken
    BY TokenIsPP
  <2>3. Joined(ts, p).kind = ts[p].kind
    BY <2>2, TokenChanged DEF Joined
  <2>4. p \in Starts(ts) => ts[p].kind \notin Empty
    BY DEF Starts
  <2> QED  BY <2>1, <2>3, <2>4
<1>3. p \notin Starts(ts) => q[p].kind \in Empty
  BY <1>1 DEF Settled
<1>4. Before(ts, p + 1) = Before(ts, p) \cup (IF p \in Starts(ts) THEN {p} ELSE {})
  <2>1. \A i \in Starts(ts) : i \in Nat
    BY DEF Starts
  <2> QED  BY <2>1 DEF Before
<1>5. /\ Len(o) = Cardinality(Before(ts, p))
      /\ \A i \in Before(ts, p) : o[Cardinality(Before(ts, i + 1))] = converted(Joined(ts, i))
  BY DEF Given
<1>6. CASE p \notin Starts(ts)
  <2>1. Before(ts, p + 1) = Before(ts, p)
    BY <1>4, <1>6
  <2> QED  BY <1>3, <1>5, <1>6, <2>1 DEF Given
<1>7. CASE p \in Starts(ts)
  <2> DEFINE x == converted(q[p])
             e == Append(o, x)
  <2>1. x = converted(Joined(ts, p)) /\ q[p].kind \notin Empty
    BY <1>2, <1>7
  <2>2. Len(e) = Len(o) + 1 /\ e[Len(o) + 1] = x /\ \A k \in 1..Len(o) : e[k] = o[k]
    <3> HIDE DEF x
    <3> QED  OBVIOUS
  <2> HIDE DEF e, x
  <2>3. Cardinality(Before(ts, p + 1)) = Len(o) + 1
    BY <1>5, <1>7, BeforeStep
  <2>4. \A i \in Before(ts, p) : e[Cardinality(Before(ts, i + 1))] = converted(Joined(ts, i))
    BY <1>1, <1>5, <2>2, BeforePlace
  <2>5. e[Cardinality(Before(ts, p + 1))] = converted(Joined(ts, p))
    BY <2>1, <2>2, <2>3
  <2>6. Given(ts, e, p + 1)
    BY <1>4, <1>7, <2>2, <2>3, <2>4, <2>5 DEF Given
  <2> QED  BY <2>1, <2>6 DEF e, x
<1> QED  BY <1>6, <1>7
----------------------------------------------------------------------------
LEMMA JInvInit ==
  ASSUME PipelineInit
  PROVE  JInv
BY PInvInit DEF PipelineInit, JInv

LEMMA JInvKeeps ==
  ASSUME JInv, [PipelineNext]_<<tvars, pvars>>
  PROVE  JInv'
<1>1. PInv'
  BY PipelineKeeps DEF JInv
<1>2. tokens \in Seq(Token) /\ Len(tokens) \in Nat
  BY DEF JInv, PInv, TInv
<1>3. ASSUME UNCHANGED tvars  PROVE tokens' = tokens
  BY <1>3 DEF tvars
<1>4. CASE Tokenize
  BY <1>1, <1>4 DEF Tokenize, pvars, JInv
<1>5. CASE Preprocessed
  <2>1. /\ tokens' = tokens /\ phase' = "concat" /\ pp' = tokens /\ pos' = 1 /\ last' = 0
    BY <1>5 DEF Preprocessed, JInv, PInv, tvars
  <2>2. Behind(tokens, tokens, 1, 0) /\ Settled(tokens, tokens, 1, 0)
    BY DEF Behind, Settled
  <2> QED  BY <1>1, <2>1, <2>2 DEF JInv
<1>6. ASSUME phase # "tokenize"
      PROVE  /\ pp \in Seq(PPToken) /\ Len(pp) = Len(tokens)
             /\ pos \in 1..(Len(tokens) + 1) /\ last \in 0..Len(tokens)
             /\ phase = "concat" => last \in 0..(pos - 1)
  <2>1. PToken(Plain \cup {"removed"}) \subseteq PPToken
    BY DEF PToken, PPToken, Plain
  <2>2. pp \in Seq(PToken(Plain \cup {"removed"}))
    BY DEF JInv, PInv
  <2>3. pp \in Seq(PPToken)
    BY <2>1, <2>2, SeqWidens
  <2> QED  BY <1>2, <1>6, <2>3 DEF JInv, PInv
<1>7. CASE Concat
  <2>1. /\ tokens' = tokens /\ phase = "concat" /\ phase' = "concat" /\ pos' = pos + 1
        /\ pos \in 1..Len(tokens) /\ last \in 0..(pos - 1)
        /\ pp \in Seq(PPToken) /\ Len(pp) = Len(tokens)
        /\ Behind(tokens, pp, pos, last) /\ Settled(tokens, pp, pos, last)
        /\ \A i \in pos..Len(tokens) : pp[i] = tokens[i]
    BY <1>2, <1>6, <1>7 DEF Concat, JInv, tvars
  <2>2. pp[pos] = tokens[pos] /\ \A i \in (pos + 1)..Len(tokens) : i \in pos..Len(tokens)
    BY <1>2, <2>1
  <2>3. CASE pp[pos].kind \in Empty
    <3>1. pp' = pp /\ last' = last
      BY <1>7, <2>3 DEF Concat
    <3>2. Behind(tokens, pp, pos + 1, last) /\ Settled(tokens, pp, pos + 1, last)
      BY <1>2, <2>1, <2>2, <2>3, PassesBlank
    <3> QED  BY <1>1, <2>1, <2>2, <3>1, <3>2 DEF JInv
  <2>4. CASE pp[pos].kind \notin Empty /\ pp[pos].kind = "string" /\ last # 0 /\ pp[last].kind = "string"
    <3>1. /\ pp' = [pp EXCEPT ![last].text = @ \o pp[pos].text, ![pos].kind = "removed"]
          /\ last' = last
      BY <1>7, <2>4 DEF Concat, last_nonempty_token_pos
    <3>2. last \in 1..(pos - 1)
      BY <2>1, <2>4
    <3>3. /\ Behind(tokens, pp', pos + 1, last) /\ Settled(tokens, pp', pos + 1, last)
          /\ \A i \in (pos + 1)..Len(tokens) : pp'[i] = tokens[i]
      <4>1. tokens[pos].kind = "string" /\ pp[last].kind = "string"
        BY <2>2, <2>4
      <4>2. \A r : r = [pp EXCEPT ![last].text = @ \o pp[pos].text, ![pos].kind = "removed"] =>
              /\ Behind(tokens, r, pos + 1, last) /\ Settled(tokens, r, pos + 1, last)
              /\ \A i \in (pos + 1)..Len(tokens) : r[i] = tokens[i]
        BY <1>2, <2>1, <3>2, <4>1, JoinsLiteral
      <4> QED  BY <3>1, <4>2
    <3>4. Len(pp') = Len(pp)
      BY <2>1, <3>1
    <3> QED  BY <1>1, <2>1, <2>2, <3>1, <3>3, <3>4 DEF JInv
  <2>5. CASE /\ pp[pos].kind \notin Empty
             /\ ~(pp[pos].kind = "string" /\ last # 0 /\ pp[last].kind = "string")
    <3>1. pp' = pp /\ last' = pos
      BY <1>7, <2>5 DEF Concat, last_nonempty_token_pos
    <3>2. Behind(tokens, pp, pos + 1, pos) /\ Settled(tokens, pp, pos + 1, pos)
      BY <1>2, <2>1, <2>2, <2>5, StartsAnew
    <3> QED  BY <1>1, <2>1, <2>2, <3>1, <3>2 DEF JInv
  <2> QED  BY <2>3, <2>4, <2>5
<1>8. CASE Concatenated
  <2>1. /\ tokens' = tokens /\ phase = "concat" /\ phase' = "convert" /\ pos' = 1 /\ pp' = pp
        /\ out' = <<>> /\ pos = Len(tokens) + 1
        /\ Behind(tokens, pp, pos, last) /\ Settled(tokens, pp, pos, last)
    BY <1>2, <1>6, <1>8 DEF Concatenated, JInv, PInv, tvars
  <2>2. Settled(tokens, pp, Len(tokens) + 1, 0)
    BY <1>2, <1>6, <2>1, PassEnds
  <2>3. Given(tokens, <<>>, 1)
    <3>1. Before(tokens, 1) = {}
      <4>1. \A i \in Starts(tokens) : i \in 1..Len(tokens)
        BY <1>2 DEF Starts
      <4> QED  BY <1>2, <4>1 DEF Before
    <3> QED  BY <3>1, FS_EmptySet DEF Given
  <2> QED  BY <1>1, <1>6, <2>1, <2>2, <2>3 DEF JInv
<1>9. CASE Convert
  <2>1. /\ tokens' = tokens /\ phase = "convert" /\ phase' \in {"convert", "unreachable"}
        /\ pos' = pos + 1 /\ pp' = pp /\ pos \in 1..Len(tokens)
        /\ out \in Seq(OutToken) /\ Len(pp) = Len(tokens)
        /\ Settled(tokens, pp, Len(tokens) + 1, 0) /\ Given(tokens, out, pos)
    BY <1>2, <1>6, <1>9 DEF Convert, JInv, PInv, tvars
  <2>2. IF pp[pos].kind \in Empty THEN Given(tokens, out, pos + 1)
        ELSE Given(tokens, Append(out, converted(pp[pos])), pos + 1)
    BY <1>2, <2>1, GivenStep
  <2>3. phase' = "convert" => Given(tokens, out', pos + 1)
    BY <1>9, <2>2 DEF Convert
  <2> QED  BY <1>1, <2>1, <2>3 DEF JInv
<1>10. CASE Converted
  <2>1. /\ tokens' = tokens /\ phase = "convert" /\ phase' = "parse" /\ pos' = pos /\ pp' = pp
        /\ out' = out /\ pos = Len(tokens) + 1
    BY <1>2, <1>6, <1>10 DEF Converted, JInv, tvars
  <2> QED  BY <1>1, <2>1 DEF JInv
<1>11. CASE UNCHANGED <<tvars, pvars>>
  BY <1>1, <1>3, <1>11 DEF JInv, pvars
<1> QED
  BY <1>4, <1>5, <1>7, <1>8, <1>9, <1>10, <1>11 DEF PipelineNext

(* Whatever the text, the parser gets each run of string literals as one,  *)
(* with their texts in order, and every other token that is not white      *)
(* space once: what the two passes of main make of the tokens.             *)
THEOREM LiteralsJoined == PipelineSpec => []AdjacentLiteralsJoined
<1>1. PipelineInit => JInv
  BY JInvInit
<1>2. JInv /\ [PipelineNext]_<<tvars, pvars>> => JInv'
  BY JInvKeeps
<1>3. JInv => AdjacentLiteralsJoined
  <2> SUFFICES ASSUME JInv, phase = "parse"
               PROVE  /\ Len(out) = Cardinality(Starts(tokens))
                      /\ \A i \in Starts(tokens) :
                           out[Cardinality({j \in Starts(tokens) : j <= i})]
                             = converted(Joined(tokens, i))
    BY DEF AdjacentLiteralsJoined
  <2>1. Given(tokens, out, Len(tokens) + 1)
    BY DEF JInv
  <2>2. \A i \in Starts(tokens) : i \in 1..Len(tokens)
    BY DEF JInv, PInv, TInv, Starts
  <2>3. Before(tokens, Len(tokens) + 1) = Starts(tokens)
    BY <2>2 DEF Before
  <2>4. \A i \in Starts(tokens) : Before(tokens, i + 1) = {j \in Starts(tokens) : j <= i}
    BY <2>2 DEF Before
  <2> QED  BY <2>1, <2>3, <2>4 DEF Given
<1> QED  BY <1>1, <1>2, <1>3, PTL DEF PipelineSpec
=============================================================================
