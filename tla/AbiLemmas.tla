----------------------------- MODULE AbiLemmas -----------------------------
(***************************************************************************)
(* Facts that the proofs of the project cite: about the arithmetic of Abi, *)
(* the first and the last of a set of positions, and loops that are        *)
(* written as functions of the number of their turns.                      *)
(***************************************************************************)
EXTENDS Abi, TLAPS
LOCAL INSTANCE WellFoundedInduction

(* to_aligned (ast.c) rounds up: to a multiple of the alignment, not below *)
(* its argument and by less than one alignment.                            *)
THEOREM ToAligned ==
  ASSUME NEW n \in Int, NEW a \in Alignments
  PROVE  /\ to_aligned(n, a) \in Int
         /\ n <= to_aligned(n, a)
         /\ to_aligned(n, a) < n + a
         /\ to_aligned(n, a) % a = 0
<1>1. CASE a = 1  BY <1>1 DEF to_aligned
<1>2. CASE a = 2  BY <1>2 DEF to_aligned
<1>3. CASE a = 4  BY <1>3 DEF to_aligned
<1>4. CASE a = 8  BY <1>4 DEF to_aligned
<1> QED  BY <1>1, <1>2, <1>3, <1>4 DEF Alignments

(* A multiple of the word is a multiple of every alignment.                *)
LEMMA WordMultiple ==
  ASSUME NEW n \in Int, NEW a \in Alignments, n % Word = 0
  PROVE  n % a = 0
BY DEF Alignments, Word

(* The first of a set of naturals: what a scan from the front stops at.    *)
LEMMA FirstExists ==
  ASSUME NEW T, T \subseteq Nat, T # {}
  PROVE  \E i \in T : \A j \in T : i <= j
<1> DEFINE R == {ss \in Nat \X Nat : ss[1] < ss[2]}
<1>1. R = OpToRel(<, Nat)
  BY Zenon DEF OpToRel
<1>2. IsWellFoundedOn(R, Nat)
  BY <1>1, NatLessThanWellFounded
<1>3. PICK i \in T : \A j \in T : ~ (<<j, i>> \in R)
  BY <1>2, WFMin
<1>4. ASSUME NEW j \in T  PROVE i <= j
  <2>1. i \in Nat /\ j \in Nat  OBVIOUS
  <2>2. ASSUME j < i  PROVE FALSE
    <3>1. <<j, i>> \in R  BY <2>1, <2>2
    <3> QED  BY <3>1, <1>3
  <2> QED  BY <2>1, <2>2
<1> QED  BY <1>4

(* The last of a set of naturals that has an upper bound: what a scan from *)
(* the back stops at.                                                      *)
LEMMA LastExists ==
  ASSUME NEW n \in Nat, NEW T, T \subseteq 0..n, T # {}
  PROVE  \E i \in T : \A j \in T : j <= i
<1> DEFINE back == {k \in Nat : n - k \in T}
<1>1. back # {}
  <2>1. PICK t \in T : TRUE  OBVIOUS
  <2>2. n - t \in Nat /\ n - (n - t) = t  BY <2>1
  <2> QED  BY <2>1, <2>2
<1>2. PICK k \in back : \A j \in back : k <= j
  BY <1>1, FirstExists
<1>3. ASSUME NEW j \in T  PROVE j <= n - k
  <2>1. n - j \in Nat /\ n - (n - j) = j  OBVIOUS
  <2>2. k <= n - j  BY <1>2, <2>1
  <2> QED  BY <2>1, <2>2
<1> QED  BY <1>2, <1>3
----------------------------------------------------------------------------
(* A loop as a function of the number of its turns: there is one, and what *)
(* every turn keeps holds behind the last.                                 *)
LEMMA TurnsStay ==
  ASSUME NEW D, NEW n \in Nat, NEW after, after[0] \in D,
         \A k \in 1..n : after[k - 1] \in D => after[k] \in D
  PROVE  \A k \in 0..n : after[k] \in D
<1> DEFINE lost == {k \in 0..n : after[k] \notin D}
<1>1. ASSUME lost # {}  PROVE FALSE
  <2>1. PICK k \in lost : \A j \in lost : k <= j
    <3>1. lost \subseteq Nat
      OBVIOUS
    <3> HIDE DEF lost
    <3> QED  BY <1>1, <3>1, FirstExists
  <2>2. k \in 1..n /\ k - 1 \in 0..n /\ ~(k <= k - 1)
    OBVIOUS
  <2>3. k - 1 \notin lost
    BY <2>1, <2>2
  <2> QED  BY <2>1, <2>2, <2>3
<1> QED  BY <1>1

(* There is one also when a turn depends on its number.                    *)
NumberedTurnsOf(after, next, s, n) ==
  after = [k \in 0..n |-> IF k = 0 THEN s ELSE next[k][after[k - 1]]]

LEMMA NumberedTurnsExist ==
  ASSUME NEW D, NEW next, NEW s \in D, NEW n \in Nat,
         \A k \in 1..n : \A t \in D : next[k][t] \in D
  PROVE  \E after : NumberedTurnsOf(after, next, s, n) /\ \A k \in 0..n : after[k] \in D
<1> DEFINE Is(a, m) == a = [k \in 0..m |-> IF k = 0 THEN s ELSE next[k][a[k - 1]]]
           without == {m \in Nat : ~ \E a : Is(a, m)}
<1>1. \E a : Is(a, 0)
  <2> DEFINE a == [k \in 0..0 |-> s]
  <2>1. \A k \in 0..0 : k = 0
    OBVIOUS
  <2>2. Is(a, 0)
    BY <2>1
  <2> QED  BY <2>2
<1>2. ASSUME NEW m \in Nat, NEW a, Is(a, m)  PROVE \E e : Is(e, m + 1)
  <2> DEFINE e == [k \in 0..(m + 1) |-> IF k <= m THEN a[k] ELSE next[m + 1][a[m]]]
  <2>1. ASSUME NEW k \in 0..(m + 1)
        PROVE  e[k] = IF k = 0 THEN s ELSE next[k][e[k - 1]]
    <3>1. CASE k = 0
      <4>1. 0 \in 0..m /\ e[0] = a[0]
        BY <3>1
      <4>2. a[0] = s
        BY <1>2, <4>1
      <4> QED  BY <3>1, <4>1, <4>2
    <3>2. CASE k \in 1..m
      <4>1. k \in 0..m /\ k - 1 \in 0..(m + 1) /\ k - 1 <= m /\ k <= m /\ k # 0
        BY <3>2
      <4>2. e[k] = a[k] /\ e[k - 1] = a[k - 1]
        BY <4>1
      <4>3. a[k] = next[k][a[k - 1]]
        BY <1>2, <4>1
      <4> QED  BY <4>1, <4>2, <4>3
    <3>3. CASE k = m + 1
      <4>1. m \in 0..(m + 1) /\ (m + 1) - 1 = m /\ ~(m + 1 <= m) /\ m + 1 # 0
        OBVIOUS
      <4>2. e[m] = a[m] /\ e[k] = next[m + 1][a[m]]
        BY <3>3, <4>1
      <4> QED  BY <3>3, <4>1, <4>2
    <3> QED  BY <3>1, <3>2, <3>3
  <2>2. Is(e, m + 1)
    <3> DEFINE u(k) == e[k]
    <3>1. e = [k \in 0..(m + 1) |-> u(k)]
      OBVIOUS
    <3>2. \A k \in 0..(m + 1) : u(k) = IF k = 0 THEN s ELSE next[k][e[k - 1]]
      BY <2>1
    <3> HIDE DEF e
    <3> QED  BY <3>1, <3>2
  <2> QED  BY <2>2
<1>3. ASSUME without # {}  PROVE FALSE
  <2>1. PICK m \in without : \A j \in without : m <= j
    <3>1. without \subseteq Nat
      OBVIOUS
    <3> HIDE DEF without
    <3> QED  BY <1>3, <3>1, FirstExists
  <2>2. m # 0 /\ m \in Nat
    BY <1>1
  <2>3. m - 1 \in Nat /\ ~(m <= m - 1) /\ (m - 1) + 1 = m
    BY <2>2
  <2>4. m - 1 \notin without
    <3> HIDE DEF without
    <3> QED  BY <2>1, <2>3
  <2>5. \E a : Is(a, (m - 1) + 1)
    <3>1. PICK a : Is(a, m - 1)
      BY <2>3, <2>4
    <3> HIDE DEF Is
    <3> QED  BY <1>2, <2>3, <3>1
  <2> QED  BY <2>1, <2>3, <2>5
<1>4. PICK a : Is(a, n)
  BY <1>3
<1>5. \A k \in 0..n : a[k] \in D
  <2>1. a[0] = s
    BY <1>4
  <2>2. \A k \in 1..n : k \in 0..n /\ k # 0
    OBVIOUS
  <2>3. \A k \in 1..n : a[k] = next[k][a[k - 1]]
    BY <1>4, <2>2
  <2> HIDE DEF Is
  <2> QED  BY <2>1, <2>3, TurnsStay
<1> QED  BY <1>4, <1>5 DEF NumberedTurnsOf

TurnsOf(after, next, s, n) ==
  after = [k \in 0..n |-> IF k = 0 THEN s ELSE next[after[k - 1]]]

LEMMA TurnsExist ==
  ASSUME NEW D, NEW next, NEW s \in D, \A t \in D : next[t] \in D, NEW n \in Nat
  PROVE  \E after : TurnsOf(after, next, s, n) /\ \A k \in 0..n : after[k] \in D
<1> DEFINE each == [k \in 1..n |-> next]
<1>1. \A k \in 0..n : k # 0 => k \in 1..n
  OBVIOUS
<1>2. \A k \in 1..n : each[k] = next
  OBVIOUS
<1>3. PICK after : NumberedTurnsOf(after, each, s, n) /\ \A k \in 0..n : after[k] \in D
  <2>1. \A k \in 1..n : \A t \in D : each[k][t] \in D
    BY <1>2
  <2> HIDE DEF each
  <2> QED  BY <2>1, NumberedTurnsExist
<1>4. after = [k \in 0..n |-> IF k = 0 THEN s ELSE next[after[k - 1]]]
  <2> HIDE DEF each
  <2> QED  BY <1>1, <1>2, <1>3 DEF NumberedTurnsOf
<1> QED  BY <1>3, <1>4 DEF TurnsOf
=============================================================================
