------------------------- MODULE Conditionals_proofs -------------------------
(***************************************************************************)
(* Proofs about Conditionals, for any names and files of any length: the   *)
(* recursion over the lines and the counting in skipped groups agree with  *)
(* what the rules of CondReference say of the whole file.                  *)
(***************************************************************************)
EXTENDS Conditionals, AbiLemmas, FiniteSetTheorems, SequenceTheorems

(* Where the next line will be. *)
Behind(L) == Len(L) + 1

(* The depth never falls below zero, and is above that of the sections     *)
(* that a line is in.                                                      *)
Depths(L) ==
  \A i \in 1..Behind(L) :
    /\ Depth(L, i) >= 0
    /\ \A o \in Enclosing(L, i) : Depth(L, o) < Depth(L, i)

(* Line o opened the section at place k of the recursion: it is part of    *)
(* the program, its section is not over, and its depth is that place.      *)
Opens(L, T, o, k) ==
  /\ o \in DOMAIN L /\ L[o].kind = "if"
  /\ Live(L, T, o)
  /\ ~Closed(L, o, Behind(L))
  /\ Depth(L, o) = k - 1

(* What the code remembers of a section is true of the section's lines.    *)
Knows(L, T, s, o) ==
  LET groups == Branches(L, o, Behind(L)) IN
  /\ s.did_include <=> \E b \in groups : L[b].kind # "else" /\ T[b]
  /\ s.include <=> InTakenGroup(L, T, o, Behind(L))
  /\ s.delimiter = "after_if" => \A b \in groups : L[b].kind # "else"
  /\ s.delimiter = "after_else" => /\ \E b \in groups : L[b].kind = "else"
                                   /\ s.include <=> ~s.did_include

(* Every section in progress but the innermost is in a group that is       *)
(* included, and only a group that is passed over counts sections in it.   *)
Shape(secs) ==
  /\ secs[1] = Group("normal", TRUE, FALSE)
  /\ \A k \in 2..Len(secs) : secs[k].delimiter # "normal"
  /\ \A k \in 1..Len(secs) - 1 : secs[k].include
  /\ \A k \in 1..Len(secs) : secs[k].nesting # 0 => ~secs[k].include

(* The sections in progress are those that the file leaves open: the       *)
(* recursion holds one for each, and the count stands for those that begin *)
(* in a group that is passed over.                                         *)
Nested(L, T, secs) ==
  /\ Shape(secs)
  /\ Depths(L)
  /\ Depth(L, Behind(L)) = Len(secs) - 1 + secs[Len(secs)].nesting
  /\ \E open \in [1..Len(secs) - 1 -> DOMAIN L] :
       \A k \in 1..Len(secs) - 1 : Opens(L, T, open[k], k) /\ Knows(L, T, secs[k + 1], open[k])
  /\ NoStray(L)

(* The inductive invariant.  When a directive was not expected, the code   *)
(* has stopped, and RejectsUnbalanced says enough.                         *)
IInv ==
  /\ TypeOK
  /\ status # "unexpected" => Nested(lines, truth, sections)
  /\ KeptIsLive
  /\ RejectsUnbalanced
----------------------------------------------------------------------------
(* The rules of CondReference look only at the lines before the one they   *)
(* are asked about: another line behind them changes nothing.              *)
LEMMA OfAppend ==
  ASSUME NEW S, NEW L \in Seq(S), NEW l \in S, NEW k, NEW A \in SUBSET (1..Len(L))
  PROVE  Of(Append(L, l), k, A) = Of(L, k, A)
<1>1. \A j \in A : Append(L, l)[j] = L[j]
  OBVIOUS
<1> QED  BY <1>1 DEF Of

(* The depth at a line is an integer.                                      *)
LEMMA DepthType ==
  ASSUME NEW S, NEW L \in Seq(S), NEW i \in Nat
  PROVE  Depth(L, i) \in Int
<1>1. IsFiniteSet(1..(i - 1))
  BY FS_Interval
<1>2. \A k : Of(L, k, 1..(i - 1)) \subseteq 1..(i - 1)
  BY DEF Of
<1>3. \A k : IsFiniteSet(Of(L, k, 1..(i - 1)))
  BY <1>1, <1>2, FS_Subset
<1>4. \A k : Cardinality(Of(L, k, 1..(i - 1))) \in Nat
  BY <1>3, FS_CardinalityType
<1> QED  BY <1>4 DEF Depth

(* The depth at a line does not depend on the lines from it on.            *)
LEMMA DepthAppend ==
  ASSUME NEW S, NEW L \in Seq(S), NEW l \in S, NEW i \in 1..Len(L) + 1
  PROVE  Depth(Append(L, l), i) = Depth(L, i)
<1>1. 1..(i - 1) \subseteq 1..Len(L)
  OBVIOUS
<1> QED  BY <1>1, OfAppend DEF Depth

(* A line counts when it begins or ends a section.                         *)
LEMMA DepthStep ==
  ASSUME NEW S, NEW L \in Seq(S), NEW i \in 1..Len(L)
  PROVE  Depth(L, i + 1) = Depth(L, i) + nesting_change(L[i].kind)
<1> DEFINE A == 1..(i - 1)
           B == 1..(i + 1 - 1)
           C(k, Z) == Cardinality(Of(L, k, Z))
<1>1. B = A \cup {i} /\ i \notin A
  OBVIOUS
<1>2. IsFiniteSet(A)
  BY FS_Interval
<1>3. ASSUME NEW k
      PROVE  /\ C(k, A) \in Nat
             /\ C(k, B) = IF L[i].kind = k THEN C(k, A) + 1 ELSE C(k, A)
  <2>1. Of(L, k, A) \subseteq A /\ i \notin Of(L, k, A)
    BY <1>1 DEF Of
  <2>2. IsFiniteSet(Of(L, k, A))
    BY <2>1, <1>2, FS_Subset
  <2>3. C(k, A) \in Nat
    BY <2>2, FS_CardinalityType
  <2>4. CASE L[i].kind = k
    <3>1. Of(L, k, B) = Of(L, k, A) \cup {i}
      BY <1>1, <2>4 DEF Of
    <3> QED  BY <3>1, <2>1, <2>2, <2>3, <2>4, FS_AddElement
  <2>5. CASE L[i].kind # k
    <3>1. Of(L, k, B) = Of(L, k, A)
      BY <1>1, <2>5 DEF Of
    <3> QED  BY <3>1, <2>3, <2>5
  <2> QED  BY <2>3, <2>4, <2>5
<1>4. Depth(L, i) = C("if", A) - C("endif", A) /\ Depth(L, i + 1) = C("if", B) - C("endif", B)
  BY DEF Depth
<1> HIDE DEF C
<1> QED  BY <1>3, <1>4 DEF nesting_change

(* Whether a section is over before a line does not depend on the lines    *)
(* from that line on.                                                      *)
LEMMA ClosedAppend ==
  ASSUME NEW S, NEW L \in Seq(S), NEW l \in S, NEW o \in 1..Len(L), NEW i \in 1..Len(L) + 1
  PROVE  Closed(Append(L, l), o, i) <=> Closed(L, o, i)
<1>1. (o + 1)..(i - 1) \subseteq 1..Len(L)
  OBVIOUS
<1>2. Of(Append(L, l), "endif", (o + 1)..(i - 1)) = Of(L, "endif", (o + 1)..(i - 1))
  BY <1>1, OfAppend
<1>3. \A e \in Of(L, "endif", (o + 1)..(i - 1)) : Depth(Append(L, l), e) = Depth(L, e)
  BY <1>1, DepthAppend DEF Of
<1>4. Depth(Append(L, l), o) = Depth(L, o)
  BY DepthAppend
<1> QED  BY <1>2, <1>3, <1>4 DEF Closed

(* A section is over behind a line if it was over before it, or if the     *)
(* line is an #endif at the depth just above it.                           *)
LEMMA ClosedStep ==
  ASSUME NEW S, NEW L \in Seq(S), NEW o \in 1..Len(L), NEW i \in (o + 1)..Len(L)
  PROVE  Closed(L, o, i + 1) <=>
           Closed(L, o, i) \/ (L[i].kind = "endif" /\ Depth(L, i) = Depth(L, o) + 1)
<1>1. (o + 1)..(i + 1 - 1) = ((o + 1)..(i - 1)) \cup {i}
  OBVIOUS
<1> QED  BY <1>1 DEF Closed, Of

(* A section is not over on its own first line, nor one line behind it.    *)
LEMMA ClosedFirst ==
  ASSUME NEW L, NEW o \in Nat
  PROVE  ~Closed(L, o, o) /\ ~Closed(L, o, o + 1)
BY DEF Closed, Of

(* A section that is not over was not over before.                         *)
LEMMA ClosedGrows ==
  ASSUME NEW L, NEW o \in Nat, NEW i \in Nat, NEW j \in Nat, i <= j, Closed(L, o, i)
  PROVE  Closed(L, o, j)
<1>1. (o + 1)..(i - 1) \subseteq (o + 1)..(j - 1)
  OBVIOUS
<1> QED  BY <1>1 DEF Closed, Of

(* The groups a section has before a line do not depend on the lines from  *)
(* that line on.                                                           *)
LEMMA BranchesAppend ==
  ASSUME NEW S, NEW L \in Seq(S), NEW l \in S, NEW o \in 1..Len(L), NEW i \in 1..Len(L) + 1
  PROVE  Branches(Append(L, l), o, i) = Branches(L, o, i)
<1> DEFINE A == (o + 1)..(i - 1)
<1>1. A \subseteq 1..Len(L)
  OBVIOUS
<1>2. \A k : Of(Append(L, l), k, A) = Of(L, k, A)
  BY <1>1, OfAppend
<1>3. \A b \in A : /\ Depth(Append(L, l), b) = Depth(L, b)
                   /\ Closed(Append(L, l), o, b) <=> Closed(L, o, b)
  BY <1>1, DepthAppend, ClosedAppend
<1>4. Depth(Append(L, l), o) = Depth(L, o)
  BY DepthAppend
<1>5. \A k : Of(L, k, A) \subseteq A
  BY DEF Of
<1> HIDE DEF A
<1>6. ASSUME NEW LL, LL = Append(L, l)
      PROVE  {o} \cup {b \in Of(LL, "elif", A) \cup Of(LL, "else", A) :
                         Depth(LL, b) = Depth(LL, o) + 1 /\ ~Closed(LL, o, b)}
           = {o} \cup {b \in Of(L, "elif", A) \cup Of(L, "else", A) :
                         Depth(L, b) = Depth(L, o) + 1 /\ ~Closed(L, o, b)}
  BY <1>2, <1>3, <1>4, <1>5, <1>6
<1> QED  BY <1>6 DEF Branches, A

(* The lines that begin the groups of a section are lines of the file,     *)
(* and come before the line that asks.                                     *)
LEMMA BranchesType ==
  ASSUME NEW S, NEW L \in Seq(S), NEW o \in 1..Len(L), NEW i \in 1..Len(L) + 1
  PROVE  /\ Branches(L, o, i) \subseteq {o} \cup 1..(i - 1)
         /\ o \in Branches(L, o, i)
BY DEF Branches, Of

(* Behind a line, a section has one more group exactly if it is not over   *)
(* there, and the line is an #elif or #else just above its depth.          *)
LEMMA BranchesStep ==
  ASSUME NEW S, NEW L \in Seq(S), NEW o \in 1..Len(L), NEW i \in (o + 1)..Len(L)
  PROVE  Branches(L, o, i + 1) =
           IF L[i].kind \in {"elif", "else"} /\ Depth(L, i) = Depth(L, o) + 1 /\ ~Closed(L, o, i)
           THEN Branches(L, o, i) \cup {i} ELSE Branches(L, o, i)
<1>1. (o + 1)..(i + 1 - 1) = ((o + 1)..(i - 1)) \cup {i}
  OBVIOUS
<1> QED  BY <1>1 DEF Branches, Of

(* The sections that a line is in do not depend on the lines from it on.   *)
LEMMA EnclosingAppend ==
  ASSUME NEW S, NEW L \in Seq(S), NEW l \in S, NEW i \in 1..Len(L) + 1
  PROVE  /\ Enclosing(Append(L, l), i) = Enclosing(L, i)
         /\ Enclosing(L, i) \subseteq 1..Len(L)
<1>1. 1..(i - 1) \subseteq 1..Len(L)
  OBVIOUS
<1>2. Of(Append(L, l), "if", 1..(i - 1)) = Of(L, "if", 1..(i - 1))
  BY <1>1, OfAppend
<1>3. \A o \in 1..(i - 1) : Closed(Append(L, l), o, i) <=> Closed(L, o, i)
  BY <1>1, ClosedAppend
<1>4. Of(L, "if", 1..(i - 1)) \subseteq 1..(i - 1)
  BY DEF Of
<1> QED  BY <1>1, <1>2, <1>3, <1>4 DEF Enclosing

(* Whether a group is taken does not depend on the lines behind the one    *)
(* that asks.                                                              *)
LEMMA TakenAppend ==
  ASSUME NEW S, NEW L \in Seq(S), NEW l \in S, NEW o \in 1..Len(L), NEW i \in 1..Len(L) + 1,
         NEW T \in Seq(BOOLEAN), Len(T) = Len(L), NEW t \in BOOLEAN
  PROVE  InTakenGroup(Append(L, l), Append(T, t), o, i) <=> InTakenGroup(L, T, o, i)
<1> DEFINE G == Branches(L, o, i)
           H(M, U) == {b \in G : M[b].kind = "else" \/ U[b]}
<1>1. G \subseteq 1..Len(L)
  BY BranchesType
<1>2. Branches(Append(L, l), o, i) = G
  BY BranchesAppend
<1>3. \A b \in 1..Len(L) : Append(L, l)[b] = L[b] /\ Append(T, t)[b] = T[b]
  OBVIOUS
<1>4. H(Append(L, l), Append(T, t)) = H(L, T)
  BY <1>1, <1>3
<1> QED  BY <1>2, <1>4 DEF InTakenGroup

(* Whether a line is part of the program does not depend on the lines      *)
(* behind it.                                                              *)
LEMMA LiveAppend ==
  ASSUME NEW S, NEW L \in Seq(S), NEW l \in S, NEW i \in 1..Len(L) + 1,
         NEW T \in Seq(BOOLEAN), Len(T) = Len(L), NEW t \in BOOLEAN
  PROVE  Live(Append(L, l), Append(T, t), i) <=> Live(L, T, i)
BY EnclosingAppend, TakenAppend DEF Live
----------------------------------------------------------------------------
(* The maximum of a set is its element above all others.                   *)
LEMMA MaxIs ==
  ASSUME NEW A, A \subseteq Nat, NEW x \in A, \A y \in A : y <= x
  PROVE  Max(A) = x
<1>1. \A y \in A : x >= y
  OBVIOUS
<1>2. PICK m \in A : m = Max(A) /\ \A y \in A : m >= y
  BY <1>1 DEF Max
<1> QED  BY <1>2

(* The minimum of a set is one of its elements.                            *)
LEMMA MinIs ==
  ASSUME NEW A, A \subseteq Nat, A # {}
  PROVE  Min(A) \in A /\ \A y \in A : Min(A) <= y
<1>1. PICK x \in A : \A y \in A : x <= y
  BY FirstExists
<1> QED  BY <1>1 DEF Min

(* A section whose condition was asked is in a group that is taken if the  *)
(* condition held; in a group behind others if it held and none before.    *)
LEMMA TakenFirst ==
  ASSUME NEW L, NEW T, NEW o \in Nat, NEW i, Branches(L, o, i) = {o}, L[o].kind = "if",
         T[o] \in BOOLEAN
  PROVE  InTakenGroup(L, T, o, i) <=> T[o]
<1> DEFINE holding == {b \in Branches(L, o, i) : L[b].kind = "else" \/ T[b]}
<1>1. Max({o}) = o
  BY MaxIs
<1>2. CASE T[o]
  <2>1. holding = {o}
    BY <1>2
  <2>2. Min(holding) = o
    BY <2>1, MinIs
  <2> QED  BY <1>1, <1>2, <2>1, <2>2 DEF InTakenGroup
<1>3. CASE ~T[o]
  <2>1. holding = {}
    BY <1>3
  <2> QED  BY <1>3, <2>1 DEF InTakenGroup
<1> QED  BY <1>2, <1>3

(* A group begun behind others is taken if its condition holds, or it has  *)
(* none, and none of theirs held.                                          *)
LEMMA TakenNext ==
  ASSUME NEW L, NEW T, NEW o, NEW i, NEW j, NEW n \in Nat,
         NEW G \in SUBSET Nat, \A b \in G : b < n, Branches(L, o, j) = G \cup {n}
  PROVE  InTakenGroup(L, T, o, j) <=> /\ L[n].kind = "else" \/ T[n]
                                      /\ \A b \in G : ~(L[b].kind = "else" \/ T[b])
<1> DEFINE holds(b)    == L[b].kind = "else" \/ T[b]
           holding == {b \in G \cup {n} : holds(b)}
<1>1. Max(G \cup {n}) = n
  <2>1. G \cup {n} \subseteq Nat /\ n \in G \cup {n} /\ \A b \in G \cup {n} : b <= n
    OBVIOUS
  <2> QED  BY <2>1, MaxIs
<1>2. InTakenGroup(L, T, o, j) <=> holding # {} /\ Min(holding) = n
  BY <1>1 DEF InTakenGroup
<1>3. ASSUME holding # {}
      PROVE  Min(holding) \in holding /\ \A b \in holding : Min(holding) <= b
  <2>1. holding \subseteq Nat
    OBVIOUS
  <2> HIDE DEF holding
  <2> QED  BY <1>3, <2>1, MinIs
<1>4. ASSUME holding # {}, Min(holding) = n
      PROVE  holds(n) /\ \A b \in G : ~holds(b)
  BY <1>3, <1>4
<1>5. ASSUME holds(n), \A b \in G : ~holds(b)
      PROVE  holding # {} /\ Min(holding) = n
  <2>1. holding = {n}
    BY <1>5
  <2> QED  BY <1>3, <2>1
<1> QED  BY <1>2, <1>4, <1>5

(* A line that adds no group leaves things as they are.                    *)
LEMMA TakenSame ==
  ASSUME NEW L, NEW T, NEW o, NEW i, NEW j, Branches(L, o, j) = Branches(L, o, i)
  PROVE  InTakenGroup(L, T, o, j) <=> InTakenGroup(L, T, o, i)
BY DEF InTakenGroup

(* Behind a line are the sections that the line was in, less the one that  *)
(* it ends, and the one that it begins.                                    *)
LEMMA EnclosingStep ==
  ASSUME NEW S, NEW L \in Seq(S), NEW i \in 1..Len(L)
  PROVE  Enclosing(L, i + 1) =
           {o \in Enclosing(L, i) : ~(L[i].kind = "endif" /\ Depth(L, i) = Depth(L, o) + 1)}
             \cup {o \in {i} : L[o].kind = "if"}
<1>1. 1..(i + 1 - 1) = 1..(i - 1) \cup {i}
  OBVIOUS
<1>2. \A o \in 1..(i - 1) : Closed(L, o, i + 1) <=>
        Closed(L, o, i) \/ (L[i].kind = "endif" /\ Depth(L, i) = Depth(L, o) + 1)
  BY ClosedStep
<1>3. ~Closed(L, i, i + 1)
  <2>1. i \in Nat
    OBVIOUS
  <2> QED  BY <2>1, ClosedFirst
<1> QED  BY <1>1, <1>2, <1>3 DEF Enclosing, Of
----------------------------------------------------------------------------
(* One more line is read.                                                  *)
LEMMA DepthsNext ==
  ASSUME NEW S, NEW L \in Seq(S), NEW l \in S, Depths(L),
         Depth(L, Behind(L)) + nesting_change(l.kind) >= 0
  PROVE  Depths(Append(L, l))
<1> DEFINE M == Append(L, l)
           n == Len(L) + 1
<1>1. M \in Seq(S) /\ Len(M) = n /\ M[n] = l /\ n \in Nat /\ n \in 1..Len(M)
  OBVIOUS
<1>2. \A i \in 1..n : Depth(M, i) = Depth(L, i) /\ Depth(L, i) \in Int
  BY DepthAppend, DepthType
<1>3. \A i \in 1..n : Enclosing(M, i) = Enclosing(L, i) /\ Enclosing(L, i) \subseteq 1..Len(L)
  BY EnclosingAppend
<1>4. Depth(M, n + 1) = Depth(L, n) + nesting_change(l.kind)
  BY <1>1, <1>2, DepthStep
<1>5. Enclosing(M, n + 1) =
        {o \in Enclosing(L, n) : ~(l.kind = "endif" /\ Depth(L, n) = Depth(M, o) + 1)}
          \cup {o \in {n} : M[o].kind = "if"}
  <2>1. Enclosing(M, n + 1) =
        {o \in Enclosing(M, n) : ~(M[n].kind = "endif" /\ Depth(M, n) = Depth(M, o) + 1)}
          \cup {o \in {n} : M[o].kind = "if"}
    BY <1>1, EnclosingStep
  <2> QED  BY <2>1, <1>1, <1>2, <1>3
<1>6. Depth(M, n + 1) >= 0
  BY <1>4 DEF Behind
<1>7. ASSUME NEW o \in Enclosing(M, n + 1)
      PROVE  Depth(M, o) < Depth(M, n + 1)
  <2>1. CASE o = n /\ l.kind = "if"
    BY <2>1, <1>2, <1>4 DEF nesting_change
  <2>2. CASE o \in Enclosing(L, n) /\ ~(l.kind = "endif" /\ Depth(L, n) = Depth(M, o) + 1)
    <3>1. o \in 1..Len(L) /\ Depth(M, o) = Depth(L, o) /\ Depth(L, o) \in Int /\ Depth(L, n) \in Int
      BY <2>2, <1>2, <1>3
    <3>2. Depth(L, o) < Depth(L, n)
      BY <2>2 DEF Depths, Behind
    <3>3. CASE l.kind = "endif"
      BY <3>1, <3>2, <3>3, <2>2, <1>4 DEF nesting_change
    <3>4. CASE l.kind = "if"
      BY <3>1, <3>2, <3>4, <1>4 DEF nesting_change
    <3>5. CASE l.kind # "if" /\ l.kind # "endif"
      BY <3>1, <3>2, <3>5, <1>4 DEF nesting_change
    <3> QED  BY <3>3, <3>4, <3>5
  <2> QED  BY <2>1, <2>2, <1>1, <1>5
<1>8. ASSUME NEW i \in 1..n
      PROVE  /\ Depth(M, i) >= 0
             /\ \A o \in Enclosing(M, i) : Depth(M, o) < Depth(M, i)
  <2>1. \A o \in Enclosing(L, i) : o \in 1..n
    BY <1>3
  <2> QED  BY <2>1, <1>2, <1>3 DEF Depths, Behind
<1> HIDE DEF M
<1>9. 1..Len(M) + 1 = 1..n \cup {n + 1}
  BY <1>1
<1> QED  BY <1>6, <1>7, <1>8, <1>9 DEF Depths, Behind, M

(* Two sections that a line is in are at different depths.                 *)
LEMMA SameDepth ==
  ASSUME NEW S, NEW L \in Seq(S), Depths(L),
         NEW e \in Enclosing(L, Behind(L)), NEW f \in Enclosing(L, Behind(L)),
         Depth(L, e) = Depth(L, f)
  PROVE  e = f
<1>1. Enclosing(L, Behind(L)) \subseteq 1..Len(L)
  BY DEF Enclosing, Of, Behind
<1>2. ASSUME NEW x \in Enclosing(L, Behind(L)), NEW y \in Enclosing(L, Behind(L)), x < y
      PROVE  Depth(L, x) < Depth(L, y)
  <2>1. x \in Nat /\ y \in Nat /\ y \in 1..Behind(L) /\ y <= Behind(L) /\ Behind(L) \in Nat
    BY <1>1 DEF Behind
  <2>2. ~Closed(L, x, y)
    BY <2>1, ClosedGrows DEF Enclosing
  <2>3. x \in Enclosing(L, y)
    BY <2>1, <2>2, <1>2 DEF Enclosing, Of
  <2> QED  BY <2>1, <2>3 DEF Depths
<1>3. Depth(L, e) \in Int /\ Depth(L, f) \in Int /\ e \in Nat /\ f \in Nat
  BY <1>1, DepthType
<1>4. ~(e < f) /\ ~(f < e)
  BY <1>2, <1>3
<1> QED  BY <1>3, <1>4

(* The next line is part of the program if the innermost group is included *)
(* and nothing is being passed over.                                       *)
LEMMA LiveHere ==
  ASSUME NEW L \in Seq(Line), NEW T, NEW secs \in Seq(Section), secs # <<>>, Nested(L, T, secs)
  PROVE  Live(L, T, Behind(L)) <=> secs[Len(secs)].include
<1> DEFINE m == Len(secs)
           n == Behind(L)
<1>1. PICK open \in [1..m - 1 -> DOMAIN L] :
        \A k \in 1..m - 1 : Opens(L, T, open[k], k) /\ Knows(L, T, secs[k + 1], open[k])
  BY DEF Nested
<1>2. m \in Nat \ {0} /\ n \in Nat /\ n = Len(L) + 1 /\ DOMAIN L = 1..Len(L)
  BY DEF Behind
<1>3. ASSUME NEW k \in 1..m - 1
      PROVE  /\ open[k] \in Enclosing(L, n)
             /\ secs[k + 1].include <=> InTakenGroup(L, T, open[k], n)
  <2>1. open[k] \in 1..Len(L) /\ L[open[k]].kind = "if" /\ ~Closed(L, open[k], n)
    BY <1>1, <1>2 DEF Opens
  <2>2. open[k] \in Enclosing(L, n)
    BY <2>1, <1>2 DEF Enclosing, Of
  <2> QED  BY <2>2, <1>1 DEF Knows
<1>4. CASE secs[m].include
  <2>1. secs[m].nesting = 0
    BY <1>4, <1>2 DEF Nested, Shape
  <2>2. Depth(L, n) = m - 1
    BY <2>1, <1>2 DEF Nested
  <2>3. SUFFICES ASSUME NEW e \in Enclosing(L, n)
                 PROVE  InTakenGroup(L, T, e, n)
    BY <1>4 DEF Live
  <2>4. Enclosing(L, n) \subseteq 1..Len(L)
    BY <1>2 DEF Enclosing, Of
  <2>5. Depth(L, e) < Depth(L, n) /\ Depth(L, e) >= 0 /\ Depth(L, e) \in Int
    <3>1. e \in 1..n /\ n \in 1..n /\ e \in Nat
      BY <1>2, <2>4
    <3> QED  BY <3>1, DepthType DEF Nested, Depths
  <2>6. PICK k \in 1..m - 1 : Depth(L, e) = k - 1
    <3>1. Depth(L, e) + 1 \in 1..m - 1 /\ Depth(L, e) = (Depth(L, e) + 1) - 1
      BY <2>2, <2>5, <1>2
    <3> QED  BY <3>1
  <2>7. Depth(L, open[k]) = Depth(L, e)
    BY <1>1, <2>6 DEF Opens
  <2>8. e = open[k]
    BY <1>3, <2>7, SameDepth DEF Nested
  <2>9. secs[k + 1].include
    <3>1. CASE k + 1 = m
      BY <3>1, <1>4
    <3>2. CASE k + 1 # m
      BY <3>2, <1>2 DEF Nested, Shape
    <3> QED  BY <3>1, <3>2
  <2> QED  BY <1>3, <2>8, <2>9
<1>5. CASE ~secs[m].include
  <2>1. m # 1
    BY <1>5 DEF Nested, Shape, Group
  <2>2. m - 1 \in 1..m - 1 /\ (m - 1) + 1 = m
    <3> HIDE DEF m
    <3> QED  BY <2>1, <1>2
  <2>3. open[m - 1] \in Enclosing(L, n) /\ ~InTakenGroup(L, T, open[m - 1], n)
    BY <1>3, <1>5, <2>2
  <2> QED  BY <2>3, <1>5 DEF Live
<1> QED  BY <1>4, <1>5
----------------------------------------------------------------------------
(* A line that does not end the section at place k leaves it in progress.  *)
LEMMA OpensNext ==
  ASSUME NEW S, NEW L \in Seq(S), NEW l \in S,
         NEW T \in Seq(BOOLEAN), Len(T) = Len(L), NEW t \in BOOLEAN,
         NEW k \in Nat, NEW o, Opens(L, T, o, k),
         ~(l.kind = "endif" /\ Depth(L, Behind(L)) = k)
  PROVE  Opens(Append(L, l), Append(T, t), o, k)
<1> DEFINE M == Append(L, l)
           n == Len(L) + 1
<1>1. M \in Seq(S) /\ Len(M) = n /\ M[n] = l /\ n \in Nat /\ DOMAIN M = 1..n
  OBVIOUS
<1>2. o \in 1..Len(L) /\ M[o] = L[o] /\ o \in 1..n /\ o \in 1..Len(M) /\ n \in (o + 1)..Len(M)
  BY <1>1 DEF Opens
<1>3. Depth(M, o) = Depth(L, o) /\ Depth(M, n) = Depth(L, n)
  BY <1>1, <1>2, DepthAppend
<1>4. Live(M, Append(T, t), o)
  BY <1>2, LiveAppend DEF Opens
<1>5. ~Closed(M, o, n)
  BY <1>1, <1>2, ClosedAppend DEF Opens, Behind
<1>6. ~Closed(M, o, n + 1)
  <2>1. Depth(L, o) + 1 = k
    BY DEF Opens
  <2> QED  BY <2>1, <1>1, <1>2, <1>3, <1>5, ClosedStep DEF Behind
<1> QED  BY <1>1, <1>2, <1>3, <1>4, <1>6 DEF Opens, Behind

(* What the section's groups are behind the line.                          *)
LEMMA BranchesNext ==
  ASSUME NEW S, NEW L \in Seq(S), NEW l \in S, NEW T, NEW o, NEW k, Opens(L, T, o, k)
  PROVE  /\ Branches(L, o, Behind(L)) \subseteq 1..Len(L)
         /\ Branches(Append(L, l), o, Behind(Append(L, l))) =
              IF l.kind \in {"elif", "else"} /\ Depth(L, Behind(L)) = Depth(L, o) + 1
              THEN Branches(L, o, Behind(L)) \cup {Behind(L)} ELSE Branches(L, o, Behind(L))
<1> DEFINE M == Append(L, l)
           n == Len(L) + 1
<1>1. M \in Seq(S) /\ Len(M) = n /\ M[n] = l /\ n \in Nat /\ n + 1 = Behind(M) /\ n = Behind(L) /\ n \in 1..n
  BY DEF Behind
<1>2. o \in 1..Len(L) /\ o \in 1..Len(M) /\ n \in (o + 1)..Len(M) /\ o \in 1..n
  BY <1>1 DEF Opens
<1>3. Depth(M, o) = Depth(L, o) /\ Depth(M, n) = Depth(L, n)
  BY <1>1, <1>2, DepthAppend
<1>4. ~Closed(M, o, n)
  BY <1>1, <1>2, ClosedAppend DEF Opens, Behind
<1>5. Branches(M, o, n) = Branches(L, o, n)
  BY <1>1, <1>2, BranchesAppend
<1>6. Branches(M, o, n + 1) =
        IF l.kind \in {"elif", "else"} /\ Depth(L, n) = Depth(L, o) + 1
        THEN Branches(L, o, n) \cup {n} ELSE Branches(L, o, n)
  <2>1. Branches(M, o, n + 1) =
        IF M[n].kind \in {"elif", "else"} /\ Depth(M, n) = Depth(M, o) + 1 /\ ~Closed(M, o, n)
        THEN Branches(M, o, n) \cup {n} ELSE Branches(M, o, n)
    BY <1>1, <1>2, BranchesStep
  <2> QED  BY <2>1, <1>1, <1>3, <1>4, <1>5
<1>7. Branches(L, o, n) \subseteq 1..Len(L)
  <2>1. Branches(L, o, n) \subseteq {o} \cup 1..(n - 1)
    BY <1>1, <1>2, BranchesType
  <2> QED  BY <2>1, <1>2
<1> QED  BY <1>1, <1>6, <1>7

(* A line that begins no group of the section changes nothing it knows.    *)
LEMMA KnowsNext ==
  ASSUME NEW S, NEW L \in Seq(S), NEW l \in S,
         NEW T \in Seq(BOOLEAN), Len(T) = Len(L), NEW t \in BOOLEAN,
         NEW k, NEW o, Opens(L, T, o, k), NEW s, Knows(L, T, s, o),
         ~(l.kind \in {"elif", "else"} /\ Depth(L, Behind(L)) = Depth(L, o) + 1)
  PROVE  Knows(Append(L, l), Append(T, t), s, o)
<1> DEFINE M == Append(L, l)
           U == Append(T, t)
           G == Branches(L, o, Behind(L))
<1>1. Behind(M) = Len(L) + 2 /\ o \in 1..Len(L) /\ Behind(L) \in 1..Len(L) + 1
  BY DEF Behind, Opens
<1>2. Branches(M, o, Behind(M)) = G /\ G \subseteq 1..Len(L)
  <2>1. /\ G \subseteq 1..Len(L)
        /\ Branches(M, o, Behind(M)) =
             IF l.kind \in {"elif", "else"} /\ Depth(L, Behind(L)) = Depth(L, o) + 1
             THEN G \cup {Behind(L)} ELSE G
    BY BranchesNext, SMT
  <2> QED  BY <2>1
<1>3. \A b \in G : M[b] = L[b] /\ U[b] = T[b]
  BY <1>2
<1>4. InTakenGroup(M, U, o, Behind(M)) <=> InTakenGroup(L, T, o, Behind(L))
  <2>1. InTakenGroup(M, U, o, Behind(L)) <=> InTakenGroup(L, T, o, Behind(L))
    BY <1>1, TakenAppend
  <2>2. Branches(M, o, Behind(L)) = G
    BY <1>1, BranchesAppend
  <2> QED  BY <2>1, <2>2, <1>2, TakenSame
<1> HIDE DEF M, U, G
<1>5. Knows(M, U, s, o)
  BY <1>2, <1>3, <1>4 DEF Knows, G
<1> QED  BY <1>5 DEF M, U

(* A line begins a group of the section: the group is taken if its         *)
(* condition held, or it has none, and no group before was.                *)
GroupAdded(L, l, T, t, o) ==
  LET M == Append(L, l)
      U == Append(T, t)
      G == Branches(L, o, Behind(L))
  IN  /\ Branches(M, o, Behind(M)) = G \cup {Behind(L)}
      /\ \A b \in G : M[b] = L[b] /\ U[b] = T[b] /\ T[b] \in BOOLEAN
      /\ M[Behind(L)] = l /\ U[Behind(L)] = t
      /\ InTakenGroup(M, U, o, Behind(M)) <=>
           /\ l.kind = "else" \/ t
           /\ \A b \in G : L[b].kind # "else" /\ ~T[b]

(* What the groups of the section are when the line begins one more.       *)
LEMMA NewGroup ==
  ASSUME NEW S, NEW L \in Seq(S), NEW l \in S,
         NEW T \in Seq(BOOLEAN), Len(T) = Len(L), NEW t \in BOOLEAN,
         NEW k, NEW o, Opens(L, T, o, k),
         l.kind \in {"elif", "else"}, Depth(L, Behind(L)) = Depth(L, o) + 1
  PROVE  GroupAdded(L, l, T, t, o)
<1> DEFINE M == Append(L, l)
           U == Append(T, t)
           G == Branches(L, o, Behind(L))
           n == Behind(L)
<1>1. Behind(M) = Len(L) + 2 /\ n = Len(L) + 1 /\ n \in Nat /\ M[n] = l /\ U[n] = t
  BY DEF Behind
<1>2. Branches(M, o, Behind(M)) = G \cup {n} /\ G \subseteq 1..Len(L)
  <2>1. /\ G \subseteq 1..Len(L)
        /\ Branches(M, o, Behind(M)) =
             IF l.kind \in {"elif", "else"} /\ Depth(L, Behind(L)) = Depth(L, o) + 1
             THEN G \cup {Behind(L)} ELSE G
    BY BranchesNext, SMT
  <2> QED  BY <2>1
<1>3. \A b \in G : M[b] = L[b] /\ U[b] = T[b] /\ T[b] \in BOOLEAN
  BY <1>2
<1>4. G \subseteq Nat /\ \A b \in G : b < n
  BY <1>1, <1>2
<1> HIDE DEF M, U, G, n
<1>5. InTakenGroup(M, U, o, Behind(M)) <=> /\ M[n].kind = "else" \/ U[n]
                                          /\ \A b \in G : ~(M[b].kind = "else" \/ U[b])
  <2>1. ASSUME NEW j, Branches(M, o, j) = G \cup {n}
        PROVE  InTakenGroup(M, U, o, j) <=> /\ M[n].kind = "else" \/ U[n]
                                            /\ \A b \in G : ~(M[b].kind = "else" \/ U[b])
    BY <1>1, <1>4, <2>1, TakenNext
  <2> QED  BY <2>1, <1>2
<1>6. InTakenGroup(M, U, o, Behind(M)) <=> /\ l.kind = "else" \/ t
                                          /\ \A b \in G : L[b].kind # "else" /\ ~T[b]
  BY <1>1, <1>3, <1>5
<1> QED  BY <1>1, <1>2, <1>3, <1>6 DEF M, U, G, n, GroupAdded
(* #elif: the group is included if its condition holds and no group before *)
(* it was.                                                                 *)
LEMMA KnowsElif ==
  ASSUME NEW S, NEW L \in Seq(S), NEW l \in S,
         NEW T \in Seq(BOOLEAN), Len(T) = Len(L), NEW t \in BOOLEAN,
         NEW k, NEW o, Opens(L, T, o, k), NEW s \in Section, Knows(L, T, s, o),
         l.kind = "elif", Depth(L, Behind(L)) = Depth(L, o) + 1, s.delimiter = "after_if",
         NEW x, x = Group("after_if", t /\ ~s.did_include, s.did_include \/ (t /\ ~s.did_include))
  PROVE  Knows(Append(L, l), Append(T, t), x, o)
<1>0. /\ x.delimiter = "after_if"
      /\ x.include <=> t /\ ~s.did_include
      /\ x.did_include <=> s.did_include \/ t
  BY DEF Group
<1> DEFINE M == Append(L, l)
           U == Append(T, t)
           G == Branches(L, o, Behind(L))
<1>1. /\ Branches(M, o, Behind(M)) = G \cup {Behind(L)}
      /\ \A b \in G : M[b] = L[b] /\ U[b] = T[b] /\ T[b] \in BOOLEAN
      /\ M[Behind(L)] = l /\ U[Behind(L)] = t
      /\ InTakenGroup(M, U, o, Behind(M)) <=>
           /\ l.kind = "else" \/ t
           /\ \A b \in G : L[b].kind # "else" /\ ~T[b]
  <2>1. GroupAdded(L, l, T, t, o)
    BY NewGroup
  <2> QED  BY <2>1 DEF GroupAdded
<1>2. /\ s.did_include <=> \E b \in G : L[b].kind # "else" /\ T[b]
      /\ \A b \in G : L[b].kind # "else"
  BY DEF Knows
<1> HIDE DEF M, U, G
<1>3. InTakenGroup(M, U, o, Behind(M)) <=> x.include
  BY <1>0, <1>1, <1>2
<1>4. x.did_include <=> \E b \in G \cup {Behind(L)} : M[b].kind # "else" /\ U[b]
  BY <1>0, <1>1, <1>2
<1>5. \A b \in G \cup {Behind(L)} : M[b].kind # "else"
  BY <1>0, <1>1, <1>2
<1>6. Knows(M, U, x, o)
  BY <1>0, <1>1, <1>3, <1>4, <1>5 DEF Knows
<1> QED  BY <1>6 DEF M, U

(* #else: the group is included if no group before it was.                 *)
LEMMA KnowsElse ==
  ASSUME NEW S, NEW L \in Seq(S), NEW l \in S,
         NEW T \in Seq(BOOLEAN), Len(T) = Len(L), NEW t \in BOOLEAN,
         NEW k, NEW o, Opens(L, T, o, k), NEW s \in Section, Knows(L, T, s, o),
         l.kind = "else", Depth(L, Behind(L)) = Depth(L, o) + 1, s.delimiter = "after_if",
         NEW x, x = Group("after_else", ~s.did_include, s.did_include)
  PROVE  Knows(Append(L, l), Append(T, t), x, o)
<1>0. /\ x.delimiter = "after_else"
      /\ x.include <=> ~s.did_include
      /\ x.did_include <=> s.did_include
  BY DEF Group
<1> DEFINE M == Append(L, l)
           U == Append(T, t)
           G == Branches(L, o, Behind(L))
<1>1. /\ Branches(M, o, Behind(M)) = G \cup {Behind(L)}
      /\ \A b \in G : M[b] = L[b] /\ U[b] = T[b] /\ T[b] \in BOOLEAN
      /\ M[Behind(L)] = l /\ U[Behind(L)] = t
      /\ InTakenGroup(M, U, o, Behind(M)) <=>
           /\ l.kind = "else" \/ t
           /\ \A b \in G : L[b].kind # "else" /\ ~T[b]
  <2>1. GroupAdded(L, l, T, t, o)
    BY NewGroup
  <2> QED  BY <2>1 DEF GroupAdded
<1>2. /\ s.did_include <=> \E b \in G : L[b].kind # "else" /\ T[b]
      /\ \A b \in G : L[b].kind # "else"
  BY DEF Knows
<1> HIDE DEF M, U, G
<1>3. InTakenGroup(M, U, o, Behind(M)) <=> x.include
  BY <1>0, <1>1, <1>2
<1>4. x.did_include <=> \E b \in G \cup {Behind(L)} : M[b].kind # "else" /\ U[b]
  BY <1>0, <1>1, <1>2
<1>5. \E b \in G \cup {Behind(L)} : M[b].kind = "else"
  BY <1>1
<1>6. Knows(M, U, x, o)
  BY <1>0, <1>1, <1>3, <1>4, <1>5 DEF Knows
<1> QED  BY <1>6 DEF M, U

(* A group behind an #else that is passed over: passed over as well.       *)
LEMMA KnowsBehindElse ==
  ASSUME NEW S, NEW L \in Seq(S), NEW l \in S,
         NEW T \in Seq(BOOLEAN), Len(T) = Len(L), NEW t \in BOOLEAN,
         NEW k, NEW o, Opens(L, T, o, k), NEW s \in Section, Knows(L, T, s, o),
         l.kind \in {"elif", "else"}, Depth(L, Behind(L)) = Depth(L, o) + 1,
         s.delimiter = "after_else", ~s.include
  PROVE  Knows(Append(L, l), Append(T, t), s, o)
<1> DEFINE M == Append(L, l)
           U == Append(T, t)
           G == Branches(L, o, Behind(L))
<1>1. /\ Branches(M, o, Behind(M)) = G \cup {Behind(L)}
      /\ \A b \in G : M[b] = L[b] /\ U[b] = T[b] /\ T[b] \in BOOLEAN
      /\ M[Behind(L)] = l /\ U[Behind(L)] = t
      /\ InTakenGroup(M, U, o, Behind(M)) <=>
           /\ l.kind = "else" \/ t
           /\ \A b \in G : L[b].kind # "else" /\ ~T[b]
  <2>1. GroupAdded(L, l, T, t, o)
    BY NewGroup
  <2> QED  BY <2>1 DEF GroupAdded
<1>2. /\ s.did_include <=> \E b \in G : L[b].kind # "else" /\ T[b]
      /\ s.did_include
      /\ \E b \in G : L[b].kind = "else"
  BY DEF Knows
<1> HIDE DEF M, U, G
<1>3. ~InTakenGroup(M, U, o, Behind(M))
  BY <1>1, <1>2
<1>4. \E b \in G \cup {Behind(L)} : M[b].kind # "else" /\ U[b]
  BY <1>1, <1>2
<1>5. \E b \in G \cup {Behind(L)} : M[b].kind = "else"
  BY <1>1, <1>2
<1>6. Knows(M, U, s, o)
  BY <1>1, <1>2, <1>3, <1>4, <1>5 DEF Knows
<1> QED  BY <1>6 DEF M, U
----------------------------------------------------------------------------
(* The recursion behind the line.  What every line has to keep:            *)
LEMMA StrayNext ==
  ASSUME NEW S, NEW L \in Seq(S), NEW l \in S, NoStray(L),
         l.kind \in {"elif", "else", "endif"} => Depth(L, Behind(L)) > 0
  PROVE  NoStray(Append(L, l))
<1> DEFINE M == Append(L, l)
<1>1. DOMAIN M = 1..Len(L) + 1 /\ M[Len(L) + 1] = l
  OBVIOUS
<1>2. \A i \in 1..Len(L) + 1 : Depth(M, i) = Depth(L, i)
  BY DepthAppend
<1>3. ASSUME NEW i \in 1..Len(L) + 1, M[i].kind \in {"elif", "else", "endif"}
      PROVE  Depth(M, i) > 0
  <2>1. CASE i \in 1..Len(L)
    <3>1. M[i] = L[i] /\ i \in DOMAIN L
      BY <2>1
    <3> QED  BY <3>1, <1>2, <1>3 DEF NoStray
  <2>2. CASE i = Len(L) + 1
    BY <2>2, <1>1, <1>2, <1>3 DEF Behind
  <2> QED  BY <2>1, <2>2
<1> HIDE DEF M
<1>4. NoStray(M)
  BY <1>1, <1>3 DEF NoStray
<1> QED  BY <1>4 DEF M

(* A sequence with another last element in place of its own.               *)
LEMMA FrontFacts ==
  ASSUME NEW S, NEW s \in Seq(S), s # <<>>, NEW x \in S
  PROVE  LET t == Append(Front(s), x)
         IN  /\ Front(s) \in Seq(S) /\ Len(Front(s)) = Len(s) - 1
             /\ \A k \in 1..Len(s) - 1 : Front(s)[k] = s[k]
             /\ t \in Seq(S) /\ Len(t) = Len(s) /\ t[Len(s)] = x
             /\ \A k \in 1..Len(s) - 1 : t[k] = s[k]
             /\ Last(s) = s[Len(s)] /\ Last(s) \in S
             /\ Len(s) \in Nat \ {0}
<1> DEFINE f == Front(s)
<1>1. Len(s) \in Nat \ {0}
  BY EmptySeq
<1>2. /\ f \in Seq(S)
      /\ Len(f) = IF 1 <= Len(s) - 1 THEN Len(s) - 1 - 1 + 1 ELSE 0
      /\ \A k \in 1..(Len(s) - 1 - 1 + 1) : f[k] = s[1 + k - 1]
  BY <1>1, SubSeqProperties DEF Front
<1> HIDE DEF f
<1>3. f \in Seq(S) /\ Len(f) = Len(s) - 1 /\ \A k \in 1..Len(s) - 1 : f[k] = s[k]
  <2> DEFINE n == Len(s)
  <2> HIDE DEF n
  <2>1. n \in Nat /\ n # 0
    BY <1>1 DEF n
  <2>2. n - 1 - 1 + 1 = n - 1 /\ \A k \in 1..n - 1 : 1 + k - 1 = k
    BY <2>1
  <2>3. (IF 1 <= n - 1 THEN n - 1 - 1 + 1 ELSE 0) = n - 1
    BY <2>1
  <2>4. \A k \in 1..n - 1 : f[k] = s[k]
    BY <1>2, <2>2 DEF n
  <2>5. Len(f) = n - 1
    BY <1>2, <2>3 DEF n
  <2> QED  BY <1>2, <2>4, <2>5 DEF n
<1>4. /\ Append(f, x) \in Seq(S) /\ Len(Append(f, x)) = Len(s) /\ Append(f, x)[Len(s)] = x
      /\ \A k \in 1..Len(s) - 1 : Append(f, x)[k] = s[k]
  BY <1>1, <1>3
<1> QED  BY <1>1, <1>3, <1>4 DEF Last, f

(* A line that leaves the innermost section in progress.                   *)
LEMMA SameSections ==
  ASSUME NEW L \in Seq(Line), NEW l \in Line,
         NEW T \in Seq(BOOLEAN), Len(T) = Len(L), NEW t \in BOOLEAN,
         NEW secs \in Seq(Section), secs # <<>>, Nested(L, T, secs),
         NEW x \in Section, x.nesting # 0 => ~x.include,
         IF Len(secs) = 1 THEN x = Group("normal", TRUE, FALSE) ELSE x.delimiter # "normal",
         Depth(L, Behind(L)) + nesting_change(l.kind) = Len(secs) - 1 + x.nesting,
         l.kind \in {"elif", "else", "endif"} => Depth(L, Behind(L)) > 0,
         l.kind \in {"elif", "else"} => Depth(L, Behind(L)) >= Len(secs) - 1,
         \A o : Opens(L, T, o, Len(secs) - 1) /\ Knows(L, T, secs[Len(secs)], o) =>
                  Knows(Append(L, l), Append(T, t), x, o)
  PROVE  Nested(Append(L, l), Append(T, t), Append(Front(secs), x))
<1> DEFINE M  == Append(L, l)
           U  == Append(T, t)
           m  == Len(secs)
           n  == Behind(L)
           new == Append(Front(secs), x)
<1>1. /\ new \in Seq(Section) /\ Len(new) = m /\ new[m] = x /\ m \in Nat \ {0}
      /\ \A k \in 1..m - 1 : new[k] = secs[k]
  BY FrontFacts
<1>2. /\ M \in Seq(Line) /\ Len(M) = Len(L) + 1 /\ n = Len(L) + 1 /\ Behind(M) = n + 1 /\ M[n] = l
      /\ n \in 1..Len(M) /\ n \in Nat /\ n \in 1..Len(L) + 1
      /\ DOMAIN L = 1..Len(L) /\ DOMAIN M = 1..Len(L) + 1
  BY DEF Behind
<1>3. Depth(M, n + 1) = m - 1 + x.nesting /\ Depth(L, n) \in Int
  BY <1>2, DepthStep, DepthAppend, DepthType
<1>4. PICK open \in [1..m - 1 -> DOMAIN L] :
        \A k \in 1..m - 1 : Opens(L, T, open[k], k) /\ Knows(L, T, secs[k + 1], open[k])
  BY DEF Nested
<1>5. x.nesting \in Nat
  BY DEF Section
<1> HIDE DEF M, U, m, n, new
<1>6. Shape(new)
  <2>1. new[1] = Group("normal", TRUE, FALSE)
    <3>1. CASE m = 1
      BY <3>1, <1>1 DEF m
    <3>2. CASE m # 1
      <4>1. 1 \in 1..m - 1
        BY <3>2, <1>1
      <4> QED  BY <4>1, <1>1 DEF Nested, Shape
    <3> QED  BY <3>1, <3>2
  <2>2. \A k \in 1..m - 1 : secs[k].include /\ (k # 1 => secs[k].delimiter # "normal")
                            /\ (secs[k].nesting # 0 => ~secs[k].include)
    BY <1>1 DEF Nested, Shape, m
  <2>3. \A k \in 1..m : k = m \/ k \in 1..m - 1
    BY <1>1
  <2>4. ASSUME NEW k \in 2..m  PROVE new[k].delimiter # "normal"
    <3>1. CASE k = m
      <4>1. Len(secs) # 1
        BY <3>1, <1>1 DEF m
      <4> QED  BY <4>1, <3>1, <1>1
    <3>2. CASE k # m
      <4>1. k \in 1..m - 1 /\ k # 1
        BY <3>2, <1>1
      <4> QED  BY <4>1, <1>1, <2>2
    <3> QED  BY <3>1, <3>2
  <2>5. ASSUME NEW k \in 1..m  PROVE new[k].nesting # 0 => ~new[k].include
    BY <1>1, <2>2, <2>3
  <2>6. ASSUME NEW k \in 1..m - 1  PROVE new[k].include
    BY <1>1, <2>2
  <2> QED  BY <1>1, <2>1, <2>4, <2>5, <2>6 DEF Shape
<1>7. Depths(M)
  BY <1>1, <1>3, <1>5, DepthsNext DEF Nested, M, n, m
<1>8. ASSUME NEW k \in 1..m - 1
      PROVE  Opens(M, U, open[k], k) /\ Knows(M, U, new[k + 1], open[k])
  <2>1. Opens(L, T, open[k], k) /\ Knows(L, T, secs[k + 1], open[k]) /\ k \in Nat
    BY <1>4
  <2>2. ~(l.kind = "endif" /\ Depth(L, n) = k)
    BY <1>1, <1>3, <1>5 DEF nesting_change, n, m
  <2>3. Opens(M, U, open[k], k)
    BY <2>1, <2>2, OpensNext DEF M, U, n
  <2>4. CASE k = m - 1
    <3>1. k + 1 = m /\ Knows(M, U, x, open[k])
      BY <1>1, <2>1, <2>4 DEF m, M, U
    <3> QED  BY <2>3, <3>1, <1>1
  <2>5. CASE k # m - 1
    <3>1. new[k + 1] = secs[k + 1]
      <4>1. k + 1 \in 1..m - 1
        BY <1>1, <2>5
      <4> QED  BY <4>1, <1>1
    <3>2. Depth(L, open[k]) = k - 1
      BY <2>1 DEF Opens
    <3>3. ~(l.kind \in {"elif", "else"} /\ Depth(L, Behind(L)) = Depth(L, open[k]) + 1)
      BY <3>2, <2>5, <1>1, <1>3 DEF n, m
    <3>4. Knows(M, U, secs[k + 1], open[k])
      BY <2>1, <3>3, KnowsNext DEF M, U
    <3> QED  BY <2>3, <3>1, <3>4
  <2> QED  BY <2>4, <2>5
<1>9. open \in [1..m - 1 -> DOMAIN M]
  BY <1>2
<1>10. NoStray(M)
  BY StrayNext DEF Nested, M
<1>11. Nested(M, U, new)
  BY <1>1, <1>2, <1>3, <1>6, <1>7, <1>8, <1>9, <1>10 DEF Nested
<1> QED  BY <1>11 DEF M, U, new
(* #if: a section within the one whose group the line is in.               *)
LEMMA OneMoreSection ==
  ASSUME NEW L \in Seq(Line), NEW l \in Line, l.kind = "if",
         NEW T \in Seq(BOOLEAN), Len(T) = Len(L), NEW t \in BOOLEAN,
         NEW secs \in Seq(Section), secs # <<>>, Nested(L, T, secs), secs[Len(secs)].include,
         NEW x \in Section, x = Group("after_if", t, t)
  PROVE  Nested(Append(L, l), Append(T, t), Append(secs, x))
<1> DEFINE M  == Append(L, l)
           U  == Append(T, t)
           m  == Len(secs)
           n  == Behind(L)
           new == Append(secs, x)
<1>1. /\ new \in Seq(Section) /\ Len(new) = m + 1 /\ new[m + 1] = x /\ m \in Nat /\ m # 0
      /\ \A k \in 1..m : new[k] = secs[k]
      /\ secs[m].include
  BY EmptySeq
<1>2. /\ M \in Seq(Line) /\ Len(M) = n /\ n = Len(L) + 1 /\ Behind(M) = n + 1 /\ M[n] = l
      /\ U[n] = t /\ n \in 1..Len(M) /\ n \in Nat /\ n \in 1..Len(L) + 1
      /\ DOMAIN L = 1..Len(L) /\ DOMAIN M = 1..n
  BY DEF Behind
<1>3. Depth(L, n) = m - 1 /\ Depth(M, n) = m - 1 /\ Depth(M, n + 1) = m
  <2>1. secs[m].nesting = 0
    BY <1>1 DEF Nested, Shape
  <2>2. Depth(L, n) = m - 1
    BY <1>1, <2>1 DEF Nested
  <2>3. Depth(M, n) = Depth(L, n)
    BY <1>2, DepthAppend
  <2>4. Depth(M, n + 1) = Depth(M, n) + nesting_change(M[n].kind)
    BY <1>2, DepthStep
  <2> QED  BY <1>1, <1>2, <2>2, <2>3, <2>4 DEF nesting_change
<1>4. PICK open \in [1..m - 1 -> DOMAIN L] :
        \A k \in 1..m - 1 : Opens(L, T, open[k], k) /\ Knows(L, T, secs[k + 1], open[k])
  BY DEF Nested
<1>5. x.delimiter = "after_if" /\ x.nesting = 0 /\ x.include = t /\ x.did_include = t
  BY DEF Group
<1>6. Live(M, U, n)
  <2>1. Live(L, T, n)
    BY <1>1, LiveHere
  <2> QED  BY <1>2, <2>1, LiveAppend
<1> HIDE DEF M, U, m, n, new
<1>7. Shape(new)
  <2>1. /\ secs[1] = Group("normal", TRUE, FALSE)
        /\ \A k \in 1..m : /\ secs[k].include
                           /\ k # 1 => secs[k].delimiter # "normal"
                           /\ secs[k].nesting # 0 => ~secs[k].include
    <3>1. \A k \in 1..m - 1 : secs[k].include
      BY DEF Nested, Shape, m
    <3>2. \A k \in 1..m : k = m \/ k \in 1..m - 1
      BY <1>1
    <3>3. \A k \in 2..m : secs[k].delimiter # "normal"
      BY DEF Nested, Shape, m
    <3>4. \A k \in 1..m : secs[k].nesting # 0 => ~secs[k].include
      BY DEF Nested, Shape, m
    <3>5. \A k \in 1..m : k # 1 => k \in 2..m
      BY <1>1
    <3> QED  BY <1>1, <3>1, <3>2, <3>3, <3>4, <3>5 DEF Nested, Shape
  <2>2. 1 \in 1..m /\ (m + 1) - 1 = m /\ \A k \in 1..m + 1 : k = m + 1 \/ k \in 1..m
    BY <1>1
  <2>3. new[1] = Group("normal", TRUE, FALSE)
    BY <1>1, <2>1, <2>2
  <2>4. ASSUME NEW k \in 2..m + 1  PROVE new[k].delimiter # "normal"
    <3>1. k = m + 1 \/ (k \in 1..m /\ k # 1)
      BY <1>1
    <3> QED  BY <3>1, <1>1, <1>5, <2>1
  <2>5. ASSUME NEW k \in 1..m + 1  PROVE new[k].nesting # 0 => ~new[k].include
    BY <1>1, <1>5, <2>1, <2>2
  <2>6. ASSUME NEW k \in 1..m  PROVE new[k].include
    BY <1>1, <2>1
  <2> QED  BY <1>1, <2>2, <2>3, <2>4, <2>5, <2>6 DEF Shape
<1>8. Depths(M)
  <2>1. Depth(L, n) + nesting_change(l.kind) >= 0
    BY <1>1, <1>3 DEF nesting_change
  <2> QED  BY <2>1, DepthsNext DEF Nested, M, n
<1>9. Opens(M, U, n, m)
  BY <1>1, <1>2, <1>3, <1>6, ClosedFirst DEF Opens
<1>10. Knows(M, U, x, n)
  <2>1. Branches(M, n, n + 1) = {n}
    BY <1>2 DEF Branches, Of
  <2>2. InTakenGroup(M, U, n, n + 1) <=> t
    BY <1>2, <2>1, TakenFirst
  <2> QED  BY <1>2, <1>5, <2>1, <2>2 DEF Knows
<1> DEFINE now == [k \in 1..m |-> IF k = m THEN n ELSE open[k]]
<1>11. now \in [1..(m + 1) - 1 -> DOMAIN M]
  <2>1. (m + 1) - 1 = m
    BY <1>1
  <2>2. ASSUME NEW k \in 1..m, k # m  PROVE open[k] \in 1..n
    <3>1. k \in 1..m - 1
      BY <1>1, <2>2
    <3> QED  BY <3>1, <1>2
  <2>3. n \in 1..n
    BY <1>2
  <2> QED  BY <1>2, <2>1, <2>2, <2>3
<1>12. ASSUME NEW k \in 1..m
       PROVE  Opens(M, U, now[k], k) /\ Knows(M, U, new[k + 1], now[k])
  <2>1. CASE k = m
    BY <2>1, <1>1, <1>9, <1>10
  <2>2. CASE k # m
    <3>1. k \in 1..m - 1 /\ k \in Nat /\ k + 1 \in 1..m /\ now[k] = open[k]
      BY <2>2, <1>1
    <3>2. Opens(L, T, open[k], k) /\ Knows(L, T, secs[k + 1], open[k]) /\ new[k + 1] = secs[k + 1]
      BY <3>1, <1>1, <1>4
    <3>3. l.kind # "endif" /\ l.kind \notin {"elif", "else"}
      OBVIOUS
    <3>4. Opens(M, U, open[k], k)
      BY <3>1, <3>2, <3>3, OpensNext DEF M, U
    <3>5. Knows(M, U, secs[k + 1], open[k])
      BY <3>2, <3>3, KnowsNext DEF M, U
    <3> QED  BY <3>1, <3>2, <3>4, <3>5
  <2> QED  BY <2>1, <2>2
<1>13. NoStray(M)
  BY StrayNext DEF Nested, M
<1>14. Nested(M, U, new)
  <2>1. \A k \in 1..(m + 1) - 1 : Opens(M, U, now[k], k) /\ Knows(M, U, new[k + 1], now[k])
    BY <1>1, <1>12
  <2>2. Depth(M, Behind(M)) = Len(new) - 1 + new[Len(new)].nesting
    BY <1>1, <1>2, <1>3, <1>5
  <2> HIDE DEF now
  <2> QED  BY <1>1, <1>7, <1>8, <1>11, <1>13, <2>1, <2>2 DEF Nested
<1> QED  BY <1>14 DEF M, U, new

(* #endif: the innermost section is over.                                  *)
LEMMA OneLessSection ==
  ASSUME NEW L \in Seq(Line), NEW l \in Line, l.kind = "endif",
         NEW T \in Seq(BOOLEAN), Len(T) = Len(L), NEW t \in BOOLEAN,
         NEW secs \in Seq(Section), Len(secs) > 1, Nested(L, T, secs), secs[Len(secs)].nesting = 0
  PROVE  Nested(Append(L, l), Append(T, t), Front(secs))
<1> DEFINE M  == Append(L, l)
           U  == Append(T, t)
           m  == Len(secs)
           n  == Behind(L)
           new == Front(secs)
<1>1. /\ new \in Seq(Section) /\ Len(new) = m - 1 /\ m \in Nat /\ m > 1
      /\ \A k \in 1..m - 1 : new[k] = secs[k]
  <2>1. secs # <<>> /\ secs[m] \in Section /\ m \in Nat
    BY EmptySeq
  <2> QED  BY <2>1, FrontFacts
<1>2. /\ M \in Seq(Line) /\ Len(M) = n /\ n = Len(L) + 1 /\ Behind(M) = n + 1 /\ M[n] = l
      /\ n \in 1..Len(M) /\ n \in Nat /\ n \in 1..Len(L) + 1
      /\ DOMAIN L = 1..Len(L) /\ DOMAIN M = 1..n
  BY DEF Behind
<1>3. Depth(L, n) = m - 1 /\ Depth(M, n + 1) = m - 2
  <2>1. Depth(L, n) = m - 1
    BY <1>1 DEF Nested
  <2>2. Depth(M, n) = Depth(L, n)
    BY <1>2, DepthAppend
  <2>3. Depth(M, n + 1) = Depth(M, n) + nesting_change(M[n].kind)
    BY <1>2, DepthStep
  <2> QED  BY <1>1, <1>2, <2>1, <2>2, <2>3 DEF nesting_change
<1>4. PICK open \in [1..m - 1 -> DOMAIN L] :
        \A k \in 1..m - 1 : Opens(L, T, open[k], k) /\ Knows(L, T, secs[k + 1], open[k])
  BY DEF Nested
<1> HIDE DEF M, U, m, n, new
<1>5. /\ Shape(new)
      /\ new[m - 1].nesting = 0
  <2>1. \A k \in 1..m - 1 : /\ new[k] = secs[k]
                            /\ secs[k].include
                            /\ k # 1 => secs[k].delimiter # "normal"
                            /\ secs[k].nesting # 0 => ~secs[k].include
    <3>1. \A k \in 1..m - 1 : k \in 1..m /\ (k # 1 => k \in 2..m)
      BY <1>1
    <3> QED  BY <1>1, <3>1 DEF Nested, Shape, m
  <2>2. 1 \in 1..m - 1 /\ m - 1 \in 1..m - 1
    BY <1>1
  <2>3. secs[1] = Group("normal", TRUE, FALSE)
    BY DEF Nested, Shape
  <2>4. \A k \in 2..m - 1 : k \in 1..m - 1 /\ k # 1
    BY <1>1
  <2>5. \A k \in 1..(m - 1) - 1 : k \in 1..m - 1
    BY <1>1
  <2> QED  BY <1>1, <2>1, <2>2, <2>3, <2>4, <2>5 DEF Shape
<1>6. Depths(M)
  <2>1. Depth(L, n) + nesting_change(l.kind) >= 0
    BY <1>1, <1>3 DEF nesting_change
  <2> QED  BY <2>1, DepthsNext DEF Nested, M, n
<1> DEFINE now == [k \in 1..(m - 1) - 1 |-> open[k]]
<1>7. /\ now \in [1..(m - 1) - 1 -> DOMAIN M]
      /\ \A k \in 1..(m - 1) - 1 : k \in 1..m - 1 /\ now[k] = open[k]
  BY <1>1, <1>2
<1>8. ASSUME NEW k \in 1..(m - 1) - 1
      PROVE  Opens(M, U, now[k], k) /\ Knows(M, U, new[k + 1], now[k])
  <2>1. k \in 1..m - 1 /\ k \in Nat /\ k # m - 1 /\ k + 1 \in 1..m - 1
    BY <1>1
  <2>2. Opens(L, T, open[k], k) /\ Knows(L, T, secs[k + 1], open[k]) /\ new[k + 1] = secs[k + 1]
    BY <2>1, <1>1, <1>4
  <2>3. ~(l.kind = "endif" /\ Depth(L, Behind(L)) = k) /\ l.kind \notin {"elif", "else"}
    BY <2>1, <1>3 DEF n
  <2>4. Opens(M, U, open[k], k)
    BY <2>1, <2>2, <2>3, OpensNext DEF M, U
  <2>5. Knows(M, U, secs[k + 1], open[k])
    BY <2>2, <2>3, KnowsNext DEF M, U
  <2> QED  BY <1>7, <2>2, <2>4, <2>5
<1>9. NoStray(M)
  <2>1. Depth(L, n) > 0
    BY <1>1, <1>3
  <2> QED  BY <2>1, StrayNext DEF Nested, M, n
<1>10. Nested(M, U, new)
  <2>1. Depth(M, Behind(M)) = Len(new) - 1 + new[Len(new)].nesting
    BY <1>1, <1>2, <1>3, <1>5
  <2> HIDE DEF now
  <2> QED  BY <1>1, <1>5, <1>6, <1>7, <1>8, <1>9, <2>1 DEF Nested
<1> QED  BY <1>10 DEF M, U, new
----------------------------------------------------------------------------
(* The state, and a line that is read.                                     *)
(* A line that is read is put behind the file, with the value of its       *)
(* condition, or with none.                                                *)
LEMMA NextLine ==
  ASSUME TypeOK, NEW l \in Inputs, Read(l)
  PROVE  /\ l \in Line /\ lines \in Seq(Line) /\ Len(lines) \in Nat /\ DOMAIN lines = 1..Len(lines)
         /\ truth \in Seq(BOOLEAN) /\ Len(truth) = Len(lines) /\ Condition \in BOOLEAN
         /\ lines' = Append(lines, l) /\ truth' = Append(truth, Condition)
         /\ lines' \in Seq(Line) /\ Len(lines') = Behind(lines) /\ Len(lines') <= MaxLines
         /\ DOMAIN lines' = 1..Len(lines) + 1
         /\ truth' \in [DOMAIN lines' -> BOOLEAN]
         /\ status = "run"
<1>1. l \in Line
  BY DEF Inputs
<1>2. /\ lines \in Seq(Line) /\ Len(lines) \in Nat /\ DOMAIN lines = 1..Len(lines)
      /\ lines' = Append(lines, l) /\ lines' \in Seq(Line) /\ Len(lines') = Behind(lines)
      /\ Len(lines') <= MaxLines
      /\ DOMAIN lines' = 1..Len(lines) + 1
  BY <1>1, CondAssumption DEF TypeOK, Read, Behind
<1>3. truth \in Seq(BOOLEAN) /\ Len(truth) = Len(lines)
  <2>1. truth \in [1..Len(lines) -> BOOLEAN]
    BY <1>2 DEF TypeOK
  <2> QED  BY <2>1, <1>2
<1>4. PICK c \in BOOLEAN : truth' = Append(truth, c)
  BY DEF Read
<1>5. Condition = c
  BY <1>2, <1>3, <1>4 DEF Condition, Behind
<1>6. truth' \in [DOMAIN lines' -> BOOLEAN]
  <2>1. truth' \in Seq(BOOLEAN) /\ Len(truth') = Len(lines) + 1
    BY <1>3, <1>4
  <2> QED  BY <2>1, <1>2
<1> QED  BY <1>1, <1>2, <1>3, <1>4, <1>5, <1>6 DEF Read

(* What the state says of the innermost section.                           *)
LEMMA TopFacts ==
  ASSUME TypeOK, Nested(lines, truth, sections)
  PROVE  /\ sections \in Seq(Section) /\ sections # <<>> /\ Len(sections) \in Nat \ {0}
         /\ Top = sections[Len(sections)] /\ Top \in Section
         /\ Len(sections) = 1 => Top = Group("normal", TRUE, FALSE)
         /\ Len(sections) # 1 => Top.delimiter \in {"after_if", "after_else"}
         /\ Top.nesting # 0 => ~Top.include
         /\ Depth(lines, Behind(lines)) = Len(sections) - 1 + Top.nesting
         /\ \A kind : is_delimiter_of_current_group(kind) <=>
              \/ Top.delimiter = "after_if" /\ kind \in {"elif", "else", "endif"}
              \/ Top.delimiter = "after_else" /\ kind = "endif"
<1>1. sections \in Seq(Section) /\ sections # <<>> /\ Len(sections) \in Nat \ {0}
  BY EmptySeq DEF TypeOK
<1>2. Top = sections[Len(sections)] /\ Top \in Section
  BY <1>1 DEF Top, Last
<1>3. Len(sections) \in 1..Len(sections) /\ (Len(sections) # 1 => Len(sections) \in 2..Len(sections))
  <2> DEFINE m == Len(sections)
  <2> HIDE DEF m
  <2>1. m \in Nat \ {0}
    BY <1>1 DEF m
  <2>2. m \in 1..m /\ (m # 1 => m \in 2..m)
    BY <2>1
  <2> QED  BY <2>2 DEF m
<1>4. /\ Len(sections) = 1 => Top = Group("normal", TRUE, FALSE)
      /\ Len(sections) # 1 => Top.delimiter # "normal"
      /\ Top.nesting # 0 => ~Top.include
      /\ Depth(lines, Behind(lines)) = Len(sections) - 1 + Top.nesting
  BY <1>2, <1>3 DEF Nested, Shape
<1>5. Top.delimiter \in {"normal", "after_if", "after_else"}
  BY <1>2 DEF Section
<1>6. ASSUME NEW kind
      PROVE  is_delimiter_of_current_group(kind) <=>
              \/ Top.delimiter = "after_if" /\ kind \in {"elif", "else", "endif"}
              \/ Top.delimiter = "after_else" /\ kind = "endif"
  <2>1. CASE Top.delimiter = "normal"
    BY <2>1 DEF is_delimiter_of_current_group
  <2>2. CASE Top.delimiter = "after_if"
    BY <2>2 DEF is_delimiter_of_current_group
  <2>3. CASE Top.delimiter = "after_else"
    BY <2>3 DEF is_delimiter_of_current_group
  <2> QED  BY <2>1, <2>2, <2>3, <1>5
<1> QED  BY <1>1, <1>2, <1>4, <1>5, <1>6

(* Each line keeps the recursion and the depth of the lines together.      *)
LEMMA SectionsStep ==
  ASSUME TypeOK, Nested(lines, truth, sections), NEW l \in Inputs, Step(l), ~Unexpected(l)
  PROVE  /\ sections' \in Seq(Section) /\ sections' # <<>>
         /\ Nested(lines', truth', sections')
<1> DEFINE m == Len(sections)
<1>1. Read(l)
  BY DEF Step
<1>2. PICK c \in BOOLEAN :
        /\ l \in Line /\ lines \in Seq(Line) /\ truth \in Seq(BOOLEAN) /\ Len(truth) = Len(lines)
        /\ lines' = Append(lines, l) /\ truth' = Append(truth, c) /\ Condition = c
  BY <1>1, NextLine
<1>3. /\ sections \in Seq(Section) /\ sections # <<>> /\ m \in Nat \ {0}
      /\ Top = sections[m] /\ Top \in Section
      /\ m = 1 => Top = Group("normal", TRUE, FALSE)
      /\ m # 1 => Top.delimiter \in {"after_if", "after_else"}
      /\ Top.nesting # 0 => ~Top.include
      /\ Depth(lines, Behind(lines)) = m - 1 + Top.nesting
      /\ \A kind : is_delimiter_of_current_group(kind) <=>
           \/ Top.delimiter = "after_if" /\ kind \in {"elif", "else", "endif"}
           \/ Top.delimiter = "after_else" /\ kind = "endif"
  BY TopFacts
<1>4. Top.nesting \in Nat /\ Top.include \in BOOLEAN /\ Top.did_include \in BOOLEAN
  BY <1>3 DEF Section
<1> DEFINE D == Depth(lines, Behind(lines))
<1>5. \A o : Opens(lines, truth, o, m - 1) => Depth(lines, o) + 1 = m - 1
  BY <1>3 DEF Opens
<1>6. ASSUME l.kind \notin {"elif", "else"} \/ Top.nesting # 0,
             NEW o, Opens(lines, truth, o, m - 1), Knows(lines, truth, Top, o)
      PROVE  Knows(lines', truth', Top, o)
  <2>1. ~(l.kind \in {"elif", "else"} /\ D = Depth(lines, o) + 1)
    BY <1>3, <1>4, <1>5, <1>6
  <2> QED  BY <2>1, <1>2, <1>6, KnowsNext
<1> HIDE DEF m
<1>7. CASE TextLine(l) \/ Define(l) \/ Undef(l)
  <2>1. /\ l.kind \in {"text", "define", "undef"} /\ sections' = sections /\ Top.include
    BY <1>7 DEF TextLine, Define, Undef, Included
  <2>2. sections = Append(Front(sections), Top)
    BY <1>3, FrontFacts DEF m
  <2>3. nesting_change(l.kind) = 0 /\ l.kind \notin {"elif", "else", "endif"}
    BY <2>1 DEF nesting_change
  <2>4. \A o : Opens(lines, truth, o, m - 1) /\ Knows(lines, truth, Top, o) => Knows(lines', truth', Top, o)
    BY <2>3, <1>6
  <2>5. IF m = 1 THEN Top = Group("normal", TRUE, FALSE) ELSE Top.delimiter # "normal"
    BY <1>3
  <2>6. D + nesting_change(l.kind) = m - 1 + Top.nesting
    BY <1>3, <1>4, <2>3
  <2>7. Nested(lines', truth', Append(Front(sections), Top))
    BY <1>2, <1>3, <2>3, <2>4, <2>5, <2>6, SameSections DEF m
  <2> QED  BY <1>3, <2>1, <2>2, <2>7
<1>8. CASE SkipLine(l)
  <2> DEFINE x == [Top EXCEPT !.nesting = @ + nesting_change(l.kind)]
  <2>1. /\ sections' = Append(Front(sections), x) /\ ~Top.include /\ ~Ends(l)
    BY <1>8 DEF SkipLine, Skipped
  <2>2. m # 1 /\ Top.delimiter \in {"after_if", "after_else"}
    BY <1>3, <2>1 DEF Group
  <2>3. /\ l.kind = "endif" => Top.nesting # 0
        /\ l.kind \in {"elif", "else"} /\ Top.nesting = 0 => Top.delimiter = "after_else"
    BY <2>1, <2>2, <1>3 DEF Ends
  <2>4. nesting_change(l.kind) \in {-1, 0, 1} /\ (nesting_change(l.kind) = -1 => l.kind = "endif")
    BY DEF nesting_change
  <2>5. Top.nesting + nesting_change(l.kind) \in Nat
    BY <2>3, <2>4, <1>4
  <2>6. /\ x \in Section /\ x.nesting = Top.nesting + nesting_change(l.kind)
        /\ x.include = Top.include /\ x.did_include = Top.did_include /\ x.delimiter = Top.delimiter
    BY <2>5, <1>3 DEF Section
  <2>7. ASSUME NEW o, Opens(lines, truth, o, m - 1), Knows(lines, truth, Top, o)
        PROVE  Knows(lines', truth', x, o)
    <3>1. Knows(lines', truth', Top, o)
      <4>1. CASE l.kind \in {"elif", "else"} /\ Top.nesting = 0
        <5>1. Top.delimiter = "after_else" /\ D = Depth(lines, o) + 1
          BY <4>1, <2>3, <2>7, <1>3, <1>5
        <5> QED  BY <4>1, <5>1, <1>2, <1>3, <2>1, <2>7, KnowsBehindElse
      <4>2. CASE l.kind \notin {"elif", "else"} \/ Top.nesting # 0
        BY <4>2, <1>6, <2>7
      <4> QED  BY <4>1, <4>2
    <3> HIDE DEF x
    <3> QED  BY <3>1, <2>6 DEF Knows
  <2> HIDE DEF x
  <2>8. D + nesting_change(l.kind) = m - 1 + x.nesting
    BY <1>3, <1>4, <2>4, <2>6
  <2>9. D > 0 /\ D >= m - 1
    BY <1>3, <1>4, <2>2
  <2>10. x.nesting # 0 => ~x.include
    BY <2>1, <2>6
  <2>11. IF m = 1 THEN x = Group("normal", TRUE, FALSE) ELSE x.delimiter # "normal"
    BY <2>2, <2>6
  <2>12. Nested(lines', truth', Append(Front(sections), x))
    BY <1>2, <1>3, <2>6, <2>7, <2>8, <2>9, <2>10, <2>11, SameSections DEF m
  <2>13. sections' \in Seq(Section) /\ Len(sections') = m
    BY <1>3, <2>1, <2>6, FrontFacts DEF m
  <2> QED  BY <2>1, <2>12, <2>13, <1>3, EmptySeq
<1>9. CASE Elif(l) \/ Else(l)
  <2>1. /\ l.kind \in {"elif", "else"} /\ Ends(l)
    BY <1>9 DEF Elif, Else
  <2>2. m # 1 /\ Top.delimiter = "after_if" /\ Top.nesting = 0
    BY <2>1, <1>3 DEF Ends, Group
  <2>3. D = m - 1 /\ D > 0 /\ D >= m - 1
    BY <1>3, <2>2
  <2>4. PICK x :
          /\ sections' = Append(Front(sections), x)
          /\ \/ /\ l.kind = "elif"
                /\ x = Group("after_if", c /\ ~Top.did_include, Top.did_include \/ (c /\ ~Top.did_include))
             \/ l.kind = "else" /\ x = Group("after_else", ~Top.did_include, Top.did_include)
    BY <1>2, <1>9 DEF Elif, Else, elif_included
  <2>5. x \in Section /\ x.nesting = 0 /\ x.delimiter # "normal"
    <3>1. \A a, b \in BOOLEAN : \A d \in {"after_if", "after_else"} :
            /\ Group(d, a, b) \in Section
            /\ Group(d, a, b).nesting = 0 /\ Group(d, a, b).delimiter # "normal"
      BY DEF Group, Section
    <3>2. /\ (c /\ ~Top.did_include) \in BOOLEAN /\ (~Top.did_include) \in BOOLEAN
          /\ (Top.did_include \/ (c /\ ~Top.did_include)) \in BOOLEAN
      OBVIOUS
    <3> QED  BY <3>1, <3>2, <1>4, <2>4
  <2>6. ASSUME NEW o, Opens(lines, truth, o, m - 1), Knows(lines, truth, Top, o)
        PROVE  Knows(lines', truth', x, o)
    <3>1. D = Depth(lines, o) + 1
      BY <1>5, <2>3, <2>6
    <3>2. CASE l.kind = "elif"
      <4>1. x = Group("after_if", c /\ ~Top.did_include, Top.did_include \/ (c /\ ~Top.did_include))
        BY <3>2, <2>4
      <4> QED  BY <3>1, <3>2, <4>1, <1>2, <1>3, <2>2, <2>6, KnowsElif
    <3>3. CASE l.kind = "else"
      <4>1. x = Group("after_else", ~Top.did_include, Top.did_include)
        BY <3>3, <2>4
      <4> QED  BY <3>1, <3>3, <4>1, <1>2, <1>3, <2>2, <2>6, KnowsElse
    <3> QED  BY <3>2, <3>3, <2>1
  <2>7. D + nesting_change(l.kind) = m - 1 + x.nesting
    BY <1>3, <2>1, <2>3, <2>5 DEF nesting_change
  <2>8. IF m = 1 THEN x = Group("normal", TRUE, FALSE) ELSE x.delimiter # "normal"
    BY <2>2, <2>5
  <2>9. x.nesting # 0 => ~x.include
    BY <2>5
  <2>10. x \in Section /\ sections' = Append(Front(sections), x)
    BY <2>4, <2>5
  <2>11. Nested(lines', truth', Append(Front(sections), x))
    BY <1>2, <1>3, <2>3, <2>6, <2>7, <2>8, <2>9, <2>10, SameSections DEF m
  <2>12. sections' \in Seq(Section) /\ Len(sections') = m
    BY <1>3, <2>10, FrontFacts DEF m
  <2> QED  BY <2>10, <2>11, <2>12, <1>3, EmptySeq
<1>10. CASE If(l)
  <2> DEFINE x == Group("after_if", c, c)
  <2>1. l.kind = "if" /\ Top.include /\ sections' = Append(sections, x)
    BY <1>2, <1>10 DEF If, Included
  <2>2. x \in Section
    BY <1>2 DEF Group, Section
  <2>3. Nested(lines', truth', Append(sections, x))
    BY <1>2, <1>3, <2>1, <2>2, OneMoreSection DEF m
  <2> HIDE DEF x
  <2>4. sections' \in Seq(Section) /\ Len(sections') = m + 1
    BY <1>3, <2>1, <2>2 DEF m
  <2> QED  BY <2>1, <2>3, <2>4, <1>3, EmptySeq
<1>11. CASE Endif(l)
  <2>1. l.kind = "endif" /\ Ends(l) /\ sections' = Front(sections)
    BY <1>11 DEF Endif
  <2>2. m # 1 /\ Top.nesting = 0
    BY <2>1, <1>3 DEF Ends, Group
  <2>3. m > 1 /\ sections[m].nesting = 0
    BY <2>2, <1>3
  <2>4. Nested(lines', truth', Front(sections))
    BY <1>2, <1>3, <2>1, <2>3, OneLessSection DEF m
  <2>5. Front(sections) \in Seq(Section) /\ Len(Front(sections)) = m - 1
    BY <1>3, FrontFacts DEF m
  <2> QED  BY <2>1, <2>3, <2>4, <2>5, <1>3, EmptySeq
<1> QED  BY <1>7, <1>8, <1>9, <1>10, <1>11 DEF Step
----------------------------------------------------------------------------
(* What is kept of the file, whether or not the line is.                   *)
LEMMA KeptStep ==
  ASSUME TypeOK, Nested(lines, truth, sections), KeptIsLive, NEW l \in Inputs, Step(l), ~Unexpected(l)
  PROVE  KeptIsLive'
<1> DEFINE n == Behind(lines)
           live(L, T) == {i \in Of(L, "text", DOMAIN L) : Live(L, T, i)}
<1>1. /\ l \in Line /\ lines \in Seq(Line) /\ truth \in Seq(BOOLEAN) /\ Len(truth) = Len(lines)
      /\ Condition \in BOOLEAN /\ lines' = Append(lines, l) /\ truth' = Append(truth, Condition)
      /\ DOMAIN lines = 1..Len(lines) /\ Len(lines) \in Nat /\ DOMAIN lines' = 1..Len(lines) + 1
      /\ Len(lines') = n /\ n = Len(lines) + 1 /\ status = "run"
  BY NextLine DEF Step, Behind
<1>2. Live(lines, truth, n) <=> Top.include
  BY <1>1, TopFacts, LiveHere
<1>3. \A i \in 1..n : Live(lines', truth', i) <=> Live(lines, truth, i)
  BY <1>1, LiveAppend
<1>4. lines'[n] = l /\ \A i \in 1..Len(lines) : lines'[i] = lines[i]
  BY <1>1
<1>5. live(lines', truth') = live(lines, truth) \cup {i \in {n} : l.kind = "text" /\ Top.include}
  <2>1. DOMAIN lines' = DOMAIN lines \cup {n} /\ \A i \in DOMAIN lines : i \in 1..n
    BY <1>1
  <2>2. n \in 1..n
    BY <1>1
  <2> QED  BY <1>1, <1>2, <1>3, <1>4, <2>1, <2>2 DEF Of
<1>6. kept = live(lines, truth)
  BY <1>1 DEF KeptIsLive
<1>7. kept' = kept \cup {i \in {n} : l.kind = "text" /\ Top.include}
  <2>1. CASE TextLine(l)
    BY <2>1, <1>1 DEF TextLine, Included
  <2>2. CASE ~TextLine(l)
    <3>1. kept' = kept /\ (l.kind # "text" \/ ~Top.include)
      BY <2>2 DEF Step, Define, Undef, If, Elif, Else, Endif, SkipLine, Skipped
    <3> QED  BY <3>1
  <2> QED  BY <2>1, <2>2
<1>8. kept' = live(lines', truth')
  BY <1>5, <1>6, <1>7
<1> QED  BY <1>8 DEF KeptIsLive

(* The variables keep their types.                                         *)
LEMMA TypeStep ==
  ASSUME TypeOK, NEW l \in Inputs, Step(l), sections' \in Seq(Section), sections' # <<>>
  PROVE  TypeOK'
<1> DEFINE E == [name : Names, undef : BOOLEAN]
<1>1. /\ l \in Line /\ lines' \in Seq(Line) /\ Len(lines') <= MaxLines
      /\ truth' \in [DOMAIN lines' -> BOOLEAN]
      /\ DOMAIN lines = 1..Len(lines) /\ Len(lines) \in Nat /\ DOMAIN lines' = 1..Len(lines) + 1
      /\ Len(lines') = Len(lines) + 1
  BY NextLine DEF Step, Behind
<1>2. l.name \in Names /\ macros \in Seq(E)
  BY <1>1 DEF Line, TypeOK
<1>3. macros' \in Seq(E)
  <2>1. CASE Define(l)
    <3>1. [name |-> l.name, undef |-> FALSE] \in E
      BY <1>2
    <3> QED  BY <2>1, <3>1, <1>2 DEF Define
  <2>2. CASE Undef(l)
    <3>1. /\ macros' = [i \in DOMAIN macros |->
               IF i = entry_to_undef(l.name) THEN [macros[i] EXCEPT !.undef = TRUE] ELSE macros[i]]
          /\ DOMAIN macros = 1..Len(macros) /\ Len(macros) \in Nat
      BY <2>2, <1>2 DEF Undef
    <3>2. \A i \in 1..Len(macros) : macros[i] \in E /\ [macros[i] EXCEPT !.undef = TRUE] \in E
      <4>1. \A r \in E : [r EXCEPT !.undef = TRUE] \in E
        OBVIOUS
      <4>2. \A i \in 1..Len(macros) : macros[i] \in E
        <5> HIDE DEF E
        <5> QED  BY <1>2
      <4> QED  BY <4>1, <4>2
    <3>3. macros' \in [1..Len(macros) -> E]
      BY <3>1, <3>2
    <3> QED  BY <3>1, <3>3
  <2>3. CASE ~Define(l) /\ ~Undef(l)
    BY <2>3, <1>2 DEF Step, TextLine, If, Elif, Else, Endif, Unexpected, SkipLine
  <2> QED  BY <2>1, <2>2, <2>3
<1>4. kept' \subseteq DOMAIN lines'
  <2>1. kept' = kept \/ kept' = kept \cup {Len(lines')}
    BY DEF Step, TextLine, Define, Undef, If, Elif, Else, Endif, Unexpected, SkipLine
  <2>2. kept \subseteq DOMAIN lines
    BY DEF TypeOK
  <2>3. DOMAIN lines \subseteq DOMAIN lines' /\ Len(lines') \in DOMAIN lines'
    BY <1>1
  <2> QED  BY <2>1, <2>2, <2>3
<1>5. status' \in {"run", "done", "unexpected", "expected endif"}
  BY DEF TypeOK, Step, TextLine, Define, Undef, If, Elif, Else, Endif, Unexpected, SkipLine
<1> QED  BY <1>1, <1>3, <1>4, <1>5 DEF TypeOK

(* A directive that no section expects is stray, or behind an #else.       *)
LEMMA UnexpectedIsWrong ==
  ASSUME TypeOK, Nested(lines, truth, sections), NEW l \in Inputs, Read(l), Unexpected(l)
  PROVE  ~NoStray(lines') \/ ~ElseIsLast(lines', truth')
<1> DEFINE m == Len(sections)
           n == Behind(lines)
<1>1. PICK c \in BOOLEAN :
        /\ l \in Line /\ lines \in Seq(Line) /\ truth \in Seq(BOOLEAN) /\ Len(truth) = Len(lines)
        /\ lines' = Append(lines, l) /\ truth' = Append(truth, c) /\ lines' \in Seq(Line)
        /\ DOMAIN lines = 1..Len(lines) /\ Len(lines) \in Nat /\ DOMAIN lines' = 1..Len(lines) + 1
        /\ Len(lines') = n /\ n = Len(lines) + 1
  BY NextLine DEF Behind
<1>2. /\ m \in Nat \ {0} /\ Top = sections[m] /\ Top.nesting \in Nat
      /\ m = 1 => Top = Group("normal", TRUE, FALSE)
      /\ m # 1 => Top.delimiter \in {"after_if", "after_else"}
      /\ Top.nesting # 0 => ~Top.include
      /\ Depth(lines, n) = m - 1 + Top.nesting
      /\ \A kind : is_delimiter_of_current_group(kind) <=>
           \/ Top.delimiter = "after_if" /\ kind \in {"elif", "else", "endif"}
           \/ Top.delimiter = "after_else" /\ kind = "endif"
  BY TopFacts DEF Section
<1>3. /\ l.kind \in {"elif", "else", "endif"} /\ Top.include
      /\ ~is_delimiter_of_current_group(l.kind)
  BY DEF Unexpected, Included
<1>4. Depth(lines, n) = m - 1
  BY <1>2, <1>3
<1>5. lines'[n] = l /\ n \in 1..n /\ n \in Nat /\ Depth(lines', n) = Depth(lines, n)
  BY <1>1, DepthAppend
<1> HIDE DEF m, n
<1>6. CASE m = 1
  <2>1. ~(Depth(lines', n) > 0)
    BY <1>4, <1>5, <1>6
  <2> QED  BY <2>1, <1>1, <1>3, <1>5 DEF NoStray
<1>7. CASE m # 1
  <2>1. Top.delimiter = "after_else" /\ l.kind \in {"elif", "else"}
    BY <1>2, <1>3, <1>7
  <2>2. PICK o : Opens(lines, truth, o, m - 1) /\ Knows(lines, truth, Top, o)
    <3>1. PICK open \in [1..m - 1 -> DOMAIN lines] :
            \A k \in 1..m - 1 : Opens(lines, truth, open[k], k) /\ Knows(lines, truth, sections[k + 1], open[k])
      BY DEF Nested, m
    <3>2. m - 1 \in 1..m - 1 /\ (m - 1) + 1 = m
      BY <1>2, <1>7
    <3> QED  BY <3>1, <3>2, <1>2
  <2>3. PICK b \in Branches(lines, o, n) : lines[b].kind = "else"
    BY <2>1, <2>2 DEF Knows, n
  <2>4. /\ o \in 1..Len(lines) /\ lines[o].kind = "if" /\ Live(lines, truth, o)
        /\ Depth(lines, n) = Depth(lines, o) + 1
    BY <1>1, <1>2, <1>4, <2>2 DEF Opens
  <2>5. /\ Branches(lines, o, n) \subseteq 1..Len(lines)
        /\ Branches(lines', o, Behind(lines')) = Branches(lines, o, n) \cup {n}
    <3>1. GroupAdded(lines, l, truth, c, o)
      BY <1>1, <2>1, <2>2, <2>4, NewGroup DEF n
    <3>2. Branches(lines, o, n) \subseteq 1..Len(lines)
      BY <1>1, <2>2, BranchesNext DEF n
    <3> QED  BY <1>1, <3>1, <3>2 DEF GroupAdded, n
  <2>6. b \in 1..Len(lines) /\ b < n /\ lines'[b] = lines[b] /\ lines'[o] = lines[o] /\ o \in 1..n
    BY <1>1, <2>3, <2>4, <2>5
  <2>7. Max(Branches(lines', o, Behind(lines'))) = n
    <3> DEFINE A == Branches(lines, o, n) \cup {n}
    <3>1. A \subseteq Nat /\ n \in A /\ \A y \in A : y <= n
      BY <1>1, <2>5
    <3> HIDE DEF A
    <3>2. Max(A) = n
      BY <3>1, MaxIs
    <3> QED  BY <2>5, <3>2 DEF A
  <2>8. o \in Of(lines', "if", DOMAIN lines') /\ Live(lines', truth', o)
    <3>1. Live(lines', truth', o) <=> Live(lines, truth, o)
      BY <1>1, <2>6, LiveAppend
    <3> QED  BY <1>1, <2>4, <2>6, <3>1 DEF Of
  <2>9. b \in Branches(lines', o, Behind(lines')) /\ lines'[b].kind = "else" /\ b # n
    BY <2>3, <2>5, <2>6, <1>1
  <2>10. ~ElseIsLast(lines', truth')
    BY <2>7, <2>8, <2>9 DEF ElseIsLast, Behind
  <2> QED  BY <2>10
<1> QED  BY <1>6, <1>7
----------------------------------------------------------------------------
(* The empty file has no section in progress.                              *)
LEMMA InitIInv == Init => IInv
<1> SUFFICES ASSUME Init  PROVE IInv
  OBVIOUS
<1> DEFINE g == Group("normal", TRUE, FALSE)
<1>1. /\ lines = <<>> /\ truth = <<>> /\ macros = <<>> /\ kept = {} /\ sections = <<g>> /\ status = "run"
      /\ Len(lines) = 0 /\ DOMAIN lines = {} /\ DOMAIN truth = {}
  BY DEF Init
<1>2. g \in Section /\ g.nesting = 0 /\ g.include
  BY DEF Group, Section
<1> HIDE DEF g
<1>3. sections \in Seq(Section) /\ Len(sections) = 1 /\ sections[1] = g /\ sections # <<>>
  BY <1>1, <1>2
<1>4. TypeOK
  <2>1. truth \in [{} -> BOOLEAN]
    BY <1>1
  <2> QED  BY <1>1, <1>3, <2>1, CondAssumption DEF TypeOK
<1>5. Nested(lines, truth, sections)
  <2>1. Depth(lines, 1) = 0
    <3>1. 1..(1 - 1) = {}
      OBVIOUS
    <3>2. \A k : Of(lines, k, 1..(1 - 1)) = {}
      BY <3>1 DEF Of
    <3> QED  BY <3>2, FS_EmptySet DEF Depth
  <2>2. Behind(lines) = 1
    BY <1>1 DEF Behind
  <2>3. Depths(lines)
    <3>1. Enclosing(lines, 1) = {}
      BY DEF Enclosing, Of
    <3>2. \A i \in 1..1 : i = 1
      OBVIOUS
    <3> QED  BY <2>1, <2>2, <3>1, <3>2 DEF Depths
  <2>4. Shape(sections)
    <3>1. 2..1 = {} /\ 1..(1 - 1) = {} /\ 1..1 = {1}
      OBVIOUS
    <3> QED  BY <1>2, <1>3, <3>1 DEF Shape, g
  <2>5. \E open \in [1..Len(sections) - 1 -> DOMAIN lines] :
          \A k \in 1..Len(sections) - 1 :
            Opens(lines, truth, open[k], k) /\ Knows(lines, truth, sections[k + 1], open[k])
    <3>1. 1..Len(sections) - 1 = {}
      BY <1>3
    <3>2. [k \in {} |-> 0] \in [{} -> DOMAIN lines]
      OBVIOUS
    <3> QED  BY <3>1, <3>2
  <2>6. NoStray(lines)
    BY <1>1 DEF NoStray
  <2>7. Depth(lines, Behind(lines)) = Len(sections) - 1 + sections[Len(sections)].nesting
    BY <1>2, <1>3, <2>1, <2>2
  <2> QED  BY <2>3, <2>4, <2>5, <2>6, <2>7 DEF Nested
<1>6. KeptIsLive
  BY <1>1 DEF KeptIsLive, Of
<1>7. RejectsUnbalanced
  BY <1>1 DEF RejectsUnbalanced
<1> QED  BY <1>4, <1>5, <1>6, <1>7 DEF IInv

(* The inductive step.                                                     *)
LEMMA NextKeepsIInv == IInv /\ [Next]_vars => IInv'
<1> SUFFICES ASSUME IInv, [Next]_vars  PROVE IInv'
  OBVIOUS
<1>1. TypeOK /\ KeptIsLive /\ RejectsUnbalanced
  BY DEF IInv
<1>2. ASSUME NEW l \in Inputs, Step(l), ~Unexpected(l)
      PROVE  IInv'
  <2>1. status = "run" /\ status' = "run" /\ Nested(lines, truth, sections)
    BY <1>2 DEF IInv, Step, Read, TextLine, Define, Undef, If, Elif, Else, Endif, SkipLine
  <2>2. sections' \in Seq(Section) /\ sections' # <<>> /\ Nested(lines', truth', sections')
    BY <1>1, <1>2, <2>1, SectionsStep
  <2>3. TypeOK'
    BY <1>1, <1>2, <2>2, TypeStep
  <2>4. KeptIsLive'
    BY <1>1, <1>2, <2>1, KeptStep
  <2>5. RejectsUnbalanced'
    BY <2>1 DEF RejectsUnbalanced
  <2> QED  BY <2>2, <2>3, <2>4, <2>5 DEF IInv
<1>3. ASSUME NEW l \in Inputs, Step(l), Unexpected(l)
      PROVE  IInv'
  <2>1. status = "run" /\ status' = "unexpected" /\ Nested(lines, truth, sections) /\ Read(l)
    BY <1>3 DEF IInv, Step, Read, Unexpected
  <2>2. sections' = sections
    BY <1>3 DEF Unexpected
  <2>3. TypeOK'
    BY <1>1, <1>3, <2>2, TypeStep DEF TypeOK
  <2>4. ~NoStray(lines') \/ ~ElseIsLast(lines', truth')
    BY <1>1, <1>3, <2>1, UnexpectedIsWrong
  <2>5. RejectsUnbalanced' /\ KeptIsLive'
    BY <2>1, <2>4 DEF RejectsUnbalanced, KeptIsLive
  <2> QED  BY <2>1, <2>3, <2>5 DEF IInv
<1>4. CASE EndOfFile
  <2>1. /\ status = "run" /\ status' \in {"done", "expected endif"}
        /\ status' = "done" <=> Top.delimiter = "normal"
        /\ lines' = lines /\ truth' = truth /\ macros' = macros /\ sections' = sections /\ kept' = kept
        /\ Nested(lines, truth, sections)
    BY <1>4 DEF EndOfFile, IInv
  <2>2. TypeOK'
    BY <1>1, <2>1 DEF TypeOK
  <2>3. KeptIsLive'
    BY <1>1, <2>1 DEF KeptIsLive
  <2>4. IF Top.delimiter = "normal" THEN Depth(lines, Len(lines) + 1) = 0
        ELSE Depth(lines, Len(lines) + 1) > 0
    <3>1. /\ Len(sections) \in Nat \ {0} /\ Top.nesting \in Nat
          /\ Len(sections) = 1 => Top = Group("normal", TRUE, FALSE)
          /\ Len(sections) # 1 => Top.delimiter \in {"after_if", "after_else"}
          /\ Depth(lines, Len(lines) + 1) = Len(sections) - 1 + Top.nesting
      BY <1>1, <2>1, TopFacts DEF Behind, Section
    <3>2. CASE Len(sections) = 1
      BY <3>1, <3>2 DEF Group
    <3>3. CASE Len(sections) # 1
      <4>1. Top.delimiter # "normal"
        BY <3>1, <3>3
      <4>2. Len(sections) - 1 + Top.nesting > 0
        <5>1. \A m, t \in Nat : m \notin {0, 1} => m - 1 + t > 0
          OBVIOUS
        <5>2. Len(sections) \in Nat /\ Len(sections) \notin {0, 1} /\ Top.nesting \in Nat
          BY <3>1, <3>3
        <5> QED  BY <5>1, <5>2
      <4> QED  BY <3>1, <4>1, <4>2
    <3> QED  BY <3>2, <3>3
  <2>5. RejectsUnbalanced'
    BY <2>1, <2>4 DEF RejectsUnbalanced, Nested
  <2> QED  BY <2>1, <2>2, <2>3, <2>5 DEF IInv
<1>5. CASE UNCHANGED vars
  <2>1. /\ lines' = lines /\ truth' = truth /\ macros' = macros /\ sections' = sections /\ kept' = kept
        /\ status' = status
    BY <1>5 DEF vars
  <2> QED  BY <2>1 DEF IInv, TypeOK, KeptIsLive, RejectsUnbalanced
<1> QED  BY <1>2, <1>3, <1>4, <1>5 DEF Next

(* The recursion of preprocess_if_section and the count of skip_group_opt  *)
(* together are the depth of the line in the file, and each section in     *)
(* progress remembers what is true of its lines.                           *)
THEOREM Invariance == Spec => []IInv
BY InitIInv, NextKeepsIInv, PTL DEF Spec

(* The variables always have their types: the sections are a recursion     *)
(* that never ends below the outermost.                                    *)
THEOREM TypesCorrect == Spec => []TypeOK
BY Invariance, PTL DEF IInv

(* Exactly the text lines that are part of the program are kept.           *)
THEOREM KeptIsLiveCorrect == Spec => []KeptIsLive
BY Invariance, PTL DEF IInv

(* A file is accepted if its sections are balanced, and rejected only for  *)
(* one of the three reasons that the rules have.                           *)
THEOREM RejectsUnbalancedCorrect == Spec => []RejectsUnbalanced
BY Invariance, PTL DEF IInv
----------------------------------------------------------------------------
(* Table s has an entry of name n that is not undefined.                   *)
Has(s, n) == \E i \in DOMAIN s : s[i].name = n /\ ~s[i].undef

(* Where the search for it from the front stops: find_macro.               *)
Found(s, n) ==
  LET hits == {i \in DOMAIN s : s[i].name = n /\ ~s[i].undef}
  IN  IF hits = {} THEN 0 ELSE Min(hits)

(* At most one entry of a name is not undefined.                           *)
OneIn(s) ==
  \A i, j \in DOMAIN s : s[i].name = s[j].name /\ ~s[i].undef /\ ~s[j].undef => i = j
OneEntry == OneIn(macros)

(* Place e is that of such an entry, or of none.                           *)
Finds(s, e, n) ==
  /\ Has(s, n) => e \in DOMAIN s /\ s[e].name = n /\ ~s[e].undef
  /\ ~Has(s, n) => e \notin DOMAIN s

(* A search from the front finds an entry if there is one.                 *)
LEMMA FirstEntry ==
  ASSUME NEW E, NEW s \in Seq(E), NEW n
  PROVE  Finds(s, Found(s, n), n) /\ (Found(s, n) # 0 <=> Has(s, n))
<1> DEFINE hits == {i \in DOMAIN s : s[i].name = n /\ ~s[i].undef}
<1>1. hits \subseteq Nat /\ 0 \notin hits
  BY LenProperties
<1>2. hits # {} => Min(hits) \in hits
  <2> HIDE DEF hits
  <2> QED  BY <1>1, MinIs
<1>3. hits # {} <=> Has(s, n)
  BY DEF Has
<1>4. Found(s, n) = IF hits = {} THEN 0 ELSE Min(hits)
  BY DEF Found
<1> HIDE DEF hits
<1>5. hits \subseteq DOMAIN s /\ \A i \in hits : s[i].name = n /\ ~s[i].undef
  BY DEF hits
<1>6. Found(s, n) # 0 <=> Has(s, n)
  BY <1>1, <1>2, <1>3, <1>4
<1>7. Has(s, n) => Found(s, n) \in hits
  BY <1>2, <1>3, <1>4
<1>8. ~Has(s, n) => Found(s, n) \notin DOMAIN s
  BY <1>3, <1>4, LenProperties
<1> QED  BY <1>5, <1>6, <1>7, <1>8 DEF Finds

(* The lines that decide about a name.                                     *)
Deciding(L, T, n) ==
  {d \in DOMAIN L : /\ L[d].kind \in {"define", "undef"} /\ L[d].name = n
                    /\ Live(L, T, d)}

(* A line that is part of the program and defines or undefines decides; no *)
(* other line does.                                                        *)
LEMMA DefinedNext ==
  ASSUME NEW L \in Seq(Line), NEW l \in Line,
         NEW T \in Seq(BOOLEAN), Len(T) = Len(L), NEW t \in BOOLEAN, NEW n
  PROVE  Defined(Append(L, l), Append(T, t), n) <=>
           IF l.kind \in {"define", "undef"} /\ l.name = n /\ Live(L, T, Behind(L))
           THEN l.kind = "define" ELSE Defined(L, T, n)
<1> DEFINE M == Append(L, l)
           U == Append(T, t)
           b == Behind(L)
           old == Deciding(L, T, n)
           now == Deciding(M, U, n)
           decides == l.kind \in {"define", "undef"} /\ l.name = n /\ Live(L, T, b)
<1>1. /\ b = Len(L) + 1 /\ DOMAIN M = 1..Len(L) + 1 /\ DOMAIN L = 1..Len(L) /\ M[b] = l /\ b \in Nat
      /\ \A i \in 1..Len(L) : M[i] = L[i]
  BY DEF Behind
<1>2. \A i \in 1..b : Live(M, U, i) <=> Live(L, T, i)
  BY <1>1, LiveAppend
<1>3. /\ Defined(M, U, n) <=> now # {} /\ M[Max(now)].kind = "define"
      /\ Defined(L, T, n) <=> old # {} /\ L[Max(old)].kind = "define"
  BY DEF Defined, Deciding
<1> HIDE DEF M, U, b
<1>4. now = old \cup {i \in {b} : decides}
  <2>1. DOMAIN M = DOMAIN L \cup {b} /\ b \in 1..b /\ \A i \in DOMAIN L : i \in 1..b
    BY <1>1
  <2> QED  BY <1>1, <1>2, <2>1 DEF Deciding
<1>5. old \subseteq 1..Len(L)
  BY <1>1 DEF Deciding
<1>6. CASE decides
  <2>1. now = old \cup {b}
    BY <1>4, <1>6
  <2>2. now \subseteq Nat /\ b \in now /\ \A i \in now : i <= b
    BY <1>1, <1>5, <2>1
  <2> HIDE DEF now
  <2>3. Max(now) = b
    BY <2>2, MaxIs
  <2>4. Defined(M, U, n) <=> l.kind = "define"
    BY <1>1, <1>3, <2>2, <2>3
  <2> QED  BY <1>6, <2>4 DEF M, U, b
<1>7. CASE ~decides
  <2>1. now = old
    BY <1>4, <1>7
  <2>2. old # {} => Max(old) \in 1..Len(L)
    <3>1. ASSUME old # {}  PROVE Max(old) \in old
      <4>1. Len(L) \in Nat /\ old \subseteq 0..Len(L)
        BY <1>5
      <4>2. PICK x \in old : \A y \in old : y <= x
        <5> HIDE DEF old
        <5> QED  BY <3>1, <4>1, LastExists
      <4>3. Max(old) = x
        <5>1. old \subseteq Nat
          BY <1>5
        <5> HIDE DEF old
        <5> QED  BY <4>2, <5>1, MaxIs
      <4> QED  BY <4>2, <4>3
    <3> QED  BY <3>1, <1>5
  <2> HIDE DEF now, old
  <2>3. Defined(M, U, n) <=> Defined(L, T, n)
    BY <1>1, <1>3, <2>1, <2>2
  <2> QED  BY <1>7, <2>3 DEF M, U, b
<1> QED  BY <1>6, <1>7

(* Table t is s with the entry at e marked as undefined.                   *)
Marks(s, t, e) ==
  /\ DOMAIN t = DOMAIN s
  /\ \A i \in DOMAIN s : /\ t[i].name = s[i].name
                         /\ t[i].undef <=> s[i].undef \/ i = e
(* Name n, and no other, is without an entry in t.                         *)
Loses(s, t, n) == ~Has(t, n) /\ \A k : k # n => (Has(t, k) <=> Has(s, k))

(* An #undef of a name with one entry leaves it none; no other name loses  *)
(* or gains one.                                                           *)
LEMMA UndefEntry ==
  ASSUME NEW s, NEW t, NEW e, NEW n,
         OneIn(s), Marks(s, t, e), Finds(s, e, n)
  PROVE  Loses(s, t, n) /\ OneIn(t)
BY DEF Has, OneIn, Marks, Finds, Loses

(* Every entry of the table follows from the #define and #undef lines that *)
(* are part of the program.  It is here that a macro must not be defined   *)
(* twice: an #undef marks only the first of two entries.                   *)
LEMMA MacrosStep ==
  ASSUME Redefinitions = FALSE, IInv, OneEntry, MacrosAsWritten, [Next]_vars
  PROVE  OneEntry' /\ MacrosAsWritten'
<1> DEFINE E == [name : Names, undef : BOOLEAN]
<1>1. TypeOK /\ TypeOK'
  BY NextKeepsIInv DEF IInv
<1>2. macros \in Seq(E) /\ macros' \in Seq(E)
  BY <1>1 DEF TypeOK
<1>3. \A i \in DOMAIN macros : macros[i] \in E
  <2> HIDE DEF E
  <2> QED  BY <1>2, ElementOfSeq, LenProperties
<1> HIDE DEF E
<1>4. \A n : /\ find_macro(n) # 0 <=> Has(macros, n)
             /\ Finds(macros, find_macro(n), n)
             /\ find_macro(n)' # 0 <=> Has(macros', n)
  <2>1. SUFFICES ASSUME NEW n
                 PROVE  /\ find_macro(n) # 0 <=> Has(macros, n)
                        /\ Finds(macros, find_macro(n), n)
                        /\ find_macro(n)' # 0 <=> Has(macros', n)
    OBVIOUS
  <2>2. find_macro(n) = Found(macros, n) /\ find_macro(n)' = Found(macros', n)
    BY DEF find_macro, Found
  <2>3. Finds(macros, Found(macros, n), n) /\ (Found(macros, n) # 0 <=> Has(macros, n))
    BY <1>2, FirstEntry
  <2>4. Found(macros', n) # 0 <=> Has(macros', n)
    BY <1>2, FirstEntry
  <2> QED  BY <2>2, <2>3, <2>4
<1>5. \A n \in Names : Has(macros, n) <=> Defined(lines, truth, n)
  BY <1>4 DEF MacrosAsWritten
<1>6. SUFFICES /\ OneEntry'
               /\ \A n \in Names : Has(macros', n) <=> Defined(lines', truth', n)
  BY <1>4 DEF MacrosAsWritten
<1>7. CASE UNCHANGED vars \/ EndOfFile
  <2>1. macros' = macros /\ lines' = lines /\ truth' = truth
    BY <1>7 DEF vars, EndOfFile
  <2> QED  BY <2>1, <1>5 DEF OneEntry, OneIn
<1>8. ASSUME NEW l \in Inputs, Step(l)
      PROVE  /\ OneEntry'
             /\ \A n \in Names : Has(macros', n) <=> Defined(lines', truth', n)
  <2>1. PICK c \in BOOLEAN :
          /\ l \in Line /\ lines \in Seq(Line) /\ truth \in Seq(BOOLEAN) /\ Len(truth) = Len(lines)
          /\ lines' = Append(lines, l) /\ truth' = Append(truth, c)
    BY <1>1, <1>8, NextLine DEF Step
  <2>2. Live(lines, truth, Behind(lines)) <=> Top.include
    <3>1. Nested(lines, truth, sections)
      BY <1>8 DEF IInv, Step, Read
    <3> QED  BY <3>1, <2>1, <1>1, TopFacts, LiveHere
  <2>3. \A n \in Names : Defined(lines', truth', n) <=>
          IF l.kind \in {"define", "undef"} /\ l.name = n /\ Top.include
          THEN l.kind = "define" ELSE Defined(lines, truth, n)
    BY <2>1, <2>2, DefinedNext
  <2>4. l.name \in Names
    BY <2>1 DEF Line
  <2>5. CASE Define(l)
    <3> DEFINE r == [name |-> l.name, undef |-> FALSE]
    <3>1. l.kind = "define" /\ Top.include /\ ~Has(macros, l.name) /\ macros' = Append(macros, r)
      BY <2>5, <1>4 DEF Define, Included
    <3>2. r \in E /\ r.name = l.name /\ ~r.undef
      BY <2>4 DEF E
    <3> HIDE DEF r
    <3>3. /\ DOMAIN macros' = DOMAIN macros \cup {Len(macros) + 1} /\ Len(macros) + 1 \notin DOMAIN macros
          /\ \A i \in DOMAIN macros : macros'[i] = macros[i]
          /\ macros'[Len(macros) + 1] = r
      BY <1>2, <3>1, <3>2
    <3>4. \A n : Has(macros', n) <=> Has(macros, n) \/ n = l.name
      BY <3>2, <3>3 DEF Has
    <3>5. OneEntry'
      BY <3>1, <3>2, <3>3 DEF OneEntry, OneIn, Has
    <3> QED  BY <1>5, <2>3, <3>1, <3>4, <3>5
  <2>6. CASE Undef(l)
    <3>1. /\ l.kind = "undef" /\ Top.include
          /\ macros' = [i \in DOMAIN macros |->
                          IF i = find_macro(l.name) THEN [macros[i] EXCEPT !.undef = TRUE] ELSE macros[i]]
      BY <2>6 DEF Undef, Included, entry_to_undef
    <3>2. /\ DOMAIN macros' = DOMAIN macros
          /\ \A i \in DOMAIN macros : /\ macros'[i].name = macros[i].name
                                      /\ macros'[i].undef <=> macros[i].undef \/ i = find_macro(l.name)
      <4>1. DOMAIN macros' = DOMAIN macros
        BY <3>1
      <4>2. ASSUME NEW i \in DOMAIN macros
            PROVE  /\ macros'[i].name = macros[i].name
                   /\ macros'[i].undef <=> macros[i].undef \/ i = find_macro(l.name)
        <5>1. macros[i] \in [name : Names, undef : BOOLEAN]
          BY <1>3 DEF E
        <5>2. macros'[i] = IF i = find_macro(l.name) THEN [macros[i] EXCEPT !.undef = TRUE] ELSE macros[i]
          BY <3>1
        <5> QED  BY <5>1, <5>2
      <4> QED  BY <4>1, <4>2
    <3>4. /\ ~Has(macros', l.name)
          /\ \A k : k # l.name => (Has(macros', k) <=> Has(macros, k))
          /\ OneEntry'
      <4> DEFINE e == find_macro(l.name)
                 t == macros'
                 n == l.name
      <4>1. OneIn(macros)
        BY DEF OneEntry, OneIn
      <4>2. Marks(macros, t, e)
        BY <3>2 DEF Marks
      <4>3. Finds(macros, e, n)
        BY <1>4
      <4>4. OneIn(t) => OneEntry'
        BY DEF OneEntry, OneIn
      <4> HIDE DEF e, t, n
      <4>5. Loses(macros, t, n) /\ OneIn(t)
        BY <4>1, <4>2, <4>3, UndefEntry
      <4> QED  BY <4>4, <4>5 DEF t, n, Loses
    <3> QED  BY <1>5, <2>3, <3>1, <3>4
  <2>7. CASE ~Define(l) /\ ~Undef(l)
    <3>1. macros' = macros /\ (l.kind \notin {"define", "undef"} \/ ~Top.include)
      BY <1>8, <2>7 DEF Step, TextLine, If, Elif, Else, Endif, Unexpected, SkipLine, Skipped
    <3> QED  BY <1>5, <2>3, <3>1 DEF OneEntry, OneIn
  <2> QED  BY <2>5, <2>6, <2>7
<1> QED  BY <1>7, <1>8 DEF Next

(* A macro is defined when the last #define or #undef of it that is part   *)
(* of the program says so, if no macro is defined while it is defined.     *)
THEOREM MacrosAsWrittenCorrect ==
  ASSUME Redefinitions = FALSE
  PROVE  Spec => []MacrosAsWritten
<1>1. Init => OneEntry /\ MacrosAsWritten
  <2>1. Init => OneEntry
    BY DEF Init, OneEntry, OneIn
  <2>2. Init => MacrosAsWritten
    BY DEF Init, MacrosAsWritten, find_macro, Defined
  <2> QED  BY <2>1, <2>2
<1>2. IInv /\ OneEntry /\ MacrosAsWritten /\ [Next]_vars => OneEntry' /\ MacrosAsWritten'
  BY MacrosStep
<1> QED  BY <1>1, <1>2, Invariance, PTL DEF Spec
=============================================================================
