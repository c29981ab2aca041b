------------------------- MODULE CallProtocol_proofs -------------------------
(***************************************************************************)
(* Proofs about CallProtocol, for any argument lists and any nesting: the  *)
(* stack is made of one part for each code in progress, and every part is  *)
(* what its own code has put there, as if it ran alone.                    *)
(***************************************************************************)
EXTENDS CallProtocol, AbiLemmas, FiniteSetTheorems, SequenceTheorems

(* What the code is known to need.  codegen_args looks at the size of an   *)
(* array that it passes on the stack, codegen_func_call at its address's.  *)
SmallOnStack ==
  \A args \in ArgLists : \A i \in OnStack(Plan(args)) :
    args[i].array => args[i].size <= Word

(* An argument in two registers has one pushed in the prologue; a value of *)
(* 3, 5, 6 or 7 bytes is not loaded; and any code for the callee but the   *)
(* reading of a pointer overwrites rdi.                                    *)
Plain ==
  /\ \A args \in ArgLists : \A i \in DOMAIN args :
       /\ Plan(args).given[i] <= 1
       /\ args[i].array \/ args[i].size \in {1, 2, 4, 8} \/ args[i].size > Word
  /\ Callees \subseteq {"named", "pointer"}
----------------------------------------------------------------------------
(* The part of code c of C begins behind Base and ends where the next      *)
(* begins, or at rsp.                                                      *)
Base(e) == IF e.kind = "func" THEN e.rbp - 2 ELSE e.base
Limit(s, C, c) == IF c = Len(C) THEN Len(s) ELSE Base(C[c + 1])

(* Where rsp is when all arguments on the stack are there, and now.        *)
Full(e) == e.base + e.pad + Total(e.plan.words, OnStack(e.plan))
Height(e) ==
  IF e.stage = "args"
  THEN (Full(e) - Total(e.plan.words, OnStack(e.plan) \cap e.todo))
         + (Total(e.plan.given, InRegs(e.plan)) - Total(e.plan.given, InRegs(e.plan) \cap e.todo))
  ELSE Full(e)

(* Where a word of an argument is, and what it is.                         *)
InMemory(e, i, k) == Full(e) - Before(e.plan.words, OnStack(e.plan), i) - (k - 1)
Waits(e, i) ==
  Full(e) + Total(e.plan.given, InRegs(e.plan)) - Before(e.plan.given, InRegs(e.plan), i)
Content(e, i, k) == Words(e.args[i], e.vals[i])[k]

(* The arguments that have been evaluated are where the call wants them.   *)
Arguments(s, e, hi) ==
  LET T == OnStack(e.plan)
      R == InRegs(e.plan)
  IN
  /\ T \cap e.todo # {} => R \subseteq e.todo
  /\ \A i, j \in DOMAIN e.args : j \in e.todo /\ i < j /\ (i \in T <=> j \in T) => i \in e.todo
  /\ \A i \in T \ e.todo : \A k \in 1..e.plan.words[i] :
       InMemory(e, i, k) \in 1..hi /\ s[InMemory(e, i, k)] = Content(e, i, k)
  /\ e.stage = "args" => \A i \in R \ e.todo :
       Waits(e, i) \in 1..hi /\ s[Waits(e, i)] = Content(e, i, 1)

CallPart(s, e, hi) ==
  /\ e.plan = Plan(e.args) /\ e.todo \subseteq DOMAIN e.args /\ Len(e.vals) = Len(e.args)
  /\ e.stage # "args" => e.todo = {}
  /\ hi = Height(e)
  /\ Full(e) % 2 = 0
  /\ Plain => Arguments(s, e, hi)

BinaryPart(s, e, hi) ==
  /\ hi = e.base + (IF e.pushed THEN 1 ELSE 0)
  /\ e.pushed => s[hi] = e.lhs

(* A function's part has the frame of the code below it, a call, and the   *)
(* registers of that call.                                                 *)
FuncPart(s, e, below, frame, hi) ==
  /\ e.rbp <= hi
  /\ below.kind = "call" /\ below.stage = "call"
  /\ s[e.rbp - 1] = ReturnAddress /\ s[e.rbp] = SavedRbp(frame)
  /\ Plain => \A i \in InRegs(below.plan) :
       LET slot == e.rbp + 1 + Before(below.plan.words, InRegs(below.plan), i)
       IN  slot \in 1..hi /\ s[slot] = Content(below, i, 1)

PartOf(s, C, c, hi) ==
  /\ C[c].kind = "call" => CallPart(s, C[c], hi)
  /\ C[c].kind = "binary" => BinaryPart(s, C[c], hi)
  /\ C[c].kind = "func" => /\ C[c].rbp >= 2 /\ C[c].rbp <= hi
                           /\ c > 1 => FuncPart(s, C[c], C[c - 1], FrameOf(C, c - 1), hi)

Parts(s, C) == \A c \in DOMAIN C : PartOf(s, C, c, Limit(s, C, c))

(* Parts are in the order of the codes.                                    *)
InOrder(s, C) ==
  /\ \A c \in DOMAIN C : Base(C[c]) \in 0..Len(s)
  /\ \A c, d \in DOMAIN C : c < d => Base(C[c]) <= Base(C[d])

(* Code below the innermost waits for a value: a call for its next         *)
(* argument, or for what it has called.                                    *)
Waiting(C) ==
  \A c \in 1..Len(C) - 1 : C[c].kind = "call" =>
    /\ C[c].stage = "args" => C[c].todo # {}
    /\ C[c].stage # "back"
    /\ Plain /\ C[c].stage = "call" => C[c + 1].kind = "func"

(* What the innermost code of C, if it is a call, asks for or has: m is    *)
(* the mode, v the value in rax and r the registers.                       *)
Innermost(C, m, v, r) ==
  LET e == C[Len(C)] IN
  e.kind = "call" =>
    /\ m = "eval" /\ e.stage = "args" => e.todo # {}
    /\ m = "done" /\ e.stage = "args" /\ e.todo # {} => v = Value(C)
    /\ e.stage = "back" => m = "done" /\ v = Value(Front(C))
    /\ e.stage = "call" /\ e.callee = "named" => m = "done"
    /\ Plain /\ e.stage = "call" => \A i \in InRegs(e.plan) :
         r[Before(e.plan.given, InRegs(e.plan), i) + 1] = Content(e, i, 1)

IInv ==
  /\ TypeOK
  /\ InOrder(stack, ctl) /\ Parts(stack, ctl)
  /\ ctl[1].kind = "func"
  /\ rbp = FrameOf(ctl, Len(ctl))
  /\ Waiting(ctl)
  /\ Innermost(ctl, mode, rax, regs)
----------------------------------------------------------------------------
Chosen(s) == CHOOSE x \in s : TRUE

(* g adds up w over the subsets of S.                                      *)
Adds(g, w, S) ==
  g = [s \in SUBSET S |-> IF s = {} THEN 0 ELSE w[Chosen(s)] + g[s \ {Chosen(s)}]]

(* g adds up w over the subsets of S that have at most n elements.         *)
AddsUp(g, w, S, n) ==
  g = [s \in {s \in SUBSET S : Cardinality(s) <= n} |->
         IF s = {} THEN 0 ELSE w[Chosen(s)] + g[s \ {Chosen(s)}]]

(* Taking out its chosen element makes a set smaller.                      *)
LEMMA Smaller ==
  ASSUME NEW S, IsFiniteSet(S), NEW s \in SUBSET S, s # {}
  PROVE  /\ Chosen(s) \in s /\ s \ {Chosen(s)} \in SUBSET S
         /\ Cardinality(s \ {Chosen(s)}) = Cardinality(s) - 1
         /\ Cardinality(s) \in Nat /\ Cardinality(s) <= Cardinality(S)
<1>1. Chosen(s) \in s
  BY DEF Chosen
<1>2. IsFiniteSet(s) /\ Cardinality(s) \in Nat /\ Cardinality(s) <= Cardinality(S)
  BY FS_Subset, FS_CardinalityType
<1>3. Cardinality(s \ {Chosen(s)}) = Cardinality(s) - 1
  BY <1>1, <1>2, FS_RemoveElement
<1> QED  BY <1>1, <1>2, <1>3

(* The recursion of Total has a solution: one for sets of up to n elements *)
(* gives one for sets of one more.                                         *)
LEMMA AddsUpStep ==
  ASSUME NEW w, NEW S, IsFiniteSet(S), NEW n \in Nat, NEW g, AddsUp(g, w, S, n)
  PROVE  \E k : AddsUp(k, w, S, n + 1)
<1> DEFINE D(m) == {s \in SUBSET S : Cardinality(s) <= m}
           k == [s \in D(n + 1) |-> IF s = {} THEN 0 ELSE w[Chosen(s)] + g[s \ {Chosen(s)}]]
<1>1. \A s \in D(n + 1) : s # {} => s \ {Chosen(s)} \in D(n)
  <2> SUFFICES ASSUME NEW s \in D(n + 1), s # {}  PROVE s \ {Chosen(s)} \in D(n)
    OBVIOUS
  <2>1. s \in SUBSET S /\ Cardinality(s) <= n + 1
    OBVIOUS
  <2>2. s \ {Chosen(s)} \in SUBSET S /\ Cardinality(s) - 1 = Cardinality(s \ {Chosen(s)}) /\ Cardinality(s) \in Nat
    BY <2>1, Smaller
  <2> QED  BY <2>1, <2>2
<1>2. \A s \in D(n) : s \in D(n + 1) /\ k[s] = g[s]
  <2> SUFFICES ASSUME NEW s \in D(n)  PROVE s \in D(n + 1) /\ k[s] = g[s]
    OBVIOUS
  <2>1. s \in D(n + 1)
    <3>1. s \in SUBSET S /\ Cardinality(s) <= n
      OBVIOUS
    <3>2. Cardinality(s) \in Nat
      BY <3>1, FS_Subset, FS_CardinalityType
    <3> QED  BY <3>1, <3>2
  <2>2. g[s] = IF s = {} THEN 0 ELSE w[Chosen(s)] + g[s \ {Chosen(s)}]
    BY Zenon DEF AddsUp
  <2> QED  BY <2>1, <2>2
<1>3. k = [s \in D(n + 1) |-> IF s = {} THEN 0 ELSE w[Chosen(s)] + k[s \ {Chosen(s)}]]
  <2>1. \A s \in D(n + 1) : (IF s = {} THEN 0 ELSE w[Chosen(s)] + g[s \ {Chosen(s)}])
                          = (IF s = {} THEN 0 ELSE w[Chosen(s)] + k[s \ {Chosen(s)}])
    <3> HIDE DEF D, k
    <3> QED  BY <1>1, <1>2
  <2> HIDE DEF D
  <2> QED  BY <2>1
<1>4. AddsUp(k, w, S, n + 1)
  BY <1>3, Zenon DEF AddsUp
<1> QED  BY <1>4

(* There is one for sets of any number of elements.                        *)
LEMMA AddsUpExists ==
  ASSUME NEW w, NEW S, IsFiniteSet(S), NEW n \in Nat
  PROVE  \E g : AddsUp(g, w, S, n)
<1> DEFINE without == {m \in Nat : ~ \E g : AddsUp(g, w, S, m)}
<1>1. \E g : AddsUp(g, w, S, 0)
  <2> DEFINE D == {s \in SUBSET S : Cardinality(s) <= 0}
             g == [s \in D |-> 0]
  <2>1. \A s \in D : s = {}
    <3> SUFFICES ASSUME NEW s \in D  PROVE s = {}
      OBVIOUS
    <3>1. IsFiniteSet(s) /\ Cardinality(s) \in Nat /\ Cardinality(s) <= 0
      BY FS_Subset, FS_CardinalityType
    <3> QED  BY <3>1, FS_EmptySet
  <2>2. g = [s \in D |-> IF s = {} THEN 0 ELSE w[Chosen(s)] + g[s \ {Chosen(s)}]]
    <3> HIDE DEF D
    <3> QED  BY <2>1
  <2> QED  BY <2>2, Zenon DEF AddsUp
<1>2. ASSUME without # {}  PROVE FALSE
  <2>1. PICK m \in without : \A j \in without : m <= j
    <3>1. without \subseteq Nat
      OBVIOUS
    <3> HIDE DEF without
    <3> QED  BY <1>2, <3>1, FirstExists
  <2>2. m # 0 /\ m \in Nat
    BY <1>1
  <2>3. m - 1 \in Nat /\ m - 1 \notin without /\ (m - 1) + 1 = m
    <3>1. m - 1 \in Nat /\ ~(m <= m - 1) /\ (m - 1) + 1 = m
      BY <2>2
    <3> HIDE DEF without
    <3> QED  BY <3>1, <2>1
  <2>4. \E g : AddsUp(g, w, S, m - 1)
    BY <2>3
  <2>5. \E g : AddsUp(g, w, S, (m - 1) + 1)
    BY <2>3, <2>4, AddsUpStep
  <2> QED  BY <2>1, <2>3, <2>5
<1> QED  BY <1>2

(* Total(w, S) is what such a recursion gives for S.                       *)
LEMMA TotalIs ==
  ASSUME NEW w, NEW S, IsFiniteSet(S)
  PROVE  \E g : Adds(g, w, S) /\ Total(w, S) = g[S]
<1> DEFINE F(h) == [s \in SUBSET S |-> IF s = {} THEN 0 ELSE w[Chosen(s)] + h[s \ {Chosen(s)}]]
           g == CHOOSE h : h = F(h)
<1>1. Total(w, S) = g[S]
  BY DEF Total, MapThenSumSet, MapThenFoldSet, Chosen
<1>2. \E k : k = F(k)
  <2>1. PICK k : AddsUp(k, w, S, Cardinality(S))
    BY FS_CardinalityType, AddsUpExists
  <2>2. {s \in SUBSET S : Cardinality(s) <= Cardinality(S)} = SUBSET S
    BY FS_Subset
  <2>3. k = F(k)
    BY <2>1, <2>2, Zenon DEF AddsUp
  <2> QED  BY <2>3
<1>3. g = F(g)
  <2> HIDE DEF F
  <2> QED  BY <1>2
<1>4. Adds(g, w, S)
  BY <1>3, Zenon DEF Adds
<1> QED  BY <1>1, <1>4

(* Of a set of finite sets, one is smallest: what an induction over sets   *)
(* begins with.                                                            *)
LEMMA Smallest ==
  ASSUME NEW B, B # {}, \A s \in B : IsFiniteSet(s)
  PROVE  \E s \in B : \A t \in B : Cardinality(s) <= Cardinality(t)
<1> DEFINE sizes == {Cardinality(s) : s \in B}
<1>1. sizes \subseteq Nat /\ sizes # {}
  BY FS_CardinalityType
<1>2. PICK n \in sizes : \A m \in sizes : n <= m
  <2> HIDE DEF sizes
  <2> QED  BY <1>1, FirstExists
<1> QED  BY <1>2

(* Two such recursions agree where both are defined.                       *)
LEMMA Agree ==
  ASSUME NEW w, NEW S, IsFiniteSet(S), NEW T \in SUBSET S, NEW g, NEW h,
         Adds(g, w, S), Adds(h, w, T)
  PROVE  g[T] = h[T]
<1> DEFINE B == {s \in SUBSET T : g[s] # h[s]}
<1>1. ASSUME B # {}  PROVE FALSE
  <2>1. \A s \in B : IsFiniteSet(s)
    BY FS_Subset
  <2>2. PICK s \in B : \A t \in B : Cardinality(s) <= Cardinality(t)
    <3> HIDE DEF B
    <3> QED  BY <1>1, <2>1, Smallest
  <2>3. s \in SUBSET S /\ s \in SUBSET T /\ g[s] # h[s]
    OBVIOUS
  <2>4. g[s] = IF s = {} THEN 0 ELSE w[Chosen(s)] + g[s \ {Chosen(s)}]
    BY <2>3, Zenon DEF Adds
  <2>5. h[s] = IF s = {} THEN 0 ELSE w[Chosen(s)] + h[s \ {Chosen(s)}]
    BY <2>3, Zenon DEF Adds
  <2>6. s # {} /\ g[s \ {Chosen(s)}] # h[s \ {Chosen(s)}]
    BY <2>3, <2>4, <2>5
  <2>7. s \ {Chosen(s)} \in B
    BY <2>6
  <2>8. Cardinality(s \ {Chosen(s)}) = Cardinality(s) - 1 /\ Cardinality(s) \in Nat
    BY <2>3, <2>6, Smaller
  <2>9. Cardinality(s) <= Cardinality(s) - 1
    BY <2>2, <2>7, <2>8
  <2> QED  BY <2>8, <2>9
<1> QED  BY <1>1

(* The sum over no places is 0, and over others that over one fewer and    *)
(* what the one has.                                                       *)
LEMMA TotalStep ==
  ASSUME NEW w, NEW S, IsFiniteSet(S)
  PROVE  Total(w, S) = IF S = {} THEN 0 ELSE w[Chosen(S)] + Total(w, S \ {Chosen(S)})
<1> DEFINE T == S \ {Chosen(S)}
<1>1. PICK g : Adds(g, w, S) /\ Total(w, S) = g[S]
  BY TotalIs
<1>2. T \in SUBSET S /\ IsFiniteSet(T)
  BY FS_Subset
<1>3. PICK h : Adds(h, w, T) /\ Total(w, T) = h[T]
  <2> HIDE DEF T
  <2> QED  BY <1>2, TotalIs
<1>4. g[T] = h[T]
  <2> HIDE DEF T
  <2> QED  BY <1>1, <1>2, <1>3, Agree
<1>5. g[S] = IF S = {} THEN 0 ELSE w[Chosen(S)] + g[S \ {Chosen(S)}]
  <2>1. S \in SUBSET S
    OBVIOUS
  <2> QED  BY <1>1, <2>1, Zenon DEF Adds
<1> QED  BY <1>1, <1>3, <1>4, <1>5

(* A sum of natural numbers is one.                                        *)
LEMMA TotalType ==
  ASSUME NEW w, NEW S, IsFiniteSet(S), \A i \in S : w[i] \in Nat
  PROVE  Total(w, S) \in Nat
<1> DEFINE B == {s \in SUBSET S : Total(w, s) \notin Nat}
<1>1. ASSUME B # {}  PROVE FALSE
  <2>1. \A s \in B : IsFiniteSet(s)
    BY FS_Subset
  <2>2. PICK s \in B : \A t \in B : Cardinality(s) <= Cardinality(t)
    <3> HIDE DEF B
    <3> QED  BY <1>1, <2>1, Smallest
  <2>3. Total(w, s) = IF s = {} THEN 0 ELSE w[Chosen(s)] + Total(w, s \ {Chosen(s)})
    BY <2>1, TotalStep
  <2>4. s # {} /\ s \in SUBSET S
    BY <2>3
  <2>5. /\ Chosen(s) \in s /\ s \ {Chosen(s)} \in SUBSET S
        /\ Cardinality(s \ {Chosen(s)}) = Cardinality(s) - 1 /\ Cardinality(s) \in Nat
    BY <2>4, Smaller
  <2>6. s \ {Chosen(s)} \notin B
    <3> HIDE DEF B
    <3>1. ~(Cardinality(s) <= Cardinality(s \ {Chosen(s)}))
      BY <2>5
    <3> QED  BY <2>2, <3>1
  <2>7. Total(w, s \ {Chosen(s)}) \in Nat
    BY <2>5, <2>6
  <2> QED  BY <2>3, <2>4, <2>5, <2>7
<1> QED  BY <1>1

(* Any place may be taken out first.                                       *)
LEMMA TotalWithout ==
  ASSUME NEW w, NEW S, IsFiniteSet(S), \A i \in S : w[i] \in Nat, NEW x \in S
  PROVE  Total(w, S) = w[x] + Total(w, S \ {x})
<1> DEFINE B == {s \in SUBSET S : \E y \in s : Total(w, s) # w[y] + Total(w, s \ {y})}
<1>1. ASSUME B # {}  PROVE FALSE
  <2>1. \A s \in B : IsFiniteSet(s)
    BY FS_Subset
  <2>2. PICK s \in B : \A t \in B : Cardinality(s) <= Cardinality(t)
    <3> HIDE DEF B
    <3> QED  BY <1>1, <2>1, Smallest
  <2>3. PICK y \in s : Total(w, s) # w[y] + Total(w, s \ {y})
    OBVIOUS
  <2> DEFINE c == Chosen(s)
             r == (s \ {c}) \ {y}
  <2>4. s \in SUBSET S /\ IsFiniteSet(s) /\ c \in s /\ Cardinality(s) \in Nat
    BY <2>1, Smaller
  <2>5. \A z \in s : Cardinality(s \ {z}) = Cardinality(s) - 1 /\ IsFiniteSet(s \ {z})
    BY <2>4, FS_RemoveElement
  <2>6. \A z \in s : s \ {z} \notin B
    <3> SUFFICES ASSUME NEW z \in s  PROVE s \ {z} \notin B
      OBVIOUS
    <3>1. ~(Cardinality(s) <= Cardinality(s \ {z}))
      BY <2>4, <2>5
    <3> HIDE DEF B
    <3> QED  BY <2>2, <3>1
  <2>7. Total(w, s) = w[c] + Total(w, s \ {c})
    BY <2>3, <2>4, TotalStep
  <2>8. y # c
    BY <2>3, <2>7
  <2>9. Total(w, s \ {c}) = w[y] + Total(w, r)
    BY <2>4, <2>6, <2>8
  <2>10. Total(w, s \ {y}) = w[c] + Total(w, (s \ {y}) \ {c})
    BY <2>4, <2>6, <2>8
  <2>11. (s \ {y}) \ {c} = r
    OBVIOUS
  <2>13. Total(w, (s \ {y}) \ {c}) = Total(w, r)
    BY <2>11
  <2>12. Total(w, r) \in Nat /\ w[y] \in Nat /\ w[c] \in Nat
    <3>1. r \in SUBSET S /\ IsFiniteSet(r)
      BY <2>4, FS_Subset
    <3> HIDE DEF r, c
    <3> QED  BY <2>4, <3>1, TotalType
  <2> HIDE DEF r, c
  <2> QED  BY <2>3, <2>7, <2>9, <2>10, <2>12, <2>13
<1>2. S \in SUBSET S
  OBVIOUS
<1> QED  BY <1>1, <1>2

(* The sum of ones counts the places.                                      *)
LEMMA TotalOnes ==
  ASSUME NEW w, NEW S, IsFiniteSet(S), \A i \in S : w[i] = 1
  PROVE  Total(w, S) = Cardinality(S)
<1> DEFINE B == {s \in SUBSET S : Total(w, s) # Cardinality(s)}
<1>1. ASSUME B # {}  PROVE FALSE
  <2>1. \A s \in B : IsFiniteSet(s)
    BY FS_Subset
  <2>2. PICK s \in B : \A t \in B : Cardinality(s) <= Cardinality(t)
    <3> HIDE DEF B
    <3> QED  BY <1>1, <2>1, Smallest
  <2>3. Total(w, s) = IF s = {} THEN 0 ELSE w[Chosen(s)] + Total(w, s \ {Chosen(s)})
    BY <2>1, TotalStep
  <2>4. s # {} /\ s \in SUBSET S
    BY <2>3, FS_EmptySet
  <2>5. /\ Chosen(s) \in s /\ s \ {Chosen(s)} \in SUBSET S
        /\ Cardinality(s \ {Chosen(s)}) = Cardinality(s) - 1 /\ Cardinality(s) \in Nat
    BY <2>4, Smaller
  <2>6. s \ {Chosen(s)} \notin B
    <3> HIDE DEF B
    <3>1. ~(Cardinality(s) <= Cardinality(s \ {Chosen(s)}))
      BY <2>5
    <3> QED  BY <2>2, <3>1
  <2>7. Total(w, s \ {Chosen(s)}) = Cardinality(s) - 1
    BY <2>5, <2>6
  <2> QED  BY <2>3, <2>4, <2>5, <2>7
<1>2. S \in SUBSET S
  OBVIOUS
<1> QED  BY <1>1, <1>2

(* A part of the places has no more than all.                              *)
LEMMA TotalPart ==
  ASSUME NEW w, NEW S, IsFiniteSet(S), \A i \in S : w[i] \in Nat, NEW T \in SUBSET S
  PROVE  Total(w, T) <= Total(w, S)
<1> DEFINE B == {s \in SUBSET S : ~(Total(w, s \cap T) <= Total(w, s))}
<1>1. ASSUME B # {}  PROVE FALSE
  <2>1. \A s \in B : IsFiniteSet(s)
    BY FS_Subset
  <2>2. PICK s \in B : \A t \in B : Cardinality(s) <= Cardinality(t)
    <3> HIDE DEF B
    <3> QED  BY <1>1, <2>1, Smallest
  <2>3. s \in SUBSET S /\ IsFiniteSet(s) /\ ~(Total(w, s \cap T) <= Total(w, s))
    BY <2>1
  <2>4. s # {}
    <3>1. {} \cap T = {} /\ Total(w, {}) = 0
      BY TotalStep, FS_EmptySet
    <3> QED  BY <2>3, <3>1
  <2> DEFINE c == Chosen(s)
             r == s \ {c}
  <2>5. c \in s /\ r \in SUBSET S /\ Cardinality(r) = Cardinality(s) - 1 /\ Cardinality(s) \in Nat
    BY <2>4, Smaller
  <2>6. r \notin B
    <3>1. ~(Cardinality(s) <= Cardinality(r))
      BY <2>5
    <3> HIDE DEF B, r
    <3> QED  BY <2>2, <3>1
  <2>7. Total(w, r \cap T) <= Total(w, r)
    <3> HIDE DEF r
    <3> QED  BY <2>5, <2>6
  <2>8. Total(w, s) = w[c] + Total(w, r)
    BY <2>3, <2>4, TotalStep
  <2>9. /\ Total(w, r) \in Nat /\ Total(w, r \cap T) \in Nat /\ w[c] \in Nat
        /\ IsFiniteSet(s \cap T)
    <3>1. IsFiniteSet(r) /\ IsFiniteSet(r \cap T) /\ IsFiniteSet(s \cap T)
      BY <2>5, FS_Subset
    <3>2. \A i \in r : w[i] \in Nat
      BY <2>5
    <3> HIDE DEF r
    <3> QED  BY <2>5, <3>1, <3>2, TotalType
  <2>10. CASE c \in T
    <3>1. (s \cap T) \ {c} = r \cap T /\ c \in s \cap T
      BY <2>5, <2>10
    <3>2. \A i \in s \cap T : w[i] \in Nat
      OBVIOUS
    <3>3. Total(w, s \cap T) = w[c] + Total(w, (s \cap T) \ {c})
      <4> HIDE DEF c
      <4> QED  BY <2>9, <3>1, <3>2, TotalWithout
    <3>4. Total(w, s \cap T) = w[c] + Total(w, r \cap T)
      BY <3>1, <3>3
    <3> HIDE DEF r, c
    <3> QED  BY <2>3, <2>7, <2>8, <2>9, <3>4
  <2>11. CASE c \notin T
    <3>1. s \cap T = r \cap T
      BY <2>11
    <3>2. Total(w, s \cap T) = Total(w, r \cap T)
      BY <3>1
    <3> HIDE DEF r, c
    <3> QED  BY <2>3, <2>7, <2>8, <2>9, <3>2
  <2> QED  BY <2>10, <2>11
<1>2. S \in SUBSET S /\ S \cap T = T
  OBVIOUS
<1>3. S \notin B
  BY <1>1
<1>4. Total(w, S \cap T) <= Total(w, S)
  BY <1>2, <1>3
<1> QED  BY <1>2, <1>4
----------------------------------------------------------------------------
(* f counts down the registers over the first n arguments.                 *)
CountsDown(f, args, n) ==
  f = [i \in 0..n |-> IF i = 0 THEN GpRegs
                      ELSE f[i - 1] - RegsGiven(SizePassed(args[i]), f[i - 1])]

(* The count for one more argument.                                        *)
LEMMA CountStep ==
  ASSUME NEW args, NEW n \in Nat, NEW f, CountsDown(f, args, n)
  PROVE  \E g : CountsDown(g, args, n + 1)
<1> DEFINE g == [i \in 0..n + 1 |-> IF i = 0 THEN GpRegs
                                    ELSE f[i - 1] - RegsGiven(SizePassed(args[i]), f[i - 1])]
<1>1. \A i \in 0..n + 1 : i # 0 => i - 1 \in 0..n
  OBVIOUS
<1>2. \A i \in 0..n : g[i] = f[i]
  <2> SUFFICES ASSUME NEW i \in 0..n  PROVE g[i] = f[i]
    OBVIOUS
  <2>1. i \in 0..n + 1
    OBVIOUS
  <2>2. f[i] = IF i = 0 THEN GpRegs ELSE f[i - 1] - RegsGiven(SizePassed(args[i]), f[i - 1])
    BY Zenon DEF CountsDown
  <2>3. g[i] = IF i = 0 THEN GpRegs ELSE f[i - 1] - RegsGiven(SizePassed(args[i]), f[i - 1])
    BY <2>1
  <2> QED  BY <2>2, <2>3
<1>3. g = [i \in 0..n + 1 |-> IF i = 0 THEN GpRegs
                              ELSE g[i - 1] - RegsGiven(SizePassed(args[i]), g[i - 1])]
  <2>1. \A i \in 0..n + 1 :
          (IF i = 0 THEN GpRegs ELSE f[i - 1] - RegsGiven(SizePassed(args[i]), f[i - 1]))
        = (IF i = 0 THEN GpRegs ELSE g[i - 1] - RegsGiven(SizePassed(args[i]), g[i - 1]))
    <3> HIDE DEF g
    <3> QED  BY <1>1, <1>2
  <2> QED  BY <2>1
<1>4. CountsDown(g, args, n + 1)
  BY <1>3, Zenon DEF CountsDown
<1> QED  BY <1>4

(* The counts are those of one pass from the left.                         *)
LEMMA CountExists ==
  ASSUME NEW args, NEW n \in Nat
  PROVE  \E f : CountsDown(f, args, n)
<1> DEFINE without == {m \in Nat : ~ \E f : CountsDown(f, args, m)}
<1>1. \E f : CountsDown(f, args, 0)
  <2> DEFINE f == [i \in 0..0 |-> GpRegs]
  <2>1. \A i \in 0..0 : i = 0
    OBVIOUS
  <2>2. f = [i \in 0..0 |-> IF i = 0 THEN GpRegs
                            ELSE f[i - 1] - RegsGiven(SizePassed(args[i]), f[i - 1])]
    BY <2>1
  <2> QED  BY <2>2, Zenon DEF CountsDown
<1>2. ASSUME without # {}  PROVE FALSE
  <2>1. PICK m \in without : \A j \in without : m <= j
    <3>1. without \subseteq Nat
      OBVIOUS
    <3> HIDE DEF without
    <3> QED  BY <1>2, <3>1, FirstExists
  <2>2. m # 0 /\ m \in Nat
    BY <1>1
  <2>3. m - 1 \in Nat /\ m - 1 \notin without /\ (m - 1) + 1 = m
    <3>1. m - 1 \in Nat /\ ~(m <= m - 1) /\ (m - 1) + 1 = m
      BY <2>2
    <3> HIDE DEF without
    <3> QED  BY <3>1, <2>1
  <2>4. \E f : CountsDown(f, args, m - 1)
    BY <2>3
  <2>5. \E f : CountsDown(f, args, (m - 1) + 1)
    BY <2>3, <2>4, CountStep
  <2> QED  BY <2>1, <2>3, <2>5
<1> QED  BY <1>2

(* An argument is given 0, 1 or 2 registers, and no more than are free.    *)
LEMMA GivenType ==
  ASSUME NEW size, NEW free
  PROVE  /\ RegsGiven(size, free) \in 0..2
         /\ free \in Nat => RegsGiven(size, free) <= free
         /\ RegsGiven(size, free) = 1 => size <= Word
BY DEF RegsGiven, RegsWanted

(* What is left of the six registers behind each argument.                 *)
LEMMA FreeIs ==
  ASSUME NEW args, Len(args) \in Nat
  PROVE  /\ Free(args)[0] = GpRegs
         /\ \A i \in 1..Len(args) : /\ Free(args)[i] \in Int /\ Free(args)[i - 1] \in Int
                                    /\ Free(args)[i] =
                                         Free(args)[i - 1] - RegsGiven(SizePassed(args[i]), Free(args)[i - 1])
         /\ \A i \in 0..Len(args) : Free(args)[i] \in 0..GpRegs
<1> DEFINE F(h) == [i \in 0..Len(args) |->
                      IF i = 0 THEN GpRegs ELSE h[i - 1] - RegsGiven(SizePassed(args[i]), h[i - 1])]
           f == CHOOSE h : h = F(h)
<1>1. Free(args) = f
  BY DEF Free
<1>2. f = F(f)
  <2>1. \E h : h = F(h)
    <3>1. PICK h : CountsDown(h, args, Len(args))
      BY CountExists
    <3>2. h = F(h)
      BY <3>1, Zenon DEF CountsDown
    <3> QED  BY <3>2
  <2> HIDE DEF F
  <2> QED  BY <2>1
<1>3. \A i \in 0..Len(args) : f[i] = IF i = 0 THEN GpRegs
                                     ELSE f[i - 1] - RegsGiven(SizePassed(args[i]), f[i - 1])
  <2> SUFFICES ASSUME NEW i \in 0..Len(args)
               PROVE  f[i] = IF i = 0 THEN GpRegs
                             ELSE f[i - 1] - RegsGiven(SizePassed(args[i]), f[i - 1])
    OBVIOUS
  <2> HIDE DEF f
  <2> QED  BY <1>2, Zenon
<1> HIDE DEF f
<1> DEFINE B == {i \in 0..Len(args) : f[i] \notin 0..GpRegs}
<1>4. ASSUME B # {}  PROVE FALSE
  <2>1. PICK m \in B : \A j \in B : m <= j
    <3>1. B \subseteq Nat
      OBVIOUS
    <3> HIDE DEF B
    <3> QED  BY <1>4, <3>1, FirstExists
  <2>2. m \in 0..Len(args) /\ f[m] \notin 0..GpRegs
    OBVIOUS
  <2>3. m # 0
    BY <1>3, <2>2 DEF GpRegs
  <2>4. m - 1 \in 0..Len(args) /\ ~(m <= m - 1)
    BY <2>2, <2>3
  <2>5. f[m - 1] \in 0..GpRegs
    <3>1. m - 1 \notin B
      <4> HIDE DEF B
      <4> QED  BY <2>1, <2>4
    <3> QED  BY <3>1, <2>4
  <2> DEFINE g == RegsGiven(SizePassed(args[m]), f[m - 1])
  <2>6. g \in 0..2 /\ g <= f[m - 1]
    BY <2>5, GivenType
  <2>7. f[m] = f[m - 1] - g
    BY <1>3, <2>2, <2>3
  <2> HIDE DEF g
  <2> QED  BY <2>2, <2>5, <2>6, <2>7 DEF GpRegs
<1>5. \A i \in 0..Len(args) : f[i] \in 0..GpRegs
  BY <1>4
<1>6. \A i \in 1..Len(args) : i \in 0..Len(args) /\ i - 1 \in 0..Len(args) /\ i # 0
  OBVIOUS
<1>7. f[0] = GpRegs
  BY <1>3
<1>8. \A i \in 1..Len(args) : f[i] \in Int /\ f[i - 1] \in Int
  BY <1>5, <1>6
<1> QED  BY <1>1, <1>3, <1>5, <1>6, <1>7, <1>8
----------------------------------------------------------------------------
(* A value takes one word or more, and one word if it fits in one.         *)
LEMMA WordsType ==
  ASSUME NEW size \in Nat \ {0}
  PROVE  WordsOf(size) \in Nat \ {0} /\ (size <= Word <=> WordsOf(size) = 1)
BY DEF WordsOf, to_aligned, Word

(* What a plan says of its arguments.                                      *)
LEMMA PlanFacts ==
  ASSUME NEW args \in ArgLists
  PROVE  LET p == Plan(args) IN
         /\ Len(args) \in Nat /\ DOMAIN args = 1..Len(args) /\ IsFiniteSet(DOMAIN args)
         /\ OnStack(p) \cup InRegs(p) = DOMAIN args /\ OnStack(p) \cap InRegs(p) = {}
         /\ \A i \in DOMAIN args :
              /\ args[i].size \in Nat \ {0} /\ args[i].array \in BOOLEAN
              /\ p.given[i] \in 0..2 /\ p.words[i] \in Nat \ {0}
              /\ p.words[i] = WordsOf(SizePassed(args[i]))
              /\ p.given[i] = 1 => p.words[i] = 1
              /\ i \in OnStack(p) <=> p.given[i] = 0
<1> DEFINE p == Plan(args)
           Arg == [size : Nat \ {0}, array : BOOLEAN]
<1>1. args \in Seq(Arg)
  BY CallAssumption
<1>2. Len(args) \in Nat /\ DOMAIN args = 1..Len(args) /\ IsFiniteSet(DOMAIN args)
  <2>1. Len(args) \in Nat /\ DOMAIN args = 1..Len(args)
    BY <1>1, LenProperties
  <2> QED  BY <2>1, FS_Interval
<1>3. /\ DOMAIN p.given = DOMAIN args
      /\ \A i \in DOMAIN args : /\ p.given[i] = RegsGiven(SizePassed(args[i]), Free(args)[i - 1])
                                /\ p.words[i] = WordsOf(SizePassed(args[i]))
  BY DEF Plan
<1> HIDE DEF p
<1>4. OnStack(p) \cup InRegs(p) = DOMAIN args /\ OnStack(p) \cap InRegs(p) = {}
  BY <1>3 DEF OnStack, InRegs
<1>5. ASSUME NEW i \in DOMAIN args
      PROVE  /\ args[i].size \in Nat \ {0} /\ args[i].array \in BOOLEAN
             /\ p.given[i] \in 0..2 /\ p.words[i] \in Nat \ {0}
             /\ p.words[i] = WordsOf(SizePassed(args[i]))
             /\ p.given[i] = 1 => p.words[i] = 1
             /\ i \in OnStack(p) <=> p.given[i] = 0
  <2>1. args[i] \in Arg
    BY <1>1, <1>2, ElementOfSeq
  <2>2. SizePassed(args[i]) \in Nat \ {0}
    BY <2>1 DEF SizePassed, Word
  <2>3. p.given[i] \in 0..2 /\ (p.given[i] = 1 => SizePassed(args[i]) <= Word)
    BY <1>3, GivenType
  <2>4. p.words[i] \in Nat \ {0} /\ (SizePassed(args[i]) <= Word => p.words[i] = 1)
    BY <1>3, <2>2, WordsType
  <2>5. i \in OnStack(p) <=> p.given[i] = 0
    BY <1>3 DEF OnStack
  <2> QED  BY <1>3, <2>1, <2>3, <2>4, <2>5
<1> QED  BY <1>2, <1>4, <1>5 DEF p

(* The sums over a plan are natural numbers, and the arguments in          *)
(* registers take no more than there are.                                  *)
LEMMA PlanTotals ==
  ASSUME NEW args \in ArgLists, NEW S \in SUBSET DOMAIN args
  PROVE  LET p == Plan(args) IN
         /\ Total(p.words, S) \in Nat /\ Total(p.given, S) \in Nat
         /\ \A i \in S : /\ Total(p.words, S) = p.words[i] + Total(p.words, S \ {i})
                         /\ Total(p.given, S) = p.given[i] + Total(p.given, S \ {i})
         /\ \A i \in DOMAIN args : Before(p.words, S, i) \in Nat /\ Before(p.given, S, i) \in Nat
         /\ \A i \in S : /\ p.words[i] + Before(p.words, S, i) <= Total(p.words, S)
                         /\ p.given[i] + Before(p.given, S, i) <= Total(p.given, S)
         /\ S = {} => Total(p.words, S) = 0 /\ Total(p.given, S) = 0
<1> DEFINE p == Plan(args)
<1>1. IsFiniteSet(S) /\ \A i \in DOMAIN args : p.words[i] \in Nat /\ p.given[i] \in Nat
  <2>1. IsFiniteSet(DOMAIN args)
    BY PlanFacts
  <2>2. IsFiniteSet(S)
    BY <2>1, FS_Subset
  <2>3. \A i \in DOMAIN args : p.words[i] \in Nat \ {0} /\ p.given[i] \in 0..2
    BY PlanFacts
  <2> HIDE DEF p
  <2> QED  BY <2>2, <2>3
<1> HIDE DEF p
<1>2. \A T \in SUBSET S : IsFiniteSet(T) /\ Total(p.words, T) \in Nat /\ Total(p.given, T) \in Nat
  <2> SUFFICES ASSUME NEW T \in SUBSET S
               PROVE  IsFiniteSet(T) /\ Total(p.words, T) \in Nat /\ Total(p.given, T) \in Nat
    OBVIOUS
  <2>1. IsFiniteSet(T) /\ (\A i \in T : p.words[i] \in Nat) /\ (\A i \in T : p.given[i] \in Nat)
    BY <1>1, FS_Subset
  <2> QED  BY <2>1, TotalType
<1>3. \A T \in SUBSET S : \A i \in T : /\ Total(p.words, T) = p.words[i] + Total(p.words, T \ {i})
                                       /\ Total(p.given, T) = p.given[i] + Total(p.given, T \ {i})
  <2> SUFFICES ASSUME NEW T \in SUBSET S, NEW i \in T
               PROVE  /\ Total(p.words, T) = p.words[i] + Total(p.words, T \ {i})
                      /\ Total(p.given, T) = p.given[i] + Total(p.given, T \ {i})
    OBVIOUS
  <2>1. IsFiniteSet(T) /\ (\A j \in T : p.words[j] \in Nat) /\ (\A j \in T : p.given[j] \in Nat)
    BY <1>1, <1>2
  <2> QED  BY <2>1, TotalWithout
<1>4. \A i \in DOMAIN args : Before(p.words, S, i) \in Nat /\ Before(p.given, S, i) \in Nat
  BY <1>2 DEF Before
<1>5. ASSUME NEW i \in S
      PROVE  /\ p.words[i] + Before(p.words, S, i) <= Total(p.words, S)
             /\ p.given[i] + Before(p.given, S, i) <= Total(p.given, S)
  <2> DEFINE T == {j \in S : j < i}
  <2>1. i \in 1..Len(args)
    BY PlanFacts
  <2>2. T \in SUBSET (S \ {i}) /\ IsFiniteSet(S \ {i})
    BY <1>2, <2>1
  <2>3. Total(p.words, T) <= Total(p.words, S \ {i})
    <3>1. \A j \in S \ {i} : p.words[j] \in Nat
      BY <1>1
    <3> HIDE DEF T
    <3> QED  BY <2>2, <3>1, TotalPart
  <2>4. Total(p.given, T) <= Total(p.given, S \ {i})
    <3>1. \A j \in S \ {i} : p.given[j] \in Nat
      BY <1>1
    <3> HIDE DEF T
    <3> QED  BY <2>2, <3>1, TotalPart
  <2>5. /\ Total(p.words, S) = p.words[i] + Total(p.words, S \ {i})
        /\ Total(p.given, S) = p.given[i] + Total(p.given, S \ {i})
    BY <1>3
  <2>6. /\ Total(p.words, T) \in Nat /\ Total(p.words, S \ {i}) \in Nat
        /\ Total(p.given, T) \in Nat /\ Total(p.given, S \ {i}) \in Nat
        /\ p.words[i] \in Nat /\ p.given[i] \in Nat
    BY <1>1, <1>2
  <2>7. Before(p.words, S, i) = Total(p.words, T) /\ Before(p.given, S, i) = Total(p.given, T)
    BY DEF Before
  <2> HIDE DEF T
  <2> QED  BY <2>3, <2>4, <2>5, <2>6, <2>7
<1>6. S = {} => Total(p.words, S) = 0 /\ Total(p.given, S) = 0
  BY <1>1, TotalStep
<1> QED  BY <1>2, <1>3, <1>4, <1>5, <1>6 DEF p

(* The registers given to the first arguments are those no longer free.    *)
LEMMA RegsFit ==
  ASSUME NEW args \in ArgLists
  PROVE  LET p == Plan(args) IN Total(p.given, InRegs(p)) <= GpRegs
<1> DEFINE p == Plan(args)
           n == Len(args)
           R(i) == {j \in InRegs(p) : j <= i}
           B == {i \in 0..n : Total(p.given, R(i)) # GpRegs - Free(args)[i]}
<1>1. /\ n \in Nat /\ DOMAIN args = 1..n /\ InRegs(p) \subseteq 1..n
      /\ \A i \in 1..n : p.given[i] \in 0..2 /\ (i \notin InRegs(p) => p.given[i] = 0)
  <2>1. /\ n \in Nat /\ DOMAIN args = 1..n
        /\ OnStack(p) \cup InRegs(p) = DOMAIN args
        /\ \A i \in DOMAIN args : p.given[i] \in 0..2 /\ (i \in OnStack(p) <=> p.given[i] = 0)
    BY PlanFacts
  <2> HIDE DEF p, n
  <2> QED  BY <2>1
<1>2. \A i \in 1..n : p.given[i] = RegsGiven(SizePassed(args[i]), Free(args)[i - 1])
  BY <1>1 DEF Plan
<1>3. /\ Free(args)[0] = GpRegs
      /\ \A i \in 1..n : /\ Free(args)[i] \in Int /\ Free(args)[i - 1] \in Int
                         /\ Free(args)[i] = Free(args)[i - 1] - p.given[i]
      /\ \A i \in 0..n : Free(args)[i] \in 0..GpRegs
  <2> HIDE DEF p
  <2> QED  BY <1>1, <1>2, FreeIs
<1>4. ASSUME B # {}  PROVE FALSE
  <2>1. PICK m \in B : \A j \in B : m <= j
    <3>1. B \subseteq Nat
      OBVIOUS
    <3> HIDE DEF B
    <3> QED  BY <1>4, <3>1, FirstExists
  <2>2. m \in 0..n /\ Total(p.given, R(m)) # GpRegs - Free(args)[m]
    OBVIOUS
  <2>3. m # 0
    <3>1. R(0) = {}
      BY <1>1
    <3>2. Total(p.given, {}) = 0
      BY TotalStep, FS_EmptySet
    <3>3. ASSUME m = 0  PROVE FALSE
      <4>1. Total(p.given, R(m)) = 0
        BY <3>1, <3>2, <3>3
      <4>2. GpRegs - Free(args)[m] = 0
        BY <1>3, <3>3 DEF GpRegs
      <4> QED  BY <2>2, <4>1, <4>2
    <3> QED  BY <3>3
  <2>4. m - 1 \in 0..n /\ ~(m <= m - 1) /\ m \in 1..n
    BY <1>1, <2>2, <2>3
  <2>5. Total(p.given, R(m - 1)) = GpRegs - Free(args)[m - 1]
    <3>1. m - 1 \notin B
      <4> HIDE DEF B
      <4> QED  BY <2>1, <2>4
    <3> QED  BY <3>1, <2>4
  <2>6. Total(p.given, R(m)) = Total(p.given, R(m - 1)) + p.given[m]
    <3>1. CASE m \in InRegs(p)
      <4>1. R(m) \ {m} = R(m - 1) /\ m \in R(m)
        BY <1>1, <2>4, <3>1
      <4>2. R(m) \in SUBSET DOMAIN args
        BY <1>1
      <4>3. Total(p.given, R(m)) = p.given[m] + Total(p.given, R(m) \ {m})
        <5> HIDE DEF R
        <5> QED  BY <4>1, <4>2, PlanTotals
      <4>4. Total(p.given, R(m - 1)) \in Int
        <5> HIDE DEF R, p
        <5> QED  BY <2>5, <1>3, <2>4 DEF GpRegs
      <4>5. Total(p.given, R(m)) = p.given[m] + Total(p.given, R(m - 1))
        BY <4>1, <4>3
      <4> HIDE DEF R, p
      <4> QED  BY <4>4, <4>5, <1>1, <2>4
    <3>2. CASE m \notin InRegs(p)
      <4>1. R(m) = R(m - 1)
        BY <1>1, <2>4, <3>2
      <4>2. p.given[m] = 0
        <5> HIDE DEF p
        <5> QED  BY <1>1, <2>4, <3>2
      <4>3. Total(p.given, R(m - 1)) \in Int
        <5> HIDE DEF R, p
        <5> QED  BY <2>5, <1>3, <2>4 DEF GpRegs
      <4>4. Total(p.given, R(m)) = Total(p.given, R(m - 1))
        BY <4>1
      <4> HIDE DEF R, p
      <4> QED  BY <4>2, <4>3, <4>4
    <3> QED  BY <3>1, <3>2
  <2>7. /\ Free(args)[m] \in Int /\ Free(args)[m - 1] \in Int /\ p.given[m] \in Int
        /\ Free(args)[m] = Free(args)[m - 1] - p.given[m]
    <3> HIDE DEF p, n
    <3> QED  BY <1>1, <1>3, <2>4
  <2>8. Total(p.given, R(m)) = GpRegs - Free(args)[m - 1] + p.given[m]
    BY <2>5, <2>6
  <2>9. GpRegs - Free(args)[m] = GpRegs - Free(args)[m - 1] + p.given[m]
    <3> HIDE DEF p
    <3> QED  BY <2>7 DEF GpRegs
  <2> QED  BY <2>2, <2>8, <2>9
<1>5. Total(p.given, R(n)) = GpRegs - Free(args)[n]
  <2>1. n \in 0..n
    BY <1>1
  <2> HIDE DEF n, p, R
  <2> QED  BY <1>4, <2>1
<1>6. R(n) = InRegs(p)
  BY <1>1
<1>7. Total(p.given, InRegs(p)) = GpRegs - Free(args)[n] /\ n \in 0..n
  <2> HIDE DEF p, R
  <2> QED  BY <1>1, <1>5, <1>6
<1>8. GpRegs - Free(args)[n] <= GpRegs
  <2> HIDE DEF p, R, n
  <2> QED  BY <1>3, <1>7 DEF GpRegs
<1> QED  BY <1>7, <1>8
----------------------------------------------------------------------------
(* Each place of one or more counts in the sum.                            *)
LEMMA TotalCounts ==
  ASSUME NEW w, NEW S, IsFiniteSet(S), \A i \in S : w[i] \in Nat \ {0}
  PROVE  Cardinality(S) <= Total(w, S)
<1> DEFINE B == {s \in SUBSET S : ~(Cardinality(s) <= Total(w, s))}
<1>1. ASSUME B # {}  PROVE FALSE
  <2>1. \A s \in B : IsFiniteSet(s)
    BY FS_Subset
  <2>2. PICK s \in B : \A t \in B : Cardinality(s) <= Cardinality(t)
    <3> HIDE DEF B
    <3> QED  BY <1>1, <2>1, Smallest
  <2>3. /\ s \in SUBSET S /\ ~(Cardinality(s) <= Total(w, s))
        /\ Total(w, s) = IF s = {} THEN 0 ELSE w[Chosen(s)] + Total(w, s \ {Chosen(s)})
    BY <2>1, TotalStep
  <2>4. s # {}
    BY <2>3, FS_EmptySet
  <2> DEFINE c == Chosen(s)
             r == s \ {c}
  <2>5. c \in s /\ r \in SUBSET S /\ Cardinality(r) = Cardinality(s) - 1 /\ Cardinality(s) \in Nat
    BY <2>3, <2>4, Smaller
  <2>6. r \notin B
    <3>1. ~(Cardinality(s) <= Cardinality(r))
      BY <2>5
    <3> HIDE DEF B, r
    <3> QED  BY <2>2, <3>1
  <2>7. Cardinality(r) <= Total(w, r)
    <3> HIDE DEF r
    <3> QED  BY <2>5, <2>6
  <2>8. Total(w, r) \in Nat /\ w[c] \in Nat \ {0}
    <3>1. IsFiniteSet(r) /\ \A i \in r : w[i] \in Nat
      BY <2>5, FS_Subset
    <3>2. w[c] \in Nat \ {0}
      BY <2>3, <2>5
    <3> HIDE DEF r, c
    <3> QED  BY <3>1, <3>2, TotalType
  <2>9. Total(w, s) = w[c] + Total(w, r)
    BY <2>3, <2>4
  <2> HIDE DEF r, c
  <2> QED  BY <2>3, <2>5, <2>7, <2>8, <2>9
<1>2. S \in SUBSET S
  OBVIOUS
<1> QED  BY <1>1, <1>2

(* No more arguments are in registers than there are.                      *)
LEMMA RegsCount ==
  ASSUME NEW args \in ArgLists
  PROVE  LET R == InRegs(Plan(args)) IN Cardinality(R) \in Nat /\ Cardinality(R) <= GpRegs
<1> DEFINE p == Plan(args)
           R == InRegs(p)
<1>1. /\ IsFiniteSet(DOMAIN args) /\ R \subseteq DOMAIN args
      /\ \A i \in DOMAIN args : p.given[i] \in 0..2
  BY PlanFacts
<1>2. \A i \in R : p.given[i] # 0
  BY DEF InRegs
<1>3. IsFiniteSet(R) /\ Cardinality(R) \in Nat
  BY <1>1, FS_Subset, FS_CardinalityType
<1> HIDE DEF p
<1>4. \A i \in R : p.given[i] \in Nat \ {0}
  <2> HIDE DEF R
  <2> QED  BY <1>1, <1>2
<1>5. Cardinality(R) <= Total(p.given, R) /\ Total(p.given, R) \in Nat
  <2>1. \A i \in R : p.given[i] \in Nat
    BY <1>4
  <2> HIDE DEF R
  <2> QED  BY <1>3, <1>4, <2>1, TotalCounts, TotalType
<1>6. Total(p.given, R) <= GpRegs
  BY RegsFit DEF p
<1> DEFINE n == Cardinality(R)
           m == Total(p.given, R)
<1> HIDE DEF n, m
<1>7. n \in Nat /\ m \in Nat /\ n <= m /\ m <= GpRegs
  BY <1>3, <1>5, <1>6 DEF n, m
<1>8. n \in Nat /\ n <= GpRegs
  BY <1>7 DEF GpRegs
<1> QED  BY <1>8 DEF n, p

(* Where every argument in a register is one word, the prologue's pushes   *)
(* and the registers count alike.                                          *)
LEMMA RegsOrder ==
  ASSUME Plain, NEW args \in ArgLists
  PROVE  LET p == Plan(args)
             R == InRegs(p)
         IN  \A i \in R : /\ Before(p.words, R, i) = Before(p.given, R, i)
                          /\ Before(p.words, R, i) \in Nat
                          /\ Before(p.words, R, i) + 1 <= Cardinality(R)
<1> DEFINE p == Plan(args)
           R == InRegs(p)
<1>1. /\ IsFiniteSet(DOMAIN args) /\ R \in SUBSET DOMAIN args
      /\ \A i \in DOMAIN args : p.given[i] \in 0..2 /\ (p.given[i] = 1 => p.words[i] = 1)
  BY PlanFacts
<1>2. \A i \in R : p.given[i] # 0
  BY DEF InRegs
<1>3. \A i \in DOMAIN args : p.given[i] <= 1
  BY DEF Plain
<1>4. /\ \A i \in DOMAIN args : Before(p.given, R, i) \in Nat
      /\ \A i \in R : p.given[i] + Before(p.given, R, i) <= Total(p.given, R)
  BY <1>1, PlanTotals
<1> HIDE DEF p, R
<1>5. \A i \in R : p.given[i] = 1 /\ p.words[i] = 1
  BY <1>1, <1>2, <1>3
<1>6. IsFiniteSet(R)
  BY <1>1, FS_Subset
<1>7. Total(p.given, R) = Cardinality(R)
  BY <1>5, <1>6, TotalOnes
<1>8. ASSUME NEW i \in R
      PROVE  /\ Before(p.words, R, i) = Before(p.given, R, i)
             /\ Before(p.words, R, i) \in Nat
             /\ Before(p.words, R, i) + 1 <= Cardinality(R)
  <2> DEFINE L == {j \in R : j < i}
  <2>1. IsFiniteSet(L) /\ \A j \in L : p.given[j] = 1 /\ p.words[j] = 1
    BY <1>5, <1>6, FS_Subset
  <2> HIDE DEF L
  <2>2. Total(p.words, L) = Cardinality(L) /\ Total(p.given, L) = Cardinality(L)
    BY <2>1, TotalOnes
  <2>3. Before(p.words, R, i) = Total(p.words, L) /\ Before(p.given, R, i) = Total(p.given, L)
    BY DEF Before, L
  <2> DEFINE b == Before(p.given, R, i)
             m == Cardinality(R)
  <2>4. b \in Nat /\ 1 + b <= m /\ Before(p.words, R, i) = b
    BY <1>1, <1>4, <1>5, <1>7, <2>2, <2>3
  <2>5. m \in Nat
    BY <1>6, FS_CardinalityType
  <2> HIDE DEF b, m
  <2>6. b + 1 <= m
    BY <2>4, <2>5
  <2> QED  BY <2>4, <2>6 DEF b, m
<1> QED  BY <1>8 DEF p, R
----------------------------------------------------------------------------
(* Codes, by their kind.                                                   *)
LEMMA CodeTypes ==
  ASSUME NEW e \in Codes
  PROVE  /\ e.kind \in {"func", "binary", "call"}
         /\ e.kind = "func" <=> e \in FuncCode
         /\ e.kind = "binary" <=> e \in BinaryCode
         /\ e.kind = "call" <=> e \in CallCode
         /\ Base(e) \in Int
BY DEF Codes, FuncCode, BinaryCode, CallCode, Base

(* The three ways a sequence of codes changes.                             *)
LEMMA CodeSequences ==
  ASSUME NEW S, NEW C \in Seq(S), C # <<>>, NEW e \in S
  PROVE  /\ Len(C) \in Nat \ {0} /\ DOMAIN C = 1..Len(C) /\ \A c \in 1..Len(C) : C[c] \in S
         /\ Append(C, e) \in Seq(S) /\ Len(Append(C, e)) = Len(C) + 1 /\ Append(C, e) # <<>>
         /\ Append(C, e)[Len(C) + 1] = e /\ \A c \in 1..Len(C) : Append(C, e)[c] = C[c]
         /\ DOMAIN Append(C, e) = 1..Len(C) + 1
         /\ SetTop(C, e) \in Seq(S) /\ Len(SetTop(C, e)) = Len(C) /\ SetTop(C, e) # <<>>
         /\ SetTop(C, e)[Len(C)] = e /\ \A c \in 1..Len(C) - 1 : SetTop(C, e)[c] = C[c]
         /\ DOMAIN SetTop(C, e) = 1..Len(C)
         /\ Front(C) \in Seq(S) /\ Len(Front(C)) = Len(C) - 1
         /\ DOMAIN Front(C) = 1..Len(C) - 1 /\ \A c \in 1..Len(C) - 1 : Front(C)[c] = C[c]
         /\ Len(C) > 1 => Front(C) # <<>>
         /\ Last(C) = C[Len(C)] /\ Front(Append(C, e)) = C
         /\ Front(SetTop(C, e)) = Front(C)
<1>1. Len(C) \in Nat \ {0} /\ DOMAIN C = 1..Len(C) /\ \A c \in 1..Len(C) : C[c] \in S
  BY EmptySeq, LenProperties, ElementOfSeq
<1>2. /\ Append(C, e) \in Seq(S) /\ Len(Append(C, e)) = Len(C) + 1
      /\ Append(C, e)[Len(C) + 1] = e /\ \A c \in 1..Len(C) : Append(C, e)[c] = C[c]
  BY AppendProperties
<1>3. DOMAIN Append(C, e) = 1..Len(C) + 1 /\ Append(C, e) # <<>>
  BY <1>1, <1>2, LenProperties, EmptySeq
<1>4. /\ SetTop(C, e) \in Seq(S) /\ Len(SetTop(C, e)) = Len(C)
      /\ SetTop(C, e)[Len(C)] = e /\ \A c \in 1..Len(C) - 1 : SetTop(C, e)[c] = C[c]
      /\ DOMAIN SetTop(C, e) = 1..Len(C)
  <2>1. SetTop(C, e) \in Seq(S) /\ Len(SetTop(C, e)) = Len(C)
    BY <1>1 DEF SetTop
  <2>2. DOMAIN SetTop(C, e) = 1..Len(C) /\ SetTop(C, e)[Len(C)] = e
    BY <1>1 DEF SetTop
  <2>3. \A c \in 1..Len(C) - 1 : SetTop(C, e)[c] = C[c]
    <3> SUFFICES ASSUME NEW c \in 1..Len(C) - 1  PROVE SetTop(C, e)[c] = C[c]
      OBVIOUS
    <3>1. c \in DOMAIN C /\ c # Len(C)
      <4>1. \A n \in Nat : \A k \in 1..n - 1 : k \in 1..n /\ k # n
        OBVIOUS
      <4> QED  BY <1>1, <4>1
    <3> QED  BY <3>1 DEF SetTop
  <2> QED  BY <2>1, <2>2, <2>3
<1>5. SetTop(C, e) # <<>>
  BY <1>1, <1>4, EmptySeq
<1>6. /\ Front(C) \in Seq(S) /\ Len(Front(C)) = Len(C) - 1
      /\ DOMAIN Front(C) = 1..Len(C) - 1 /\ \A c \in 1..Len(C) - 1 : Front(C)[c] = C[c]
  <2>1. Front(C) = SubSeq(C, 1, Len(C) - 1)
    BY DEF Front
  <2> HIDE DEF Front
  <2>2. Front(C) \in Seq(S) /\ Len(Front(C)) = Len(C) - 1
    BY <1>1, <2>1
  <2>3. DOMAIN Front(C) = 1..Len(C) - 1
    BY <2>2, LenProperties
  <2>4. \A c \in 1..Len(C) - 1 : Front(C)[c] = C[c]
    BY <1>1, <2>1
  <2> QED  BY <2>2, <2>3, <2>4
<1>7. Len(C) > 1 => Front(C) # <<>>
  BY <1>1, <1>6, EmptySeq
<1>8. Last(C) = C[Len(C)]
  BY DEF Last
<1>9. Front(Append(C, e)) = C
  <2>1. Front(Append(C, e)) = SubSeq(Append(C, e), 1, Len(C))
    BY <1>1, <1>2 DEF Front
  <2>2. /\ SubSeq(Append(C, e), 1, Len(C)) \in Seq(S) /\ Len(SubSeq(Append(C, e), 1, Len(C))) = Len(C)
        /\ \A c \in 1..Len(C) : SubSeq(Append(C, e), 1, Len(C))[c] = C[c]
    BY <1>1, <1>2
  <2> QED  BY <1>1, <2>1, <2>2, SeqEqual
<1>10. Front(SetTop(C, e)) = Front(C)
  <2> DEFINE D == SetTop(C, e)
  <2>1. Front(D) = SubSeq(D, 1, Len(C) - 1) /\ Front(C) = SubSeq(C, 1, Len(C) - 1)
    BY <1>4 DEF Front
  <2> HIDE DEF D
  <2>2. D \in Seq(S) /\ Len(D) = Len(C) /\ \A c \in 1..Len(C) - 1 : D[c] = C[c]
    BY <1>4 DEF D
  <2>3. /\ SubSeq(D, 1, Len(C) - 1) \in Seq(S) /\ Len(SubSeq(D, 1, Len(C) - 1)) = Len(C) - 1
        /\ \A c \in 1..Len(C) - 1 : SubSeq(D, 1, Len(C) - 1)[c] = C[c]
    BY <1>1, <2>2
  <2> QED  BY <1>6, <2>1, <2>3, SeqEqual DEF D
<1> QED  BY <1>1, <1>2, <1>3, <1>4, <1>5, <1>6, <1>7, <1>8, <1>9, <1>10
----------------------------------------------------------------------------
(* The maximum of a set is its element above all others.                   *)
LEMMA MaxIs ==
  ASSUME NEW A, A \subseteq Nat, NEW x \in A, \A y \in A : y <= x
  PROVE  Max(A) = x
<1>1. \A y \in A : x >= y
  OBVIOUS
<1>2. PICK m \in A : m = Max(A) /\ \A y \in A : m >= y
  BY <1>1 DEF Max
<1> QED  BY <1>2

(* The innermost function among the first k is the same in sequences whose *)
(* functions among them are.                                               *)
LEMMA FrameSame ==
  ASSUME NEW C, NEW D, NEW k,
         \A d \in 1..k : D[d].kind = C[d].kind /\ (C[d].kind = "func" => D[d].rbp = C[d].rbp)
  PROVE  FrameOf(D, k) = FrameOf(C, k)
<1>1. {D[d].rbp : d \in {d \in 1..k : D[d].kind = "func"}}
        = {C[d].rbp : d \in {d \in 1..k : C[d].kind = "func"}}
  OBVIOUS
<1> QED  BY <1>1 DEF FrameOf

(* Other code does not count.                                              *)
LEMMA FrameOther ==
  ASSUME NEW C, NEW k \in Nat \ {0}, C[k].kind # "func"
  PROVE  FrameOf(C, k) = FrameOf(C, k - 1)
<1>1. {d \in 1..k : C[d].kind = "func"} = {d \in 1..k - 1 : C[d].kind = "func"}
  OBVIOUS
<1> QED  BY <1>1 DEF FrameOf

(* A function is further out on the stack than the functions below it.     *)
LEMMA FrameFunc ==
  ASSUME NEW s, Len(s) \in Nat, NEW C \in Seq(Codes), NEW k \in DOMAIN C, C[k].kind = "func", InOrder(s, C)
  PROVE  FrameOf(C, k) = C[k].rbp
<1> DEFINE A == {C[d].rbp : d \in {d \in 1..k : C[d].kind = "func"}}
<1>1. /\ DOMAIN C = 1..Len(C) /\ Len(C) \in Nat /\ \A d \in DOMAIN C : C[d] \in Codes
  BY LenProperties, ElementOfSeq
<1>2. ASSUME NEW d \in 1..k, C[d].kind = "func"  PROVE C[d].rbp \in Nat /\ C[d].rbp <= C[k].rbp
  <2>1. d \in DOMAIN C /\ d <= k /\ C[d] \in Codes /\ C[k] \in Codes
    BY <1>1
  <2>2. C[d].rbp \in Nat /\ C[k].rbp \in Nat
    BY <1>2, <2>1, CodeTypes DEF FuncCode
  <2>3. CASE d = k
    BY <2>2, <2>3
  <2>4. CASE d # k
    <3>1. d < k
      BY <1>1, <2>1, <2>4
    <3>2. Base(C[d]) <= Base(C[k])
      BY <2>1, <3>1 DEF InOrder
    <3>3. C[d].rbp - 2 <= C[k].rbp - 2
      BY <1>2, <3>2 DEF Base
    <3> QED  BY <2>2, <3>3
  <2> QED  BY <2>3, <2>4
<1>3. A \subseteq Nat /\ C[k].rbp \in A /\ \A y \in A : y <= C[k].rbp
  <2>1. k \in 1..k
    BY <1>1
  <2> QED  BY <1>2, <2>1
<1>4. Max(A) = C[k].rbp
  <2> HIDE DEF A
  <2> QED  BY <1>3, MaxIs
<1> QED  BY <1>4 DEF FrameOf
----------------------------------------------------------------------------
(* A call's part is as long as it is, and holds what it held, as long as   *)
(* nothing of it is overwritten.                                           *)
LEMMA CallPartKept ==
  ASSUME NEW s, NEW t, NEW e, NEW hi, \A p \in 1..hi : t[p] = s[p], CallPart(s, e, hi)
  PROVE  CallPart(t, e, hi)
<1>1. Arguments(s, e, hi) => Arguments(t, e, hi)
  BY DEF Arguments
<1> QED  BY <1>1 DEF CallPart

(* The part of a code depends on the codes up to it, and on the stack up   *)
(* to its end.                                                             *)
LEMMA PartKept ==
  ASSUME NEW s, NEW t, NEW C, NEW D, NEW c \in Nat \ {0}, NEW hi \in Int,
         \A p \in 1..hi : t[p] = s[p], \A d \in 1..c : D[d] = C[d],
         C[c] \in Codes, Base(C[c]) \in Nat, PartOf(s, C, c, hi)
  PROVE  PartOf(t, D, c, hi)
<1>1. D[c] = C[c]
  OBVIOUS
<1>2. C[c].kind = "call" => CallPart(t, D[c], hi)
  BY <1>1, CallPartKept DEF PartOf
<1>3. C[c].kind = "binary" => BinaryPart(t, D[c], hi)
  <2> SUFFICES ASSUME C[c].kind = "binary"  PROVE BinaryPart(t, C[c], hi)
    BY <1>1
  <2>1. C[c].base \in Nat
    BY CodeTypes DEF BinaryCode
  <2>2. BinaryPart(s, C[c], hi)
    BY DEF PartOf
  <2>3. C[c].pushed => hi \in 1..hi
    BY <2>1, <2>2 DEF BinaryPart
  <2> QED  BY <2>2, <2>3 DEF BinaryPart
<1>4. C[c].kind = "func" => /\ D[c].rbp >= 2 /\ D[c].rbp <= hi
                            /\ c > 1 => FuncPart(t, D[c], D[c - 1], FrameOf(D, c - 1), hi)
  <2> SUFFICES ASSUME C[c].kind = "func"
               PROVE  /\ C[c].rbp >= 2 /\ C[c].rbp <= hi
                      /\ c > 1 => FuncPart(t, C[c], D[c - 1], FrameOf(D, c - 1), hi)
    BY <1>1
  <2>1. C[c].rbp \in Nat /\ C[c].rbp >= 2 /\ C[c].rbp <= hi
    BY CodeTypes DEF PartOf, FuncCode
  <2>2. C[c].rbp \in 1..hi /\ C[c].rbp - 1 \in 1..hi
    BY <2>1
  <2>3. ASSUME c > 1  PROVE FuncPart(t, C[c], D[c - 1], FrameOf(D, c - 1), hi)
    <3>1. D[c - 1] = C[c - 1]
      BY <2>3
    <3>2. FrameOf(D, c - 1) = FrameOf(C, c - 1)
      <4>1. \A d \in 1..c - 1 : D[d] = C[d]
        OBVIOUS
      <4> QED  BY <4>1, FrameSame
    <3>3. FuncPart(s, C[c], C[c - 1], FrameOf(C, c - 1), hi)
      BY <2>3 DEF PartOf
    <3> HIDE DEF FrameOf
    <3> QED  BY <2>2, <3>1, <3>2, <3>3 DEF FuncPart
  <2> QED  BY <2>1, <2>3
<1> QED  BY <1>1, <1>2, <1>3, <1>4 DEF PartOf

(* New code, or the innermost code with another part: the parts of the     *)
(* codes below stay what they were.                                        *)
LEMMA PartsBelow ==
  ASSUME NEW s, NEW t, NEW C \in Seq(Codes), NEW D \in Seq(Codes), NEW n \in Nat \ {0},
         Len(s) \in Nat, Len(t) \in Nat, n <= Len(C) + 1, n = Len(D), n > 1,
         \A c \in 1..n - 1 : D[c] = C[c],
         InOrder(s, C), Parts(s, C),
         Base(D[n]) = IF n <= Len(C) THEN Base(C[n]) ELSE Len(s),
         Base(D[n]) <= Len(t), \A p \in 1..Base(D[n]) : t[p] = s[p],
         PartOf(t, D, n, Len(t))
  PROVE  InOrder(t, D) /\ Parts(t, D)
<1>1. /\ Len(C) \in Nat /\ DOMAIN C = 1..Len(C) /\ \A c \in DOMAIN C : C[c] \in Codes
      /\ DOMAIN D = 1..n /\ \A c \in DOMAIN D : D[c] \in Codes
  BY LenProperties, ElementOfSeq
<1>2. \A c \in 1..n - 1 : c \in DOMAIN C /\ c \in DOMAIN D /\ D[c] = C[c]
  BY <1>1
<1>3. \A c \in 1..n - 1 : Base(C[c]) \in Nat /\ Base(C[c]) <= Base(D[n])
  <2> SUFFICES ASSUME NEW c \in 1..n - 1  PROVE Base(C[c]) \in Nat /\ Base(C[c]) <= Base(D[n])
    OBVIOUS
  <2>1. Base(C[c]) \in 0..Len(s)
    BY <1>2 DEF InOrder
  <2>2. CASE n <= Len(C)
    <3>1. n \in DOMAIN C /\ c < n
      BY <1>1, <2>2
    <3> QED  BY <1>2, <2>1, <2>2, <3>1 DEF InOrder
  <2>3. CASE ~(n <= Len(C))
    BY <2>1, <2>3
  <2> QED  BY <2>2, <2>3
<1>4. Base(D[n]) \in 0..Len(t)
  <2>1. 1 \in 1..n - 1
    OBVIOUS
  <2>2. Base(D[n]) \in Int
    BY <1>1, CodeTypes
  <2>3. Base(C[1]) \in Nat /\ Base(C[1]) <= Base(D[n])
    BY <1>3, <2>1
  <2> QED  BY <2>2, <2>3
<1>5. InOrder(t, D)
  <2>1. ASSUME NEW c \in DOMAIN D  PROVE Base(D[c]) \in 0..Len(t) /\ Base(D[c]) <= Base(D[n])
    <3>1. CASE c = n
      BY <1>4, <3>1
    <3>2. CASE c # n
      <4>1. c \in 1..n - 1
        BY <1>1, <3>2
      <4>2. Base(D[c]) \in Nat /\ Base(D[c]) <= Base(D[n])
        BY <1>2, <1>3, <4>1
      <4> QED  BY <1>4, <4>2
    <3> QED  BY <3>1, <3>2
  <2>2. ASSUME NEW c \in DOMAIN D, NEW d \in DOMAIN D, c < d  PROVE Base(D[c]) <= Base(D[d])
    <3>1. CASE d = n
      BY <2>1, <3>1
    <3>2. CASE d # n
      <4>1. c \in 1..n - 1 /\ d \in 1..n - 1
        BY <1>1, <2>2, <3>2
      <4> QED  BY <1>2, <2>2, <4>1 DEF InOrder
    <3> QED  BY <3>1, <3>2
  <2> QED  BY <2>1, <2>2 DEF InOrder
<1>6. ASSUME NEW c \in DOMAIN D  PROVE PartOf(t, D, c, Limit(t, D, c))
  <2>1. CASE c = n
    BY <2>1 DEF Limit
  <2>2. CASE c # n
    <3>1. c \in 1..n - 1 /\ c \in DOMAIN C /\ c # Len(D)
      BY <1>1, <1>2, <2>2
    <3>2. Limit(t, D, c) = Limit(s, C, c)
      <4>1. Limit(t, D, c) = Base(D[c + 1])
        BY <3>1 DEF Limit
      <4>2. CASE c + 1 = n
        <5>1. CASE n <= Len(C)
          <6>1. c # Len(C)
            BY <1>1, <4>2, <5>1
          <6> QED  BY <4>1, <4>2, <5>1, <6>1 DEF Limit
        <5>2. CASE ~(n <= Len(C))
          <6>1. c = Len(C)
            BY <1>1, <3>1, <4>2, <5>2
          <6> QED  BY <4>1, <4>2, <5>2, <6>1 DEF Limit
        <5> QED  BY <5>1, <5>2
      <4>3. CASE c + 1 # n
        <5>1. c + 1 \in 1..n - 1 /\ c # Len(C)
          BY <1>1, <3>1, <4>3
        <5> QED  BY <1>2, <4>1, <5>1 DEF Limit
      <4> QED  BY <4>2, <4>3
    <3>3. Limit(t, D, c) \in Int /\ Limit(t, D, c) <= Base(D[n])
      <4>1. Limit(t, D, c) = Base(D[c + 1]) /\ c + 1 \in DOMAIN D /\ n \in DOMAIN D
        BY <1>1, <3>1 DEF Limit
      <4>2. Base(D[c + 1]) \in 0..Len(t)
        BY <4>1, <1>5 DEF InOrder
      <4>3. Base(D[c + 1]) <= Base(D[n])
        <5>1. CASE c + 1 = n
          BY <5>1, <1>4
        <5>2. CASE c + 1 # n
          <6>1. c + 1 < n
            BY <3>1, <5>2
          <6> QED  BY <4>1, <6>1, <1>5 DEF InOrder
        <5> QED  BY <5>1, <5>2
      <4> QED  BY <4>1, <4>2, <4>3
    <3>4. \A p \in 1..Limit(t, D, c) : t[p] = s[p]
      <4>1. Base(D[n]) \in Int
        BY <1>4
      <4> QED  BY <3>3, <4>1
    <3>5. PartOf(s, C, c, Limit(s, C, c))
      BY <3>1 DEF Parts
    <3>6. \A d \in 1..c : D[d] = C[d]
      BY <1>2, <3>1
    <3>7. C[c] \in Codes /\ Base(C[c]) \in Nat /\ c \in Nat \ {0}
      BY <1>1, <1>3, <3>1
    <3> DEFINE hi == Limit(t, D, c)
    <3>8. hi \in Int /\ (\A p \in 1..hi : t[p] = s[p]) /\ PartOf(s, C, c, hi)
      BY <3>2, <3>3, <3>4, <3>5
    <3> HIDE DEF hi
    <3>9. PartOf(t, D, c, hi)
      BY <3>6, <3>7, <3>8, PartKept
    <3> QED  BY <3>9 DEF hi
  <2> QED  BY <2>1, <2>2
<1> QED  BY <1>5, <1>6 DEF Parts

(* Without the innermost code, and with rsp where it found it.             *)
LEMMA PartsWithout ==
  ASSUME NEW s, NEW t, NEW C \in Seq(Codes), NEW D \in Seq(Codes), NEW n \in Nat \ {0},
         Len(s) \in Nat, Len(t) \in Nat, Len(C) = n + 1, Len(D) = n,
         \A c \in 1..n : D[c] = C[c],
         InOrder(s, C), Parts(s, C),
         Len(t) = Base(C[n + 1]), \A p \in 1..Len(t) : t[p] = s[p]
  PROVE  InOrder(t, D) /\ Parts(t, D)
<1>1. /\ DOMAIN C = 1..n + 1 /\ \A c \in DOMAIN C : C[c] \in Codes
      /\ DOMAIN D = 1..n
  BY LenProperties, ElementOfSeq
<1>2. \A c \in 1..n : /\ c \in DOMAIN C /\ n + 1 \in DOMAIN C /\ c < n + 1 /\ D[c] = C[c]
                      /\ Base(C[c]) \in 0..Len(t)
  <2> SUFFICES ASSUME NEW c \in 1..n
               PROVE  /\ c \in DOMAIN C /\ n + 1 \in DOMAIN C /\ c < n + 1 /\ D[c] = C[c]
                      /\ Base(C[c]) \in 0..Len(t)
    OBVIOUS
  <2>1. c \in DOMAIN C /\ n + 1 \in DOMAIN C /\ c < n + 1
    BY <1>1
  <2>2. Base(C[c]) \in 0..Len(s) /\ Base(C[c]) <= Base(C[n + 1])
    BY <2>1 DEF InOrder
  <2> QED  BY <2>1, <2>2
<1>3. InOrder(t, D)
  <2>1. ASSUME NEW c \in 1..n, NEW d \in 1..n, c < d  PROVE Base(D[c]) <= Base(D[d])
    BY <1>2, <2>1 DEF InOrder
  <2>2. \A c \in 1..n : Base(D[c]) \in 0..Len(t)
    BY <1>2
  <2> QED  BY <1>1, <2>1, <2>2 DEF InOrder
<1>4. ASSUME NEW c \in 1..n  PROVE PartOf(t, D, c, Limit(t, D, c))
  <2> DEFINE hi == Limit(t, D, c)
  <2>1. hi = Limit(s, C, c) /\ hi \in Int /\ hi <= Len(t)
    <3>1. c # n + 1 /\ c + 1 \in 1..n + 1
      OBVIOUS
    <3>2. Limit(s, C, c) = Base(C[c + 1])
      BY <3>1 DEF Limit
    <3>3. CASE c = n
      BY <3>2, <3>3 DEF Limit
    <3>4. CASE c # n
      <4>1. c + 1 \in 1..n
        BY <3>4
      <4>2. Limit(t, D, c) = Base(D[c + 1])
        BY <3>4 DEF Limit
      <4> QED  BY <1>2, <3>2, <4>1, <4>2
    <3> QED  BY <3>3, <3>4
  <2>2. PartOf(s, C, c, hi)
    BY <1>2, <2>1 DEF Parts
  <2>3. \A p \in 1..hi : t[p] = s[p]
    BY <2>1
  <2>4. C[c] \in Codes /\ Base(C[c]) \in Nat /\ c \in Nat \ {0} /\ \A d \in 1..c : D[d] = C[d]
    BY <1>1, <1>2
  <2> HIDE DEF hi
  <2>5. PartOf(t, D, c, hi)
    BY <2>1, <2>2, <2>3, <2>4, PartKept
  <2> QED  BY <2>5 DEF hi
<1> QED  BY <1>1, <1>3, <1>4 DEF Parts
----------------------------------------------------------------------------
(* The argument that is next is one that has not been evaluated: the last  *)
(* of those on the stack, and when there is none, the last of all.         *)
LEMMA NextIs ==
  ASSUME NEW e, NEW n \in Nat, e.todo \subseteq 1..n, e.todo # {}
  PROVE  LET onStack == e.todo \cap OnStack(e.plan) IN
         /\ NextArg(e) \in e.todo
         /\ onStack # {} => NextArg(e) \in onStack /\ \A j \in onStack : j <= NextArg(e)
         /\ onStack = {} => \A j \in e.todo : j <= NextArg(e)
<1> DEFINE onStack == e.todo \cap OnStack(e.plan)
<1>1. ASSUME NEW A, A \subseteq 1..n, A # {}  PROVE Max(A) \in A /\ \A j \in A : j <= Max(A)
  <2>1. A \subseteq 0..n /\ A \subseteq Nat
    BY <1>1
  <2>2. PICK x \in A : \A j \in A : j <= x
    BY <1>1, <2>1, LastExists
  <2>3. Max(A) = x
    BY <2>1, <2>2, MaxIs
  <2> QED  BY <2>2, <2>3
<1>2. NextArg(e) = IF onStack # {} THEN Max(onStack) ELSE Max(e.todo)
  BY DEF NextArg
<1>3. onStack \subseteq 1..n /\ onStack \subseteq e.todo
  OBVIOUS
<1> HIDE DEF onStack
<1>4. CASE onStack # {}
  BY <1>1, <1>2, <1>3, <1>4 DEF onStack
<1>5. CASE onStack = {}
  BY <1>1, <1>2, <1>5 DEF onStack
<1> QED  BY <1>4, <1>5

(* What code asks for is a cell of the stack's type.                       *)
LEMMA ValueType ==
  ASSUME NEW C \in Seq(Codes), C # <<>>,
         C[Len(C)].kind = "call" /\ C[Len(C)].stage = "args" =>
           C[Len(C)].todo # {} /\ C[Len(C)].plan = Plan(C[Len(C)].args)
             /\ C[Len(C)].todo \subseteq DOMAIN C[Len(C)].args
  PROVE  Value(C) \in Cells
<1> DEFINE e == C[Len(C)]
<1>1. Len(C) \in Nat /\ e \in Codes
  BY EmptySeq, LenProperties, ElementOfSeq
<1>2. CASE e.kind = "call" /\ e.stage = "args"
  <2>1. e.args \in ArgLists
    BY <1>1, <1>2, CodeTypes DEF CallCode
  <2>2. Len(e.args) \in Nat /\ e.todo \subseteq 1..Len(e.args) /\ e.todo # {}
    BY <1>2, <2>1, PlanFacts
  <2>3. NextArg(e) \in Nat
    <3> HIDE DEF e
    <3> QED  BY <2>2, NextIs
  <2>4. Value(C) = Cell(Len(C), NextArg(e), PartLoaded(e.args[NextArg(e)]))
    BY <1>2 DEF Value
  <2> HIDE DEF e
  <2> QED  BY <1>1, <2>3, <2>4 DEF Cells, Cell, PartLoaded
<1>3. CASE ~(e.kind = "call" /\ e.stage = "args")
  <2>1. Value(C) = IF e.kind = "binary" THEN Cell(Len(C), IF e.pushed THEN 2 ELSE 1, 1)
                   ELSE Cell(Len(C), 0, 1)
    BY <1>3 DEF Value
  <2> HIDE DEF e
  <2> QED  BY <1>1, <2>1 DEF Cells, Cell
<1> QED  BY <1>2, <1>3
----------------------------------------------------------------------------
(* A function on 1..n is a sequence of n elements.                         *)
LEMMA FunctionSeq ==
  ASSUME NEW S, NEW n \in Nat, NEW f \in [1..n -> S]
  PROVE  f \in Seq(S) /\ Len(f) = n
OBVIOUS

(* Parts of a cell are cells, and the part it is already is the cell.      *)
LEMMA PartType ==
  ASSUME NEW v \in Cells, NEW k \in Nat
  PROVE  Part(v, k) \in Cells /\ (v.part = k => Part(v, k) = v)
BY DEF Cells, Part

(* What is pushed for an argument is as long as the plan says, and what    *)
(* the callee must find, the first word last.                              *)
PushesFor(w, args, p, i, v) ==
  /\ w \in Seq(Cells)
  /\ Len(w) = IF i \in OnStack(p) THEN p.words[i] ELSE p.given[i]
  /\ Plain /\ v.part = PartLoaded(args[i]) =>
       /\ i \in OnStack(p) => \A k \in 1..p.words[i] : w[p.words[i] - k + 1] = Words(args[i], v)[k]
       /\ i \in InRegs(p) => p.given[i] = 1 /\ w[1] = Words(args[i], v)[1]

(* Every argument is pushed so.                                            *)
LEMMA PushedIs ==
  ASSUME SmallOnStack, NEW args \in ArgLists, NEW i \in DOMAIN args, NEW v \in Cells
  PROVE  PushesFor(Pushed(args[i], Plan(args).given[i], v), args, Plan(args), i, v)
<1> DEFINE p == Plan(args)
           w == Pushed(args[i], p.given[i], v)
           a == args[i]
           good == Plain /\ v.part = PartLoaded(a)
<1>1. /\ a.size \in Nat \ {0} /\ a.array \in BOOLEAN
      /\ p.given[i] \in 0..2 /\ p.words[i] \in Nat \ {0}
      /\ p.words[i] = WordsOf(SizePassed(a))
      /\ p.given[i] = 1 => p.words[i] = 1
      /\ i \in OnStack(p) <=> p.given[i] = 0
  BY PlanFacts
<1>2. i \in InRegs(p) <=> p.given[i] # 0
  <2>1. OnStack(p) \cup InRegs(p) = DOMAIN args /\ OnStack(p) \cap InRegs(p) = {}
    BY PlanFacts
  <2> HIDE DEF p
  <2> QED  BY <1>1, <2>1
<1>3. i \in OnStack(p) => (a.array => a.size <= Word)
  BY DEF SmallOnStack
<1>4. Plain => p.given[i] <= 1 /\ (a.array \/ a.size \in {1, 2, 4, 8} \/ a.size > Word)
  BY DEF Plain
<1> HIDE DEF p, a
<1>5. w = Pushed(a, p.given[i], v)
  BY DEF a
<1>6. ASSUME good, a.size <= Word \/ a.array  PROVE Words(a, v)[1] = v
  <2>1. CASE a.array
    <3>1. v.part = 0
      BY <1>6, <2>1 DEF PartLoaded
    <3>2. Words(a, v) = <<Part(v, 0)>>
      BY <2>1 DEF Words
    <3> QED  BY <3>1, <3>2, PartType
  <2>2. CASE ~a.array
    <3>1. a.size \in {1, 2, 4, 8} /\ a.size <= Word
      BY <1>1, <1>4, <1>6, <2>2 DEF Word
    <3>2. v.part = 1
      BY <1>6, <2>2, <3>1 DEF PartLoaded
    <3>3. 1 \in 1..WordsOf(a.size)
      BY <1>1, <3>1, WordsType
    <3>4. Words(a, v)[1] = Part(v, 1)
      BY <2>2, <3>3 DEF Words
    <3> QED  BY <3>2, <3>4, PartType
  <2> QED  BY <2>1, <2>2
<1>7. CASE p.given[i] = 0 /\ a.size > Word
  <2> DEFINE n == WordsOf(a.size)
             copy == [k \in 1..n |-> Part(v, k)]
  <2>1. ~a.array /\ p.words[i] = n /\ n \in Nat
    BY <1>1, <1>3, <1>7 DEF SizePassed, Word
  <2>2. w = Reverse(copy)
    <3>1. ~(a.size <= Word)
      BY <1>1, <1>7 DEF Word
    <3> HIDE DEF w
    <3> QED  BY <1>5, <1>7, <3>1 DEF Pushed
  <2>3. copy \in Seq(Cells) /\ Len(copy) = n
    <3>1. \A k \in 1..n : Part(v, k) \in Cells
      BY PartType
    <3>2. copy \in [1..n -> Cells]
      BY <3>1
    <3> HIDE DEF copy, n
    <3> QED  BY <2>1, <3>2, FunctionSeq
  <2>4. Reverse(copy) = [k \in 1..n |-> copy[(n - k) + 1]]
    <3> HIDE DEF copy, n
    <3> QED  BY <2>3 DEF Reverse
  <2>5. \A k \in 1..n : (n - k) + 1 \in 1..n /\ (n - ((n - k) + 1)) + 1 = k
    BY <2>1
  <2>6. \A k \in 1..n : copy[k] \in Cells
    BY PartType
  <2>7. Reverse(copy) \in [1..n -> Cells] /\ \A k \in 1..n : Reverse(copy)[(n - k) + 1] = copy[k]
    <3> HIDE DEF copy, n
    <3> QED  BY <2>4, <2>5, <2>6
  <2>8. w \in Seq(Cells) /\ Len(w) = n
    BY <2>1, <2>2, <2>7, FunctionSeq
  <2>9. \A k \in 1..n : w[n - k + 1] = Words(a, v)[k]
    <3>1. \A k \in 1..n : Words(a, v)[k] = copy[k]
      BY <2>1 DEF Words
    <3> QED  BY <2>2, <2>7, <3>1
  <2> HIDE DEF n, copy, w
  <2>10. /\ w \in Seq(Cells) /\ Len(w) = p.words[i] /\ i \in OnStack(p) /\ i \notin InRegs(p)
         /\ \A k \in 1..p.words[i] : w[p.words[i] - k + 1] = Words(a, v)[k]
    BY <1>1, <1>2, <1>7, <2>1, <2>8, <2>9
  <2> QED  BY <2>10 DEF PushesFor, w, a, p
<1>8. CASE p.given[i] = 0 /\ a.size <= Word
  <2>1. w = <<v>>
    <3> HIDE DEF w
    <3> QED  BY <1>5, <1>8 DEF Pushed
  <2>2. p.words[i] = 1
    <3>1. SizePassed(a) \in Nat \ {0} /\ SizePassed(a) <= Word
      BY <1>1, <1>8 DEF SizePassed, Word
    <3> QED  BY <1>1, <3>1, WordsType
  <2>3. w \in Seq(Cells) /\ Len(w) = 1 /\ w[1] = v
    BY <2>1
  <2>4. good => Words(a, v)[1] = v
    BY <1>6, <1>8
  <2> HIDE DEF w
  <2>5. /\ i \in OnStack(p) /\ i \notin InRegs(p)
        /\ \A k \in 1..1 : k = 1 /\ 1 - k + 1 = 1
    BY <1>1, <1>2, <1>8
  <2>6. good => \A k \in 1..p.words[i] : w[p.words[i] - k + 1] = Words(a, v)[k]
    BY <2>2, <2>3, <2>4, <2>5
  <2> QED  BY <2>2, <2>3, <2>5, <2>6 DEF PushesFor, w, a, p
<1>9. CASE p.given[i] = 1
  <2>1. w = <<v>>
    BY <1>5, <1>9 DEF Pushed
  <2>2. w \in Seq(Cells) /\ Len(w) = 1 /\ w[1] = v
    BY <2>1
  <2>3. i \notin OnStack(p)
    BY <1>1, <1>9
  <2>4. good => Words(a, v)[1] = v
    <3>1. p.words[i] = 1
      BY <1>1, <1>9
    <3>2. a.array \/ a.size <= Word
      <4>1. CASE ~a.array
        <5>1. WordsOf(a.size) = 1
          BY <1>1, <3>1, <4>1 DEF SizePassed
        <5> QED  BY <1>1, <5>1, WordsType
      <4> QED  BY <4>1
    <3> QED  BY <1>6, <3>2
  <2> HIDE DEF w
  <2> QED  BY <1>9, <2>2, <2>3, <2>4 DEF PushesFor, w, a, p
<1>10. CASE p.given[i] = 2
  <2>1. w = <<Part(v, 1), Part(v, 2)>>
    BY <1>5, <1>10 DEF Pushed
  <2>2. Part(v, 1) \in Cells /\ Part(v, 2) \in Cells
    BY PartType
  <2>3. w \in Seq(Cells) /\ Len(w) = 2
    BY <2>1, <2>2
  <2>4. i \notin OnStack(p) /\ ~Plain
    BY <1>1, <1>4, <1>10
  <2> HIDE DEF w
  <2> QED  BY <1>10, <2>3, <2>4 DEF PushesFor, w, a, p
<1> QED  BY <1>1, <1>7, <1>8, <1>9, <1>10 DEF Word
----------------------------------------------------------------------------
(* The fields of a call, and the sums over its plan.                       *)
LEMMA CallFacts ==
  ASSUME NEW e \in CallCode, e.plan = Plan(e.args), e.todo \subseteq DOMAIN e.args
  PROVE  LET p == e.plan
             T == OnStack(p)
             R == InRegs(p)
         IN
         /\ e.args \in ArgLists /\ e.base \in Nat /\ e.pad \in {0, 1} /\ e.vals \in Seq(Cells)
         /\ e.kind = "call" /\ Base(e) = e.base
         /\ DOMAIN e.args = 1..Len(e.args) /\ Len(e.args) \in Nat
         /\ T \cup R = DOMAIN e.args /\ T \cap R = {}
         /\ Total(p.words, T) \in Nat /\ Total(p.words, T \cap e.todo) \in Nat
         /\ Total(p.given, R) \in Nat /\ Total(p.given, R \cap e.todo) \in Nat
         /\ Total(p.words, T \cap e.todo) <= Total(p.words, T)
         /\ Total(p.given, R \cap e.todo) <= Total(p.given, R)
         /\ Full(e) = e.base + e.pad + Total(p.words, T) /\ Full(e) \in Nat
         /\ e.todo = {} => Total(p.words, T \cap e.todo) = 0 /\ Total(p.given, R \cap e.todo) = 0
<1> DEFINE p == e.plan
           T == OnStack(p)
           R == InRegs(p)
<1>1. /\ e.args \in ArgLists /\ e.base \in Nat /\ e.pad \in {0, 1} /\ e.vals \in Seq(Cells)
      /\ e.kind = "call" /\ Base(e) = e.base
  BY DEF CallCode, Base
<1>2. /\ DOMAIN e.args = 1..Len(e.args) /\ Len(e.args) \in Nat
      /\ T \cup R = DOMAIN e.args /\ T \cap R = {} /\ IsFiniteSet(DOMAIN e.args)
      /\ \A i \in DOMAIN e.args : p.given[i] \in Nat /\ p.words[i] \in Nat
  <2>1. /\ DOMAIN e.args = 1..Len(e.args) /\ Len(e.args) \in Nat
        /\ T \cup R = DOMAIN e.args /\ T \cap R = {} /\ IsFiniteSet(DOMAIN e.args)
    BY <1>1, PlanFacts
  <2>2. \A i \in DOMAIN e.args : p.given[i] \in 0..2 /\ p.words[i] \in Nat \ {0}
    BY <1>1, PlanFacts
  <2> HIDE DEF p
  <2> QED  BY <2>1, <2>2
<1> HIDE DEF p, T, R
<1>3. ASSUME NEW S \in SUBSET DOMAIN e.args
      PROVE  /\ Total(p.words, S) \in Nat /\ Total(p.given, S) \in Nat
             /\ Total(p.words, S \cap e.todo) \in Nat /\ Total(p.given, S \cap e.todo) \in Nat
             /\ Total(p.words, S \cap e.todo) <= Total(p.words, S)
             /\ Total(p.given, S \cap e.todo) <= Total(p.given, S)
  <2>1. IsFiniteSet(S) /\ IsFiniteSet(S \cap e.todo) /\ S \cap e.todo \in SUBSET S
    BY <1>2, FS_Subset
  <2>2. (\A i \in S : p.words[i] \in Nat) /\ (\A i \in S : p.given[i] \in Nat)
    BY <1>2
  <2>3. (\A i \in S \cap e.todo : p.words[i] \in Nat) /\ (\A i \in S \cap e.todo : p.given[i] \in Nat)
    BY <2>2
  <2> QED  BY <2>1, <2>2, <2>3, TotalType, TotalPart
<1>4. T \in SUBSET DOMAIN e.args /\ R \in SUBSET DOMAIN e.args
  BY <1>2
<1>5. e.todo = {} => Total(p.words, T \cap e.todo) = 0 /\ Total(p.given, R \cap e.todo) = 0
  <2>1. \A w : Total(w, {}) = 0
    BY TotalStep, FS_EmptySet
  <2>2. T \cap {} = {} /\ R \cap {} = {}
    OBVIOUS
  <2> QED  BY <2>1, <2>2
<1>6. Full(e) = e.base + e.pad + Total(p.words, T) /\ Full(e) \in Nat
  <2>1. Full(e) = e.base + e.pad + Total(p.words, T)
    BY DEF Full, p, T
  <2>2. Total(p.words, T) \in Nat
    BY <1>3, <1>4
  <2> QED  BY <1>1, <2>1, <2>2
<1> QED  BY <1>1, <1>2, <1>3, <1>4, <1>5, <1>6 DEF p, T, R

(* A call begins: the pad makes rsp even behind the arguments on the stack.*)
LEMMA CallBegins ==
  ASSUME NEW e \in CallCode, e.plan = Plan(e.args), e.todo = DOMAIN e.args, e.stage = "args",
         Len(e.vals) = Len(e.args), NEW n \in Nat, e.base = n,
         e.pad = IF (Word * n + (IF StackBytes(e.plan) % (2 * Word) # 0 THEN Word ELSE 0)) % (2 * Word) = 0
                 THEN 0 ELSE 1,
         NEW s
  PROVE  CallPart(s, e, n + e.pad)
<1> DEFINE T == OnStack(e.plan)
           R == InRegs(e.plan)
           tw == Total(e.plan.words, T)
           tg == Total(e.plan.given, R)
<1>1. T \cap e.todo = T /\ R \cap e.todo = R
  BY CallFacts
<1>2. tw \in Nat /\ tg \in Nat /\ Full(e) = n + e.pad + tw /\ e.pad \in {0, 1}
  BY CallFacts
<1>3. Height(e) = n + e.pad
  <2>1. Height(e) = (Full(e) - tw) + (tg - tg)
    BY <1>1 DEF Height
  <2> HIDE DEF tw, tg
  <2> QED  BY <1>2, <2>1
<1>4. Full(e) % 2 = 0
  <2>1. StackBytes(e.plan) = Word * tw
    BY DEF StackBytes
  <2> HIDE DEF tw
  <2>2. \A x, y \in Nat : \A q \in {0, 1} :
          q = (IF (8 * x + (IF (8 * y) % 16 # 0 THEN 8 ELSE 0)) % 16 = 0 THEN 0 ELSE 1)
            => (x + q + y) % 2 = 0
    OBVIOUS
  <2>3. e.pad = IF (8 * n + (IF (8 * tw) % 16 # 0 THEN 8 ELSE 0)) % 16 = 0 THEN 0 ELSE 1
    BY <1>2, <2>1 DEF Word
  <2>4. (n + e.pad + tw) % 2 = 0
    BY <1>2, <2>2, <2>3
  <2> QED  BY <1>2, <2>4
<1>5. Arguments(s, e, n + e.pad)
  <2>1. T \ e.todo = {} /\ R \ e.todo = {} /\ R \subseteq e.todo
    BY <1>1
  <2>2. \A i, j \in DOMAIN e.args : i \in e.todo
    OBVIOUS
  <2> QED  BY <2>1, <2>2 DEF Arguments
<1> QED  BY <1>3, <1>4, <1>5 DEF CallPart

(* An argument is pushed.                                                  *)
LEMMA ArgumentPushed ==
  ASSUME SmallOnStack, NEW e \in CallCode, e.stage = "args", e.todo # {}, NEW v \in Cells,
         NEW s \in Seq(Cells), CallPart(s, e, Len(s)),
         Plain => v.part = PartLoaded(e.args[NextArg(e)])
  PROVE  LET i == NextArg(e)
             t == s \o Pushed(e.args[i], e.plan.given[i], v)
             f == [e EXCEPT !.todo = @ \ {i}, !.vals = [@ EXCEPT ![i] = v]]
         IN  /\ i \in DOMAIN e.args /\ f \in CallCode
             /\ t \in Seq(Cells) /\ Len(s) <= Len(t) /\ \A p \in 1..Len(s) : t[p] = s[p]
             /\ CallPart(t, f, Len(t))
<1> DEFINE i == NextArg(e)
           p == e.plan
           w == Pushed(e.args[i], p.given[i], v)
           t == s \o w
           f == [e EXCEPT !.todo = @ \ {i}, !.vals = [@ EXCEPT ![i] = v]]
           T == OnStack(p)
           R == InRegs(p)
           hi == Len(s)
<1>1. /\ p = Plan(e.args) /\ e.todo \subseteq DOMAIN e.args /\ Len(e.vals) = Len(e.args)
      /\ hi = Height(e) /\ Full(e) % 2 = 0 /\ (Plain => Arguments(s, e, hi))
  BY DEF CallPart
<1>2. /\ e.args \in ArgLists /\ e.base \in Nat /\ e.pad \in {0, 1} /\ e.vals \in Seq(Cells)
      /\ DOMAIN e.args = 1..Len(e.args) /\ Len(e.args) \in Nat
      /\ T \cup R = DOMAIN e.args /\ T \cap R = {}
      /\ Total(p.words, T) \in Nat /\ Total(p.words, T \cap e.todo) \in Nat
      /\ Total(p.given, R) \in Nat /\ Total(p.given, R \cap e.todo) \in Nat
      /\ Full(e) \in Nat
  BY <1>1, CallFacts
<1>3. /\ i \in e.todo
      /\ T \cap e.todo # {} => i \in T /\ \A j \in T \cap e.todo : j <= i
      /\ T \cap e.todo = {} => \A j \in e.todo : j <= i
  <2>1. e.todo \subseteq 1..Len(e.args)
    BY <1>1, <1>2
  <2> QED  BY <1>2, <2>1, NextIs
<1>4. i \in DOMAIN e.args
  BY <1>1, <1>3
<1>5. /\ w \in Seq(Cells)
      /\ Len(w) = IF i \in T THEN p.words[i] ELSE p.given[i]
      /\ Plain /\ i \in T => \A k \in 1..p.words[i] : w[p.words[i] - k + 1] = Words(e.args[i], v)[k]
      /\ Plain /\ i \in R => p.given[i] = 1 /\ w[1] = Words(e.args[i], v)[1]
  <2> HIDE DEF i, t, f, hi
  <2>1. PushesFor(Pushed(e.args[i], Plan(e.args).given[i], v), e.args, Plan(e.args), i, v)
    BY <1>2, <1>4, PushedIs
  <2>2. PushesFor(w, e.args, p, i, v)
    BY <1>1, <2>1
  <2>3. Plain => v.part = PartLoaded(e.args[i])
    BY DEF i
  <2> HIDE DEF w, p
  <2> QED  BY <2>2, <2>3 DEF PushesFor
<1> HIDE DEF w
<1>6. /\ t \in Seq(Cells) /\ Len(t) = hi + Len(w) /\ hi \in Nat /\ Len(w) \in Nat
      /\ \A q \in 1..hi : t[q] = s[q]
      /\ \A q \in 1..Len(w) : t[hi + q] = w[q]
  BY <1>5, LenProperties
<1> HIDE DEF t, hi, i
<1>7. /\ f.args = e.args /\ f.plan = p /\ f.stage = "args" /\ f.base = e.base /\ f.pad = e.pad
      /\ f.todo = e.todo \ {i} /\ f.vals = [e.vals EXCEPT ![i] = v] /\ f \in CallCode
  <2> DEFINE u == [e.vals EXCEPT ![i] = v]
             n == Len(e.args)
  <2>1. e.vals \in [1..n -> Cells]
    BY <1>1, <1>2, LenProperties
  <2> HIDE DEF n
  <2>2. u \in [1..n -> Cells]
    BY <2>1
  <2> HIDE DEF u
  <2>3. u \in Seq(Cells)
    BY <1>2, <2>2, FunctionSeq DEF n
  <2>4. f = [e EXCEPT !.todo = e.todo \ {i}, !.vals = u]
    BY DEF u
  <2>5. e.todo \in SUBSET Nat /\ e.todo \ {i} \in SUBSET Nat
    BY DEF CallCode
  <2> HIDE DEF f
  <2>6. f \in CallCode
    BY <2>3, <2>4, <2>5 DEF CallCode
  <2>7. f.todo = e.todo \ {i} /\ f.vals = u
    BY <2>4 DEF CallCode
  <2>8. f.args = e.args /\ f.plan = e.plan /\ f.stage = e.stage /\ f.base = e.base /\ f.pad = e.pad
    BY <2>4 DEF CallCode
  <2> QED  BY <2>6, <2>7, <2>8 DEF u
<1>8. /\ Len(f.vals) = Len(e.args) /\ f.vals[i] = v
      /\ \A j \in DOMAIN e.args : j # i => f.vals[j] = e.vals[j]
  <2> HIDE DEF f
  <2>1. DOMAIN e.vals = DOMAIN e.args /\ e.vals \in [1..Len(e.args) -> Cells]
    BY <1>1, <1>2, LenProperties
  <2>2. [e.vals EXCEPT ![i] = v] \in [1..Len(e.args) -> Cells]
    BY <2>1
  <2>3. Len(f.vals) = Len(e.args)
    BY <1>2, <1>7, <2>2, FunctionSeq
  <2> QED  BY <1>4, <1>7, <2>1, <2>3
<1> HIDE DEF f
<1>9. Full(f) = Full(e)
  BY <1>7 DEF Full
<1>10. /\ i \in T => /\ T \cap f.todo = (T \cap e.todo) \ {i} /\ R \cap f.todo = R \cap e.todo
       /\ i \in R => /\ T \cap f.todo = T \cap e.todo /\ R \cap f.todo = (R \cap e.todo) \ {i}
  BY <1>2, <1>7
<1>11. /\ i \in T => Total(p.words, T \cap e.todo) = p.words[i] + Total(p.words, (T \cap e.todo) \ {i})
       /\ i \in R => Total(p.given, R \cap e.todo) = p.given[i] + Total(p.given, (R \cap e.todo) \ {i})
  <2> DEFINE A == T \cap e.todo
             B == R \cap e.todo
  <2>1. A \in SUBSET DOMAIN e.args /\ B \in SUBSET DOMAIN e.args
    BY <1>1
  <2>2. (i \in T => i \in A) /\ (i \in R => i \in B)
    BY <1>3
  <2> HIDE DEF A, B
  <2> DEFINE P == Plan(e.args)
  <2>3. \A j \in A : Total(P.words, A) = P.words[j] + Total(P.words, A \ {j})
    BY <1>2, <2>1, PlanTotals
  <2>4. \A j \in B : Total(P.given, B) = P.given[j] + Total(P.given, B \ {j})
    BY <1>2, <2>1, PlanTotals
  <2>5. p = P
    BY <1>1
  <2> HIDE DEF P, p, T, R
  <2>6. /\ i \in T => Total(p.words, A) = p.words[i] + Total(p.words, A \ {i})
        /\ i \in R => Total(p.given, B) = p.given[i] + Total(p.given, B \ {i})
    BY <2>2, <2>3, <2>4, <2>5
  <2> QED  BY <2>6 DEF A, B
<1>12. /\ Total(p.words, (T \cap e.todo) \ {i}) \in Nat /\ Total(p.given, (R \cap e.todo) \ {i}) \in Nat
       /\ p.words[i] \in Nat /\ p.given[i] \in Nat
  <2>1. /\ (T \cap e.todo) \ {i} \in SUBSET DOMAIN e.args
        /\ (R \cap e.todo) \ {i} \in SUBSET DOMAIN e.args
    BY <1>1
  <2>2. p.words[i] \in Nat \ {0} /\ p.given[i] \in 0..2
    BY <1>1, <1>2, <1>4, PlanFacts
  <2>3. Total(p.words, (T \cap e.todo) \ {i}) \in Nat /\ Total(p.given, (R \cap e.todo) \ {i}) \in Nat
    BY <1>1, <1>2, <2>1, PlanTotals
  <2> HIDE DEF p
  <2> QED  BY <2>2, <2>3
<1> DEFINE tw == Total(p.words, T)
           tg == Total(p.given, R)
           ew == Total(p.words, T \cap e.todo)
           eg == Total(p.given, R \cap e.todo)
           fw == Total(p.words, T \cap f.todo)
           fg == Total(p.given, R \cap f.todo)
<1>13. /\ Height(e) = (Full(e) - ew) + (tg - eg)
       /\ Height(f) = (Full(e) - fw) + (tg - fg)
  BY <1>7, <1>9 DEF Height
<1>14. /\ tw \in Nat /\ tg \in Nat /\ ew \in Nat /\ eg \in Nat /\ fw \in Nat /\ fg \in Nat
       /\ i \in T => ew = p.words[i] + fw /\ fg = eg
       /\ i \in R => eg = p.given[i] + fg /\ fw = ew
  BY <1>2, <1>4, <1>10, <1>11, <1>12
<1> HIDE DEF p, T, R, tw, tg, ew, eg, fw, fg
<1>15. i \in R <=> i \notin T
  BY <1>2, <1>4
<1>16. Len(t) = Height(f)
  <2> DEFINE wi == p.words[i]
             gi == p.given[i]
             l  == Len(w)
             F  == Full(e)
  <2>1. hi = (F - ew) + (tg - eg) /\ Height(f) = (F - fw) + (tg - fg) /\ Len(t) = hi + l
    BY <1>1, <1>6, <1>13
  <2>2. wi \in Nat /\ gi \in Nat /\ l \in Nat /\ F \in Nat
    BY <1>2, <1>6, <1>12
  <2>3. /\ i \in T => ew = wi + fw /\ fg = eg /\ l = wi
        /\ i \in R => eg = gi + fg /\ fw = ew /\ l = gi
    BY <1>5, <1>14, <1>15
  <2> HIDE DEF wi, gi, l, F
  <2>4. CASE i \in T
    BY <1>14, <2>1, <2>2, <2>3, <2>4
  <2>5. CASE i \in R
    BY <1>14, <2>1, <2>2, <2>3, <2>5
  <2> QED  BY <1>15, <2>4, <2>5
<1>17. ASSUME Plain  PROVE Arguments(t, f, Len(t))
  <2>1. /\ T \cap e.todo # {} => R \subseteq e.todo
        /\ \A a, b \in DOMAIN e.args : b \in e.todo /\ a < b /\ (a \in T <=> b \in T) => a \in e.todo
        /\ \A j \in T \ e.todo : \A k \in 1..p.words[j] :
             InMemory(e, j, k) \in 1..hi /\ s[InMemory(e, j, k)] = Content(e, j, k)
        /\ \A j \in R \ e.todo : Waits(e, j) \in 1..hi /\ s[Waits(e, j)] = Content(e, j, 1)
    BY <1>1, <1>17 DEF Arguments, p, T, R
  <2>2. T \cap f.todo # {} => R \subseteq f.todo
    BY <1>3, <1>7, <1>15, <2>1
  <2>3. \A a, b \in DOMAIN e.args : b \in f.todo /\ a < b /\ (a \in T <=> b \in T) => a \in f.todo
    <3> SUFFICES ASSUME NEW a \in DOMAIN e.args, NEW b \in DOMAIN e.args,
                        b \in f.todo, a < b, a \in T <=> b \in T
                 PROVE  a \in f.todo
      OBVIOUS
    <3>1. b \in e.todo /\ a \in e.todo
      BY <1>7, <2>1
    <3>2. ASSUME a = i  PROVE FALSE
      <4>1. b <= i
        BY <1>3, <1>15, <3>1, <3>2
      <4>2. a \in Int /\ b \in Int
        BY <1>2
      <4> QED  BY <3>2, <4>1, <4>2
    <3> QED  BY <1>7, <3>1, <3>2
  <2>4. {j \in T : j < i} = T \cap f.todo \/ i \notin T
    <3> SUFFICES ASSUME i \in T  PROVE {j \in T : j < i} = T \cap f.todo
      OBVIOUS
    <3>1. ASSUME NEW j \in T  PROVE j < i <=> j \in f.todo
      <4>1. j \in DOMAIN e.args /\ j \in Int /\ i \in Int
        BY <1>2, <1>4
      <4>2. j < i => j \in e.todo
        BY <1>3, <1>4, <2>1, <4>1
      <4>3. j \in e.todo => j <= i
        BY <1>3
      <4> QED  BY <1>7, <4>1, <4>2, <4>3
    <3> QED  BY <3>1
  <2>5. {j \in R : j < i} = R \cap f.todo \/ i \notin R
    <3> SUFFICES ASSUME i \in R  PROVE {j \in R : j < i} = R \cap f.todo
      OBVIOUS
    <3>1. ASSUME NEW j \in R  PROVE j < i <=> j \in f.todo
      <4>1. j \in DOMAIN e.args /\ j \in Int /\ i \in Int
        BY <1>2, <1>4
      <4>2. j < i => j \in e.todo
        BY <1>2, <1>3, <1>4, <1>15, <2>1, <4>1
      <4>3. j \in e.todo => j <= i
        BY <1>3, <1>15
      <4> QED  BY <1>7, <4>1, <4>2, <4>3
    <3> QED  BY <3>1
  <2>6. /\ \A j, k : InMemory(f, j, k) = InMemory(e, j, k)
        /\ \A j : Waits(f, j) = Waits(e, j)
    BY <1>7, <1>9 DEF InMemory, Waits, p
  <2>7. \A j \in DOMAIN e.args : j # i => \A k : Content(f, j, k) = Content(e, j, k)
    BY <1>7, <1>8 DEF Content
  <2>8. \A k : Content(f, i, k) = Words(e.args[i], v)[k]
    BY <1>7, <1>8 DEF Content
  <2>9. Len(t) \in Nat /\ hi <= Len(t)
    BY <1>6
  <2>10. ASSUME NEW j \in T \ f.todo, NEW k \in 1..p.words[j]
         PROVE  InMemory(f, j, k) \in 1..Len(t) /\ t[InMemory(f, j, k)] = Content(f, j, k)
    <3>1. CASE j # i
      <4>1. j \in T \ e.todo /\ j \in DOMAIN e.args
        BY <1>2, <1>7, <3>1
      <4>2. InMemory(e, j, k) \in 1..hi /\ s[InMemory(e, j, k)] = Content(e, j, k)
        BY <2>1, <4>1
      <4>3. InMemory(e, j, k) \in 1..Len(t)
        BY <1>6, <2>9, <4>2
      <4> QED  BY <1>6, <2>6, <2>7, <3>1, <4>1, <4>2, <4>3
    <3>2. CASE j = i
      <4>1. i \in T /\ k \in 1..p.words[i]
        BY <3>2
      <4>2. InMemory(f, i, k) = Full(e) - fw - (k - 1)
        <5>1. Before(p.words, T, i) = fw
          BY <2>4, <4>1 DEF Before, fw
        <5> QED  BY <2>6, <5>1 DEF InMemory, p, T
      <4>3. eg = tg
        <5>1. R \cap e.todo = R
          BY <1>3, <2>1, <4>1
        <5> QED  BY <5>1 DEF eg, tg
      <4>4. hi = Full(e) - (p.words[i] + fw)
        <5>1. hi = (Full(e) - ew) + (tg - tg) /\ ew = p.words[i] + fw
          BY <1>1, <1>13, <1>14, <4>1, <4>3
        <5> QED  BY <1>2, <1>14, <5>1
      <4> DEFINE n == p.words[i]
                 q == n - k + 1
                 x == InMemory(f, i, k)
                 F == Full(e)
      <4>5. n \in Nat /\ F \in Nat /\ Len(w) = n /\ k \in 1..n
        BY <1>2, <1>5, <1>12, <4>1
      <4>6. x = F - fw - (k - 1) /\ hi = F - (n + fw)
        BY <4>2, <4>4
      <4> HIDE DEF n, x, F
      <4>7. q \in 1..n /\ x = hi + q
        BY <1>14, <4>5, <4>6
      <4>8. w[q] = Content(f, i, k)
        BY <1>5, <1>17, <2>8, <4>1 DEF n
      <4> HIDE DEF q
      <4>9. x \in 1..Len(t) /\ t[x] = w[q]
        <5>1. hi \in Nat /\ Len(t) = hi + n /\ t[hi + q] = w[q] /\ q \in Nat /\ 1 <= q /\ q <= n
          BY <1>6, <4>5, <4>7
        <5>2. \A a, b \in Nat : 1 <= b /\ b <= n => a + b \in 1..(a + n)
          BY <4>5
        <5> QED  BY <4>7, <5>1, <5>2
      <4> QED  BY <3>2, <4>8, <4>9 DEF x
    <3> QED  BY <3>1, <3>2
  <2>11. ASSUME NEW j \in R \ f.todo
         PROVE  Waits(f, j) \in 1..Len(t) /\ t[Waits(f, j)] = Content(f, j, 1)
    <3>1. CASE j # i
      <4>1. j \in R \ e.todo /\ j \in DOMAIN e.args
        BY <1>2, <1>7, <3>1
      <4>2. Waits(e, j) \in 1..hi /\ s[Waits(e, j)] = Content(e, j, 1)
        BY <2>1, <4>1
      <4>3. Waits(e, j) \in 1..Len(t)
        BY <1>6, <2>9, <4>2
      <4> QED  BY <1>6, <2>6, <2>7, <3>1, <4>1, <4>2, <4>3
    <3>2. CASE j = i
      <4>1. i \in R /\ i \notin T /\ p.given[i] = 1 /\ w[1] = Words(e.args[i], v)[1] /\ Len(w) = 1
        BY <1>5, <1>15, <1>17, <3>2
      <4>2. Waits(f, i) = Full(e) + tg - fg
        <5>1. Before(p.given, R, i) = fg
          BY <2>5, <4>1 DEF Before, fg
        <5> QED  BY <2>6, <5>1 DEF Waits, p, R, tg
      <4>3. ew = 0
        <5>1. T \cap e.todo = {}
          BY <1>3, <4>1
        <5>2. Total(p.words, {}) = 0
          BY TotalStep, FS_EmptySet
        <5> QED  BY <5>1, <5>2 DEF ew
      <4>4. hi = Full(e) + (tg - (1 + fg))
        <5>1. hi = (Full(e) - 0) + (tg - eg) /\ eg = 1 + fg
          BY <1>1, <1>13, <1>14, <4>1, <4>3
        <5> QED  BY <1>2, <1>14, <5>1
      <4>5. Waits(f, i) = hi + 1
        BY <1>2, <1>14, <4>2, <4>4
      <4>6. Len(t) = hi + 1 /\ hi + 1 \in 1..(hi + 1) /\ t[hi + 1] = w[1]
        BY <1>6, <4>1
      <4> QED  BY <2>8, <3>2, <4>1, <4>5, <4>6
    <3> QED  BY <3>1, <3>2
  <2> QED  BY <1>7, <2>2, <2>3, <2>10, <2>11 DEF Arguments, T, R, p
<1>18. CallPart(t, f, Len(t))
  <2>1. f.todo \subseteq DOMAIN f.args /\ f.plan = Plan(f.args) /\ Len(f.vals) = Len(f.args)
    BY <1>1, <1>7, <1>8 DEF p
  <2> QED  BY <1>1, <1>7, <1>9, <1>16, <1>17, <2>1 DEF CallPart
<1> QED  BY <1>4, <1>6, <1>7, <1>18 DEF t, f, i, hi, w, p
----------------------------------------------------------------------------
(* The first n words of a stack.                                           *)
LEMMA Cut ==
  ASSUME NEW S, NEW s \in Seq(S), NEW n \in 0..Len(s)
  PROVE  /\ SubSeq(s, 1, n) \in Seq(S) /\ Len(SubSeq(s, 1, n)) = n
         /\ \A p \in 1..n : SubSeq(s, 1, n)[p] = s[p]
<1>1. Len(s) \in Nat /\ n \in Nat /\ n <= Len(s) /\ \A p \in 1..Len(s) : s[p] \in S
  BY LenProperties
<1>2. SubSeq(s, 1, n) = [p \in 1..n |-> s[p]]
  <2>1. SubSeq(s, 1, n) = [p \in 1..(1 + n - 1) |-> s[1 + p - 1]]
    BY <1>1
  <2>2. 1 + n - 1 = n /\ \A p \in 1..n : 1 + p - 1 = p
    BY <1>1
  <2> QED  BY <2>1, <2>2
<1>3. [p \in 1..n |-> s[p]] \in [1..n -> S]
  BY <1>1
<1> QED  BY <1>1, <1>2, <1>3, FunctionSeq

(* A call whose arguments have all been evaluated goes on.                 *)
LEMMA NextStage ==
  ASSUME NEW e \in CallCode, e.todo = {}, NEW st \in {"call", "back"},
         e.plan = Plan(e.args), e.todo \subseteq DOMAIN e.args
  PROVE  LET f == [e EXCEPT !.stage = st]
         IN  /\ f \in CallCode /\ f.kind = "call" /\ f.stage = st /\ f.todo = {}
             /\ f.args = e.args /\ f.plan = e.plan /\ f.vals = e.vals
             /\ f.base = e.base /\ f.pad = e.pad /\ f.callee = e.callee
             /\ Full(f) = Full(e) /\ Height(f) = Full(e) /\ Base(f) = Base(e)
             /\ \A i, k : /\ InMemory(f, i, k) = InMemory(e, i, k)
                          /\ Content(f, i, k) = Content(e, i, k)
<1> DEFINE f == [e EXCEPT !.stage = st]
<1>1. /\ f \in CallCode /\ f.kind = "call" /\ f.stage = st /\ f.todo = {}
      /\ f.args = e.args /\ f.plan = e.plan /\ f.vals = e.vals
      /\ f.base = e.base /\ f.pad = e.pad /\ f.callee = e.callee /\ f.kind = e.kind
  BY DEF CallCode
<1> HIDE DEF f
<1>2. Full(f) = Full(e) /\ Base(f) = Base(e)
  BY <1>1 DEF Full, Base
<1>3. \A i, k : InMemory(f, i, k) = InMemory(e, i, k) /\ Content(f, i, k) = Content(e, i, k)
  BY <1>1, <1>2 DEF InMemory, Content
<1>4. Height(f) = Full(e)
  BY <1>1, <1>2 DEF Height
<1> QED  BY <1>1, <1>2, <1>3, <1>4 DEF f

(* rsp is behind the arguments on the stack once the call has begun.       *)
LEMMA CallWaits ==
  ASSUME NEW e \in CallCode, e.stage = "call", NEW s, NEW hi, CallPart(s, e, hi)
  PROVE  LET f == [e EXCEPT !.stage = "back"]
         IN  f \in CallCode /\ Base(f) = Base(e) /\ CallPart(s, f, hi)
<1> DEFINE f == [e EXCEPT !.stage = "back"]
<1>1. /\ e.plan = Plan(e.args) /\ e.todo \subseteq DOMAIN e.args /\ Len(e.vals) = Len(e.args)
      /\ e.todo = {} /\ hi = Height(e) /\ Full(e) % 2 = 0 /\ (Plain => Arguments(s, e, hi))
  BY DEF CallPart
<1>2. /\ f \in CallCode /\ f.stage = "back" /\ f.todo = {}
      /\ f.args = e.args /\ f.plan = e.plan /\ f.vals = e.vals
      /\ Full(f) = Full(e) /\ Height(f) = Full(e) /\ Base(f) = Base(e)
      /\ \A i, k : /\ InMemory(f, i, k) = InMemory(e, i, k)
                   /\ Content(f, i, k) = Content(e, i, k)
  BY <1>1, NextStage
<1> HIDE DEF f
<1>3. Height(e) = Full(e)
  BY DEF Height
<1>4. ASSUME Plain  PROVE Arguments(s, f, hi)
  <2>1. Arguments(s, e, hi)
    BY <1>1, <1>4
  <2> QED  BY <1>1, <1>2, <2>1 DEF Arguments
<1>5. CallPart(s, f, hi)
  BY <1>1, <1>2, <1>3, <1>4 DEF CallPart
<1> QED  BY <1>2, <1>5 DEF f

(* Call f on stack t is call e on stack s with its registers r popped.     *)
Popped(f, t, r, e, s) ==
  /\ f \in CallCode /\ Base(f) = Base(e) /\ e.base <= Len(t)
  /\ t \in Seq(Cells) /\ \A p \in 1..Len(t) : t[p] = s[p]
  /\ r \in [1..GpRegs -> Cells]
  /\ CallPart(t, f, Len(t))
  /\ Plain => \A i \in InRegs(f.plan) :
                r[Before(f.plan.given, InRegs(f.plan), i) + 1] = Content(f, i, 1)

(* The registers are popped: what waited in words is in registers.         *)
LEMMA RegistersPopped ==
  ASSUME NEW e \in CallCode, e.stage = "args", e.todo = {}, NEW s \in Seq(Cells), CallPart(s, e, Len(s)),
         NEW old \in [1..GpRegs -> Cells], NEW n, n = Total(e.plan.given, InRegs(e.plan))
  PROVE  Popped([e EXCEPT !.stage = "call"], SubSeq(s, 1, Len(s) - n),
                [k \in 1..GpRegs |-> IF k <= n THEN s[Len(s) - k + 1] ELSE old[k]], e, s)
<1> DEFINE f == [e EXCEPT !.stage = "call"]
           l == Len(s)
           t == SubSeq(s, 1, l - n)
           r == [k \in 1..GpRegs |-> IF k <= n THEN s[l - k + 1] ELSE old[k]]
           T == OnStack(e.plan)
           R == InRegs(e.plan)
<1>1. /\ e.plan = Plan(e.args) /\ e.todo \subseteq DOMAIN e.args /\ Len(e.vals) = Len(e.args)
      /\ l = Height(e) /\ Full(e) % 2 = 0 /\ (Plain => Arguments(s, e, l))
  BY DEF CallPart
<1>2. /\ f \in CallCode /\ f.stage = "call" /\ f.todo = {}
      /\ f.args = e.args /\ f.plan = e.plan /\ f.vals = e.vals
      /\ Full(f) = Full(e) /\ Height(f) = Full(e) /\ Base(f) = Base(e)
      /\ \A i, k : /\ InMemory(f, i, k) = InMemory(e, i, k)
                   /\ Content(f, i, k) = Content(e, i, k)
  BY <1>1, NextStage
<1>3. /\ e.args \in ArgLists /\ e.base \in Nat /\ e.pad \in {0, 1} /\ Base(e) = e.base
      /\ T \cup R = DOMAIN e.args /\ Full(e) \in Nat /\ n \in Nat
      /\ Total(e.plan.words, T) \in Nat /\ Full(e) = e.base + e.pad + Total(e.plan.words, T)
      /\ Total(e.plan.words, T \cap e.todo) = 0 /\ Total(e.plan.given, R \cap e.todo) = 0
  BY <1>1, CallFacts
<1>4. e.base <= Full(e)
  <2> DEFINE x == Total(e.plan.words, T)
  <2>1. x \in Nat /\ Full(e) = e.base + e.pad + x
    BY <1>3
  <2> HIDE DEF x
  <2> QED  BY <1>3, <2>1
<1>5. l = Full(e) + n /\ n <= GpRegs
  <2>1. Height(e) = (Full(e) - 0) + (n - 0)
    BY <1>3 DEF Height
  <2>2. Total(Plan(e.args).given, InRegs(Plan(e.args))) <= GpRegs
    BY <1>3, RegsFit
  <2>3. n <= GpRegs
    BY <1>1, <2>2
  <2> DEFINE F == Full(e)
  <2>4. F \in Nat /\ n \in Nat /\ l = Height(e)
    BY <1>1, <1>3
  <2> HIDE DEF l, F
  <2>5. l = F + n
    BY <2>1, <2>4 DEF F
  <2> QED  BY <2>3, <2>5 DEF F
<1>6. l - n = Full(e) /\ l - n \in 0..l
  <2> HIDE DEF l
  <2> QED  BY <1>3, <1>5
<1>7. t \in Seq(Cells) /\ Len(t) = Full(e) /\ \A p \in 1..Full(e) : t[p] = s[p]
  BY <1>6, Cut
<1> HIDE DEF f, t
<1>8. r \in [1..GpRegs -> Cells]
  <2>1. ASSUME NEW k \in 1..GpRegs, k <= n  PROVE s[l - k + 1] \in Cells
    <3>1. l - k + 1 \in 1..l
      <4> DEFINE F == Full(e)
      <4>1. F \in Nat /\ n \in Nat /\ l = F + n
        BY <1>3, <1>5
      <4>2. k \in Nat /\ 1 <= k /\ k <= n
        BY <2>1 DEF GpRegs
      <4> HIDE DEF l, F, T, R, r
      <4> QED  BY <4>1, <4>2
    <3> QED  BY <3>1, LenProperties
  <2> HIDE DEF l
  <2> QED  BY <2>1
<1>9. \A i \in R : /\ Before(e.plan.given, R, i) \in Nat
                   /\ Before(e.plan.given, R, i) + 1 <= n
  <2> DEFINE P == Plan(e.args)
             Q == InRegs(P)
  <2>1. Q \in SUBSET DOMAIN e.args /\ Q = R /\ P = e.plan
    BY <1>1, <1>3
  <2>2. /\ \A i \in DOMAIN e.args : Before(P.given, Q, i) \in Nat
        /\ \A i \in Q : P.given[i] + Before(P.given, Q, i) <= Total(P.given, Q)
    BY <1>3, <2>1, PlanTotals
  <2>3. \A i \in Q : P.given[i] \in 1..2
    <3>1. \A i \in DOMAIN e.args : P.given[i] \in 0..2
      BY <1>3, PlanFacts
    <3>2. \A i \in Q : P.given[i] # 0
      BY DEF InRegs
    <3> HIDE DEF P, Q
    <3> QED  BY <2>1, <3>1, <3>2
  <2>4. n = Total(P.given, Q)
    BY <2>1
  <2> HIDE DEF P, Q, R
  <2>5. ASSUME NEW i \in Q
        PROVE  Before(P.given, Q, i) \in Nat /\ Before(P.given, Q, i) + 1 <= n
    <3> DEFINE b == Before(P.given, Q, i)
               g == P.given[i]
    <3>1. b \in Nat /\ g \in 1..2 /\ g + b <= n
      BY <2>1, <2>2, <2>3, <2>4
    <3> HIDE DEF b, g
    <3>2. b \in Nat /\ b + 1 <= n
      BY <1>3, <3>1
    <3> QED  BY <3>2 DEF b
  <2> QED  BY <2>1, <2>5
<1>10. ASSUME Plain
       PROVE  \A i \in R : r[Before(e.plan.given, R, i) + 1] = Content(e, i, 1)
  <2> SUFFICES ASSUME NEW i \in R  PROVE r[Before(e.plan.given, R, i) + 1] = Content(e, i, 1)
    OBVIOUS
  <2> DEFINE b == Before(e.plan.given, R, i)
  <2>1. Waits(e, i) \in 1..l /\ s[Waits(e, i)] = Content(e, i, 1)
    BY <1>1, <1>10 DEF Arguments
  <2>2. Waits(e, i) = Full(e) + n - b
    BY DEF Waits
  <2>3. b \in Nat /\ b + 1 <= n
    BY <1>9
  <2> HIDE DEF b, l
  <2>4. b + 1 \in 1..GpRegs /\ l - (b + 1) + 1 = Full(e) + n - b
    BY <1>3, <1>5, <2>3 DEF GpRegs
  <2>5. r[b + 1] = s[Waits(e, i)]
    BY <2>2, <2>3, <2>4
  <2> QED  BY <2>1, <2>5 DEF b
<1>11. ASSUME Plain  PROVE Arguments(t, f, Len(t))
  <2>1. Arguments(s, e, l)
    BY <1>1, <1>11
  <2>2. ASSUME NEW i \in T, NEW k \in 1..e.plan.words[i]
        PROVE  InMemory(e, i, k) \in 1..Full(e) /\ s[InMemory(e, i, k)] = Content(e, i, k)
    <3>1. InMemory(e, i, k) \in 1..l /\ s[InMemory(e, i, k)] = Content(e, i, k)
      BY <2>1 DEF Arguments
    <3> DEFINE b == Before(e.plan.words, T, i)
               x == InMemory(e, i, k)
    <3>2. b \in Nat
      <4> DEFINE P == Plan(e.args)
                 Q == OnStack(P)
      <4>1. Q \in SUBSET DOMAIN e.args /\ Q = T /\ P = e.plan
        BY <1>1, <1>3
      <4>2. \A j \in DOMAIN e.args : Before(P.words, Q, j) \in Nat
        BY <1>3, <4>1, PlanTotals
      <4> HIDE DEF P, Q, T
      <4> QED  BY <4>1, <4>2
    <3>3. x = Full(e) - b - (k - 1)
      BY DEF InMemory
    <3>4. k \in Nat /\ 1 <= k
      <4>1. e.plan.words[i] \in Int
        <5> DEFINE P == Plan(e.args)
        <5>1. \A j \in DOMAIN e.args : P.words[j] \in Nat \ {0}
          BY <1>3, PlanFacts
        <5>2. P = e.plan /\ i \in DOMAIN e.args
          BY <1>1, <1>3
        <5> HIDE DEF P
        <5> QED  BY <5>1, <5>2
      <4> QED  BY <4>1
    <3> HIDE DEF b, x, l
    <3>5. x \in 1..Full(e)
      BY <1>3, <1>5, <3>1, <3>2, <3>3, <3>4 DEF x
    <3> QED  BY <3>1, <3>5 DEF x
  <2>3. \A i \in T : \A k \in 1..f.plan.words[i] :
          InMemory(f, i, k) \in 1..Len(t) /\ t[InMemory(f, i, k)] = Content(f, i, k)
    BY <1>2, <1>7, <2>2
  <2> QED  BY <1>2, <2>3 DEF Arguments
<1>12. CallPart(t, f, Len(t))
  BY <1>1, <1>2, <1>7, <1>11 DEF CallPart
<1> HIDE DEF r
<1>13. Plain => \A i \in InRegs(f.plan) : r[Before(f.plan.given, InRegs(f.plan), i) + 1] = Content(f, i, 1)
  BY <1>2, <1>10
<1>14. Base(f) = Base(e) /\ e.base <= Len(t) /\ \A p \in 1..Len(t) : t[p] = s[p]
  BY <1>2, <1>4, <1>7
<1>15. Popped(f, t, r, e, s)
  BY <1>2, <1>7, <1>8, <1>12, <1>13, <1>14 DEF Popped
<1> QED  BY <1>15 DEF f, t, r, l
----------------------------------------------------------------------------
(* t is s with the words of a behind it.                                   *)
IsBehind(t, s, a) ==
  /\ Len(t) = Len(s) + Len(a)
  /\ \A p \in 1..Len(s) : t[p] = s[p]
  /\ \A q \in 1..Len(a) : t[Len(s) + q] = a[q]

(* The stack behind a push of words.                                       *)
LEMMA Behind1 ==
  ASSUME NEW S, NEW s \in Seq(S), NEW a \in Seq(S)
  PROVE  s \o a \in Seq(S) /\ IsBehind(s \o a, s, a)
BY DEF IsBehind

(* t is s with the words of a, b and c behind it.                          *)
AreBehind(t, s, a, b, c) ==
  /\ Len(t) = Len(s) + Len(a) + Len(b) + Len(c)
  /\ \A p \in 1..Len(s) : t[p] = s[p]
  /\ \A q \in 1..Len(a) : t[Len(s) + q] = a[q]
  /\ \A q \in 1..Len(b) : t[Len(s) + Len(a) + q] = b[q]

(* The stack behind three.                                                 *)
LEMMA Behind3 ==
  ASSUME NEW S, NEW s \in Seq(S), NEW a \in Seq(S), NEW b \in Seq(S), NEW c \in Seq(S)
  PROVE  s \o a \o b \o c \in Seq(S) /\ AreBehind(s \o a \o b \o c, s, a, b, c)
<1>1. Len(s) \in Nat /\ Len(a) \in Nat /\ Len(b) \in Nat /\ Len(c) \in Nat
  BY LenProperties
<1> DEFINE u == s \o a
           v == u \o b
           t == v \o c
<1> HIDE DEF u, v, t
<1>2. u \in Seq(S) /\ IsBehind(u, s, a)
  BY Behind1 DEF u
<1>3. v \in Seq(S) /\ IsBehind(v, u, b)
  BY <1>2, Behind1 DEF v
<1>4. t \in Seq(S) /\ IsBehind(t, v, c)
  BY <1>3, Behind1 DEF t
<1> DEFINE ls == Len(s)
           la == Len(a)
           lb == Len(b)
<1>5. ls \in Nat /\ la \in Nat /\ lb \in Nat /\ Len(u) = ls + la /\ Len(v) = ls + la + lb
  BY <1>1, <1>2, <1>3 DEF IsBehind
<1> HIDE DEF ls, la, lb
<1>6. /\ \A p \in 1..ls : p \in 1..ls + la /\ p \in 1..ls + la + lb
      /\ \A q \in 1..la : ls + q \in 1..ls + la /\ ls + q \in 1..ls + la + lb
      /\ \A q \in 1..lb : ls + la + q \in 1..ls + la + lb
  BY <1>5
<1>7. \A p \in 1..ls : t[p] = s[p]
  BY <1>2, <1>3, <1>4, <1>5, <1>6 DEF IsBehind, ls
<1>8. \A q \in 1..la : t[ls + q] = a[q]
  BY <1>2, <1>3, <1>4, <1>5, <1>6 DEF IsBehind, ls, la
<1>9. \A q \in 1..lb : t[ls + la + q] = b[q]
  BY <1>3, <1>4, <1>5, <1>6 DEF IsBehind, lb
<1>10. Len(t) = ls + la + lb + Len(c)
  BY <1>4, <1>5 DEF IsBehind
<1>11. t = s \o a \o b \o c
  BY DEF t, v, u
<1> HIDE DEF t
<1>12. AreBehind(t, s, a, b, c)
  BY <1>7, <1>8, <1>9, <1>10 DEF ls, la, lb, AreBehind
<1> QED  BY <1>4, <1>11, <1>12

(* A callee's prologue leaves its frame, with what came in registers.      *)
LEMMA FunctionBegins ==
  ASSUME NEW e \in CallCode, e.stage = "call", NEW s \in Seq(Cells), e.plan = Plan(e.args),
         NEW r \in [1..GpRegs -> Cells], NEW locals \in Nat, NEW frame \in Nat,
         Plain => \A i \in InRegs(e.plan) : r[Before(e.plan.given, InRegs(e.plan), i) + 1] = Content(e, i, 1)
  PROVE  LET t == s \o <<ReturnAddress, SavedRbp(frame)>>
                    \o [k \in 1..Cardinality(InRegs(e.plan)) |-> r[k]]
                    \o [k \in 1..locals |-> Junk]
             f == [kind |-> "func", rbp |-> Len(s) + 2]
         IN  /\ t \in Seq(Cells) /\ \A p \in 1..Len(s) : t[p] = s[p]
             /\ f \in FuncCode /\ Base(f) = Len(s) /\ Len(s) + 2 <= Len(t)
             /\ FuncPart(t, f, e, frame, Len(t))
<1> DEFINE R == InRegs(e.plan)
           n == Cardinality(R)
           a == <<ReturnAddress, SavedRbp(frame)>>
           b == [k \in 1..n |-> r[k]]
           c == [k \in 1..locals |-> Junk]
           t == s \o a \o b \o c
           f == [kind |-> "func", rbp |-> Len(s) + 2]
<1>1. n \in Nat /\ n <= GpRegs
  <2>1. e.args \in ArgLists
    BY DEF CallCode
  <2>2. /\ Cardinality(InRegs(Plan(e.args))) \in Nat
        /\ Cardinality(InRegs(Plan(e.args))) <= GpRegs
    BY <2>1, RegsCount
  <2> QED  BY <2>2
<1>2. a \in Seq(Cells) /\ Len(a) = 2 /\ a[1] = ReturnAddress /\ a[2] = SavedRbp(frame)
  <2>1. ReturnAddress \in Cells /\ SavedRbp(frame) \in Cells
    BY DEF ReturnAddress, SavedRbp, Cell, Cells
  <2> QED  BY <2>1
<1> HIDE DEF n, a
<1>3. b \in Seq(Cells) /\ Len(b) = n /\ \A k \in 1..n : b[k] = r[k]
  <2>1. b \in [1..n -> Cells]
    BY <1>1 DEF GpRegs
  <2>2. \A k \in 1..n : b[k] = r[k]
    OBVIOUS
  <2> HIDE DEF b
  <2> QED  BY <1>1, <2>1, <2>2, FunctionSeq
<1>4. c \in Seq(Cells) /\ Len(c) = locals
  <2>1. Junk \in Cells
    BY DEF Junk, Cell, Cells
  <2>2. c \in [1..locals -> Cells]
    BY <2>1
  <2> HIDE DEF c
  <2> QED  BY <2>2, FunctionSeq
<1> HIDE DEF b, c
<1> DEFINE l == Len(s)
<1>5. /\ t \in Seq(Cells) /\ Len(t) = l + 2 + n + locals
      /\ \A p \in 1..l : t[p] = s[p]
      /\ \A q \in 1..2 : t[l + q] = a[q]
      /\ \A q \in 1..n : t[l + 2 + q] = b[q]
  <2>1. /\ t \in Seq(Cells) /\ Len(t) = Len(s) + Len(a) + Len(b) + Len(c)
        /\ \A p \in 1..Len(s) : t[p] = s[p]
        /\ \A q \in 1..Len(a) : t[Len(s) + q] = a[q]
        /\ \A q \in 1..Len(b) : t[Len(s) + Len(a) + q] = b[q]
    <3>1. t \in Seq(Cells) /\ AreBehind(t, s, a, b, c)
      BY <1>2, <1>3, <1>4, Behind3
    <3> HIDE DEF t
    <3> QED  BY <3>1 DEF AreBehind
  <2> HIDE DEF t
  <2> QED  BY <1>2, <1>3, <1>4, <2>1
<1>6. l \in Nat
  BY LenProperties
<1> HIDE DEF t
<1>7. f \in FuncCode /\ Base(f) = l /\ f.rbp = l + 2 /\ l + 2 <= Len(t)
  <2>1. f.kind = "func" /\ f.rbp = l + 2 /\ f \in FuncCode
    BY <1>6 DEF FuncCode
  <2> HIDE DEF f, l
  <2> QED  BY <1>1, <1>5, <1>6, <2>1 DEF Base
<1>8. t[l + 1] = ReturnAddress /\ t[l + 2] = SavedRbp(frame)
  BY <1>2, <1>5
<1> HIDE DEF f, l, R
<1>9. ASSUME Plain, NEW i \in R
      PROVE  LET slot == f.rbp + 1 + Before(e.plan.words, R, i)
             IN  slot \in 1..Len(t) /\ t[slot] = Content(e, i, 1)
  <2> DEFINE m == Before(e.plan.words, R, i)
  <2>1. m = Before(e.plan.given, R, i) /\ m \in Nat /\ m + 1 <= n
    <3> DEFINE P == Plan(e.args)
               Q == InRegs(P)
    <3>1. e.args \in ArgLists /\ P = e.plan /\ Q = R
      BY DEF CallCode, R
    <3>2. \A j \in Q : /\ Before(P.words, Q, j) = Before(P.given, Q, j)
                       /\ Before(P.words, Q, j) \in Nat
                       /\ Before(P.words, Q, j) + 1 <= Cardinality(Q)
      BY <1>9, <3>1, RegsOrder
    <3> HIDE DEF P, Q
    <3> QED  BY <3>1, <3>2 DEF n
  <2>2. r[m + 1] = Content(e, i, 1)
    BY <1>9, <2>1 DEF R
  <2> HIDE DEF m
  <2>3. m + 1 \in 1..n /\ f.rbp + 1 + m = l + 2 + (m + 1)
    BY <1>1, <1>6, <1>7, <2>1
  <2>4. t[f.rbp + 1 + m] = Content(e, i, 1)
    BY <1>3, <1>5, <2>2, <2>3
  <2>5. l + 2 + (m + 1) \in 1..Len(t)
    BY <1>1, <1>5, <1>6, <2>1
  <2> QED  BY <2>3, <2>4, <2>5 DEF m
<1>10. e.kind = "call" /\ f.rbp - 1 = l + 1 /\ f.rbp <= Len(t)
  BY <1>6, <1>7 DEF CallCode
<1>11. FuncPart(t, f, e, frame, Len(t))
  BY <1>7, <1>8, <1>9, <1>10 DEF FuncPart, R
<1> QED  BY <1>5, <1>7, <1>11 DEF t, f, l, a, b, c, n, R
----------------------------------------------------------------------------
(* What a code may have below it: code that waits for its value.           *)
MayNest(e, f) ==
  e.kind = "call" => /\ e.stage = "args" => e.todo # {}
                     /\ e.stage # "back"
                     /\ Plain /\ e.stage = "call" => f.kind = "func"

(* Code begins on top of the code that asks for it.                        *)
LEMMA OneMore ==
  ASSUME NEW C \in Seq(Codes), C # <<>>, C[1].kind = "func", Waiting(C),
         NEW f \in Codes, MayNest(C[Len(C)], f)
  PROVE  LET D == Append(C, f)
         IN  /\ D \in Seq(Codes) /\ D # <<>> /\ D[1].kind = "func" /\ Waiting(D)
             /\ Len(C) \in Nat \ {0} /\ Len(D) = Len(C) + 1 /\ D[Len(C) + 1] = f
             /\ \A c \in 1..Len(C) : D[c] = C[c]
             /\ FrameOf(D, Len(C)) = FrameOf(C, Len(C))
<1> DEFINE n == Len(C)
           D == Append(C, f)
<1>1. /\ n \in Nat \ {0} /\ D \in Seq(Codes) /\ D # <<>> /\ Len(D) = n + 1 /\ D[n + 1] = f
      /\ \A c \in 1..n : D[c] = C[c]
  BY CodeSequences
<1> HIDE DEF n, D
<1>2. D[1].kind = "func"
  <2>1. 1 \in 1..n
    BY <1>1
  <2> QED  BY <1>1, <2>1
<1>3. FrameOf(D, n) = FrameOf(C, n)
  BY <1>1, FrameSame
<1>4. ASSUME NEW c \in 1..Len(D) - 1  PROVE MayNest(D[c], D[c + 1])
  <2>1. c \in 1..n
    BY <1>1
  <2>2. CASE c = n
    BY <1>1, <2>1, <2>2 DEF n
  <2>3. CASE c # n
    <3>1. c \in 1..n - 1 /\ c + 1 \in 1..n
      BY <1>1, <2>1, <2>3
    <3>2. MayNest(C[c], C[c + 1])
      BY <3>1 DEF Waiting, MayNest, n
    <3> QED  BY <1>1, <2>1, <3>1, <3>2
  <2> QED  BY <2>2, <2>3
<1>5. Waiting(D)
  BY <1>4 DEF Waiting, MayNest
<1> QED  BY <1>1, <1>2, <1>3, <1>5 DEF n, D

(* The innermost code is left.                                             *)
LEMMA OneLess ==
  ASSUME NEW C \in Seq(Codes), C[1].kind = "func", Waiting(C), Len(C) > 1
  PROVE  LET D == Front(C)
             n == Len(C) - 1
         IN  /\ D \in Seq(Codes) /\ D # <<>> /\ D[1].kind = "func" /\ Waiting(D)
             /\ n \in Nat \ {0} /\ Len(C) = n + 1 /\ Len(D) = n
             /\ \A c \in 1..n : D[c] = C[c]
             /\ D[n] = C[n] /\ MayNest(C[n], C[n + 1])
             /\ FrameOf(D, n) = FrameOf(C, n)
<1> DEFINE n == Len(C) - 1
           D == Front(C)
<1>1. Len(C) \in Nat /\ C # <<>> /\ \A c \in 1..Len(C) : C[c] \in Codes
  BY LenProperties, ElementOfSeq
<1>2. n \in Nat \ {0} /\ Len(C) = n + 1
  BY <1>1
<1>3. C[1] \in Codes
  BY <1>1, <1>2
<1>4. D \in Seq(Codes) /\ D # <<>> /\ Len(D) = n /\ \A c \in 1..n : D[c] = C[c]
  BY <1>1, <1>3, CodeSequences
<1> HIDE DEF n, D
<1>5. D[1].kind = "func" /\ D[n] = C[n]
  <2>1. 1 \in 1..n /\ n \in 1..n
    BY <1>2
  <2> QED  BY <1>4, <2>1
<1>6. FrameOf(D, n) = FrameOf(C, n)
  BY <1>4, FrameSame
<1>7. ASSUME NEW c \in 1..n  PROVE MayNest(C[c], C[c + 1])
  <2>1. c \in 1..Len(C) - 1
    BY <1>2
  <2> QED  BY <2>1 DEF Waiting, MayNest
<1>8. Waiting(D)
  <2>1. ASSUME NEW c \in 1..Len(D) - 1  PROVE MayNest(D[c], D[c + 1])
    <3>1. c \in 1..n /\ c + 1 \in 1..n
      BY <1>2, <1>4
    <3> QED  BY <1>4, <1>7, <3>1
  <2> QED  BY <2>1 DEF Waiting, MayNest
<1>9. MayNest(C[n], C[n + 1])
  <2>1. n \in 1..n
    BY <1>2
  <2> QED  BY <1>7, <2>1
<1> QED  BY <1>2, <1>4, <1>5, <1>6, <1>8, <1>9 DEF n, D

(* The innermost code, not a function, goes on.                            *)
LEMMA TopGoesOn ==
  ASSUME NEW C \in Seq(Codes), C # <<>>, C[1].kind = "func", Waiting(C),
         C[Len(C)].kind # "func", NEW f \in Codes, f.kind # "func"
  PROVE  LET D == SetTop(C, f)
         IN  /\ D \in Seq(Codes) /\ D # <<>> /\ D[1].kind = "func" /\ Waiting(D)
             /\ Len(C) \in Nat /\ Len(C) > 1 /\ Len(D) = Len(C) /\ D[Len(C)] = f
             /\ \A c \in 1..Len(C) - 1 : D[c] = C[c]
             /\ Front(D) = Front(C)
             /\ FrameOf(D, Len(C)) = FrameOf(C, Len(C))
<1> DEFINE n == Len(C)
           D == SetTop(C, f)
<1>1. /\ n \in Nat \ {0} /\ D \in Seq(Codes) /\ D # <<>> /\ Len(D) = n /\ D[n] = f
      /\ \A c \in 1..n - 1 : D[c] = C[c]
      /\ Front(D) = Front(C)
  BY CodeSequences
<1>2. C[n].kind # "func"
  OBVIOUS
<1> HIDE DEF n, D
<1>3. n > 1 /\ D[1].kind = "func"
  <2>1. n # 1
    BY <1>2
  <2>2. 1 \in 1..n - 1
    BY <1>1, <2>1
  <2> QED  BY <1>1, <2>2
<1>4. FrameOf(D, n) = FrameOf(C, n)
  <2>1. FrameOf(D, n - 1) = FrameOf(C, n - 1)
    BY <1>1, FrameSame
  <2> QED  BY <1>1, <1>2, <2>1, FrameOther
<1>5. ASSUME NEW c \in 1..n - 1  PROVE MayNest(D[c], D[c + 1])
  <2>1. D[c] = C[c] /\ MayNest(C[c], C[c + 1])
    BY <1>1 DEF Waiting, MayNest, n
  <2>2. CASE c = n - 1
    <3>1. c + 1 = n
      BY <1>1, <2>2
    <3>2. C[c + 1].kind # "func" /\ D[c + 1].kind # "func"
      BY <1>1, <1>2, <3>1
    <3> QED  BY <2>1, <3>2 DEF MayNest
  <2>3. CASE c # n - 1
    <3>1. c + 1 \in 1..n - 1
      BY <1>1, <2>3
    <3> QED  BY <1>1, <2>1, <3>1
  <2> QED  BY <2>2, <2>3
<1>6. Waiting(D)
  BY <1>1, <1>5 DEF Waiting, MayNest
<1> QED  BY <1>1, <1>3, <1>4, <1>6 DEF n, D

(* The frame of the innermost function is on the stack.                    *)
LEMMA FrameOnStack ==
  ASSUME NEW s, Len(s) \in Nat, NEW C \in Seq(Codes), C # <<>>, C[1].kind = "func",
         InOrder(s, C), Parts(s, C)
  PROVE  FrameOf(C, Len(C)) \in 1..Len(s)
<1> DEFINE n == Len(C)
           F == {c \in 1..n : C[c].kind = "func"}
<1>1. n \in Nat \ {0} /\ DOMAIN C = 1..n /\ \A c \in 1..n : C[c] \in Codes
  BY LenProperties, ElementOfSeq
<1> HIDE DEF n
<1>2. PICK m \in F : \A c \in F : c <= m
  <2>1. F \subseteq 0..n /\ 1 \in F /\ F # {} /\ n \in Nat
    BY <1>1
  <2> HIDE DEF F
  <2> QED  BY <2>1, LastExists
<1>3. m \in 1..n /\ C[m].kind = "func"
  OBVIOUS
<1>4. FrameOf(C, n) = C[m].rbp
  <2> DEFINE S == {k \in Nat : m <= k /\ k <= n /\ FrameOf(C, k) # C[m].rbp}
  <2>1. ASSUME S # {}  PROVE FALSE
    <3>1. PICK k \in S : \A j \in S : k <= j
      <4>1. S \subseteq Nat
        OBVIOUS
      <4> HIDE DEF S
      <4> QED  BY <2>1, <4>1, FirstExists
    <3>2. k \in Nat /\ m <= k /\ k <= n /\ FrameOf(C, k) # C[m].rbp
      OBVIOUS
    <3>3. k # m
      BY <1>1, <1>3, <3>2, FrameFunc
    <3>4. k - 1 \in Nat /\ m <= k - 1 /\ k - 1 <= n /\ ~(k <= k - 1) /\ k \in 1..n /\ k # 0 /\ ~(k <= m)
      BY <1>1, <1>3, <3>2, <3>3
    <3>5. FrameOf(C, k - 1) = C[m].rbp
      <4>1. k - 1 \notin S
        <5> HIDE DEF S
        <5> QED  BY <3>1, <3>4
      <4> QED  BY <3>4, <4>1
    <3>6. C[k].kind # "func"
      BY <1>2, <3>4
    <3>7. FrameOf(C, k) = FrameOf(C, k - 1)
      BY <3>4, <3>6, FrameOther
    <3> QED  BY <3>2, <3>5, <3>7
  <2>2. n \in Nat /\ m <= n /\ n <= n
    BY <1>1, <1>3
  <2> QED  BY <2>1, <2>2
<1>5. /\ C[m].rbp >= 2 /\ C[m].rbp <= Limit(s, C, m)
  BY <1>1, <1>3 DEF Parts, PartOf
<1>6. Limit(s, C, m) \in Int /\ Limit(s, C, m) <= Len(s)
  <2>1. CASE m = n
    BY <2>1 DEF Limit, n
  <2>2. CASE m # n
    <3>1. m + 1 \in DOMAIN C
      BY <1>1, <1>3, <2>2
    <3>2. Base(C[m + 1]) \in 0..Len(s)
      BY <3>1 DEF InOrder
    <3> QED  BY <2>2, <3>2 DEF Limit, n
  <2> QED  BY <2>1, <2>2
<1>7. C[m].rbp \in Nat
  BY <1>1, <1>3, CodeTypes DEF FuncCode
<1>8. C[m].rbp \in 1..Len(s)
  BY <1>5, <1>6, <1>7
<1> QED  BY <1>4, <1>8 DEF n
----------------------------------------------------------------------------
(* What the invariant says of the innermost code.                          *)
LEMMA Known ==
  ASSUME IInv
  PROVE  /\ stack \in Seq(Cells) /\ Len(stack) \in Nat /\ rax \in Cells /\ regs \in [1..GpRegs -> Cells]
         /\ ctl \in Seq(Codes) /\ ctl # <<>> /\ Len(ctl) \in Nat \ {0}
         /\ Top = ctl[Len(ctl)] /\ Top \in Codes
         /\ Base(Top) \in 0..Len(stack)
         /\ PartOf(stack, ctl, Len(ctl), Len(stack))
         /\ InOrder(stack, ctl) /\ Parts(stack, ctl)
         /\ ctl[1].kind = "func" /\ Waiting(ctl)
         /\ Innermost(ctl, mode, rax, regs)
         /\ rbp = FrameOf(ctl, Len(ctl)) /\ rbp \in 1..Len(stack)
         /\ mode \in {"eval", "done"} /\ exprs \in 0..MaxExprs
<1>1. /\ stack \in Seq(Cells) /\ rax \in Cells /\ regs \in [1..GpRegs -> Cells]
      /\ ctl \in Seq(Codes) /\ ctl # <<>> /\ rbp \in DOMAIN stack
      /\ mode \in {"eval", "done"} /\ exprs \in 0..MaxExprs
      /\ InOrder(stack, ctl) /\ Parts(stack, ctl)
      /\ ctl[1].kind = "func" /\ Waiting(ctl) /\ rbp = FrameOf(ctl, Len(ctl))
      /\ Innermost(ctl, mode, rax, regs)
  BY DEF IInv, TypeOK
<1>2. Len(stack) \in Nat /\ DOMAIN stack = 1..Len(stack)
  BY <1>1, LenProperties
<1>3. /\ Len(ctl) \in Nat \ {0} /\ DOMAIN ctl = 1..Len(ctl) /\ Len(ctl) \in 1..Len(ctl)
      /\ ctl[Len(ctl)] \in Codes
  <2>1. Len(ctl) \in Nat \ {0} /\ DOMAIN ctl = 1..Len(ctl)
    BY <1>1, LenProperties
  <2>2. Len(ctl) \in 1..Len(ctl)
    BY <2>1
  <2> QED  BY <1>1, <2>1, <2>2, ElementOfSeq
<1>4. Base(ctl[Len(ctl)]) \in 0..Len(stack)
  BY <1>1, <1>3 DEF InOrder
<1>5. PartOf(stack, ctl, Len(ctl), Len(stack))
  <2>1. Limit(stack, ctl, Len(ctl)) = Len(stack)
    BY DEF Limit
  <2> QED  BY <1>1, <1>3, <2>1 DEF Parts
<1> QED  BY <1>1, <1>2, <1>3, <1>4, <1>5 DEF Top

(* What a code asks for is a word.                                         *)
LEMMA AskedFor ==
  ASSUME NEW s, NEW C \in Seq(Codes), C # <<>>, Parts(s, C),
         C[Len(C)].kind = "call" /\ C[Len(C)].stage = "args" => C[Len(C)].todo # {}
  PROVE  Value(C) \in Cells
<1>1. Len(C) \in DOMAIN C
  <2>1. Len(C) \in Nat \ {0} /\ DOMAIN C = 1..Len(C)
    BY LenProperties
  <2> QED  BY <2>1
<1>2. C[Len(C)].kind = "call" =>
        C[Len(C)].plan = Plan(C[Len(C)].args) /\ C[Len(C)].todo \subseteq DOMAIN C[Len(C)].args
  BY <1>1 DEF Parts, PartOf, CallPart
<1> QED  BY <1>2, ValueType

(* The code that waited for a value has it.                                *)
LEMMA Answered ==
  ASSUME NEW C, NEW f, f.kind # "func", MayNest(C[Len(C)], f), NEW r,
         NEW m, m = IF C[Len(C)].kind = "func" THEN "eval" ELSE "done",
         NEW v, v = Value(C)
  PROVE  Innermost(C, m, v, r)
<1> DEFINE e == C[Len(C)]
<1>1. e.kind = "call" => /\ e.stage = "args" => e.todo # {}
                         /\ e.stage # "back"
                         /\ ~(Plain /\ e.stage = "call")
                         /\ m = "done"
  BY DEF MayNest
<1> HIDE DEF e
<1>2. /\ e.kind = "call" /\ m = "eval" /\ e.stage = "args" => e.todo # {}
      /\ e.kind = "call" => m = "done"
      /\ e.kind = "call" => e.stage # "back" /\ ~(Plain /\ e.stage = "call")
  BY <1>1
<1> QED  BY <1>2 DEF Innermost, e

(* A step keeps the invariant if it keeps every part of it; that rbp       *)
(* points into the stack follows.                                          *)
LEMMA AllKept ==
  ASSUME stack' \in Seq(Cells), rax' \in Cells, regs' \in [1..GpRegs -> Cells],
         mode' \in {"eval", "done"}, exprs' \in 0..MaxExprs,
         ctl' \in Seq(Codes), ctl' # <<>>,
         InOrder(stack', ctl'), Parts(stack', ctl'), ctl'[1].kind = "func",
         rbp' = FrameOf(ctl', Len(ctl')), Waiting(ctl'), Innermost(ctl', mode', rax', regs')
  PROVE  IInv'
<1>1. Len(stack') \in Nat /\ DOMAIN stack' = 1..Len(stack')
  BY LenProperties
<1>2. FrameOf(ctl', Len(ctl')) \in 1..Len(stack')
  BY <1>1, FrameOnStack
<1> QED  BY <1>1, <1>2 DEF IInv, TypeOK

(* Overwritten registers hold words.                                       *)
LEMMA Clobbered ==
  ASSUME regs \in [1..GpRegs -> Cells], NEW R, Clobber(R)
  PROVE  regs' \in [1..GpRegs -> Cells]
<1>1. Junk \in Cells
  BY DEF Junk, Cell, Cells
<1> QED  BY <1>1 DEF Clobber
----------------------------------------------------------------------------
(* A constant or a variable is loaded.                                     *)
LEMMA LeafKeeps == ASSUME IInv, Leaf PROVE IInv'
<1>1. /\ mode = "eval" /\ Top.kind # "func" /\ rax' = Value(ctl) /\ mode' = "done"
      /\ stack' = stack /\ regs' = regs /\ rbp' = rbp /\ ctl' = ctl /\ exprs' = exprs
  BY DEF Leaf, Answer, Top
<1>2. Top.kind = "call" =>
        /\ Top.stage = "args" => Top.todo # {}
        /\ Top.stage # "back"
        /\ Plain /\ Top.stage = "call" => \A i \in InRegs(Top.plan) :
             regs[Before(Top.plan.given, InRegs(Top.plan), i) + 1] = Content(Top, i, 1)
  BY <1>1, Known DEF Innermost, Top
<1>3. rax' \in Cells
  BY <1>1, <1>2, Known, AskedFor DEF Top
<1>4. Innermost(ctl', mode', rax', regs')
  BY <1>1, <1>2 DEF Innermost, Top
<1> QED  BY <1>1, <1>3, <1>4, Known, AllKept

(* Where an expression may begin, one is waited for.                       *)
LEMMA Nested ==
  ASSUME IInv, Compound, NEW f
  PROVE  MayNest(Top, f)
<1>1. mode = "eval" /\ ~(Top.kind = "call" /\ Top.stage = "call" /\ Top.callee = "pointer")
  BY DEF Compound
<1>2. Top.kind = "call" =>
        /\ Top.stage = "args" => Top.todo # {}
        /\ Top.stage # "back"
        /\ Top.stage = "call" => Top.callee # "named"
  BY <1>1, Known DEF Innermost
<1>3. Top.kind = "call" => Top.callee \in Callees
  BY Known, CodeTypes DEF CallCode
<1>4. Plain => Callees \subseteq {"named", "pointer"}
  BY DEF Plain
<1> QED  BY <1>1, <1>2, <1>3, <1>4 DEF MayNest

(* Code that is not a function begins at rsp, or above a pad.              *)
LEMMA CodeBegins ==
  ASSUME IInv, NEW f \in Codes, f.kind # "func", MayNest(Top, f), ctl' = Append(ctl, f),
         rbp' = rbp, Base(f) = Len(stack), stack' \in Seq(Cells), Len(stack) <= Len(stack'),
         \A p \in 1..Len(stack) : stack'[p] = stack[p],
         f.kind = "call" => CallPart(stack', f, Len(stack')),
         f.kind = "binary" => BinaryPart(stack', f, Len(stack'))
  PROVE  /\ ctl' \in Seq(Codes) /\ ctl' # <<>> /\ ctl'[1].kind = "func" /\ Waiting(ctl')
         /\ ctl'[Len(ctl')] = f
         /\ InOrder(stack', ctl') /\ Parts(stack', ctl')
         /\ rbp' = FrameOf(ctl', Len(ctl'))
<1> DEFINE n == Len(ctl)
           D == ctl'
<1>1. /\ D \in Seq(Codes) /\ D # <<>> /\ D[1].kind = "func" /\ Waiting(D)
      /\ n \in Nat \ {0} /\ Len(D) = n + 1 /\ D[n + 1] = f
      /\ \A c \in 1..n : D[c] = ctl[c]
      /\ FrameOf(D, n) = FrameOf(ctl, n)
  BY Known, OneMore
<1>2. n + 1 \in Nat \ {0} /\ n + 1 > 1 /\ (n + 1) - 1 = n /\ ~(n + 1 <= n) /\ n + 1 <= n + 1
  BY <1>1
<1>3. PartOf(stack', D, n + 1, Len(stack'))
  BY <1>1 DEF PartOf
<1>4. InOrder(stack', D) /\ Parts(stack', D)
  <2>1. Len(stack') \in Nat
    BY LenProperties
  <2> HIDE DEF n, D
  <2>2. n = Len(ctl)
    BY DEF n
  <2>3. Base(D[n + 1]) = Len(stack)
    BY <1>1
  <2> QED  BY <1>1, <1>2, <1>3, <2>1, <2>2, <2>3, Known, PartsBelow
<1>5. FrameOf(D, n + 1) = FrameOf(ctl, n)
  <2> HIDE DEF n, D
  <2> QED  BY <1>1, <1>2, FrameOther
<1> QED  BY <1>1, <1>4, <1>5, Known

(* A binary expression or an assignment begins.                            *)
LEMMA BeginBinaryKeeps == ASSUME IInv, BeginBinary PROVE IInv'
<1> DEFINE f == [kind |-> "binary", pushed |-> FALSE, lhs |-> Junk, base |-> Len(stack)]
<1>1. /\ Compound /\ exprs < MaxExprs /\ ctl' = Append(ctl, f) /\ exprs' = exprs + 1
      /\ stack' = stack /\ regs' = regs /\ rax' = rax /\ rbp' = rbp /\ mode' = mode
  BY DEF BeginBinary, Compound
<1>2. /\ f \in Codes /\ f.kind = "binary" /\ f.pushed = FALSE
      /\ Base(f) = Len(stack) /\ f.base = Len(stack) /\ Len(stack) \in Nat
  <2>1. Junk \in Cells /\ Len(stack) \in Nat
    BY Known DEF Junk, Cell, Cells
  <2> QED  BY <2>1 DEF Codes, BinaryCode, Base
<1> HIDE DEF f
<1>3. BinaryPart(stack', f, Len(stack'))
  BY <1>1, <1>2 DEF BinaryPart
<1>4. /\ ctl' \in Seq(Codes) /\ ctl' # <<>> /\ ctl'[1].kind = "func" /\ Waiting(ctl')
      /\ ctl'[Len(ctl')] = f
      /\ InOrder(stack', ctl') /\ Parts(stack', ctl')
      /\ rbp' = FrameOf(ctl', Len(ctl'))
  <2>1. /\ MayNest(Top, f) /\ f.kind # "func" /\ f.kind # "call" /\ stack' \in Seq(Cells)
        /\ Len(stack) <= Len(stack') /\ \A p \in 1..Len(stack) : stack'[p] = stack[p]
    BY <1>1, <1>2, Known, Nested
  <2> QED  BY <1>1, <1>2, <1>3, <2>1, CodeBegins
<1>5. Innermost(ctl', mode', rax', regs')
  BY <1>2, <1>4 DEF Innermost
<1>6. exprs' \in 0..MaxExprs
  BY <1>1, Known, CallAssumption
<1> QED  BY <1>1, <1>4, <1>5, <1>6, Known, AllKept

(* The innermost code, not a function, goes on.                            *)
LEMMA CodeGoesOn ==
  ASSUME IInv, Top.kind # "func", NEW f \in Codes, f.kind # "func", ctl' = SetTop(ctl, f),
         rbp' = rbp, Base(f) = Base(Top), stack' \in Seq(Cells), Base(Top) <= Len(stack'),
         \A p \in 1..Base(Top) : stack'[p] = stack[p],
         f.kind = "call" => CallPart(stack', f, Len(stack')),
         f.kind = "binary" => BinaryPart(stack', f, Len(stack'))
  PROVE  /\ ctl' \in Seq(Codes) /\ ctl' # <<>> /\ ctl'[1].kind = "func" /\ Waiting(ctl')
         /\ ctl'[Len(ctl')] = f /\ Front(ctl') = Front(ctl) /\ Len(ctl) > 1
         /\ InOrder(stack', ctl') /\ Parts(stack', ctl')
         /\ rbp' = FrameOf(ctl', Len(ctl'))
<1> DEFINE n == Len(ctl)
           D == ctl'
<1>1. /\ D \in Seq(Codes) /\ D # <<>> /\ D[1].kind = "func" /\ Waiting(D)
      /\ n \in Nat /\ n > 1 /\ Len(D) = n /\ D[n] = f
      /\ \A c \in 1..n - 1 : D[c] = ctl[c]
      /\ Front(D) = Front(ctl)
      /\ FrameOf(D, n) = FrameOf(ctl, n)
  BY Known, TopGoesOn
<1>2. n \in Nat \ {0} /\ n <= n + 1 /\ n <= n
  BY <1>1
<1>3. PartOf(stack', D, n, Len(stack'))
  BY <1>1 DEF PartOf
<1>4. InOrder(stack', D) /\ Parts(stack', D)
  <2>1. Len(stack') \in Nat
    BY LenProperties
  <2>2. n = Len(ctl) /\ Base(Top) = Base(ctl[n])
    BY DEF n, Top
  <2> HIDE DEF n, D
  <2>3. Base(D[n]) = Base(ctl[n])
    BY <1>1, <2>2
  <2> QED  BY <1>1, <1>2, <1>3, <2>1, <2>2, <2>3, Known, PartsBelow
<1> QED  BY <1>1, <1>4, Known

(* The value of the left-hand side is pushed.                              *)
LEMMA PushLhsKeeps == ASSUME IInv, PushLhs PROVE IInv'
<1> DEFINE f == [Top EXCEPT !.lhs = rax, !.pushed = TRUE]
<1>1. /\ mode = "done" /\ Top.kind = "binary" /\ ~Top.pushed
      /\ stack' = Append(stack, rax) /\ ctl' = SetTop(ctl, f) /\ mode' = "eval"
      /\ regs' = regs /\ rax' = rax /\ rbp' = rbp /\ exprs' = exprs
  BY DEF PushLhs
<1>2. Top \in BinaryCode
  BY <1>1, Known, CodeTypes
<1>3. /\ f \in Codes /\ f.kind = "binary" /\ f.pushed = TRUE /\ f.lhs = rax
      /\ f.base = Top.base /\ Base(f) = f.base /\ Base(Top) = Top.base /\ Top.base \in Nat
  BY <1>2, Known DEF Codes, BinaryCode, Base
<1> HIDE DEF f
<1>4. Len(stack) = Top.base
  <2>1. BinaryPart(stack, Top, Len(stack))
    BY <1>1, Known DEF PartOf
  <2> QED  BY <1>1, <1>3, <2>1 DEF BinaryPart
<1>5. /\ stack' \in Seq(Cells) /\ Len(stack') = Top.base + 1 /\ stack'[Top.base + 1] = rax
      /\ \A p \in 1..Top.base : stack'[p] = stack[p]
  BY <1>1, <1>4, Known
<1>6. BinaryPart(stack', f, Len(stack'))
  BY <1>3, <1>5 DEF BinaryPart
<1>7. /\ ctl' \in Seq(Codes) /\ ctl' # <<>> /\ ctl'[1].kind = "func" /\ Waiting(ctl')
      /\ ctl'[Len(ctl')] = f
      /\ InOrder(stack', ctl') /\ Parts(stack', ctl')
      /\ rbp' = FrameOf(ctl', Len(ctl'))
  <2>1. f.kind # "func" /\ f.kind # "call" /\ Top.kind # "func" /\ Base(Top) <= Len(stack')
    BY <1>1, <1>3, <1>5
  <2> QED  BY <1>1, <1>3, <1>5, <1>6, <2>1, CodeGoesOn
<1>8. Innermost(ctl', mode', rax', regs')
  BY <1>3, <1>7 DEF Innermost
<1> QED  BY <1>1, <1>5, <1>7, <1>8, Known, AllKept
(* The innermost code, not a function, ends: rsp is where it began.        *)
LEMMA CodeEnds ==
  ASSUME IInv, Top.kind # "func", ctl' = Front(ctl), rbp' = rbp,
         stack' = SubSeq(stack, 1, Base(Top))
  PROVE  /\ ctl' \in Seq(Codes) /\ ctl' # <<>> /\ ctl'[1].kind = "func" /\ Waiting(ctl')
         /\ MayNest(ctl'[Len(ctl')], Top) /\ Value(ctl') \in Cells
         /\ stack' \in Seq(Cells) /\ Len(stack') = Base(Top)
         /\ InOrder(stack', ctl') /\ Parts(stack', ctl')
         /\ rbp' = FrameOf(ctl', Len(ctl'))
<1> DEFINE n == Len(ctl) - 1
           D == ctl'
<1>1. Len(ctl) > 1 /\ Len(ctl) \in Nat /\ ~(Len(ctl) = 1)
  <2>1. Len(ctl) # 1 /\ Len(ctl) \in Nat \ {0}
    BY Known
  <2> DEFINE l == Len(ctl)
  <2> HIDE DEF l, n, D
  <2>2. l # 1 /\ l \in Nat \ {0}
    BY <2>1 DEF l
  <2>3. l > 1 /\ l \in Nat /\ ~(l = 1)
    BY <2>2
  <2> QED  BY <2>3 DEF l
<1>2. /\ D \in Seq(Codes) /\ D # <<>> /\ D[1].kind = "func" /\ Waiting(D)
      /\ n \in Nat \ {0} /\ Len(ctl) = n + 1 /\ Len(D) = n
      /\ \A c \in 1..n : D[c] = ctl[c]
      /\ D[n] = ctl[n] /\ MayNest(ctl[n], ctl[n + 1])
      /\ FrameOf(D, n) = FrameOf(ctl, n)
  BY <1>1, Known, OneLess
<1>3. /\ stack' \in Seq(Cells) /\ Len(stack') = Base(Top)
      /\ \A p \in 1..Len(stack') : stack'[p] = stack[p]
  BY Known, Cut
<1> HIDE DEF n, D
<1>4. Top = ctl[n + 1]
  BY <1>2 DEF Top
<1>5. InOrder(stack', D) /\ Parts(stack', D)
  <2>1. Len(stack') \in Nat /\ Len(stack') = Base(ctl[n + 1])
    BY <1>3, <1>4, LenProperties
  <2>2. ctl \in Seq(Codes) /\ Len(stack) \in Nat /\ InOrder(stack, ctl) /\ Parts(stack, ctl)
    BY Known
  <2>3. /\ D \in Seq(Codes) /\ n \in Nat \ {0} /\ Len(ctl) = n + 1 /\ Len(D) = n
        /\ \A c \in 1..n : D[c] = ctl[c]
    BY <1>2
  <2> QED  BY <1>3, <2>1, <2>2, <2>3, PartsWithout
<1>6. FrameOf(ctl, n + 1) = FrameOf(ctl, n)
  <2>1. n + 1 \in Nat \ {0} /\ (n + 1) - 1 = n /\ ctl[n + 1].kind # "func"
    BY <1>2, <1>4
  <2> QED  BY <2>1, FrameOther
<1>7. MayNest(D[Len(D)], Top)
  BY <1>2, <1>4
<1>8. Value(D) \in Cells
  BY <1>2, <1>5, <1>7, AskedFor DEF MayNest
<1> QED  BY <1>2, <1>3, <1>5, <1>6, <1>7, <1>8, Known DEF D

(* The operation of a binary expression takes one word.                    *)
LEMMA OperandPushed ==
  ASSUME IInv, Top.kind = "binary", Top.pushed
  PROVE  /\ Len(stack) = Top.base + 1 /\ Base(Top) = Top.base /\ Top.base \in Nat
         /\ stack[Len(stack)] = Top.lhs
<1>1. Top.base \in Nat /\ Base(Top) = Top.base
  BY Known, CodeTypes DEF BinaryCode, Base
<1>2. BinaryPart(stack, Top, Len(stack))
  BY Known DEF PartOf, Top
<1> QED  BY <1>1, <1>2 DEF BinaryPart

(* The operation of a binary expression.                                   *)
LEMMA OperateKeeps == ASSUME IInv, Operate PROVE IInv'
<1>1. /\ mode = "done" /\ Top.kind = "binary" /\ Top.pushed
      /\ stack' = Drop(1) /\ (\E R : Clobber(R)) /\ ctl' = Front(ctl)
      /\ rax' = Value(ctl') /\ rbp' = rbp /\ exprs' = exprs
      /\ mode' = IF ctl'[Len(ctl')].kind = "func" THEN "eval" ELSE "done"
  BY DEF Operate, Answer
<1>2. stack' = SubSeq(stack, 1, Base(Top))
  <2>1. Len(stack) - 1 = Base(Top)
    BY <1>1, OperandPushed
  <2> QED  BY <1>1, <2>1 DEF Drop
<1>3. regs' \in [1..GpRegs -> Cells]
  BY <1>1, Known, Clobbered
<1>4. /\ ctl' \in Seq(Codes) /\ ctl' # <<>> /\ ctl'[1].kind = "func" /\ Waiting(ctl')
      /\ MayNest(ctl'[Len(ctl')], Top) /\ Value(ctl') \in Cells /\ stack' \in Seq(Cells)
      /\ InOrder(stack', ctl') /\ Parts(stack', ctl')
      /\ rbp' = FrameOf(ctl', Len(ctl'))
  <2>1. Top.kind # "func"
    BY <1>1
  <2> QED  BY <1>1, <1>2, <2>1, CodeEnds
<1>5. Innermost(ctl', mode', rax', regs')
  <2>1. Top.kind # "func"
    BY <1>1
  <2> QED  BY <1>1, <1>4, <2>1, Answered
<1>6. mode' \in {"eval", "done"}
  BY <1>1
<1> QED  BY <1>1, <1>3, <1>4, <1>5, <1>6, Known, AllKept

(* A call has come back: rsp is behind the pad and the arguments.          *)
LEMMA CallIsBack ==
  ASSUME IInv, Top.kind = "call", Top.stage = "back"
  PROVE  /\ Len(stack) - popped_words(Top) = Base(Top) /\ Base(Top) = Top.base
         /\ rax = Value(Front(ctl))
<1>1. CallPart(stack, Top, Len(stack)) /\ Top \in CallCode
  BY Known, CodeTypes DEF PartOf, Top
<1>2. Top.plan = Plan(Top.args) /\ Top.todo \subseteq DOMAIN Top.args /\ Len(stack) = Height(Top)
  BY <1>1 DEF CallPart
<1> DEFINE w == Total(Top.plan.words, OnStack(Top.plan))
<1>3. /\ w \in Nat /\ Full(Top) = Top.base + Top.pad + w /\ Top.base \in Nat /\ Top.pad \in {0, 1}
      /\ Base(Top) = Top.base
  BY <1>1, <1>2, CallFacts
<1>4. popped_words(Top) = Top.pad + (Word * w) \div Word
  BY DEF popped_words, StackBytes
<1> HIDE DEF w
<1>5. (Word * w) \div Word = w
  BY <1>3 DEF Word
<1>6. Len(stack) = Full(Top)
  BY <1>2 DEF Height
<1>7. Len(stack) - popped_words(Top) = Top.base
  <2> DEFINE b == Top.base
             q == Top.pad
  <2>1. b \in Nat /\ q \in {0, 1} /\ Len(stack) = b + q + w /\ popped_words(Top) = q + w
    BY <1>3, <1>4, <1>5, <1>6
  <2> HIDE DEF b, q
  <2>2. (b + q + w) - (q + w) = b
    BY <1>3, <2>1
  <2> QED  BY <2>1, <2>2 DEF b
<1>8. rax = Value(Front(ctl))
  BY Known DEF Innermost, Top
<1> QED  BY <1>3, <1>7, <1>8

(* The words of the call are popped.                                       *)
LEMMA AfterCallKeeps == ASSUME IInv, AfterCall PROVE IInv'
<1>1. /\ mode = "done" /\ Top.kind = "call" /\ Top.stage = "back"
      /\ stack' = Drop(popped_words(Top)) /\ ctl' = Front(ctl)
      /\ regs' = regs /\ rax' = rax /\ rbp' = rbp /\ exprs' = exprs
      /\ mode' = IF ctl'[Len(ctl')].kind = "func" THEN "eval" ELSE "done"
  BY DEF AfterCall
<1>2. stack' = SubSeq(stack, 1, Base(Top))
  BY <1>1, CallIsBack DEF Drop
<1>3. /\ ctl' \in Seq(Codes) /\ ctl' # <<>> /\ ctl'[1].kind = "func" /\ Waiting(ctl')
      /\ MayNest(ctl'[Len(ctl')], Top) /\ stack' \in Seq(Cells)
      /\ InOrder(stack', ctl') /\ Parts(stack', ctl')
      /\ rbp' = FrameOf(ctl', Len(ctl'))
  <2>1. Top.kind # "func"
    BY <1>1
  <2> QED  BY <1>1, <1>2, <2>1, CodeEnds
<1>4. Innermost(ctl', mode', rax', regs')
  <2>1. Top.kind # "func" /\ rax' = Value(ctl')
    BY <1>1, CallIsBack
  <2> QED  BY <1>1, <1>3, <2>1, Answered
<1>5. mode' \in {"eval", "done"}
  BY <1>1
<1> QED  BY <1>1, <1>3, <1>4, <1>5, Known, AllKept
----------------------------------------------------------------------------
(* A call begins.                                                          *)
LEMMA BeginCallKeeps ==
  ASSUME IInv, NEW args \in ArgLists, NEW callee \in Callees, BeginCall(args, callee)
  PROVE  IInv'
<1> DEFINE plan == Plan(args)
           pad  == pad_words(plan)
           v == [i \in DOMAIN args |-> Junk]
           f == [kind |-> "call", args |-> args, plan |-> plan, callee |-> callee, pad |-> pad,
                 todo |-> DOMAIN args, vals |-> v, stage |-> "args", base |-> Len(stack)]
           j == [k \in 1..pad |-> Junk]
<1>1. /\ Compound /\ exprs < MaxExprs /\ stack' = stack \o j /\ ctl' = Append(ctl, f)
      /\ mode' = (IF args = <<>> THEN "done" ELSE "eval") /\ exprs' = exprs + 1
      /\ regs' = regs /\ rax' = rax /\ rbp' = rbp
  BY DEF BeginCall, Compound
<1>2. DOMAIN args = 1..Len(args) /\ Len(args) \in Nat
  BY PlanFacts
<1>3. Junk \in Cells /\ Len(stack) \in Nat /\ stack \in Seq(Cells)
  BY Known DEF Junk, Cell, Cells
<1>4. v \in Seq(Cells) /\ Len(v) = Len(args)
  <2>1. v \in [1..Len(args) -> Cells]
    BY <1>2, <1>3
  <2> HIDE DEF v
  <2> QED  BY <1>2, <2>1, FunctionSeq
<1>5. pad \in {0, 1}
  BY DEF pad_words
<1>6. j \in Seq(Cells) /\ Len(j) = pad
  <2>1. j \in [1..pad -> Cells]
    BY <1>3
  <2>2. pad \in Nat
    BY <1>5
  <2> HIDE DEF j, pad
  <2> QED  BY <2>1, <2>2, FunctionSeq
<1> HIDE DEF j, v
<1>7. /\ f \in Codes /\ f \in CallCode /\ f.kind = "call" /\ Base(f) = Len(stack) /\ f.base = Len(stack)
      /\ f.stage = "args" /\ f.todo = DOMAIN f.args /\ f.plan = Plan(f.args) /\ f.args = args
      /\ Len(f.vals) = Len(f.args) /\ f.pad = pad
  <2>1. plan \in {Plan(a) : a \in ArgLists} /\ DOMAIN args \in SUBSET Nat
    BY <1>2
  <2> HIDE DEF plan, pad
  <2>2. f \in CallCode
    BY <1>3, <1>4, <1>5, <2>1 DEF CallCode
  <2> QED  BY <1>4, <2>2 DEF Codes, Base, plan
<1>8. f.pad = IF (Word * f.base + (IF StackBytes(f.plan) % (2 * Word) # 0 THEN Word ELSE 0)) % (2 * Word) = 0
              THEN 0 ELSE 1
  <2>1. pad = IF (Word * Len(stack) + (IF StackBytes(plan) % (2 * Word) # 0 THEN Word ELSE 0)) % (2 * Word) = 0
              THEN 0 ELSE 1
    BY DEF pad_words
  <2> QED  BY <1>7, <2>1
<1> HIDE DEF f, pad, plan
<1>9. CallPart(stack', f, f.base + f.pad)
  <2> DEFINE n == f.base
  <2>1. n \in Nat /\ f.base = n
    BY <1>3, <1>7
  <2> HIDE DEF n
  <2> QED  BY <1>7, <1>8, <2>1, CallBegins
<1>10. /\ stack' \in Seq(Cells) /\ Len(stack') = f.base + f.pad /\ Len(stack) <= Len(stack')
       /\ \A p \in 1..Len(stack) : stack'[p] = stack[p]
  <2>1. stack' \in Seq(Cells) /\ IsBehind(stack', stack, j)
    BY <1>1, <1>3, <1>6, Behind1
  <2> QED  BY <1>3, <1>5, <1>6, <1>7, <2>1 DEF IsBehind
<1>11. /\ ctl' \in Seq(Codes) /\ ctl' # <<>> /\ ctl'[1].kind = "func" /\ Waiting(ctl')
       /\ ctl'[Len(ctl')] = f
       /\ InOrder(stack', ctl') /\ Parts(stack', ctl')
       /\ rbp' = FrameOf(ctl', Len(ctl'))
  <2>1. MayNest(Top, f) /\ f.kind # "func" /\ f.kind # "binary"
    BY <1>1, <1>7, Nested
  <2>2. CallPart(stack', f, Len(stack'))
    BY <1>9, <1>10
  <2> QED  BY <1>1, <1>7, <1>10, <2>1, <2>2, CodeBegins
<1>12. Innermost(ctl', mode', rax', regs')
  <2>1. args = <<>> <=> f.todo = {}
    BY <1>2, <1>7
  <2>2. mode' = "eval" => f.todo # {}
    BY <1>1, <2>1
  <2>3. mode' = "done" => f.todo = {}
    BY <1>1, <2>1
  <2> QED  BY <1>7, <1>11, <2>2, <2>3 DEF Innermost
<1>13. exprs' \in 0..MaxExprs /\ mode' \in {"eval", "done"}
  BY <1>1, Known, CallAssumption
<1> QED  BY <1>1, <1>10, <1>11, <1>12, <1>13, Known, AllKept

(* An argument is pushed.                                                  *)
LEMMA PushArgKeeps == ASSUME SmallOnStack, IInv, PushArg PROVE IInv'
<1> DEFINE i == NextArg(Top)
           f == [Top EXCEPT !.todo = @ \ {i}, !.vals = [@ EXCEPT ![i] = rax]]
<1>1. /\ mode = "done" /\ Top.kind = "call" /\ Top.stage = "args" /\ Top.todo # {}
      /\ stack' = stack \o Pushed(Top.args[i], Top.plan.given[i], rax)
      /\ ctl' = SetTop(ctl, f)
      /\ mode' = (IF Top.todo = {i} THEN "done" ELSE "eval")
      /\ regs' = regs /\ rax' = rax /\ rbp' = rbp /\ exprs' = exprs
  BY DEF PushArg
<1>2. Top \in CallCode /\ CallPart(stack, Top, Len(stack))
  BY <1>1, Known, CodeTypes DEF PartOf, Top
<1>3. rax.part = PartLoaded(Top.args[NextArg(Top)])
  <2>1. rax = Value(ctl)
    BY <1>1, Known DEF Innermost, Top
  <2>2. Value(ctl) = Cell(Len(ctl), NextArg(Top), PartLoaded(Top.args[NextArg(Top)]))
    BY <1>1 DEF Value, Top
  <2> QED  BY <2>1, <2>2 DEF Cell
<1>4. /\ i \in DOMAIN Top.args /\ f \in CallCode
      /\ stack' \in Seq(Cells) /\ Len(stack) <= Len(stack')
      /\ \A p \in 1..Len(stack) : stack'[p] = stack[p]
      /\ CallPart(stack', f, Len(stack'))
  BY <1>1, <1>2, <1>3, Known, ArgumentPushed
<1>5. /\ f \in Codes /\ f.kind = "call" /\ f.stage = "args" /\ f.todo = Top.todo \ {i}
      /\ Base(f) = Base(Top)
  <2>1. f.kind = "call" /\ f.stage = "args" /\ f.todo = Top.todo \ {i} /\ f.base = Top.base
    BY <1>1, <1>2 DEF CallCode
  <2> HIDE DEF f
  <2> QED  BY <1>1, <1>4, <2>1 DEF Codes, Base
<1> HIDE DEF f
<1>6. /\ ctl' \in Seq(Codes) /\ ctl' # <<>> /\ ctl'[1].kind = "func" /\ Waiting(ctl')
      /\ ctl'[Len(ctl')] = f
      /\ InOrder(stack', ctl') /\ Parts(stack', ctl')
      /\ rbp' = FrameOf(ctl', Len(ctl'))
  <2>1. /\ f.kind # "func" /\ f.kind # "binary" /\ Top.kind # "func"
        /\ Base(Top) <= Len(stack') /\ \A p \in 1..Base(Top) : stack'[p] = stack[p]
    <3>1. Base(Top) \in 0..Len(stack) /\ Len(stack) \in Nat /\ Len(stack') \in Nat
      BY <1>4, Known, LenProperties
    <3>2. Base(Top) <= Len(stack') /\ \A p \in 1..Base(Top) : p \in 1..Len(stack)
      BY <1>4, <3>1
    <3> QED  BY <1>1, <1>4, <1>5, <3>2
  <2> QED  BY <1>1, <1>4, <1>5, <2>1, CodeGoesOn
<1>7. Innermost(ctl', mode', rax', regs')
  <2>1. (mode' = "eval" => f.todo # {}) /\ (mode' = "done" => f.todo = {})
    BY <1>1, <1>5
  <2> QED  BY <1>5, <1>6, <2>1 DEF Innermost
<1>8. mode' \in {"eval", "done"}
  BY <1>1
<1> QED  BY <1>1, <1>4, <1>6, <1>7, <1>8, Known, AllKept

(* The registers are popped.                                               *)
LEMMA PopRegsKeeps == ASSUME IInv, PopRegs PROVE IInv'
<1> DEFINE n == Total(Top.plan.given, InRegs(Top.plan))
           f == [Top EXCEPT !.stage = "call"]
<1>1. /\ mode = "done" /\ Top.kind = "call" /\ Top.stage = "args" /\ Top.todo = {}
      /\ regs' = [k \in 1..GpRegs |-> IF k <= n THEN stack[Len(stack) - k + 1] ELSE regs[k]]
      /\ stack' = SubSeq(stack, 1, Len(stack) - n)
      /\ rax' = Junk /\ ctl' = SetTop(ctl, f)
      /\ mode' = (IF Top.callee = "named" THEN "done" ELSE "eval")
      /\ rbp' = rbp /\ exprs' = exprs
  BY DEF PopRegs, Drop
<1>2. Top \in CallCode /\ CallPart(stack, Top, Len(stack))
  BY <1>1, Known, CodeTypes DEF PartOf, Top
<1>3. /\ f.kind = "call" /\ f.stage = "call" /\ f.callee = Top.callee /\ f.base = Top.base
      /\ Base(Top) = Top.base
  BY <1>1, <1>2 DEF CallCode, Base
<1>4. n = Total(Top.plan.given, InRegs(Top.plan))
  OBVIOUS
<1> HIDE DEF n
<1>5. /\ f \in CallCode /\ Base(f) = Base(Top) /\ Top.base <= Len(stack')
      /\ stack' \in Seq(Cells) /\ \A p \in 1..Len(stack') : stack'[p] = stack[p]
      /\ regs' \in [1..GpRegs -> Cells]
      /\ CallPart(stack', f, Len(stack'))
      /\ Plain => \A i \in InRegs(f.plan) :
                    regs'[Before(f.plan.given, InRegs(f.plan), i) + 1] = Content(f, i, 1)
  <2>1. stack \in Seq(Cells) /\ regs \in [1..GpRegs -> Cells]
    BY Known
  <2> DEFINE t == SubSeq(stack, 1, Len(stack) - n)
             r == [k \in 1..GpRegs |-> IF k <= n THEN stack[Len(stack) - k + 1] ELSE regs[k]]
  <2>2. Popped(f, t, r, Top, stack)
    BY <1>1, <1>2, <1>4, <2>1, RegistersPopped
  <2>3. t = stack' /\ r = regs'
    BY <1>1
  <2> HIDE DEF t, r, f
  <2>4. Popped(f, stack', regs', Top, stack)
    BY <2>2, <2>3
  <2> QED  BY <2>4 DEF Popped
<1> HIDE DEF f
<1>6. /\ ctl' \in Seq(Codes) /\ ctl' # <<>> /\ ctl'[1].kind = "func" /\ Waiting(ctl')
      /\ ctl'[Len(ctl')] = f
      /\ InOrder(stack', ctl') /\ Parts(stack', ctl')
      /\ rbp' = FrameOf(ctl', Len(ctl'))
  <2>1. /\ f.kind # "func" /\ f.kind # "binary" /\ Top.kind # "func" /\ f \in Codes
        /\ Base(Top) <= Len(stack') /\ \A p \in 1..Base(Top) : stack'[p] = stack[p]
    <3>1. Base(Top) \in 0..Len(stack) /\ Len(stack') \in Nat
      BY <1>5, Known, LenProperties
    <3>2. \A p \in 1..Base(Top) : p \in 1..Len(stack')
      BY <1>3, <1>5, <3>1
    <3> QED  BY <1>1, <1>3, <1>5, <3>2 DEF Codes
  <2> QED  BY <1>1, <1>5, <2>1, CodeGoesOn
<1>7. Innermost(ctl', mode', rax', regs')
  BY <1>1, <1>3, <1>5, <1>6 DEF Innermost
<1>8. mode' \in {"eval", "done"} /\ rax' \in Cells
  BY <1>1 DEF Junk, Cell, Cells
<1> QED  BY <1>1, <1>5, <1>6, <1>7, <1>8, Known, AllKept
----------------------------------------------------------------------------
(* What a call instruction finds.                                          *)
LEMMA AtCallFacts ==
  ASSUME IInv, AtCall
  PROVE  /\ mode = "done" /\ Top.kind = "call" /\ Top.stage = "call" /\ Top \in CallCode
         /\ CallPart(stack, Top, Len(stack))
         /\ Top.plan = Plan(Top.args) /\ Top.todo \subseteq DOMAIN Top.args /\ Top.todo = {}
         /\ Len(stack) = Full(Top) /\ Full(Top) % 2 = 0
         /\ Plain => Arguments(stack, Top, Len(stack))
         /\ Plain => \A i \in InRegs(Top.plan) :
              regs[Before(Top.plan.given, InRegs(Top.plan), i) + 1] = Content(Top, i, 1)
<1>1. mode = "done" /\ Top.kind = "call" /\ Top.stage = "call"
  BY DEF AtCall
<1>2. Top \in CallCode /\ CallPart(stack, Top, Len(stack))
  BY <1>1, Known, CodeTypes DEF PartOf, Top
<1>3. /\ Top.plan = Plan(Top.args) /\ Top.todo \subseteq DOMAIN Top.args /\ Top.todo = {}
      /\ Len(stack) = Height(Top) /\ Full(Top) % 2 = 0
      /\ Plain => Arguments(stack, Top, Len(stack))
  BY <1>1, <1>2 DEF CallPart
<1>4. Height(Top) = Full(Top)
  BY <1>1 DEF Height
<1>5. Plain => \A i \in InRegs(Top.plan) :
        regs[Before(Top.plan.given, InRegs(Top.plan), i) + 1] = Content(Top, i, 1)
  BY <1>1, Known DEF Innermost, Top
<1> QED  BY <1>1, <1>2, <1>3, <1>4, <1>5

(* What the code below the innermost asks for is a word, too.              *)
LEMMA BelowAsks ==
  ASSUME NEW s \in Seq(Cells), NEW C \in Seq(Codes), C[1].kind = "func", Waiting(C), Len(C) > 1,
         InOrder(s, C), Parts(s, C)
  PROVE  Value(Front(C)) \in Cells
<1> DEFINE n == Len(C) - 1
           D == Front(C)
           t == SubSeq(s, 1, Base(C[n + 1]))
<1>1. /\ D \in Seq(Codes) /\ D # <<>>
      /\ n \in Nat \ {0} /\ Len(C) = n + 1 /\ Len(D) = n /\ \A c \in 1..n : D[c] = C[c]
      /\ D[n] = C[n] /\ MayNest(C[n], C[n + 1])
  BY OneLess
<1> HIDE DEF n, D
<1>2. n + 1 \in DOMAIN C
  BY <1>1, LenProperties
<1>3. Base(C[n + 1]) \in 0..Len(s) /\ Len(s) \in Nat
  BY <1>2, LenProperties DEF InOrder
<1>4. t \in Seq(Cells) /\ Len(t) = Base(C[n + 1]) /\ \A p \in 1..Len(t) : t[p] = s[p]
  BY <1>3, Cut
<1> HIDE DEF t
<1>5. Parts(t, D)
  <2>1. Len(t) \in Nat
    BY <1>4, LenProperties
  <2>2. /\ D \in Seq(Codes) /\ n \in Nat \ {0} /\ Len(C) = n + 1 /\ Len(D) = n
        /\ \A c \in 1..n : D[c] = C[c]
    BY <1>1
  <2> QED  BY <1>3, <1>4, <2>1, <2>2, PartsWithout
<1>6. Value(D) \in Cells
  BY <1>1, <1>5, AskedFor DEF MayNest
<1> QED  BY <1>6 DEF D

(* A function of another compiler is called, and returns.                  *)
LEMMA CallExternalKeeps == ASSUME IInv, CallExternal PROVE IInv'
<1> DEFINE f == [Top EXCEPT !.stage = "back"]
<1>1. /\ AtCall /\ Clobber(1..GpRegs) /\ ctl' = SetTop(ctl, f) /\ rax' = Value(Front(ctl))
      /\ stack' = stack /\ rbp' = rbp /\ mode' = mode /\ exprs' = exprs
  BY DEF CallExternal
<1>2. /\ mode = "done" /\ Top.kind = "call" /\ Top.stage = "call" /\ Top \in CallCode
      /\ CallPart(stack, Top, Len(stack))
  BY <1>1, AtCallFacts
<1>3. f \in CallCode /\ Base(f) = Base(Top) /\ CallPart(stack, f, Len(stack))
  BY <1>2, CallWaits
<1>4. f.kind = "call" /\ f.stage = "back"
  BY <1>2 DEF CallCode
<1> HIDE DEF f
<1>5. /\ ctl' \in Seq(Codes) /\ ctl' # <<>> /\ ctl'[1].kind = "func" /\ Waiting(ctl')
      /\ ctl'[Len(ctl')] = f /\ Front(ctl') = Front(ctl) /\ Len(ctl) > 1
      /\ InOrder(stack', ctl') /\ Parts(stack', ctl')
      /\ rbp' = FrameOf(ctl', Len(ctl'))
  <2>1. /\ f.kind # "func" /\ f.kind # "binary" /\ Top.kind # "func" /\ f \in Codes
        /\ stack' \in Seq(Cells)
        /\ Base(Top) <= Len(stack') /\ \A p \in 1..Base(Top) : stack'[p] = stack[p]
    BY <1>1, <1>2, <1>3, <1>4, Known DEF Codes
  <2> QED  BY <1>1, <1>3, <2>1, CodeGoesOn
<1>6. rax' \in Cells
  <2>1. Value(Front(ctl)) \in Cells
    BY <1>5, Known, BelowAsks
  <2> QED  BY <1>1, <2>1
<1>7. Innermost(ctl', mode', rax', regs')
  BY <1>1, <1>2, <1>4, <1>5 DEF Innermost
<1>8. regs' \in [1..GpRegs -> Cells]
  BY <1>1, Known, Clobbered
<1> QED  BY <1>1, <1>5, <1>6, <1>7, <1>8, Known, AllKept

(* A function of this compiler is called, and its prologue runs.           *)
LEMMA CallInternalKeeps == ASSUME IInv, NEW locals \in 0..MaxLocals, CallInternal(locals) PROVE IInv'
<1> DEFINE l == Len(stack)
           f == [kind |-> "func", rbp |-> l + 2]
           t == stack \o <<ReturnAddress, SavedRbp(rbp)>>
                      \o [k \in 1..Cardinality(InRegs(Top.plan)) |-> regs[k]]
                      \o [k \in 1..locals |-> Junk]
           n == Len(ctl)
           D == ctl'
<1>1. /\ AtCall /\ stack' = t /\ rbp' = l + 2 /\ ctl' = Append(ctl, f) /\ mode' = "eval"
      /\ regs' = regs /\ rax' = rax /\ exprs' = exprs
  BY DEF CallInternal
<1>2. /\ Top.kind = "call" /\ Top.stage = "call" /\ Top \in CallCode /\ Top.plan = Plan(Top.args)
      /\ Plain => \A i \in InRegs(Top.plan) :
           regs[Before(Top.plan.given, InRegs(Top.plan), i) + 1] = Content(Top, i, 1)
  BY <1>1, AtCallFacts
<1>3. locals \in Nat /\ rbp \in Nat /\ stack \in Seq(Cells) /\ regs \in [1..GpRegs -> Cells] /\ l \in Nat
  <2>1. rbp \in 1..Len(stack) /\ Len(stack) \in Nat
    BY Known
  <2> QED  BY <2>1, Known, CallAssumption
<1>4. /\ t \in Seq(Cells) /\ \A p \in 1..l : t[p] = stack[p]
      /\ f \in FuncCode /\ Base(f) = l /\ l + 2 <= Len(t)
      /\ FuncPart(t, f, Top, rbp, Len(t))
  BY <1>2, <1>3, FunctionBegins
<1>5. f.kind = "func" /\ f.rbp = l + 2 /\ f \in Codes
  <2>1. f.kind = "func" /\ f.rbp = l + 2
    OBVIOUS
  <2> HIDE DEF f
  <2> QED  BY <1>4, <2>1 DEF Codes
<1> HIDE DEF f, t
<1>6. MayNest(ctl[n], f)
  BY <1>2, <1>5 DEF MayNest, Top
<1>7. /\ D \in Seq(Codes) /\ D # <<>> /\ D[1].kind = "func" /\ Waiting(D)
      /\ n \in Nat \ {0} /\ Len(D) = n + 1 /\ D[n + 1] = f
      /\ \A c \in 1..n : D[c] = ctl[c]
      /\ FrameOf(D, n) = FrameOf(ctl, n)
  BY <1>1, <1>5, <1>6, Known, OneMore
<1>8. rbp = FrameOf(ctl, n) /\ Top = ctl[n]
  BY Known
<1> HIDE DEF n, D, l
<1>9. n + 1 \in Nat \ {0} /\ n + 1 > 1 /\ (n + 1) - 1 = n /\ ~(n + 1 <= n) /\ n + 1 <= n + 1 /\ n \in 1..n
  BY <1>7
<1>10. Len(t) \in Nat /\ l <= Len(t) /\ l + 2 >= 2
  BY <1>3, <1>4, LenProperties
<1>11. PartOf(t, D, n + 1, Len(t))
  <2>1. FuncPart(t, D[n + 1], D[n], FrameOf(D, n), Len(t))
    BY <1>4, <1>7, <1>8, <1>9
  <2> QED  BY <1>4, <1>5, <1>7, <1>9, <1>10, <2>1 DEF PartOf
<1>12. InOrder(t, D) /\ Parts(t, D)
  <2>1. Base(D[n + 1]) = Len(stack) /\ n = Len(ctl) /\ l = Len(stack)
    BY <1>4, <1>7 DEF l, n
  <2>2. ctl \in Seq(Codes) /\ Len(stack) \in Nat /\ InOrder(stack, ctl) /\ Parts(stack, ctl)
    BY Known
  <2> QED  BY <1>4, <1>7, <1>9, <1>10, <1>11, <2>1, <2>2, PartsBelow
<1>13. rbp' = FrameOf(D, n + 1)
  <2>1. n + 1 \in DOMAIN D
    BY <1>7, <1>9, LenProperties
  <2>2. FrameOf(D, n + 1) = D[n + 1].rbp
    BY <1>5, <1>7, <1>10, <1>12, <2>1, FrameFunc
  <2> QED  BY <1>1, <1>5, <1>7, <2>2
<1>14. Innermost(D, mode', rax', regs')
  BY <1>5, <1>7 DEF Innermost
<1>15. /\ ctl' \in Seq(Codes) /\ ctl' # <<>> /\ ctl'[1].kind = "func" /\ Waiting(ctl')
       /\ InOrder(stack', ctl') /\ Parts(stack', ctl') /\ stack' \in Seq(Cells)
       /\ rbp' = FrameOf(ctl', Len(ctl')) /\ Innermost(ctl', mode', rax', regs')
  BY <1>1, <1>4, <1>7, <1>12, <1>13, <1>14 DEF D
<1>16. mode' \in {"eval", "done"}
  BY <1>1
<1> QED  BY <1>1, <1>15, <1>16, Known, AllKept
----------------------------------------------------------------------------
(* A function returns: rsp is where its call left it.                      *)
LEMMA ReturnKeeps == ASSUME IInv, Return PROVE IInv'
<1> DEFINE n == Len(ctl) - 1
           C == Front(ctl)
           e == C[n]
           f == [e EXCEPT !.stage = "back"]
           D == ctl'
           t == stack'
<1>1. /\ Top.kind = "func" /\ Len(ctl) > 1
      /\ stack' = SubSeq(stack, 1, rbp - 2) /\ rbp' = stack[rbp].pos /\ Clobber(1..GpRegs)
      /\ ctl' = SetTop(Front(ctl), [Last(Front(ctl)) EXCEPT !.stage = "back"])
      /\ rax' = Value(Front(Front(ctl))) /\ mode' = "done" /\ exprs' = exprs
  BY DEF Return, popped_rbp
<1>2. /\ C \in Seq(Codes) /\ C # <<>> /\ C[1].kind = "func" /\ Waiting(C)
      /\ n \in Nat \ {0} /\ Len(ctl) = n + 1 /\ Len(C) = n
      /\ \A c \in 1..n : C[c] = ctl[c]
      /\ C[n] = ctl[n] /\ FrameOf(C, n) = FrameOf(ctl, n)
  BY <1>1, Known, OneLess
<1>3. D = SetTop(C, f)
  <2>1. Last(C) = C[Len(C)]
    BY DEF Last
  <2>2. Last(C) = e
    BY <1>2, <2>1
  <2> QED  BY <1>1, <2>2
<1> HIDE DEF n, C
<1>4. Top = ctl[n + 1] /\ n + 1 \in DOMAIN ctl /\ n + 1 > 1 /\ (n + 1) - 1 = n /\ n \in DOMAIN C
  <2>1. Top = ctl[Len(ctl)] /\ DOMAIN ctl = 1..Len(ctl) /\ DOMAIN C = 1..Len(C)
    BY <1>2, Known, LenProperties
  <2> QED  BY <1>2, <2>1
<1>5. /\ Base(Top) \in 0..Len(stack) /\ stack \in Seq(Cells) /\ Len(stack) \in Nat
      /\ ctl \in Seq(Codes) /\ InOrder(stack, ctl) /\ Parts(stack, ctl)
      /\ PartOf(stack, ctl, n + 1, Len(stack)) /\ rbp = FrameOf(ctl, n + 1)
  BY <1>2, Known
<1>6. rbp = Top.rbp /\ Base(Top) = rbp - 2
  <2>1. FrameOf(ctl, n + 1) = ctl[n + 1].rbp
    BY <1>1, <1>4, <1>5, FrameFunc
  <2> QED  BY <1>1, <1>4, <1>5, <2>1 DEF Base
<1>7. FuncPart(stack, ctl[n + 1], ctl[n], FrameOf(ctl, n), Len(stack))
  BY <1>1, <1>4, <1>5 DEF PartOf
<1>8. e.kind = "call" /\ e.stage = "call" /\ e \in CallCode
  <2>1. e.kind = "call" /\ e.stage = "call"
    BY <1>2, <1>7 DEF FuncPart
  <2>2. e \in Codes
    BY <1>2, <1>4, ElementOfSeq
  <2> HIDE DEF e
  <2> QED  BY <2>1, <2>2, CodeTypes
<1>9. rbp' = FrameOf(C, n)
  <2>1. stack[rbp] = SavedRbp(FrameOf(ctl, n))
    BY <1>4, <1>6, <1>7 DEF FuncPart
  <2> QED  BY <1>1, <1>2, <2>1 DEF SavedRbp, Cell
<1>10. t \in Seq(Cells) /\ Len(t) = Base(ctl[n + 1]) /\ \A p \in 1..Len(t) : t[p] = stack[p]
  BY <1>1, <1>4, <1>5, <1>6, Cut
<1> HIDE DEF e, D, t
<1>11. InOrder(t, C) /\ Parts(t, C) /\ Len(t) \in Nat
  <2>1. Len(t) \in Nat
    BY <1>10, LenProperties
  <2>2. /\ C \in Seq(Codes) /\ n \in Nat \ {0} /\ Len(ctl) = n + 1 /\ Len(C) = n
        /\ \A c \in 1..n : C[c] = ctl[c]
    BY <1>2
  <2> QED  BY <1>5, <1>10, <2>1, <2>2, PartsWithout
<1>12. CallPart(t, e, Len(t)) /\ Base(e) \in 0..Len(t)
  <2>1. Limit(t, C, n) = Len(t)
    BY <1>2 DEF Limit
  <2>2. PartOf(t, C, n, Len(t)) /\ Base(C[n]) \in 0..Len(t)
    BY <1>4, <1>11, <2>1 DEF Parts, InOrder
  <2> QED  BY <1>8, <2>2 DEF PartOf, e
<1>13. f \in CallCode /\ Base(f) = Base(e) /\ CallPart(t, f, Len(t))
  BY <1>8, <1>12, CallWaits
<1>14. f.kind = "call" /\ f.stage = "back" /\ f \in Codes
  <2>1. f.kind = "call" /\ f.stage = "back"
    BY <1>8 DEF CallCode
  <2> HIDE DEF f
  <2> QED  BY <1>13, <2>1 DEF Codes
<1> HIDE DEF f
<1>15. /\ D \in Seq(Codes) /\ D # <<>> /\ D[1].kind = "func" /\ Waiting(D)
       /\ n > 1 /\ Len(D) = n /\ D[n] = f
       /\ \A c \in 1..n - 1 : D[c] = C[c]
       /\ Front(D) = Front(C)
       /\ FrameOf(D, n) = FrameOf(C, n)
  <2>1. C[Len(C)].kind # "func" /\ f.kind # "func"
    BY <1>2, <1>8, <1>14 DEF e
  <2>2. /\ SetTop(C, f) \in Seq(Codes) /\ SetTop(C, f) # <<>> /\ SetTop(C, f)[1].kind = "func"
        /\ Waiting(SetTop(C, f))
        /\ Len(C) > 1 /\ Len(SetTop(C, f)) = Len(C) /\ SetTop(C, f)[Len(C)] = f
        /\ \A c \in 1..Len(C) - 1 : SetTop(C, f)[c] = C[c]
        /\ Front(SetTop(C, f)) = Front(C)
        /\ FrameOf(SetTop(C, f), Len(C)) = FrameOf(C, Len(C))
    BY <1>2, <1>14, <2>1, TopGoesOn
  <2> QED  BY <1>2, <1>3, <2>2
<1>16. InOrder(t, D) /\ Parts(t, D)
  <2>1. PartOf(t, D, n, Len(t))
    BY <1>13, <1>14, <1>15 DEF PartOf
  <2>2. /\ n <= n + 1 /\ n <= n /\ Base(D[n]) = Base(C[n]) /\ Base(D[n]) <= Len(t)
        /\ \A p \in 1..Base(D[n]) : t[p] = t[p]
    BY <1>2, <1>11, <1>12, <1>13, <1>15 DEF e
  <2> QED  BY <1>2, <1>11, <1>15, <2>1, <2>2, PartsBelow
<1>17. rax' \in Cells
  <2>1. Value(Front(C)) \in Cells
    BY <1>2, <1>10, <1>11, <1>15, BelowAsks
  <2> QED  BY <1>1, <2>1 DEF C
<1>18. Innermost(D, mode', rax', regs')
  <2>1. rax' = Value(Front(D))
    BY <1>1, <1>15 DEF C
  <2> QED  BY <1>1, <1>14, <1>15, <2>1 DEF Innermost
<1>19. regs' \in [1..GpRegs -> Cells]
  BY <1>1, Known, Clobbered
<1>20. /\ ctl' \in Seq(Codes) /\ ctl' # <<>> /\ ctl'[1].kind = "func" /\ Waiting(ctl')
       /\ InOrder(stack', ctl') /\ Parts(stack', ctl') /\ stack' \in Seq(Cells)
       /\ rbp' = FrameOf(ctl', Len(ctl')) /\ Innermost(ctl', mode', rax', regs')
  BY <1>9, <1>10, <1>15, <1>16, <1>18 DEF D, t
<1>21. mode' \in {"eval", "done"} /\ exprs' \in 0..MaxExprs
  BY <1>1, Known
<1> QED  BY <1>17, <1>19, <1>20, <1>21, AllKept

(* main has run its prologue.                                              *)
LEMMA InitInv == Init => IInv
<1> SUFFICES ASSUME Init  PROVE IInv
  OBVIOUS
<1> DEFINE f == [kind |-> "func", rbp |-> 2]
<1>1. PICK n \in 0..MaxLocals : stack = <<ReturnAddress, SavedRbp(0)>> \o [k \in 1..n |-> Junk]
  BY DEF Init
<1>2. /\ rbp = 2 /\ regs = [r \in 1..GpRegs |-> Junk] /\ rax = Junk /\ ctl = <<f>>
      /\ mode = "eval" /\ exprs = 0
  BY DEF Init
<1>3. Junk \in Cells /\ ReturnAddress \in Cells /\ SavedRbp(0) \in Cells
  BY DEF Junk, ReturnAddress, SavedRbp, Cell, Cells
<1>4. n \in Nat
  BY <1>1, CallAssumption
<1>5. stack \in Seq(Cells) /\ Len(stack) = 2 + n
  <2> DEFINE a == <<ReturnAddress, SavedRbp(0)>>
             b == [k \in 1..n |-> Junk]
  <2>1. a \in Seq(Cells) /\ Len(a) = 2
    BY <1>3
  <2>2. b \in Seq(Cells) /\ Len(b) = n
    <3>1. b \in [1..n -> Cells]
      BY <1>3
    <3> HIDE DEF b
    <3> QED  BY <1>4, <3>1, FunctionSeq
  <2>3. stack = a \o b
    BY <1>1
  <2> HIDE DEF a, b
  <2>4. stack \in Seq(Cells) /\ IsBehind(stack, a, b)
    BY <2>1, <2>2, <2>3, Behind1
  <2> QED  BY <2>1, <2>2, <2>4 DEF IsBehind
<1>6. f \in Codes /\ f.kind = "func" /\ f.rbp = 2
  BY DEF Codes, FuncCode
<1> HIDE DEF f
<1>7. ctl \in Seq(Codes) /\ Len(ctl) = 1 /\ ctl[1] = f /\ ctl # <<>> /\ DOMAIN ctl = {1}
  BY <1>2, <1>6
<1>8. InOrder(stack, ctl)
  <2>1. Base(f) = 0
    BY <1>6 DEF Base
  <2> QED  BY <1>4, <1>5, <1>7, <2>1 DEF InOrder
<1>9. Parts(stack, ctl)
  <2>1. Limit(stack, ctl, 1) = 2 + n
    BY <1>5, <1>7 DEF Limit
  <2>2. PartOf(stack, ctl, 1, 2 + n)
    BY <1>4, <1>6, <1>7 DEF PartOf
  <2> QED  BY <1>7, <2>1, <2>2 DEF Parts
<1>10. rbp = FrameOf(ctl, Len(ctl))
  <2>1. Len(stack) \in Nat /\ 1 \in DOMAIN ctl
    BY <1>4, <1>5, <1>7
  <2>2. FrameOf(ctl, 1) = f.rbp
    BY <1>6, <1>7, <1>8, <2>1, FrameFunc
  <2> QED  BY <1>2, <1>6, <1>7, <2>2
<1>11. Waiting(ctl) /\ Innermost(ctl, mode, rax, regs)
  BY <1>6, <1>7 DEF Waiting, Innermost
<1>12. TypeOK
  <2>1. rbp \in DOMAIN stack
    <3>1. DOMAIN stack = 1..Len(stack)
      BY <1>5, LenProperties
    <3> QED  BY <1>2, <1>4, <1>5, <3>1
  <2> QED  BY <1>2, <1>3, <1>5, <1>7, <2>1, CallAssumption DEF TypeOK
<1> QED  BY <1>6, <1>7, <1>8, <1>9, <1>10, <1>11, <1>12 DEF IInv

(* Every step keeps the invariant.                                         *)
LEMMA NextInv == ASSUME SmallOnStack, IInv, [Next]_vars PROVE IInv'
<1>1. CASE Leaf
  BY <1>1, LeafKeeps
<1>2. CASE BeginBinary
  BY <1>2, BeginBinaryKeeps
<1>3. CASE PushLhs
  BY <1>3, PushLhsKeeps
<1>4. CASE Operate
  BY <1>4, OperateKeeps
<1>5. ASSUME NEW args \in ArgLists, NEW callee \in Callees, BeginCall(args, callee)  PROVE IInv'
  BY <1>5, BeginCallKeeps
<1>6. CASE PushArg
  BY <1>6, PushArgKeeps
<1>7. CASE PopRegs
  BY <1>7, PopRegsKeeps
<1>8. CASE CallExternal
  BY <1>8, CallExternalKeeps
<1>9. ASSUME NEW n \in 0..MaxLocals, CallInternal(n)  PROVE IInv'
  BY <1>9, CallInternalKeeps
<1>10. CASE Return
  BY <1>10, ReturnKeeps
<1>11. CASE AfterCall
  BY <1>11, AfterCallKeeps
<1>12. CASE UNCHANGED vars
  BY <1>12 DEF vars, IInv, TypeOK
<1> QED  BY <1>1, <1>2, <1>3, <1>4, <1>5, <1>6, <1>7, <1>8, <1>9, <1>10, <1>11, <1>12 DEF Next
----------------------------------------------------------------------------
(* The stack is always made of the parts of the codes in progress.         *)
THEOREM Invariance == ASSUME SmallOnStack PROVE Spec => []IInv
<1>1. IInv /\ [Next]_vars => IInv'
  BY NextInv
<1> QED  BY InitInv, <1>1, PTL DEF Spec

(* The variables have their types.                                         *)
THEOREM TypesCorrect == ASSUME SmallOnStack PROVE Spec => []TypeOK
<1>1. IInv => TypeOK
  BY DEF IInv
<1> QED  BY Invariance, <1>1, PTL

(* Whatever is on the stack when codegen_func_call runs its test, rsp is a *)
(* multiple of 16 at the call instruction.                                 *)
THEOREM Aligned == ASSUME SmallOnStack PROVE Spec => []AlignedAtCall
<1>1. ASSUME IInv  PROVE AlignedAtCall
  <2> SUFFICES ASSUME AtCall  PROVE (Word * Len(stack)) % (2 * Word) = 0
    BY DEF AlignedAtCall
  <2>1. Len(stack) \in Nat /\ Len(stack) % 2 = 0
    BY <1>1, AtCallFacts, Known
  <2> DEFINE l == Len(stack)
  <2> HIDE DEF l
  <2>2. l \in Nat /\ l % 2 = 0
    BY <2>1 DEF l
  <2>3. (8 * l) % 16 = 0
    BY <2>2
  <2> QED  BY <2>3 DEF l, Word
<1> QED  BY Invariance, <1>1, PTL

(* The word that an operation pops is the one that was pushed for its left *)
(* operand, whatever the right operand did to the stack meanwhile.         *)
THEOREM OperandsAreKept == ASSUME SmallOnStack PROVE Spec => []OperandsSurvive
<1>1. ASSUME IInv  PROVE OperandsSurvive
  <2> SUFFICES ASSUME mode = "done", Top.kind = "binary", Top.pushed
               PROVE  Last(stack) = Top.lhs
    BY DEF OperandsSurvive
  <2> QED  BY <1>1, OperandPushed DEF Last
<1> QED  BY Invariance, <1>1, PTL

(* An expression that ends leaves rsp where it was when it began.          *)
THEOREM StackIsRestored == ASSUME SmallOnStack PROVE Spec => StackRestored
<1>1. ASSUME IInv, [Next]_vars
      PROVE  Len(ctl') < Len(ctl) /\ Top.kind # "func" => Len(stack') = Top.base
  <2> SUFFICES ASSUME Len(ctl') < Len(ctl), Top.kind # "func"  PROVE Len(stack') = Top.base
    OBVIOUS
  <2>1. Base(Top) = Top.base
    BY DEF Base
  <2>2. CASE Operate
    <3>1. stack' = SubSeq(stack, 1, Base(Top)) /\ ctl' = Front(ctl) /\ rbp' = rbp
      <4>1. Top.kind = "binary" /\ Top.pushed /\ stack' = Drop(1) /\ ctl' = Front(ctl) /\ rbp' = rbp
        BY <2>2 DEF Operate
      <4>2. Len(stack) - 1 = Base(Top)
        BY <1>1, <4>1, OperandPushed
      <4> QED  BY <4>1, <4>2 DEF Drop
    <3> QED  BY <1>1, <2>1, <3>1, CodeEnds
  <2>3. CASE AfterCall
    <3>1. stack' = SubSeq(stack, 1, Base(Top)) /\ ctl' = Front(ctl) /\ rbp' = rbp
      <4>1. /\ Top.kind = "call" /\ Top.stage = "back" /\ stack' = Drop(popped_words(Top))
            /\ ctl' = Front(ctl) /\ rbp' = rbp
        BY <2>3 DEF AfterCall
      <4> QED  BY <1>1, <4>1, CallIsBack DEF Drop
    <3> QED  BY <1>1, <2>1, <3>1, CodeEnds
  <2>4. CASE Return
    BY <2>4 DEF Return
  <2>5. ASSUME NEW f, ctl' = Append(ctl, f)  PROVE FALSE
    <3>1. ctl \in Seq(Codes) /\ Len(ctl) \in Nat
      BY <1>1, Known
    <3>2. Len(ctl') = Len(ctl) + 1
      BY <2>5, <3>1
    <3> QED  BY <3>1, <3>2
  <2>6. ASSUME NEW f, ctl' = SetTop(ctl, f)  PROVE FALSE
    <3>1. ctl \in Seq(Codes) /\ Len(ctl) \in Nat
      BY <1>1, Known
    <3>2. Len(ctl') = Len(ctl)
      BY <2>6, <3>1, LenProperties DEF SetTop
    <3> QED  BY <3>1, <3>2
  <2>7. ASSUME ctl' = ctl  PROVE FALSE
    <3>1. Len(ctl) \in Nat
      BY <1>1, Known
    <3> QED  BY <2>7, <3>1
  <2>8. CASE Leaf
    BY <2>7, <2>8 DEF Leaf
  <2>9. CASE BeginBinary
    BY <2>5, <2>9 DEF BeginBinary
  <2>10. CASE PushLhs
    BY <2>6, <2>10 DEF PushLhs
  <2>11. ASSUME NEW args \in ArgLists, NEW callee \in Callees, BeginCall(args, callee)  PROVE FALSE
    BY <2>5, <2>11 DEF BeginCall
  <2>12. CASE PushArg
    BY <2>6, <2>12 DEF PushArg
  <2>13. CASE PopRegs
    BY <2>6, <2>13 DEF PopRegs
  <2>14. CASE CallExternal
    BY <2>6, <2>14 DEF CallExternal
  <2>15. ASSUME NEW n \in 0..MaxLocals, CallInternal(n)  PROVE FALSE
    BY <2>5, <2>15 DEF CallInternal
  <2>16. CASE UNCHANGED vars
    BY <2>7, <2>16 DEF vars
  <2> QED
    BY <1>1, <2>2, <2>3, <2>4, <2>8, <2>9, <2>10, <2>11, <2>12, <2>13, <2>14, <2>15, <2>16 DEF Next
<1>2. IInv /\ [Next]_vars =>
        [Len(ctl') < Len(ctl) /\ Top.kind # "func" => Len(stack') = Top.base]_vars
  BY <1>1
<1> QED  BY Invariance, <1>2, PTL DEF Spec, StackRestored

(* The words of an argument are those the plan reckons with.               *)
LEMMA WordsAre ==
  ASSUME NEW args \in ArgLists, NEW i \in DOMAIN args, NEW v
  PROVE  DOMAIN Words(args[i], v) = 1..Plan(args).words[i]
<1> DEFINE a == args[i]
           n == Plan(args).words[i]
<1>1. n = WordsOf(SizePassed(a))
  BY PlanFacts
<1> HIDE DEF a, n
<1>2. CASE a.array
  <2>1. n = 1
    BY <1>1, <1>2, WordsType DEF SizePassed, Word
  <2>2. DOMAIN Words(a, v) = 1..1
    BY <1>2 DEF Words
  <2> QED  BY <2>1, <2>2 DEF a, n
<1>3. CASE ~a.array
  <2>1. n = WordsOf(a.size) /\ DOMAIN Words(a, v) = 1..WordsOf(a.size)
    BY <1>1, <1>3 DEF SizePassed, Words
  <2> QED  BY <2>1 DEF a, n
<1> QED  BY <1>2, <1>3

(* Where every argument in a register is one word, it has only one.        *)
LEMMA OneWord ==
  ASSUME Plain, NEW args \in ArgLists, NEW i \in InRegs(Plan(args))
  PROVE  Plan(args).words[i] = 1
<1> DEFINE p == Plan(args)
<1>1. i \in DOMAIN args
  BY PlanFacts
<1>2. p.given[i] \in 0..2 /\ (p.given[i] = 1 => p.words[i] = 1) /\ p.given[i] # 0
  BY <1>1, PlanFacts DEF InRegs
<1>3. p.given[i] <= 1
  BY <1>1 DEF Plain
<1> HIDE DEF p
<1>4. p.words[i] = 1
  BY <1>2, <1>3
<1> QED  BY <1>4 DEF p

(* The arguments are where the calling convention has them, at every call. *)
THEOREM ArgsArePassed == ASSUME SmallOnStack, Plain PROVE Spec => []ArgsAtCall
<1>1. ASSUME IInv  PROVE ArgsAtCall
  <2> DEFINE e == Top
             p == e.plan
  <2> SUFFICES ASSUME AtCall, NEW i \in DOMAIN e.args, NEW k \in DOMAIN Words(e.args[i], e.vals[i])
               PROVE  Content(e, i, k) =
                        IF i \in InRegs(p)
                        THEN regs[Before(p.given, InRegs(p), i) + k]
                        ELSE stack[Len(stack) - Before(p.words, OnStack(p), i) - (k - 1)]
    BY DEF ArgsAtCall, Content
  <2>1. /\ e \in CallCode /\ p = Plan(e.args) /\ e.todo \subseteq DOMAIN e.args /\ e.todo = {}
        /\ Len(stack) = Full(e) /\ Arguments(stack, e, Len(stack))
        /\ \A j \in InRegs(p) : regs[Before(p.given, InRegs(p), j) + 1] = Content(e, j, 1)
    BY <1>1, AtCallFacts
  <2>2. e.args \in ArgLists /\ OnStack(p) \cup InRegs(p) = DOMAIN e.args
    BY <2>1, CallFacts
  <2>3. k \in 1..p.words[i]
    BY <2>1, <2>2, WordsAre
  <2>4. CASE i \in InRegs(p)
    <3>1. p.words[i] = 1
      BY <2>1, <2>2, <2>4, OneWord
    <3>2. k = 1
      <4> HIDE DEF p
      <4> QED  BY <2>3, <3>1
    <3> QED  BY <2>1, <2>4, <3>2
  <2>5. CASE i \notin InRegs(p)
    <3>1. i \in OnStack(p) \ e.todo
      BY <2>1, <2>2, <2>5
    <3>2. stack[InMemory(e, i, k)] = Content(e, i, k)
      BY <2>1, <2>3, <3>1 DEF Arguments
    <3> QED  BY <2>1, <2>5, <3>2 DEF InMemory
  <2> QED  BY <2>4, <2>5
<1> QED  BY Invariance, <1>1, PTL

(* Every running function has its frame and its arguments, at the offsets  *)
(* that register_params has given its parameters.                          *)
THEOREM FramesAreIntact == ASSUME SmallOnStack, Plain PROVE Spec => []FramesIntact
<1>1. ASSUME IInv  PROVE FramesIntact
  <2> SUFFICES ASSUME NEW c \in 2..Len(ctl), ctl[c].kind = "func"
               PROVE  LET fp   == ctl[c].rbp
                          call == ctl[c - 1]
                      IN
                      /\ stack[fp - 1] = ReturnAddress
                      /\ stack[fp] = SavedRbp(FrameOf(ctl, c - 1))
                      /\ \A i \in DOMAIN call.args :
                           LET words == Words(call.args[i], call.vals[i])
                               slot  == stack_offset(call.plan, i) \div Word
                           IN  \A k \in DOMAIN words : stack[fp + slot - (k - 1)] = words[k]
    BY DEF FramesIntact
  <2> DEFINE fp == ctl[c].rbp
             e  == ctl[c - 1]
             p  == e.plan
  <2>1. c \in DOMAIN ctl /\ c - 1 \in DOMAIN ctl /\ c > 1 /\ c - 1 # Len(ctl) /\ (c - 1) + 1 = c
    <3>1. DOMAIN ctl = 1..Len(ctl) /\ Len(ctl) \in Nat
      BY <1>1, Known, LenProperties
    <3> QED  BY <3>1
  <2>2. /\ e.kind = "call" /\ e.stage = "call"
        /\ stack[fp - 1] = ReturnAddress /\ stack[fp] = SavedRbp(FrameOf(ctl, c - 1))
        /\ \A i \in InRegs(p) : stack[fp + 1 + Before(p.words, InRegs(p), i)] = Content(e, i, 1)
    <3>1. FuncPart(stack, ctl[c], ctl[c - 1], FrameOf(ctl, c - 1), Limit(stack, ctl, c))
      BY <1>1, <2>1, Known DEF Parts, PartOf
    <3> QED  BY <3>1 DEF FuncPart
  <2>3. e \in CallCode /\ ctl[c] \in FuncCode
    <3>1. e \in Codes /\ ctl[c] \in Codes
      BY <1>1, <2>1, Known, ElementOfSeq
    <3> HIDE DEF e
    <3> QED  BY <2>2, <3>1, CodeTypes
  <2>4. fp \in Nat
    BY <2>3 DEF FuncCode
  <2>5. CallPart(stack, e, fp - 2)
    <3>1. Limit(stack, ctl, c - 1) = fp - 2
      BY <2>1 DEF Limit, Base
    <3>2. PartOf(stack, ctl, c - 1, fp - 2)
      BY <1>1, <2>1, <3>1, Known DEF Parts
    <3> QED  BY <2>2, <3>2 DEF PartOf
  <2>6. /\ p = Plan(e.args) /\ e.todo \subseteq DOMAIN e.args /\ e.todo = {}
        /\ fp - 2 = Height(e) /\ Arguments(stack, e, fp - 2)
    BY <2>2, <2>5 DEF CallPart
  <2>7. Height(e) = Full(e)
    BY <2>2 DEF Height
  <2>8. e.args \in ArgLists /\ OnStack(p) \cup InRegs(p) = DOMAIN e.args /\ OnStack(p) \cap InRegs(p) = {}
    BY <2>3, <2>6, CallFacts
  <2> HIDE DEF e, fp
  <2>9. ASSUME NEW i \in DOMAIN e.args, NEW k \in DOMAIN Words(e.args[i], e.vals[i])
        PROVE  stack[fp + stack_offset(p, i) \div Word - (k - 1)] = Content(e, i, k)
    <3>1. k \in 1..p.words[i]
      BY <2>6, <2>8, WordsAre
    <3>2. CASE i \in InRegs(p)
      <4> DEFINE b == Before(p.words, InRegs(p), i)
      <4>1. p.words[i] = 1
        BY <2>6, <2>8, <3>2, OneWord
      <4>2. k = 1
        <5> HIDE DEF p
        <5> QED  BY <3>1, <4>1
      <4>3. b \in Nat
        <5>1. \A j \in InRegs(Plan(e.args)) : Before(Plan(e.args).words, InRegs(Plan(e.args)), j) \in Nat
          BY <2>8, RegsOrder
        <5> QED  BY <2>6, <3>2, <5>1
      <4>4. stack_offset(p, i) = Word + Word * b
        BY <2>8, <3>2 DEF stack_offset
      <4>5. stack[fp + 1 + b] = Content(e, i, 1)
        BY <2>2, <3>2 DEF e, fp
      <4> HIDE DEF b, p
      <4>6. stack_offset(p, i) \div Word = 1 + b
        BY <4>3, <4>4 DEF Word
      <4>7. fp + (1 + b) - (1 - 1) = fp + 1 + b
        BY <2>4, <4>3
      <4> QED  BY <4>2, <4>5, <4>6, <4>7
    <3>3. CASE i \in OnStack(p)
      <4> DEFINE b == Before(p.words, OnStack(p), i)
      <4>1. stack[InMemory(e, i, k)] = Content(e, i, k)
        BY <2>6, <3>1, <3>3 DEF Arguments
      <4>2. InMemory(e, i, k) = (fp - 2) - b - (k - 1)
        BY <2>6, <2>7 DEF InMemory
      <4>3. b \in Nat
        <5>1. OnStack(Plan(e.args)) \in SUBSET DOMAIN e.args
          BY <2>6, <2>8
        <5>2. \A j \in DOMAIN e.args : Before(Plan(e.args).words, OnStack(Plan(e.args)), j) \in Nat
          BY <2>8, <5>1, PlanTotals
        <5> QED  BY <2>6, <5>2
      <4>4. stack_offset(p, i) = -(2 * Word) - Word * b
        BY <3>3 DEF stack_offset
      <4>5. k \in Int
        <5>1. p.words[i] \in Int
          <6>1. Plan(e.args).words[i] \in Nat \ {0}
            BY <2>8, PlanFacts
          <6>2. p.words[i] \in Nat \ {0}
            BY <2>6, <6>1
          <6> HIDE DEF p
          <6> QED  BY <6>2
        <5> QED  BY <3>1, <5>1
      <4> HIDE DEF b, p
      <4>6. stack_offset(p, i) \div Word = -2 - b
        BY <4>3, <4>4 DEF Word
      <4>7. fp + (-2 - b) - (k - 1) = (fp - 2) - b - (k - 1)
        BY <2>4, <4>3, <4>5
      <4> QED  BY <4>1, <4>2, <4>6, <4>7
    <3> QED  BY <2>8, <3>2, <3>3
  <2> QED  BY <2>2, <2>9 DEF e, fp, Content
<1> QED  BY Invariance, <1>1, PTL
=============================================================================
