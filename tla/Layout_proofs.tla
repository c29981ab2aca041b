---------------------------- MODULE Layout_proofs ----------------------------
(***************************************************************************)
(* Proofs about Layout for every set of scalars, every length of arrays,   *)
(* every width of bit-fields and any number of members and of types.       *)
(***************************************************************************)
EXTENDS Layout, AbiLemmas, FiniteSetTheorems

(* A multiple of an alignment is one of every smaller alignment, all being *)
(* powers of two: why a type's largest alignment serves all its members.   *)
LEMMA Divides ==
  ASSUME NEW a \in Alignments, NEW b \in Alignments, a <= b, NEW n \in Int, n % b = 0
  PROVE  n % a = 0
<1>1. CASE b = 1  BY <1>1 DEF Alignments
<1>2. CASE b = 2  BY <1>2 DEF Alignments
<1>3. CASE b = 4  BY <1>3 DEF Alignments
<1>4. CASE b = 8  BY <1>4 DEF Alignments
<1> QED  BY <1>1, <1>2, <1>3, <1>4 DEF Alignments

(* A member's place, and the place of a scalar in it, add up to a multiple *)
(* of the scalar's alignment.                                              *)
LEMMA SumMultiple ==
  ASSUME NEW a \in Alignments, NEW m \in Int, NEW n \in Int, m % a = 0, n % a = 0
  PROVE  (m + n) % a = 0
<1>1. CASE a = 1  BY <1>1
<1>2. CASE a = 2  BY <1>2
<1>3. CASE a = 4  BY <1>3
<1>4. CASE a = 8  BY <1>4
<1> QED  BY <1>1, <1>2, <1>3, <1>4 DEF Alignments

(* So do the places of an array's elements, which are multiples of the     *)
(* element's size.                                                         *)
LEMMA ProductMultiple ==
  ASSUME NEW a \in Alignments, NEW k \in Nat, NEW n \in Nat, n % a = 0
  PROVE  (k * n) % a = 0 /\ (n * k) % a = 0
<1> DEFINE q == n \div a
<1>1. q \in Int /\ n = a * q
  <2>1. CASE a = 1  BY <2>1
  <2>2. CASE a = 2  BY <2>2
  <2>3. CASE a = 4  BY <2>3
  <2>4. CASE a = 8  BY <2>4
  <2> QED  BY <2>1, <2>2, <2>3, <2>4 DEF Alignments
<1> DEFINE z == k * q
<1> HIDE DEF q
<1>2. z \in Int  BY <1>1
<1>3. k * n = a * z /\ n * k = a * z
  <2>1. k * (a * q) = a * (k * q)  BY <1>1 DEF Alignments
  <2>2. (a * q) * k = a * (k * q)  BY <1>1 DEF Alignments
  <2> QED  BY <1>1, <2>1, <2>2
<1> HIDE DEF z
<1>4. (a * z) % a = 0
  <2>1. CASE a = 1  BY <2>1, <1>2
  <2>2. CASE a = 2  BY <2>2, <1>2
  <2>3. CASE a = 4  BY <2>3, <1>2
  <2>4. CASE a = 8  BY <2>4, <1>2
  <2> QED  BY <2>1, <2>2, <2>3, <2>4 DEF Alignments
<1> QED  BY <1>3, <1>4

(* Elements of an array with a smaller index end at a smaller place.       *)
LEMMA ProductMonotone ==
  ASSUME NEW a \in Nat, NEW b \in Nat, NEW s \in Nat, a <= b
  PROVE  a * s <= b * s
<1> DEFINE d == b - a
<1>1. d \in Nat /\ b = a + d  OBVIOUS
<1> HIDE DEF d
<1>2. (a + d) * s = a * s + d * s /\ d * s \in Nat /\ a * s \in Nat  BY <1>1
<1> QED  BY <1>1, <1>2

----------------------------------------------------------------------------
(* A type that members can have.                                           *)
Good(t) == /\ WellTyped(t)
           /\ t.plain => Aligned(t)
           /\ \A l \in t.leaves : l.offset + l.align <= t.size

(* The scalars that the walks start from are such types.                   *)
LEMMA ScalarGood ==
  ASSUME NEW s \in Alignments
  PROVE  Good(Scalar(s))
<1>1. s % s = 0 /\ 0 % s = 0 /\ s \in Nat  BY DEF Alignments
<1> QED  BY <1>1 DEF Good, Scalar, WellTyped, Aligned, Leaf

(* So is an array of such a type, as type_sizeof and type_alignof have it. *)
LEMMA ArrayGood ==
  ASSUME NEW t, Good(t), NEW n \in Nat \ {0}
  PROVE  Good(Array(t, n))
<1> DEFINE A == Array(t, n)
<1>1. /\ A.size = t.size * n /\ A.align = t.align /\ A.plain = t.plain
      /\ t.size \in Nat /\ t.align \in Alignments /\ t.plain \in BOOLEAN
  BY DEF Array, Good, WellTyped
<1>2. A.size \in Nat
  BY <1>1
<1>3. ASSUME NEW m \in A.leaves
      PROVE  \E l \in t.leaves, k \in 0..(n - 1) : m = Leaf(l.offset + k * t.size, l.align)
  BY <1>3 DEF Array, Shifted
<1>4. ASSUME NEW m \in A.leaves
      PROVE  /\ m.offset \in Nat /\ m.align \in Alignments
             /\ m.offset + m.align <= A.size
             /\ t.plain => m.offset % m.align = 0 /\ m.align <= t.align
  <2>1. PICK l \in t.leaves, k \in 0..(n - 1) : m = Leaf(l.offset + k * t.size, l.align)
    BY <1>3, <1>4
  <2>2. m.offset = l.offset + k * t.size /\ m.align = l.align
    BY <2>1 DEF Leaf
  <2>3. l.offset \in Nat /\ l.align \in Alignments /\ l.offset + l.align <= t.size
    BY <2>1 DEF Good, WellTyped
  <2>4. k \in Nat /\ k + 1 <= n /\ k * t.size \in Nat
    BY <1>1, <2>1
  <2>5. k * t.size + t.size <= t.size * n
    <3>1. (k + 1) * t.size = k * t.size + t.size  BY <1>1, <2>4
    <3>2. n * t.size = t.size * n  BY <1>1
    <3>3. (k + 1) * t.size <= n * t.size  BY <1>1, <2>4, ProductMonotone
    <3> QED  BY <3>1, <3>2, <3>3, <1>1, <2>4
  <2>6. m.offset \in Nat /\ m.offset + m.align <= A.size
    <3> DEFINE z == k * t.size
    <3>1. z \in Nat /\ z + t.size <= A.size /\ m.offset = l.offset + z
      BY <1>1, <2>2, <2>4, <2>5
    <3>2. l.align \in Nat  BY <2>3 DEF Alignments
    <3> HIDE DEF z
    <3> QED  BY <3>1, <3>2, <2>2, <2>3, <1>1, <1>2
  <2>7. ASSUME t.plain  PROVE m.offset % m.align = 0 /\ m.align <= t.align
    <3>1. t.size % t.align = 0 /\ l.offset % l.align = 0 /\ l.align <= t.align
      BY <2>1, <2>7 DEF Good, Aligned
    <3>2. t.size % l.align = 0  BY <3>1, <2>3, <1>1, Divides
    <3>3. (k * t.size) % l.align = 0  BY <3>2, <2>3, <2>4, <1>1, ProductMultiple
    <3>4. (l.offset + k * t.size) % l.align = 0  BY <3>1, <3>3, <2>3, <2>4, SumMultiple
    <3> QED  BY <3>1, <3>4, <2>2
  <2> QED  BY <2>2, <2>3, <2>6, <2>7
<1>5. ASSUME t.plain  PROVE A.size % A.align = 0
  <2>1. t.size % t.align = 0  BY <1>5 DEF Good, Aligned
  <2>2. (t.size * n) % t.align = 0  BY <2>1, <1>1, ProductMultiple
  <2> QED  BY <2>2, <1>1
<1>6. WellTyped(A)
  <2> HIDE DEF A
  <2> QED  BY <1>1, <1>2, <1>4 DEF WellTyped
<1>7. A.plain => Aligned(A)
  <2> HIDE DEF A
  <2> QED  BY <1>1, <1>4, <1>5 DEF Aligned
<1>8. \A m \in A.leaves : m.offset + m.align <= A.size
  <2> HIDE DEF A
  <2> QED  BY <1>4
<1> QED  BY <1>6, <1>7, <1>8 DEF Good
----------------------------------------------------------------------------
(* The inductive invariant says it of all types there are.                 *)
LEMMA KnownGood ==
  ASSUME IInv, NEW t \in known  PROVE Good(t)
BY DEF IInv, TypeOK, LeavesAligned, LeavesWithin, Good

(* The inductive invariant holds before the first member,                  *)
LEMMA InitInv == Init => IInv
<1> SUFFICES ASSUME Init PROVE IInv  OBVIOUS
<1>1. /\ \A t \in known : \E s \in Alignments : t = Scalar(s)
      /\ kind \in {"struct", "union"} /\ members = {} /\ next_offset = 0
      /\ struct_align = 0 /\ type_align = 0 /\ steps = 0
  BY LayoutAssumption DEF Init, Start
<1>2. \A t \in known : Good(t)  BY <1>1, ScalarGood
<1>3. TypeOK  BY <1>1, <1>2 DEF TypeOK, Good
<1>4. MembersApart  BY <1>1 DEF MembersApart
<1>5. LeavesAligned /\ LeavesWithin  BY <1>2 DEF LeavesAligned, LeavesWithin, Good
<1>6. Walk  BY <1>1, FS_EmptySet DEF Walk
<1> QED  BY <1>3, <1>4, <1>5, <1>6 DEF IInv

(* The larger of two alignments, or of one and none yet.                   *)
LEMMA LargestAlign ==
  ASSUME NEW a \in Alignments \cup {0}, NEW b \in Alignments
  PROVE  /\ Largest(a, b) \in Alignments /\ a <= Largest(a, b) /\ b <= Largest(a, b)
         /\ Largest(a, b) # 0
BY DEF Largest, Alignments

(* A member more: its place is after all others'.                          *)
LEMMA NextPlace ==
  ASSUME IInv, NEW x, x.place = Cardinality(members) + 1
  PROVE  /\ IsFiniteSet(members \cup {x}) /\ Cardinality(members) \in Nat
         /\ \A m \in members : m.place < x.place
         /\ \A m \in members \cup {x} : m.place <= Cardinality(members \cup {x})
<1>1. IsFiniteSet(members) /\ \A m \in members : m.place <= Cardinality(members)
  BY DEF IInv, Walk
<1>2. Cardinality(members) \in Nat  BY <1>1, FS_CardinalityType
<1>3. \A m \in members : m.place \in Nat  BY DEF IInv, TypeOK
<1>4. \A m \in members : m.place < x.place  BY <1>1, <1>2, <1>3
<1>5. x \notin members  BY <1>2, <1>3, <1>4
<1>6. IsFiniteSet(members \cup {x}) /\ Cardinality(members \cup {x}) = Cardinality(members) + 1
  BY <1>1, <1>5, FS_AddElement
<1> QED  BY <1>1, <1>2, <1>3, <1>4, <1>6

(* An iteration of the walk over a structure.                              *)
LEMMA StructStep ==
  ASSUME IInv, NEW t, WellTyped(t), NEW size \in Nat, NEW align \in Alignments,
         \A l \in t.leaves : l.offset + l.align <= size,
         t.plain => /\ align = t.align
                    /\ \A l \in t.leaves : l.offset % l.align = 0 /\ l.align <= t.align,
         StructMember(t, size, align)
  PROVE  IInv'
<1> DEFINE offset == to_aligned(next_offset, align)
           x == Placed(offset, size, align, t)
<1>1. /\ x.place = Cardinality(members) + 1 /\ x.offset = offset /\ x.size = size
      /\ x.align = align /\ x.plain = t.plain /\ x.leaves = t.leaves
  BY DEF Placed
<1>2. /\ kind = "struct" /\ next_offset' = offset + size /\ members' = members \cup {x}
      /\ struct_align' = Largest(struct_align, align) /\ type_align' = Largest(type_align, t.align)
      /\ known' = known /\ kind' = kind /\ steps' = steps + 1
  BY DEF StructMember, member_offset, Room
<1>3. /\ next_offset \in Nat /\ struct_align \in Alignments \cup {0} /\ type_align \in Alignments \cup {0}
      /\ steps \in Nat /\ \A m \in members : WellTyped(m) /\ m.offset \in Nat /\ m.place \in Nat
  BY DEF IInv, TypeOK
<1>4. t.size \in Nat /\ t.align \in Alignments /\ t.plain \in BOOLEAN
      /\ \A l \in t.leaves : l.offset \in Nat /\ l.align \in Alignments
  BY DEF WellTyped
<1>5. offset \in Nat /\ next_offset <= offset /\ offset % align = 0
  BY <1>3, ToAligned
<1> HIDE DEF offset, x
<1>6. /\ IsFiniteSet(members') /\ Cardinality(members) \in Nat
      /\ \A m \in members : m.place < x.place
      /\ \A m \in members' : m.place <= Cardinality(members')
  BY <1>1, <1>2, NextPlace
<1>7. /\ struct_align' \in Alignments /\ type_align' \in Alignments
      /\ type_align <= type_align' /\ t.align <= type_align'
  BY <1>2, <1>3, <1>4, LargestAlign
<1>8. WellTyped(x) /\ x.offset \in Nat /\ x.place \in Nat
  BY <1>1, <1>4, <1>5, <1>6 DEF WellTyped
<1>9. TypeOK'
  <2>1. next_offset' \in Nat /\ steps' \in Nat  BY <1>2, <1>3, <1>5
  <2>2. 0 \notin Alignments  BY DEF Alignments
  <2>3. \A m \in members' : WellTyped(m) /\ m.offset \in Nat /\ m.place \in Nat
    BY <1>2, <1>3, <1>8
  <2>4. (\A u \in known' : WellTyped(u)) /\ kind' \in {"struct", "union"}
    BY <1>2 DEF IInv, TypeOK
  <2> QED  BY <2>1, <2>2, <2>3, <2>4, <1>7 DEF TypeOK, WellTyped
<1>10. MembersApart'
  <2>1. \A m \in members : m.size \in Nat /\ m.offset + m.size <= next_offset
    BY <1>3 DEF IInv, MembersApart, WellTyped
  <2>2. \A m \in members' : m.offset + m.size <= next_offset'
    BY <2>1, <1>1, <1>2, <1>3, <1>5
  <2>3. ASSUME NEW m \in members', NEW n \in members', m.place < n.place
        PROVE  m.offset + m.size <= n.offset
    <3>1. CASE m \in members /\ n \in members  BY <3>1, <2>3, <1>2 DEF IInv, MembersApart
    <3>2. CASE m \in members /\ n = x  BY <3>2, <2>1, <1>1, <1>3, <1>5
    <3>3. CASE m = x  BY <3>3, <2>3, <1>2, <1>3, <1>6, <1>8
    <3> QED  BY <3>1, <3>2, <3>3, <1>2
  <2> QED  BY <2>2, <2>3 DEF MembersApart
<1>11. LeavesAligned' /\ LeavesWithin'
  BY <1>2 DEF IInv, LeavesAligned, LeavesWithin
<1>12. Walk'
  <2>1. \A m \in members' : \A l \in m.leaves : l.offset + l.align <= m.size
    BY <1>1, <1>2 DEF IInv, Walk
  <2>2. ASSUME NEW m \in members', m.plain, NEW l \in m.leaves
        PROVE  (m.offset + l.offset) % l.align = 0 /\ l.align <= type_align'
    <3>1. CASE m \in members
      <4>1. (m.offset + l.offset) % l.align = 0 /\ l.align <= type_align
        BY <2>2, <3>1 DEF IInv, Walk
      <4>2. l.align \in Nat /\ type_align \in Nat /\ type_align' \in Nat
        BY <2>2, <3>1, <1>3, <1>7 DEF WellTyped, Alignments
      <4> QED  BY <4>1, <4>2, <1>7
    <3>2. CASE m = x
      <4>1. /\ l \in t.leaves /\ align = t.align /\ l.offset % l.align = 0 /\ l.align <= t.align
            /\ l.align \in Alignments /\ l.offset \in Nat
        BY <2>2, <3>2, <1>1, <1>4
      <4>2. offset % l.align = 0  BY <4>1, <1>5, Divides
      <4>3. (offset + l.offset) % l.align = 0  BY <4>1, <4>2, <1>5, SumMultiple
      <4>4. l.align <= type_align'  BY <4>1, <1>4, <1>7 DEF Alignments
      <4> QED  BY <4>3, <4>4, <3>2, <1>1
    <3> QED  BY <3>1, <3>2, <1>2
  <2>3. ASSUME \A m \in members' : m.plain  PROVE struct_align' = type_align'
    <3>1. t.plain /\ struct_align = type_align  BY <2>3, <1>1, <1>2 DEF IInv, Walk
    <3> QED  BY <3>1, <1>2
  <2> QED  BY <2>1, <2>2, <2>3, <1>6 DEF Walk
<1> QED  BY <1>9, <1>10, <1>11, <1>12 DEF IInv

(* An iteration of the walk over a union: the size is the largest.         *)
LEMMA UnionStep ==
  ASSUME IInv, NEW t, Good(t), UnionMember(t)
  PROVE  IInv'
<1> DEFINE x == Placed(0, t.size, t.align, t)
           padded == to_aligned(t.size, t.align)
<1>1. /\ x.place = Cardinality(members) + 1 /\ x.offset = 0 /\ x.size = t.size
      /\ x.align = t.align /\ x.plain = t.plain /\ x.leaves = t.leaves
  BY DEF Placed
<1>2. /\ kind = "union" /\ next_offset' = Largest(next_offset, padded) /\ members' = members \cup {x}
      /\ struct_align' = Largest(struct_align, t.align) /\ type_align' = Largest(type_align, t.align)
      /\ known' = known /\ kind' = kind /\ steps' = steps + 1
  BY DEF UnionMember, Room
<1>3. /\ next_offset \in Nat /\ struct_align \in Alignments \cup {0} /\ type_align \in Alignments \cup {0}
      /\ steps \in Nat /\ \A m \in members : WellTyped(m) /\ m.offset \in Nat /\ m.place \in Nat
  BY DEF IInv, TypeOK
<1>4. t.size \in Nat /\ t.align \in Alignments /\ t.plain \in BOOLEAN
      /\ \A l \in t.leaves : l.offset \in Nat /\ l.align \in Alignments
  BY DEF Good, WellTyped
<1>5. padded \in Nat /\ t.size <= padded
  BY <1>4, ToAligned
<1> HIDE DEF x, padded
<1>6. /\ IsFiniteSet(members') /\ \A m \in members' : m.place <= Cardinality(members')
      /\ x.place \in Nat
  BY <1>1, <1>2, NextPlace
<1>7. /\ struct_align' \in Alignments /\ type_align' \in Alignments
      /\ type_align <= type_align' /\ t.align <= type_align'
  BY <1>2, <1>3, <1>4, LargestAlign
<1>8. next_offset' \in Nat /\ next_offset <= next_offset' /\ padded <= next_offset'
  BY <1>2, <1>3, <1>5 DEF Largest
<1>9. TypeOK'
  <2>1. 0 \notin Alignments  BY DEF Alignments
  <2>2. \A m \in members' : WellTyped(m) /\ m.offset \in Nat /\ m.place \in Nat
    BY <1>1, <1>2, <1>3, <1>4, <1>6 DEF WellTyped
  <2>3. (\A u \in known' : WellTyped(u)) /\ kind' \in {"struct", "union"} /\ steps' \in Nat
    BY <1>2, <1>3 DEF IInv, TypeOK
  <2> QED  BY <2>1, <2>2, <2>3, <1>7, <1>8 DEF TypeOK, WellTyped
<1>10. MembersApart'
  <2>1. \A m \in members : m.size \in Nat /\ m.offset + m.size <= next_offset
    BY <1>3 DEF IInv, MembersApart, WellTyped
  <2>2. \A m \in members' : m.offset + m.size <= next_offset'
    BY <2>1, <1>1, <1>2, <1>3, <1>4, <1>5, <1>8
  <2> QED  BY <2>2, <1>2 DEF MembersApart
<1>11. LeavesAligned' /\ LeavesWithin'
  BY <1>2 DEF IInv, LeavesAligned, LeavesWithin
<1>12. Walk'
  <2>1. \A m \in members' : \A l \in m.leaves : l.offset + l.align <= m.size
    BY <1>1, <1>2 DEF IInv, Walk, Good
  <2>2. ASSUME NEW m \in members', m.plain, NEW l \in m.leaves
        PROVE  (m.offset + l.offset) % l.align = 0 /\ l.align <= type_align'
    <3>1. CASE m \in members
      <4>1. (m.offset + l.offset) % l.align = 0 /\ l.align <= type_align
        BY <2>2, <3>1 DEF IInv, Walk
      <4>2. l.align \in Nat /\ type_align \in Nat /\ type_align' \in Nat
        BY <2>2, <3>1, <1>3, <1>7 DEF WellTyped, Alignments
      <4> QED  BY <4>1, <4>2, <1>7
    <3>2. CASE m = x
      <4>1. /\ l \in t.leaves /\ l.offset % l.align = 0 /\ l.align <= t.align
            /\ l.align \in Alignments /\ l.offset \in Nat
        BY <2>2, <3>2, <1>1, <1>4 DEF Good, Aligned
      <4>2. l.align <= type_align'  BY <4>1, <1>4, <1>7 DEF Alignments
      <4>3. m.offset + l.offset = l.offset  BY <4>1, <3>2, <1>1
      <4> QED  BY <4>1, <4>2, <4>3
    <3> QED  BY <3>1, <3>2, <1>2
  <2>3. ASSUME \A m \in members' : m.plain  PROVE struct_align' = type_align'
    <3>1. struct_align = type_align  BY <2>3, <1>2 DEF IInv, Walk
    <3> QED  BY <3>1, <1>2
  <2> QED  BY <2>1, <2>2, <2>3, <1>6 DEF Walk
<1> QED  BY <1>9, <1>10, <1>11, <1>12 DEF IInv

(* The type that a walk has made is as good as those of its members.       *)
LEMMA FinishedGood ==
  ASSUME IInv, members # {}
  PROVE  Good(finished)
<1> DEFINE F == finished
<1>1. /\ F.size = to_aligned(next_offset, struct_align) /\ F.align = type_align
      /\ F.plain = (\A m \in members : m.plain)
      /\ F.leaves = UNION {Shifted(m.leaves, m.offset) : m \in members}
  BY DEF finished
<1>2. /\ next_offset \in Nat /\ struct_align \in Alignments /\ type_align \in Alignments
      /\ \A m \in members : WellTyped(m) /\ m.offset \in Nat
  BY DEF IInv, TypeOK
<1>3. F.size \in Nat /\ next_offset <= F.size /\ F.size % struct_align = 0
  BY <1>1, <1>2, ToAligned
<1> HIDE DEF F
<1>4. ASSUME NEW l \in F.leaves
      PROVE  /\ l.offset \in Nat /\ l.align \in Alignments /\ l.offset + l.align <= F.size
             /\ F.plain => l.offset % l.align = 0 /\ l.align <= F.align
  <2>1. PICK m \in members : \E k \in m.leaves : l = Leaf(k.offset + m.offset, k.align)
    BY <1>1, <1>4 DEF Shifted
  <2>2. PICK k \in m.leaves : l = Leaf(k.offset + m.offset, k.align)
    BY <2>1
  <2>3. l.offset = k.offset + m.offset /\ l.align = k.align
    BY <2>2 DEF Leaf
  <2>4. k.offset \in Nat /\ k.align \in Alignments /\ m.offset \in Nat /\ m.size \in Nat
    BY <1>2 DEF WellTyped
  <2>5. k.offset + k.align <= m.size /\ m.offset + m.size <= next_offset
    BY DEF IInv, Walk, MembersApart
  <2>6. l.offset \in Nat /\ l.offset + l.align <= F.size
    <3>1. k.align \in Nat  BY <2>4 DEF Alignments
    <3> QED  BY <3>1, <2>3, <2>4, <2>5, <1>2, <1>3
  <2>7. ASSUME F.plain  PROVE l.offset % l.align = 0 /\ l.align <= F.align
    <3>1. (m.offset + k.offset) % k.align = 0 /\ k.align <= type_align
      BY <2>7, <1>1 DEF IInv, Walk
    <3>2. m.offset + k.offset = k.offset + m.offset  BY <2>4
    <3> QED  BY <3>1, <3>2, <2>3, <1>1
  <2> QED  BY <2>3, <2>4, <2>6, <2>7
<1>5. WellTyped(F)
  BY <1>1, <1>2, <1>3, <1>4 DEF WellTyped
<1>6. ASSUME F.plain  PROVE Aligned(F)
  <2>1. struct_align = type_align  BY <1>6, <1>1 DEF IInv, Walk
  <2> QED  BY <2>1, <1>1, <1>3, <1>4, <1>6 DEF Aligned
<1>7. Good(F)  BY <1>4, <1>5, <1>6 DEF Good
<1> QED  BY <1>7 DEF F

(* when the walk over a type's members ends,                               *)
LEMMA FinishStep ==
  ASSUME IInv, Finish
  PROVE  IInv'
<1>1. /\ members # {} /\ known' = known \cup {finished} /\ kind' \in {"struct", "union"}
      /\ members' = {} /\ next_offset' = 0 /\ struct_align' = 0 /\ type_align' = 0 /\ steps' = steps
  BY DEF Finish
<1>2. \A t \in known' : Good(t)
  BY <1>1, KnownGood, FinishedGood
<1>3. TypeOK'  BY <1>1, <1>2 DEF TypeOK, Good, IInv
<1>4. MembersApart'  BY <1>1 DEF MembersApart
<1>5. LeavesAligned' /\ LeavesWithin'  BY <1>2 DEF LeavesAligned, LeavesWithin, Good
<1>6. Walk'  BY <1>1, FS_EmptySet DEF Walk
<1> QED  BY <1>3, <1>4, <1>5, <1>6 DEF IInv

(* and over every step.                                                    *)
LEMMA NextInv == IInv /\ [Next]_vars => IInv'
<1> SUFFICES ASSUME IInv, [Next]_vars PROVE IInv'  OBVIOUS
<1>1. CASE \E t \in known, n \in Lengths : Member(Array(t, n))
  <2>1. PICK t \in known, n \in Lengths : Member(Array(t, n))  BY <1>1
  <2> DEFINE A == Array(t, n)
  <2>2. Good(A)  BY KnownGood, ArrayGood, LayoutAssumption
  <2>3. StructMember(A, A.size, A.align)  BY <2>1 DEF Member
  <2> HIDE DEF A
  <2> QED  BY <2>2, <2>3, StructStep DEF Good, WellTyped, Aligned
<1>2. CASE \E t \in known, n \in Lengths : UnionMember(Array(t, n))
  BY <1>2, KnownGood, ArrayGood, UnionStep, LayoutAssumption
<1>3. CASE \E s \in Scalars, width \in Widths : width <= s /\ BitField(s, width)
  <2>1. PICK s \in Scalars, width \in Widths : BitField(s, width)  BY <1>3
  <2> DEFINE f == Field(s)
  <2>2. /\ f.size = s /\ f.align = s /\ f.plain = (s = 1) /\ f.leaves = {}
        /\ s \in Alignments /\ s \in Nat /\ width \in Nat /\ 1 \in Alignments
    BY LayoutAssumption DEF Field, Alignments
  <2>3. StructMember(f, width, 1)  BY <2>1 DEF BitField
  <2> HIDE DEF f
  <2>4. WellTyped(f)  BY <2>2 DEF WellTyped
  <2>5. f.plain => 1 = f.align  BY <2>2
  <2> QED  BY <2>2, <2>3, <2>4, <2>5, StructStep
<1>4. CASE Finish  BY <1>4, FinishStep
<1>5. CASE UNCHANGED vars
  BY <1>5 DEF vars, IInv, TypeOK, MembersApart, LeavesAligned, LeavesWithin, Walk
<1> QED  BY <1>1, <1>2, <1>3, <1>4, <1>5 DEF Next

(* Whatever members a type is given, through any nesting, the types are    *)
(* well-formed and the walks' counters are bytes and alignments.           *)
THEOREM LayoutTypes == Spec => []TypeOK
<1>1. IInv => TypeOK  BY DEF IInv
<1> QED  BY <1>1, InitInv, NextInv, PTL DEF Spec

(* The members of a structure never share a byte, and lie within what      *)
(* type_sizeof_struct returns.                                             *)
THEOREM LayoutMembersApart == Spec => []MembersApart
<1>1. IInv => MembersApart  BY DEF IInv
<1> QED  BY <1>1, InitInv, NextInv, PTL DEF Spec

(* In every type without misaligned bit-fields every scalar is aligned in  *)
(* every element of every array of the type, however deep it is.           *)
THEOREM LayoutLeavesAligned == Spec => []LeavesAligned
<1>1. IInv => LeavesAligned  BY DEF IInv
<1> QED  BY <1>1, InitInv, NextInv, PTL DEF Spec

(* No scalar of a type reaches past its size, in which the memory for it   *)
(* is allocated and copied.                                                *)
THEOREM LayoutLeavesWithin == Spec => []LeavesWithin
<1>1. IInv => LeavesWithin  BY DEF IInv
<1> QED  BY <1>1, InitInv, NextInv, PTL DEF Spec
----------------------------------------------------------------------------
(* A structure's walk stands at the end of its last member, or at the      *)
(* beginning: with this NoWaste is inductive.                              *)
Tight ==
  kind = "struct" =>
    IF members = {} THEN next_offset = 0
    ELSE \E m \in members : next_offset = m.offset + m.size

(* A member is put where its alignment lets it come first, and becomes the *)
(* one that the walk stands behind.                                        *)
LEMMA TightMember ==
  ASSUME IInv, Tight, NoWaste, NEW t, NEW size \in Nat, NEW align \in Alignments,
         StructMember(t, size, align)
  PROVE  Tight' /\ NoWaste'
<1> DEFINE offset == to_aligned(next_offset, align)
           x == Placed(offset, size, align, t)
           Before(n) == {m \in members : m.place < n.place}
<1>1. x.place = Cardinality(members) + 1 /\ x.offset = offset /\ x.size = size /\ x.align = align
  BY DEF Placed
<1>2. /\ kind = "struct" /\ kind' = kind
      /\ next_offset' = offset + size /\ members' = members \cup {x}
  BY DEF StructMember, member_offset, Room
<1>3. next_offset \in Nat /\ \A m \in members : m.place \in Nat
  BY DEF IInv, TypeOK
<1>4. offset \in Int /\ next_offset <= offset /\ offset < next_offset + align /\ offset % align = 0
  BY <1>3, ToAligned
<1> HIDE DEF offset, x
<1>5. \A m \in members : m.place < x.place /\ ~(x.place < m.place)
  <2>1. Cardinality(members) \in Nat /\ \A m \in members : m.place < x.place
    BY <1>1, NextPlace
  <2> QED  BY <2>1, <1>1, <1>3
<1>6. ~(x.place < x.place)
  <2>1. Cardinality(members) \in Nat
    BY <1>1, NextPlace
  <2> QED  BY <2>1, <1>1
<1>7. Tight'
  BY <1>1, <1>2 DEF Tight
<1>8. ASSUME NEW n \in members'
      PROVE  LET before == {m \in members' : m.place < n.place}
             IN  \/ before = {} /\ n.offset = 0
                 \/ \E m \in before : n.offset < m.offset + m.size + n.align
  <2>1. {m \in members' : m.place < n.place} = Before(n)
    BY <1>2, <1>5, <1>6
  <2>2. CASE n \in members
    BY <2>1, <2>2, <1>2 DEF NoWaste
  <2>3. CASE n = x /\ members = {}
    <3>1. offset = 0
      <4>1. next_offset = 0  BY <2>3, <1>2 DEF Tight
      <4>2. CASE align = 1  BY <4>1, <4>2, <1>4
      <4>3. CASE align = 2  BY <4>1, <4>3, <1>4
      <4>4. CASE align = 4  BY <4>1, <4>4, <1>4
      <4>5. CASE align = 8  BY <4>1, <4>5, <1>4
      <4> QED  BY <4>2, <4>3, <4>4, <4>5 DEF Alignments
    <3> QED  BY <2>1, <2>3, <3>1, <1>1
  <2>4. CASE n = x /\ members # {}
    <3>1. PICK m \in members : next_offset = m.offset + m.size
      BY <2>4, <1>2 DEF Tight
    <3>2. m \in Before(n) /\ n.offset < m.offset + m.size + n.align
      BY <2>4, <3>1, <1>1, <1>4, <1>5
    <3> QED  BY <2>1, <3>2
  <2> QED  BY <2>2, <2>3, <2>4, <1>2
<1> QED  BY <1>7, <1>8 DEF NoWaste

(* Every step keeps a structure without waste: a union's walk has no       *)
(* offsets, and a walk that begins has no members.                         *)
LEMMA TightStep ==
  ASSUME IInv, Tight, NoWaste, [Next]_vars
  PROVE  Tight' /\ NoWaste'
<1>1. CASE \E t \in known, n \in Lengths : Member(Array(t, n))
  <2>1. PICK t \in known, n \in Lengths : Member(Array(t, n))  BY <1>1
  <2> DEFINE A == Array(t, n)
  <2>2. Good(A)  BY KnownGood, ArrayGood, LayoutAssumption
  <2>3. StructMember(A, A.size, A.align)  BY <2>1 DEF Member
  <2> HIDE DEF A
  <2> QED  BY <2>2, <2>3, TightMember DEF Good, WellTyped
<1>2. CASE \E t \in known, n \in Lengths : UnionMember(Array(t, n))
  <2>1. kind' = "union"  BY <1>2 DEF UnionMember
  <2> QED  BY <2>1 DEF Tight, NoWaste
<1>3. CASE \E s \in Scalars, width \in Widths : width <= s /\ BitField(s, width)
  <2>1. PICK s \in Scalars, width \in Widths : BitField(s, width)  BY <1>3
  <2>2. StructMember(Field(s), width, 1)  BY <2>1 DEF BitField
  <2>3. width \in Nat /\ 1 \in Alignments  BY LayoutAssumption DEF Alignments
  <2> QED  BY <2>2, <2>3, TightMember
<1>4. CASE Finish
  <2>1. members' = {} /\ next_offset' = 0  BY <1>4 DEF Finish
  <2> QED  BY <2>1 DEF Tight, NoWaste
<1>5. CASE UNCHANGED vars
  BY <1>5 DEF vars, Tight, NoWaste
<1> QED  BY <1>1, <1>2, <1>3, <1>4, <1>5 DEF Next

(* Between two members of a structure there is less than one alignment of  *)
(* the later one, and nothing before the first.                            *)
THEOREM LayoutNoWaste == Spec => []NoWaste
<1>1. Init => Tight /\ NoWaste
  <2> SUFFICES ASSUME Init  PROVE Tight /\ NoWaste  OBVIOUS
  <2>1. members = {} /\ next_offset = 0  BY DEF Init, Start
  <2> QED  BY <2>1 DEF Tight, NoWaste
<1>2. IInv /\ Tight /\ NoWaste /\ [Next]_vars => Tight' /\ NoWaste'
  BY TightStep
<1> QED  BY <1>1, <1>2, InitInv, NextInv, PTL DEF Spec
=============================================================================
