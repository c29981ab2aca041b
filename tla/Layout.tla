------------------------------- MODULE Layout -------------------------------
(***************************************************************************)
(* The layout of structures and unions (cc1/ast.c): type_sizeof_struct,    *)
(* type_offsetof and their companions walk the members of a type, one      *)
(* iteration a step of the model, and a type that is complete can be the   *)
(* type of members, or the element of their arrays, of the next one.       *)
(* type_sizeof and type_alignof take different walks, and so does the      *)
(* offset of each member: what they say of one type must fit together.     *)
(***************************************************************************)
EXTENDS Abi, FiniteSets

CONSTANTS Scalars,        \* the sizes of the scalar types, which are their alignments too
          Lengths,        \* the lengths of arrays; a member that is none has length 1
          Widths,         \* the widths of bit-fields, in bytes
          MaxMembers,     \* the number of members of a type,
          MaxSteps        \* and of all types together

ASSUME LayoutAssumption ==
  /\ Scalars \subseteq Alignments
  /\ Lengths \subseteq Nat \ {0} /\ Widths \subseteq Nat \ {0}
  /\ MaxMembers \in Nat /\ MaxSteps \in Nat

VARIABLES known,          \* the complete types
          kind,           \* struct or union: what the walk is in
          members,        \* the members passed, each with its offset
          next_offset,    \* the next free byte; of a union, its size up to here
          struct_align,   \* the alignment that the size is rounded to
          type_align,     \* the alignment that type_alignof gives
          steps

vars == <<known, kind, members, next_offset, struct_align, type_align, steps>>
----------------------------------------------------------------------------
(* A type, with the places of the scalars in it; plain says that no        *)
(* bit-field made its size and its alignment differ.                       *)
Leaf(offset, align) == [offset |-> offset, align |-> align]
Scalar(s) == [size |-> s, align |-> s, plain |-> TRUE, leaves |-> {Leaf(0, s)}]
Shifted(leaves, by) == {Leaf(l.offset + by, l.align) : l \in leaves}

(* type_sizeof and type_alignof of an array.                               *)
single(t, n) == [t EXCEPT !.leaves = UNION {Shifted(t.leaves, k * t.size) : k \in 0..(n - 1)}]
Array(t, n) == [size |-> t.size * n, align |-> t.align, plain |-> t.plain,
                leaves |-> UNION {Shifted(t.leaves, k * t.size) : k \in 0..(n - 1)}]

Largest(a, b) == IF a < b THEN b ELSE a

Start(k) == /\ kind = k /\ members = {} /\ next_offset = 0 /\ struct_align = 0 /\ type_align = 0

Init == /\ known = {Scalar(s) : s \in Scalars}
        /\ \E k \in {"struct", "union"} : Start(k)
        /\ steps = 0

Room == Cardinality(members) < MaxMembers /\ steps < MaxSteps /\ steps' = steps + 1

(* The members so far, numbered by their place.                            *)
Placed(offset, size, align, t) ==
  [place |-> Cardinality(members) + 1, offset |-> offset, size |-> size, align |-> align,
   plain |-> t.plain, leaves |-> t.leaves]

(* An iteration of the walk over a structure, and over a union.            *)
word_offset(align) == to_aligned(next_offset, Word)
member_offset(align) == to_aligned(next_offset, align)
StructMember(t, size, align) ==
  LET offset == member_offset(align)
  IN  /\ kind = "struct"
      /\ next_offset' = offset + size
      /\ members' = members \cup {Placed(offset, size, align, t)}
      /\ struct_align' = Largest(struct_align, align)
      /\ type_align' = Largest(type_align, t.align)
      /\ Room /\ UNCHANGED <<known, kind>>
UnionMember(t) ==
  /\ kind = "union"
  /\ next_offset' = Largest(next_offset, to_aligned(t.size, t.align))
  /\ members' = members \cup {Placed(0, t.size, t.align, t)}
  /\ struct_align' = Largest(struct_align, t.align)
  /\ type_align' = Largest(type_align, t.align)
  /\ Room /\ UNCHANGED <<known, kind>>

(* A bit-field takes whole bytes at any place of a structure; in a union   *)
(* it is like a member of its type.                                        *)
Field(s) == [size |-> s, align |-> s, plain |-> (s = 1), leaves |-> {}]
BitField(s, width) == StructMember(Field(s), width, 1)

Member(t) == StructMember(t, t.size, t.align)

(* The end of the walk over a type that has members.                       *)
finished_unpadded ==
  [size |-> next_offset, align |-> type_align, plain |-> \A m \in members : m.plain,
   leaves |-> UNION {Shifted(m.leaves, m.offset) : m \in members}]
finished == [size |-> to_aligned(next_offset, struct_align), align |-> type_align,
             plain |-> \A m \in members : m.plain,
             leaves |-> UNION {Shifted(m.leaves, m.offset) : m \in members}]
Finish ==
  /\ members # {}
  /\ known' = known \cup {finished}
  /\ \E k \in {"struct", "union"} : kind' = k
  /\ members' = {} /\ next_offset' = 0 /\ struct_align' = 0 /\ type_align' = 0
  /\ UNCHANGED steps

Next ==
  \/ \E t \in known, n \in Lengths : Member(Array(t, n))
  \/ \E t \in known, n \in Lengths : UnionMember(Array(t, n))
  \/ \E s \in Scalars, width \in Widths : width <= s /\ BitField(s, width)
  \/ Finish

Spec == Init /\ [][Next]_vars
----------------------------------------------------------------------------
WellTyped(t) == /\ t.size \in Nat /\ t.align \in Alignments /\ t.plain \in BOOLEAN
                /\ \A l \in t.leaves : l.offset \in Nat /\ l.align \in Alignments

(* The types are well-formed and the walk's counters bytes.                *)
TypeOK ==
  /\ \A t \in known : WellTyped(t)
  /\ kind \in {"struct", "union"}
  /\ \A m \in members : WellTyped(m) /\ m.offset \in Nat /\ m.place \in Nat
  /\ next_offset \in Nat
  /\ struct_align \in Alignments \cup {0} /\ type_align \in Alignments \cup {0}
  /\ members # {} => struct_align # 0 /\ type_align # 0
  /\ steps \in Nat

(* Two members of a structure have no byte in common, the later one comes  *)
(* later, and both lie within what the walk has covered.                   *)
MembersApart ==
  /\ \A m \in members : m.offset + m.size <= next_offset
  /\ kind = "struct" => \A m, n \in members : m.place < n.place => m.offset + m.size <= n.offset

(* Every scalar within a type is at a multiple of its own alignment,       *)
(* however deep in structures, unions and arrays it is, and also in every  *)
(* element of an array of the type: the size is a multiple of the          *)
(* alignment, and that one no less than the scalar's.  (Bit-fields of a    *)
(* type that wants an alignment break this.)                               *)
Aligned(t) == /\ t.size % t.align = 0
              /\ \A l \in t.leaves : l.offset % l.align = 0 /\ l.align <= t.align
LeavesAligned == \A t \in known : t.plain => Aligned(t)

(* What two scalars of a type are apart, and that they are within it.      *)
LeavesWithin == \A t \in known : \A l \in t.leaves : l.offset + l.align <= t.size

(* What the walk keeps, so that the type it makes is as good as those it   *)
(* is made of.                                                             *)
Walk ==
  /\ IsFiniteSet(members) /\ \A m \in members : m.place <= Cardinality(members)
  /\ \A m \in members : \A l \in m.leaves : l.offset + l.align <= m.size
  /\ \A m \in members : m.plain =>
       \A l \in m.leaves : (m.offset + l.offset) % l.align = 0 /\ l.align <= type_align
  /\ (\A m \in members : m.plain) => struct_align = type_align

IInv == TypeOK /\ MembersApart /\ LeavesAligned /\ LeavesWithin /\ Walk

(* No more padding than the alignment asks for, as other compilers lay out *)
(* the same structure: with code of theirs it is shared.                   *)
NoWaste ==
  kind = "struct" => \A n \in members :
    LET before == {m \in members : m.place < n.place}
    IN  \/ before = {} /\ n.offset = 0
        \/ \E m \in before : n.offset < m.offset + m.size + n.align
=============================================================================
