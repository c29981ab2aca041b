------------------------------- MODULE Values -------------------------------
(***************************************************************************)
(* The types of expressions and the numbers that memory and registers      *)
(* hold.  A type is a record; two types are the same when they are equal.  *)
(* The machine is scaled down: a byte takes Radix values, sizes in bytes   *)
(* are the real ones, and a register has Word bytes.                       *)
(***************************************************************************)
EXTENDS Abi, SequencesExt, Bitwise

CONSTANTS
  Radix,       \* values of a byte, a power of 2
  Structs      \* the structures: from their tags to their members

Scalar(kind)  == [kind |-> kind]
Int_          == Scalar("int")
Ptr(base)     == [kind |-> "ptr", base |-> base]
Array(base, n) == [kind |-> "array", base |-> base, array_size |-> n]
Func(result)  == [kind |-> "func", result |-> result]
Struct(tag)   == [kind |-> "struct", tag |-> tag]

Integers_ == {"char", "short", "int", "long", "ulong"}
HasBase(ty) == ty.kind \in {"ptr", "array"}
IsAggregate(ty) == ty.kind \in {"struct", "array"}
type_is_unsigned(ty) == ty.kind = "ulong"

MembersOf(ty) == Structs[ty.tag]
----------------------------------------------------------------------------
(* Sizes, alignments and offsets, as Layout checks them.                   *)
RECURSIVE type_sizeof(_), type_alignof(_)

(* The first free byte behind the first i members.                         *)
Filled(ms, i) ==
  FoldLeft(LAMBDA n, m : to_aligned(n, type_alignof(m.ty)) + type_sizeof(m.ty), 0, SubSeq(ms, 1, i))

type_alignof(ty) ==
  CASE ty.kind = "struct" ->
         FoldLeft(LAMBDA a, m : IF a < type_alignof(m.ty) THEN type_alignof(m.ty) ELSE a, 0, MembersOf(ty))
    [] ty.kind = "array" -> type_alignof(ty.base)
    [] OTHER -> type_sizeof(ty)

type_sizeof(ty) ==
  CASE ty.kind = "char" -> 1
    [] ty.kind = "short" -> 2
    [] ty.kind = "int" -> 4
    [] ty.kind \in {"long", "ulong", "ptr", "func"} -> 8
    [] ty.kind = "array" -> type_sizeof(ty.base) * ty.array_size
    [] ty.kind = "struct" -> to_aligned(Filled(MembersOf(ty), Len(MembersOf(ty))), type_alignof(ty))

MemberIndex(ty, name) == SelectInSeq(MembersOf(ty), LAMBDA m : m.name = name)
type_member_typeof(ty, name) == MembersOf(ty)[MemberIndex(ty, name)].ty
type_offsetof(ty, name) ==
  to_aligned(Filled(MembersOf(ty), MemberIndex(ty, name) - 1), type_alignof(type_member_typeof(ty, name)))
----------------------------------------------------------------------------
(* Two's complement.  Signed(v, n) is what the low n bytes of v say.       *)
Modulus(n) == Radix ^ n
Signed(v, n) ==
  LET low == v % Modulus(n) IN IF 2 * low < Modulus(n) THEN low ELSE low - Modulus(n)
Unsigned(v)  == v % Modulus(Word)
InRange(v, n) == Signed(v, n) = v

(* A product, modulo the width of a register, in digits that TLC can hold.  *)
Product(a, b) ==
  LET digit == Radix ^ 2
  IN  Signed(FoldLeft(LAMBDA acc, k : (acc * digit + Unsigned(a) * ((Unsigned(b) \div digit ^ k) % digit)) % Modulus(Word),
                      0, <<3, 2, 1, 0>>), Word)

(* Division towards zero.                                                  *)
Quotient(a, b) ==
  LET abs(x) == IF x < 0 THEN -x ELSE x
      q == abs(a) \div abs(b)
  IN  IF (a < 0) = (b < 0) THEN q ELSE -q
Remainder(a, b) == a - b * Quotient(a, b)

BitsOf(op, a, b) ==
  LET x == Unsigned(a)  y == Unsigned(b)
  IN  Signed(CASE op = "and" -> x & y [] op = "or" -> x | y [] op = "xor" -> x ^^ y, Word)

Encoded(v, n) == [k \in 1..n |-> (v \div Modulus(k - 1)) % Radix]
Decoded(bytes) ==
  Signed(FoldLeft(LAMBDA acc, k : acc + bytes[k] * Modulus(k - 1), 0, [k \in DOMAIN bytes |-> k]), Len(bytes))
=============================================================================
