-------------------------------- MODULE Abi --------------------------------
(***************************************************************************)
(* The arithmetic the parser and the code generator share: sizes and       *)
(* alignments of values, and how many general-purpose registers a value    *)
(* passed to a function takes.  Everything is counted in bytes.            *)
(***************************************************************************)
EXTENDS Integers

GpRegs == 6     \* rdi rsi rdx rcx r8 r9
Word   == 8

(* The alignments type_alignof() can return. *)
Alignments == {1, 2, 4, 8}

rounded_down(n, a) == (n \div a) * a
to_aligned(n, a) == ((n + a - 1) \div a) * a

(***************************************************************************)
(* Registers wanted by a value of a given size; 0 is a value passed on the *)
(* stack.  The second operator is what it gets when `free` are left.       *)
(***************************************************************************)
RegsWanted(size) ==
  IF size <= Word THEN 1 ELSE IF size <= 2 * Word THEN 2 ELSE 0

RegsGiven(size, free) == IF RegsWanted(size) <= free THEN RegsWanted(size) ELSE 0

=============================================================================
