------------------------------ MODULE MCFrame ------------------------------
(* An instance of Frame: int and a structure of 20 bytes, passed on the    *)
(* stack, as parameters; char and a pointer as locals.                     *)
EXTENDS FrameInv

CONSTANTS x

OneName == {x}
Char == [size |-> 1, align |-> 1]
Int4 == [size |-> 4, align |-> 4]
Ptr  == [size |-> 8, align |-> 8]
FiveInts == [size |-> 20, align |-> 4]

ManyParams == {Int4, FiveInts}
FewLocals == {Char, Ptr}
=============================================================================
