------------------------------- MODULE MCCall -------------------------------
(* Instances of CallProtocol.                                              *)
EXTENDS CallProtocol

Scalar     == [size |-> 4, array |-> FALSE]
Pair       == [size |-> 16, array |-> FALSE]
Triple     == [size |-> 24, array |-> FALSE]
Text       == [size |-> 20, array |-> TRUE]

NoArgs     == <<>>
TwoScalars == <<Scalar, Scalar>>
(* Seven scalars and more: the last are on the stack. *)
EightScalars == [i \in 1..8 |-> Scalar]
(* f9 of tests/functions.c: the struct finds one register left. *)
PairOnStack == <<Scalar, Scalar, Scalar, Scalar, Scalar, Pair, Scalar, Scalar>>
TripleFirst == <<Triple, Text, Scalar>>

Named      == {"named", "pointer"}
AllLists   == {NoArgs, TwoScalars, EightScalars, PairOnStack, TripleFirst}

(* Lists and callees that the code is known to fail for.                   *)
TextOnStack == {<<Scalar, Scalar, Scalar, Scalar, Scalar, Scalar, Text>>}
PairInRegs  == {<<Pair>>}
OneScalar   == {<<Scalar>>}
Computed    == {"computed"}
=============================================================================
