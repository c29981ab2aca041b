--------------------------- MODULE MCConditionals ---------------------------
(* Instances of Conditionals.                                              *)
EXTENDS Conditionals
CONSTANT A
OneMacro == {A}
=============================================================================
