------------------------------ MODULE MCLayout ------------------------------
(* An instance of Layout.                                                  *)
EXTENDS Layout
=============================================================================
