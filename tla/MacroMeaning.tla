---------------------------- MODULE MacroMeaning ----------------------------
(***************************************************************************)
(* MacroExpansion against what the C rules make of a text.                 *)
(***************************************************************************)
EXTENDS MacroExpansion, MacroReference

(* The text becomes what the C rules make of it, for every nesting of      *)
(* invocations, and the end of each line is met at the text's own level.   *)
ExpandsAsDefined ==
  status = "done" => Visible(Toks) = Visible(Expansion(macros, source))
=============================================================================
