----------------------------- MODULE Statements -----------------------------
(***************************************************************************)
(* What the statements of a program mean, whatever code implements them:   *)
(* which expression is evaluated next, given the value of the last one.    *)
(*                                                                         *)
(* A program is a sequence of function bodies, a statement a record        *)
(*   kind  "expr" "nop" "break" "continue" "return" "goto" "label" "case"  *)
(*         "default" "list" "if" "for" "do" "switch"                       *)
(*   arg   the label of a goto and of a label, the value of a case, the    *)
(*         form of a for: "full", "while", or "forever" (no condition)     *)
(*   kids  the statements it is made of, in order of the source            *)
(* and a statement is known by its path: its function, then which kid, and *)
(* of that which kid, and so on.                                           *)
(***************************************************************************)
EXTENDS Integers, Sequences, SequencesExt, FiniteSetsExt

CONSTANTS
  Programs,   \* the programs
  Values      \* the values of the operands of switch statements

VARIABLES program, place, value
vars == <<program, place, value>>

At(p) == FoldLeft(LAMBDA t, k : t.kids[k], program[p[1]], Tail(p))
Kid(p, k) == Append(p, k)

RECURSIVE PathsBelow(_)
PathsBelow(p) ==
  {p} \cup UNION {PathsBelow(Kid(p, k)) : k \in DOMAIN At(p).kids}

(* The innermost statement of one of these kinds around p.                 *)
Innermost(p, kinds) ==
  LET depths == {n \in 1..(Len(p) - 1) : At(SubSeq(p, 1, n)).kind \in kinds}
  IN  SubSeq(p, 1, Max(depths))

Loops == {"for", "do"}

(* Where a turn of a loop goes when its body is done.                      *)
Again(p) ==
  IF At(p).kind = "for" /\ At(p).arg = "full" THEN <<"update", p>> ELSE <<"cond", p>>

(* The expression that is evaluated next when control enters p, and when   *)
(* it leaves p at its end.                                                 *)
RECURSIVE Enter(_), After(_)
Enter(p) ==
  LET t == At(p) IN
  CASE t.kind \in {"expr", "goto", "return", "switch"} -> <<t.kind, p>>
    [] t.kind = "if"       -> <<"cond", p>>
    [] t.kind = "for"      -> <<IF t.arg = "full" THEN "init" ELSE "cond", p>>
    [] t.kind = "break"    -> After(Innermost(p, Loops \cup {"switch"}))
    [] t.kind = "continue" -> Again(Innermost(p, Loops))
    [] OTHER               -> IF t.kids = <<>> THEN After(p) ELSE Enter(Kid(p, 1))
After(p) ==
  LET q == Front(p)
      k == Last(p)
  IN  IF Len(p) = 1 THEN <<"exit", p>>
      ELSE CASE At(q).kind \in Loops -> Again(q)
             [] At(q).kind = "list" /\ k < Len(At(q).kids) -> Enter(Kid(q, k + 1))
             [] OTHER                -> After(q)

(* The labels of a switch: those that no inner switch is closer to.        *)
SwitchLabels(p) ==
  {q \in PathsBelow(p) : /\ At(q).kind \in {"case", "default"}
                         /\ Innermost(q, {"switch"}) = p}

Select(p, v) ==
  LET labels   == SwitchLabels(p)
      cases    == {q \in labels : At(q).kind = "case" /\ At(q).arg = v}
      defaults == {q \in labels : At(q).kind = "default"}
  IN  IF cases # {} THEN Enter(CHOOSE q \in cases : TRUE)
      ELSE IF defaults # {} THEN Enter(CHOOSE q \in defaults : TRUE)
      ELSE After(p)

Labelled(p, name) ==
  CHOOSE q \in PathsBelow(<<p[1]>>) : At(q).kind = "label" /\ At(q).arg = name

(* The values that an expression can have, as far as they matter, and what *)
(* is evaluated behind it.                                                 *)
Outcomes(what, t) ==
  CASE what = "switch" -> Values
    [] what = "cond"   -> IF t.kind = "for" /\ t.arg = "forever" THEN {1} ELSE {0, 1}
    [] OTHER           -> {0}

Follow(what, p, v) ==
  LET t == At(p) IN
  CASE what = "expr"     -> After(p)
    [] what = "init"     -> <<"cond", p>>
    [] what = "update"   -> <<"cond", p>>
    [] what = "goto"     -> Enter(Labelled(p, t.arg))
    [] what = "switch"   -> Select(p, v)
    [] what = "cond" /\ v # 0 -> Enter(Kid(p, 1))
    [] what = "cond" /\ v = 0 ->
         IF t.kind = "if" /\ Len(t.kids) = 2 THEN Enter(Kid(p, 2)) ELSE After(p)
----------------------------------------------------------------------------
(* Any function may be the one that runs.                                  *)
Init ==
  /\ program \in Programs
  /\ \E f \in DOMAIN program : place = Enter(<<f>>)
  /\ value = 0

(* A return, and the end of a function, have nothing behind them.          *)
Evaluate ==
  /\ place[1] \notin {"return", "exit"}
  /\ \E v \in Outcomes(place[1], At(place[2])) :
       /\ value' = v
       /\ place' = Follow(place[1], place[2], v)
  /\ UNCHANGED program

Spec == Init /\ [][Evaluate]_vars
=============================================================================
