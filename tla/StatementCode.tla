---------------------------- MODULE StatementCode ----------------------------
(***************************************************************************)
(* The code that codegen.c generates for statements, and its execution.    *)
(* Statements are those of module Statements; the records g are the        *)
(* CodeGen of the source, whose fields they have:                          *)
(*   out           the code so far                                         *)
(*   next_label    the number of the next label                            *)
(*   loop_labels   the labels of the loops around, innermost last          *)
(*   switch_label  the label of the innermost switch around, -1 outside    *)
(* and `unreachable` tells that the generator has come to a place where    *)
(* its source says unreachable().                                          *)
(*                                                                         *)
(* An expression is one instruction, which leaves its value in rax; its    *)
(* name is the name it has in Statements.                                  *)
(***************************************************************************)
EXTENDS Integers, Sequences, SequencesExt, FiniteSetsExt

CONSTANTS Programs, Values

VARIABLES program, code, pc, rax
vars == <<program, code, pc, rax>>

Eval(what, p, t) == [op |-> "eval", place |-> <<what, p>>, node |-> t]
Je(v, label)     == [op |-> "je", v |-> v, to |-> label]
Jmp(label)       == [op |-> "jmp", to |-> label]
Label(label)     == [op |-> "label", name |-> label]
Epilogue(what, p) == [op |-> "ret", place |-> <<what, p>>]

Emit(g, instrs) == [g EXCEPT !.out = @ \o instrs]

codegen_new == [out |-> <<>>, next_label |-> 1, loop_labels |-> <<0>>,
                switch_label |-> -1, unreachable |-> FALSE]

codegen_new_label(g) == [g EXCEPT !.next_label = @ + 1]
push_loop(g, label) == [codegen_new_label(g) EXCEPT !.loop_labels = Append(@, label)]

(* Mutant: the loop stays.                                                 *)
keep_loop(g) == g
pop_loop(g) == [g EXCEPT !.loop_labels = Front(@)]

(* The end of a switch, if any is around, or of the innermost loop.        *)
(* Mutant: of the innermost loop, if any is around.                        *)
break_from_loop(g) ==
  Emit(g, <<Jmp(<<"end", IF Len(g.loop_labels) > 1 THEN Last(g.loop_labels)
                                                   ELSE g.switch_label>>)>>)
codegen_break_stmt(g) ==
  Emit(g, <<Jmp(<<"end", IF g.switch_label # -1 THEN g.switch_label
                                                ELSE Last(g.loop_labels)>>)>>)
codegen_continue_stmt(g) == Emit(g, <<Jmp(<<"continue", Last(g.loop_labels)>>)>>)

(* The labels of a function have its name in front.  The jump of a goto is *)
(* the one jump with a name in Statements, a step of its own there.        *)
UserLabel(p, t) == <<"user", p[1], t.arg>>
codegen_goto_stmt(g, t, p) == Emit(g, <<Eval("goto", p, t), Jmp(UserLabel(p, t))>>)

(* collect_cases: the values of the case labels it reaches, in order.      *)
RECURSIVE collect_cases(_)
collect_cases(t) ==
  CASE t.kind = "case"    -> <<t.arg>> \o collect_cases(t.kids[1])
    [] t.kind = "default" -> collect_cases(t.kids[1])
    [] t.kind = "list"    -> FlattenSeq([k \in DOMAIN t.kids |-> collect_cases(t.kids[k])])
    [] OTHER              -> <<>>

case_label(g, cases, v) ==
  <<"case", g.switch_label, SelectInSeq(cases, LAMBDA c : c = v)>>

dispatch(g, cases) ==
  [i \in DOMAIN cases |-> Je(cases[i], <<"case", g.switch_label, i>>)]
    \o <<Jmp(<<"default", g.switch_label>>)>>

(* Whether codegen_switch_body has emitted the default label.              *)
RECURSIVE default_label_emitted(_)
default_label_emitted(t) ==
  CASE t.kind = "case"    -> default_label_emitted(t.kids[1])
    [] t.kind = "default" -> TRUE
    [] t.kind = "list"    -> \E k \in DOMAIN t.kids : default_label_emitted(t.kids[k])
    [] OTHER              -> FALSE

(* The labels behind the body of a switch.  Mutant: always the default.    *)
switch_end_default(g, t) ==
  Emit(g, <<Label(<<"default", g.switch_label>>), Label(<<"end", g.switch_label>>)>>)
switch_end(g, t) ==
  Emit(g, (IF default_label_emitted(t.kids[1]) THEN <<>>
           ELSE <<Label(<<"default", g.switch_label>>)>>)
          \o <<Label(<<"end", g.switch_label>>)>>)

leave_switch(g, before) == [g EXCEPT !.switch_label = before.switch_label]
----------------------------------------------------------------------------
RECURSIVE codegen_stmt(_, _, _), codegen_switch_body(_, _, _, _)

codegen_kids(g, t, p) ==
  FoldLeft(LAMBDA h, k : codegen_stmt(h, t.kids[k], Append(p, k)),
           g, [k \in DOMAIN t.kids |-> k])

codegen_if_stmt(g, t, p) ==
  LET label == g.next_label
      then  == codegen_stmt(Emit(codegen_new_label(g),
                                 <<Eval("cond", p, t), Je(0, <<"else", label>>)>>),
                            t.kids[1], Append(p, 1))
      else_ == Emit(then, <<Jmp(<<"end", label>>), Label(<<"else", label>>)>>)
  IN  Emit(IF Len(t.kids) = 2 THEN codegen_stmt(else_, t.kids[2], Append(p, 2)) ELSE else_,
           <<Label(<<"end", label>>)>>)

codegen_for_stmt(g, t, p) ==
  LET label == g.next_label
      has(what) == IF t.arg = "full" THEN <<Eval(what, p, t)>> ELSE <<>>
      head  == Emit(push_loop(g, label),
                    has("init") \o <<Label(<<"begin", label>>), Eval("cond", p, t),
                                     Je(0, <<"end", label>>)>>)
      body  == codegen_stmt(head, t.kids[1], Append(p, 1))
  IN  pop_loop(Emit(body, <<Label(<<"continue", label>>)>> \o has("update")
                          \o <<Jmp(<<"begin", label>>), Label(<<"end", label>>)>>))

codegen_do_while_stmt(g, t, p) ==
  LET label == g.next_label
      body  == codegen_stmt(Emit(push_loop(g, label), <<Label(<<"begin", label>>)>>),
                            t.kids[1], Append(p, 1))
  IN  pop_loop(Emit(body, <<Label(<<"continue", label>>), Eval("cond", p, t),
                            Je(0, <<"end", label>>), Jmp(<<"begin", label>>),
                            Label(<<"end", label>>)>>))

(* Mutant: the labels in inner lists are left to codegen_stmt.             *)
switch_body_flat(g, t, p, cases) ==
  IF t.kind = "list"
  THEN FoldLeft(LAMBDA h, k : IF t.kids[k].kind = "list" THEN codegen_stmt(h, t.kids[k], Append(p, k))
                              ELSE codegen_switch_body(h, t.kids[k], Append(p, k), cases),
                g, [k \in DOMAIN t.kids |-> k])
  ELSE codegen_stmt(g, t, p)
codegen_switch_body(g, t, p, cases) ==
  CASE t.kind = "case" ->
         codegen_switch_body(Emit(g, <<Label(case_label(g, cases, t.arg))>>),
                             t.kids[1], Append(p, 1), cases)
    [] t.kind = "default" ->
         codegen_switch_body(Emit(g, <<Label(<<"default", g.switch_label>>)>>),
                             t.kids[1], Append(p, 1), cases)
    [] t.kind = "list" ->
         FoldLeft(LAMBDA h, k : codegen_switch_body(h, t.kids[k], Append(p, k), cases),
                  g, [k \in DOMAIN t.kids |-> k])
    [] OTHER -> codegen_stmt(g, t, p)

codegen_switch_stmt(g, t, p) ==
  LET cases == collect_cases(t.kids[1])
      own   == [codegen_new_label(g) EXCEPT !.switch_label = g.next_label]
      head  == Emit(own, <<Eval("switch", p, t)>> \o dispatch(own, cases))
      body  == codegen_switch_body(head, t.kids[1], Append(p, 1), cases)
  IN  leave_switch(switch_end(body, t), g)

codegen_stmt(g, t, p) ==
  CASE t.kind = "expr"     -> Emit(g, <<Eval("expr", p, t)>>)
    [] t.kind = "nop"      -> g
    [] t.kind = "return"   -> Emit(g, <<Epilogue("return", p)>>)
    [] t.kind = "break"    -> codegen_break_stmt(g)
    [] t.kind = "continue" -> codegen_continue_stmt(g)
    [] t.kind = "goto"     -> codegen_goto_stmt(g, t, p)
    [] t.kind = "label"    -> codegen_kids(Emit(g, <<Label(UserLabel(p, t))>>), t, p)
    [] t.kind = "list"     -> codegen_kids(g, t, p)
    [] t.kind = "if"       -> codegen_if_stmt(g, t, p)
    [] t.kind = "for"      -> codegen_for_stmt(g, t, p)
    [] t.kind = "do"       -> codegen_do_while_stmt(g, t, p)
    [] t.kind = "switch"   -> codegen_switch_stmt(g, t, p)
    [] t.kind \in {"case", "default"} -> [g EXCEPT !.unreachable = TRUE]

codegen_func(g, body, f) ==
  Emit(codegen_stmt(Emit(g, <<Label(<<"func", f>>)>>), body, <<f>>), <<Epilogue("exit", <<f>>)>>)

codegen(bodies) ==
  FoldLeft(LAMBDA g, f : codegen_func(g, bodies[f], f),
           codegen_new, [f \in DOMAIN bodies |-> f])
----------------------------------------------------------------------------
At(label) == CHOOSE i \in DOMAIN code.out : code.out[i] = Label(label)

(* The expression that the code evaluates next.                            *)
RECURSIVE NextPlace(_)
NextPlace(i) ==
  LET c == code.out[i] IN
  CASE c.op \in {"eval", "ret"} -> c.place
    [] c.op = "je"    -> NextPlace(IF rax = c.v THEN At(c.to) ELSE i + 1)
    [] c.op = "jmp"   -> NextPlace(At(c.to))
    [] c.op = "label" -> NextPlace(i + 1)

Meaning == INSTANCE Statements WITH place <- NextPlace(pc), value <- rax

Init ==
  /\ program \in Programs
  /\ code = codegen(program)
  /\ \E f \in DOMAIN program : pc = At(<<"func", f>>)
  /\ rax = 0

Execute ==
  LET i == code.out[pc] IN
  /\ \/ /\ i.op = "eval"
        /\ rax' \in Meaning!Outcomes(i.place[1], i.node) /\ pc' = pc + 1
     \/ /\ i.op = "je" /\ pc' = IF rax = i.v THEN At(i.to) ELSE pc + 1
        /\ UNCHANGED rax
     \/ /\ i.op = "jmp" /\ pc' = At(i.to)
        /\ UNCHANGED rax
     \/ /\ i.op = "label" /\ pc' = pc + 1
        /\ UNCHANGED rax
  /\ UNCHANGED <<program, code>>

Spec == Init /\ [][Execute]_vars
----------------------------------------------------------------------------
TypeOK ==
  /\ pc \in DOMAIN code.out
  /\ rax \in Values \cup {0, 1}

Emitted == {code.out[i].name : i \in {j \in DOMAIN code.out : code.out[j].op = "label"}}
Wanted  == {code.out[i].to : i \in {j \in DOMAIN code.out : code.out[j].op \in {"je", "jmp"}}}

(* The assembler accepts the code: no label is defined twice, in whatever  *)
(* functions, and every label that a jump names is defined.                *)
Assembles ==
  /\ \A i, j \in DOMAIN code.out :
       code.out[i].op = "label" /\ code.out[i] = code.out[j] => i = j
  /\ Wanted \subseteq Emitted

(* A case or default label never comes to codegen_stmt: the switch it is   *)
(* for has dealt with it.                                                  *)
LabelsHandled == ~code.unreachable

(* The generator is, behind every function, as it was in front of it.      *)
ContextRestored ==
  code.loop_labels = codegen_new.loop_labels /\ code.switch_label = -1

(* The code evaluates the expressions that the statements mean, in that    *)
(* order, whatever their values: jumps are steps of no meaning.            *)
ImplementsStatements == Meaning!Spec
=============================================================================
