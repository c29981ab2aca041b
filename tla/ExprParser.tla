----------------------------- MODULE ExprParser -----------------------------
(***************************************************************************)
(* The recursive descent of parse.c over expressions and the tree that the *)
(* constructors of ast.c build: identifiers are resolved, operators become *)
(* others, pointer arithmetic is scaled, every node gets its type, and a   *)
(* postfix ++ becomes a list of expressions over two temporaries.          *)
(*                                                                         *)
(* The state of a parse is a record: e is the node parsed last, at the     *)
(* next token, frame the offset of the last slot of the function's frame   *)
(* and last the type it is for, and ok is lost by a fatal error.           *)
(***************************************************************************)
EXTENDS ExprReference

CONSTANTS Locals,   \* the variables of the function, in the order of their slots
          Globals   \* the variables of the file
Text == "\"A\""     \* the string literal of the programs

Token(ts, r) == IF r.at \in DOMAIN ts THEN ts[r.at] ELSE ";"
next_token(r) == [r EXCEPT !.at = @ + 1]
expect(ts, r, t) == [next_token(r) EXCEPT !.ok = @ /\ Token(ts, r) = t]
Parsed(r, e) == [r EXCEPT !.e = e]
----------------------------------------------------------------------------
(* The constructors of ast.c.                                              *)
ast_new_int(v) == [kind |-> "int", value |-> v, ty |-> Int_]
ast_new_unary(op, e) == [kind |-> "unary", op |-> op, of |-> e, ty |-> Int_]
ast_new_ref(e)  == [kind |-> "ref", of |-> e, ty |-> Ptr(e.ty)]
ast_new_deref(e) == [kind |-> "deref", of |-> e, ty |-> e.ty.base]
ast_new_cast(e, ty) == [kind |-> "cast", of |-> e, ty |-> ty]
ast_new_logical(op, l, r) == [kind |-> "logical", op |-> op, lhs |-> l, rhs |-> r, ty |-> Int_]
ast_new_cond(c, t, e) == [kind |-> "cond", cond |-> c, then |-> t, else_ |-> e, ty |-> t.ty]
ast_new_assign(op, l, r) == [kind |-> "assign", op |-> op, lhs |-> l, rhs |-> r, ty |-> l.ty]
ast_new_list(es) == [kind |-> "list", items |-> es, ty |-> Last(es).ty]
ast_new_lvar(offset, ty) == [kind |-> "lvar", stack_offset |-> offset, ty |-> ty]

(* Only + and - give anything but an int.                                  *)
ast_new_binary(op, l, r) ==
  [kind |-> "binary", op |-> op, lhs |-> l, rhs |-> r,
   ty |-> IF op \in {"+", "-"} /\ HasBase(l.ty) THEN Decayed(l.ty)
          ELSE IF op = "+" /\ HasBase(r.ty) THEN Decayed(r.ty) ELSE Int_]

(* n elements of what a pointer, or an array, of type ty points to.        *)
scaled(n, ty) == ast_new_binary("*", n, ast_new_int(type_sizeof(ty.base)))

ast_new_assign_add(op, l, r) ==
  IF HasBase(l.ty) THEN ast_new_assign(op, l, scaled(r, l.ty))
  ELSE IF op = "+=" /\ HasBase(r.ty) THEN ast_new_assign(op, scaled(l, r.ty), r)
  ELSE ast_new_assign(op, l, r)

ast_new_member_access(obj, name) ==
  LET ty == type_member_typeof(obj.ty.base, name)
      at == ast_new_binary("+", obj, ast_new_int(type_offsetof(obj.ty.base, name)))
  IN  ast_new_deref([at EXCEPT !.ty = Ptr(ty)])
----------------------------------------------------------------------------
(* Slots, as in Frame.                                                     *)
slot(frame, ty) == to_aligned(frame + type_sizeof(ty), type_alignof(ty))
LocalOffsets == [i \in DOMAIN Locals |-> FoldLeft(LAMBDA frame, v : slot(frame, v.ty), 0, SubSeq(Locals, 1, i))]
LocalsSize == Last(LocalOffsets)
generate_temporary_lvar(r, ty) ==
  [r EXCEPT !.frame = slot(@, ty), !.last = ty, !.e = ast_new_lvar(slot(r.frame, ty), ty)]

(* What the definition of the function reserves: the slots up to the last, *)
(* and the size of the last once more.                                     *)
stack_size(r) == r.frame + type_sizeof(r.last)

(* e++ is tmp1 = &e, tmp2 = *tmp1, *tmp1 += 1, tmp2.  Mutant: the value is *)
(* read behind the update.                                                 *)
inc_or_dec_late(r, op) ==
  LET s1 == generate_temporary_lvar(r, Ptr(r.e.ty))
      s2 == generate_temporary_lvar(s1, r.e.ty)
  IN  Parsed(s2, ast_new_list(<<ast_new_assign("=", s1.e, ast_new_ref(r.e)),
        ast_new_assign_add(IF op = "++" THEN "+=" ELSE "-=", ast_new_deref(s1.e), ast_new_int(1)),
        ast_new_assign("=", s2.e, ast_new_deref(s1.e)), s2.e>>))
create_new_postfix_inc_or_dec(r, op) ==
  LET s1 == generate_temporary_lvar(r, Ptr(r.e.ty))
      s2 == generate_temporary_lvar(s1, r.e.ty)
  IN  Parsed(s2, ast_new_list(<<ast_new_assign("=", s1.e, ast_new_ref(r.e)),
        ast_new_assign("=", s2.e, ast_new_deref(s1.e)),
        ast_new_assign_add(IF op = "++" THEN "+=" ELSE "-=", ast_new_deref(s1.e), ast_new_int(1)), s2.e>>))

(* The node of an identifier: local variables hide global ones, and those  *)
(* enumeration constants.  No node: the name is unknown.                   *)
identifier(name) ==
  LET l == SelectLastInSeq(Locals, LAMBDA v : v.name = name)
      g == SelectInSeq(Globals, LAMBDA v : v.name = name)
  IN  IF l # 0 THEN {ast_new_lvar(LocalOffsets[l], Locals[l].ty)}
      ELSE IF g # 0 THEN {[kind |-> "gvar", name |-> name, ty |-> Globals[g].ty]}
      ELSE IF name \in DOMAIN Enumerators THEN {ast_new_int(Enumerators[name])}
      ELSE {[kind |-> "func", name |-> n, ty |-> Func(Int_)] : n \in {name} \cap DOMAIN Functions_}
----------------------------------------------------------------------------
(* The functions of the recursive descent, which call each other, do so by *)
(* name: parse_part, which is defined below them, says what a name stands  *)
(* for.                                                                    *)
RECURSIVE parse_part(_, _, _)
expr(ts, r)            == parse_part("expr", ts, r)
assignment_expr(ts, r) == parse_part("assignment_expr", ts, r)
cast_expr(ts, r)       == parse_part("cast_expr", ts, r)
unary_expr(ts, r)      == parse_part("unary_expr", ts, r)
argument_list(ts, r)   == parse_part("argument_list", ts, r)

RECURSIVE arguments(_, _, _), postfixes(_, _), parse_binary_expr(_, _, _), operands(_, _, _),
          assignments(_, _), commas(_, _)

parse_primary_expr(ts, r) ==
  LET t == Token(ts, r)
      rest == next_token(r)
  IN  IF t \in DOMAIN Numerals THEN Parsed(rest, ast_new_int(Numerals[t]))
      ELSE IF t = Text THEN Parsed(rest, [kind |-> "str", ty |-> Array(Scalar("char"), 2)])
      ELSE IF t = "(" THEN expect(ts, expr(ts, rest), ")")
      ELSE IF identifier(t) # {} THEN Parsed(rest, CHOOSE e \in identifier(t) : TRUE)
      ELSE [rest EXCEPT !.ok = FALSE]

(* parse_argument_expr_list, es being the arguments up to here.            *)
arguments(ts, r, es) ==
  IF Token(ts, r) = ")" THEN Parsed(r, es)
  ELSE LET a == assignment_expr(ts, r)
       IN  IF Token(ts, a) = "," THEN arguments(ts, next_token(a), Append(es, a.e))
           ELSE Parsed(a, Append(es, a.e))

(* The loop of parse_postfix_expr.                                         *)
postfixes(ts, r) ==
  LET t == Token(ts, r)
      rest == next_token(r)
  IN
  CASE t = "(" ->
         LET a  == expect(ts, argument_list(ts, rest), ")")
             f  == IF r.e.ty.kind = "ptr" THEN r.e.ty.base ELSE r.e.ty
         IN  postfixes(ts, Parsed(a, [kind |-> "call", func |-> r.e, args |-> a.e, ty |-> f.result]))
    [] t = "[" ->
         LET i == expect(ts, expr(ts, rest), "]")
         IN  postfixes(ts, Parsed(i, ast_new_deref(ast_new_binary("+", r.e, scaled(i.e, r.e.ty)))))
    [] t = "." -> postfixes(ts, Parsed(next_token(rest), ast_new_member_access(ast_new_ref(r.e), Token(ts, rest))))
    [] t = "->" -> postfixes(ts, Parsed(next_token(rest), ast_new_member_access(r.e, Token(ts, rest))))
    [] t \in {"++", "--"} -> postfixes(ts, create_new_postfix_inc_or_dec(rest, t))
    [] OTHER -> r

parse_unary_expr(ts, r) ==
  LET t == Token(ts, r)
      rest == next_token(r)
      typed == Token(ts, rest) = "(" /\ Token(ts, next_token(rest)) \in DOMAIN TypeNames
      operand == cast_expr(ts, rest)
      unary == unary_expr(ts, rest)
      name == next_token(next_token(rest))
  IN
  CASE t = "+" -> operand
    [] t = "-" -> Parsed(operand, ast_new_binary("-", ast_new_int(0), operand.e))
    [] t \in {"!", "~"} -> Parsed(operand, ast_new_unary(t, operand.e))
    [] t = "&" -> Parsed(operand, ast_new_ref(operand.e))
    [] t = "*" -> IF operand.e.ty.kind = "func" THEN operand ELSE Parsed(operand, ast_new_deref(operand.e))
    [] t \in {"++", "--"} ->
         Parsed(unary, ast_new_assign_add(IF t = "++" THEN "+=" ELSE "-=", unary.e, ast_new_int(1)))
    [] t = "sizeof" ->
         IF typed THEN Parsed(expect(ts, name, ")"),
                              ast_new_int(type_sizeof(TypeNames[Token(ts, next_token(rest))])))
         ELSE Parsed(unary, ast_new_int(type_sizeof(unary.e.ty)))
    [] OTHER -> postfixes(ts, parse_primary_expr(ts, r))

parse_cast_expr(ts, r) ==
  LET name == Token(ts, next_token(r))
  IN  IF Token(ts, r) = "(" /\ name \in DOMAIN TypeNames
      THEN LET e == cast_expr(ts, expect(ts, next_token(next_token(r)), ")"))
           IN  Parsed(e, ast_new_cast(e.e, TypeNames[name]))
      ELSE unary_expr(ts, r)
----------------------------------------------------------------------------
(* The binary operators, from parse_logical_or_expr down to                *)
(* parse_multiplicative_expr: each function loops over operands parsed by  *)
(* the next one.                                                           *)
Levels == << {"||"}, {"&&"}, {"|"}, {"^"}, {"&"}, {"==", "!="}, {"<", "<=", ">", ">="},
             {"<<", ">>"}, {"+", "-"}, {"*", "/", "%"} >>

(* The node of an operator.                                                *)
combined(op, l, r) ==
  CASE op \in {"&&", "||"} -> ast_new_logical(op, l, r)
    [] op = ">"  -> ast_new_binary("<", r, l)
    [] op = ">=" -> ast_new_binary("<=", r, l)
    [] op = "+" -> IF HasBase(l.ty) THEN ast_new_binary("+", l, scaled(r, l.ty))
                   ELSE IF HasBase(r.ty) THEN ast_new_binary("+", scaled(l, r.ty), r)
                   ELSE ast_new_binary("+", l, r)
    [] op = "-" -> IF HasBase(l.ty)
                   THEN IF HasBase(r.ty)
                        THEN ast_new_binary("/", ast_new_binary("-", l, r), ast_new_int(type_sizeof(l.ty.base)))
                        ELSE ast_new_binary("-", l, scaled(r, l.ty))
                   ELSE ast_new_binary("-", l, r)
    [] OTHER -> ast_new_binary(op, l, r)

operands(ts, r, k) ==
  LET op == Token(ts, r)
  IN  IF op \in Levels[k]
      THEN LET rhs == parse_binary_expr(ts, next_token(r), k + 1)
           IN  operands(ts, Parsed(rhs, combined(op, r.e, rhs.e)), k)
      ELSE r
parse_binary_expr(ts, r, k) ==
  IF k > Len(Levels) THEN cast_expr(ts, r) ELSE operands(ts, parse_binary_expr(ts, r, k + 1), k)

parse_conditional_expr(ts, r) ==
  LET c == parse_binary_expr(ts, r, 1)
  IN  IF Token(ts, c) # "?" THEN c
      ELSE LET t == expect(ts, expr(ts, next_token(c)), ":")
               e == assignment_expr(ts, t)
           IN  Parsed(e, ast_new_cond(c.e, t.e, e.e))

AssignOps == {"=", "*=", "/=", "%=", "|=", "&=", "^=", "<<=", ">>="}
assignments(ts, r) ==
  LET op  == Token(ts, r)
      rhs == assignment_expr(ts, next_token(r))
  IN  CASE op \in AssignOps -> assignments(ts, Parsed(rhs, ast_new_assign(op, r.e, rhs.e)))
        [] op \in {"+=", "-="} -> assignments(ts, Parsed(rhs, ast_new_assign_add(op, r.e, rhs.e)))
        [] OTHER -> r
parse_assignment_expr(ts, r) == assignments(ts, parse_conditional_expr(ts, r))

commas(ts, r) ==
  IF Token(ts, r) # "," THEN r
  ELSE LET rhs == assignment_expr(ts, next_token(r))
       IN  commas(ts, Parsed(rhs, ast_new_list(<<r.e, rhs.e>>)))
parse_expr(ts, r) == commas(ts, assignment_expr(ts, r))

parse_part(f, ts, r) ==
  CASE f = "expr"            -> parse_expr(ts, r)
    [] f = "assignment_expr" -> parse_assignment_expr(ts, r)
    [] f = "cast_expr"       -> parse_cast_expr(ts, r)
    [] f = "unary_expr"      -> parse_unary_expr(ts, r)
    [] f = "argument_list"   -> arguments(ts, r, <<>>)

(* An expression statement: all of the tokens are its expression.          *)
parser_new == [e |-> ast_new_int(0), at |-> 1, frame |-> LocalsSize, last |-> Last(Locals).ty, ok |-> TRUE]
WholeOf(ts, r) == [r EXCEPT !.ok = @ /\ r.at = Len(ts) + 1]
Parse(ts) == WholeOf(ts, expr(ts, parser_new))
=============================================================================
