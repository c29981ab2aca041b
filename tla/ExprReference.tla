---------------------------- MODULE ExprReference ----------------------------
(***************************************************************************)
(* C expressions as trees: how one is spelled, with the parentheses that   *)
(* the grammar asks for and no others, and what it means.  The meaning is  *)
(* that of the language: a value, the objects after it, and the calls      *)
(* made, unless the expression has undefined behaviour, such as two        *)
(* unsequenced effects on one object.  An object is named by a path: the   *)
(* name of a variable, then indices and members; a pointer is a path.      *)
(***************************************************************************)
EXTENDS Values, FiniteSetsExt, Functions

CONSTANTS
  Variables,   \* the variables in scope: from names to types
  Enumerators, \* from the names of enumeration constants to values
  MaxIndex,    \* the length of the arrays
  Functions_   \* from the names of functions to the number of their arguments

Numerals == ("0" :> 0) @@ ("1" :> 1) @@ ("2" :> 2) @@ ("3" :> 3) @@ ("5" :> 5)
TypeNames == ("char" :> Scalar("char")) @@ ("short" :> Scalar("short")) @@ ("int" :> Int_)
             @@ ("long" :> Scalar("long")) @@ ("int*" :> Ptr(Int_))

Lit(text)         == [node |-> "lit", text |-> text]
Var(name)         == [node |-> "var", name |-> name]
Un(op, of)        == [node |-> "un", op |-> op, of |-> of]
Post(of, op)      == [node |-> "post", op |-> op, of |-> of]
Bin(l, op, r)     == [node |-> "bin", op |-> op, l |-> l, r |-> r]
Assign(l, op, r)  == [node |-> "assign", op |-> op, l |-> l, r |-> r]
Cond(c, t, e)     == [node |-> "cond", c |-> c, t |-> t, e |-> e]
Comma(l, r)       == [node |-> "comma", l |-> l, r |-> r]
Index(of, i)      == [node |-> "index", of |-> of, i |-> i]
Dot(of, m)        == [node |-> "dot", of |-> of, m |-> m]
Arrow(of, m)      == [node |-> "arrow", of |-> of, m |-> m]
Call(f, args)     == [node |-> "call", f |-> f, args |-> args]
Cast(name, of)    == [node |-> "cast", name |-> name, of |-> of]
SizeofType(name)  == [node |-> "sizeof", name |-> name]
----------------------------------------------------------------------------
(* Spelling.  A token is its text; the name of a type is one token.        *)
BinaryOps == << {"||"}, {"&&"}, {"|"}, {"^"}, {"&"}, {"==", "!="}, {"<", ">", "<=", ">="},
                {"<<", ">>"}, {"+", "-"}, {"*", "/", "%"} >>
LevelOf(op) == 3 + CHOOSE i \in DOMAIN BinaryOps : op \in BinaryOps[i]

Level(e) ==
  CASE e.node = "comma" -> 1 [] e.node = "assign" -> 2 [] e.node = "cond" -> 3
    [] e.node = "bin" -> LevelOf(e.op)
    [] e.node = "cast" -> 14 [] e.node \in {"un", "sizeof"} -> 15
    [] OTHER -> 16

RECURSIVE Spelled(_, _)
Spelled(e, level) ==
  LET text ==
        CASE e.node = "lit" -> <<e.text>>
          [] e.node = "var" -> <<e.name>>
          [] e.node = "un" -> <<e.op>> \o Spelled(e.of, IF e.op \in {"++", "--", "sizeof"} THEN 15 ELSE 14)
          [] e.node = "post" -> Spelled(e.of, 16) \o <<e.op>>
          [] e.node = "bin" -> Spelled(e.l, LevelOf(e.op)) \o <<e.op>> \o Spelled(e.r, LevelOf(e.op) + 1)
          [] e.node = "assign" -> Spelled(e.l, 15) \o <<e.op>> \o Spelled(e.r, 2)
          [] e.node = "cond" -> Spelled(e.c, 4) \o <<"?">> \o Spelled(e.t, 1) \o <<":">> \o Spelled(e.e, 3)
          [] e.node = "comma" -> Spelled(e.l, 1) \o <<",">> \o Spelled(e.r, 2)
          [] e.node = "index" -> Spelled(e.of, 16) \o <<"[">> \o Spelled(e.i, 1) \o <<"]">>
          [] e.node = "dot" -> Spelled(e.of, 16) \o <<".", e.m>>
          [] e.node = "arrow" -> Spelled(e.of, 16) \o <<"->", e.m>>
          [] e.node = "call" ->
               Spelled(e.f, 16) \o <<"(">>
               \o FoldLeft(LAMBDA acc, a : IF acc = <<>> THEN Spelled(a, 2) ELSE acc \o <<",">> \o Spelled(a, 2),
                           <<>>, e.args) \o <<")">>
          [] e.node = "cast" -> <<"(", e.name, ")">> \o Spelled(e.of, 14)
          [] e.node = "sizeof" -> <<"sizeof", "(", e.name, ")">>
  IN  IF Level(e) < level THEN <<"(">> \o text \o <<")">> ELSE text
----------------------------------------------------------------------------
(* Types.                                                                  *)
Promoted(s, t) == IF "ulong" \in {s.kind, t.kind} THEN Scalar("ulong")
                  ELSE IF "long" \in {s.kind, t.kind} THEN Scalar("long") ELSE Int_
Decayed(t) == IF t.kind = "array" THEN Ptr(t.base) ELSE t
Comparisons == {"==", "!=", "<", ">", "<=", ">=", "&&", "||"}

UnaryType(op, t) ==
  CASE op = "&" -> Ptr(t)
    [] op = "*" -> IF t.kind = "func" THEN t ELSE t.base
    [] op = "!" -> Int_
    [] op = "sizeof" -> Scalar("ulong")
    [] op \in {"+", "-", "~"} -> Promoted(t, t)
    [] op \in {"++", "--"} -> t
BinaryType(op, s, t) ==
  CASE op \in Comparisons -> Int_
    [] op \in {"<<", ">>"} -> Promoted(s, s)
    [] op = "-" /\ s.kind = "ptr" /\ t.kind = "ptr" -> Scalar("long")
    [] OTHER -> IF s.kind = "ptr" THEN s ELSE IF t.kind = "ptr" THEN t ELSE Promoted(s, t)

RECURSIVE TypeOf(_)
TypeOf(e) ==
  CASE e.node = "lit" -> Int_
    [] e.node = "var" -> IF e.name \in DOMAIN Variables THEN Variables[e.name]
                         ELSE IF e.name \in DOMAIN Enumerators THEN Int_ ELSE Func(Int_)
    [] e.node = "un" -> UnaryType(e.op, TypeOf(e.of))
    [] e.node = "post" -> TypeOf(e.of)
    [] e.node = "bin" -> BinaryType(e.op, Decayed(TypeOf(e.l)), Decayed(TypeOf(e.r)))
    [] e.node = "assign" -> TypeOf(e.l)
    [] e.node = "cond" -> LET s == Decayed(TypeOf(e.t))  t == Decayed(TypeOf(e.e))
                          IN  IF s.kind \in Integers_ THEN Promoted(s, t) ELSE s
    [] e.node = "comma" -> TypeOf(e.r)
    [] e.node = "index" -> TypeOf(e.of).base
    [] e.node = "dot" -> type_member_typeof(TypeOf(e.of), e.m)
    [] e.node = "arrow" -> type_member_typeof(TypeOf(e.of).base, e.m)
    [] e.node = "call" -> Int_
    [] e.node = "cast" -> TypeNames[e.name]
    [] e.node = "sizeof" -> Scalar("ulong")

(* The scalars within an object, each a path with its type.                *)
RECURSIVE Cells(_, _)
Cells(path, ty) ==
  CASE ty.kind = "array" -> UNION {Cells(Append(path, i), ty.base) : i \in 0..(ty.array_size - 1)}
    [] ty.kind = "struct" -> UNION {Cells(Append(path, m.name), m.ty) : m \in Range(MembersOf(ty))}
    [] OTHER -> {[path |-> path, ty |-> ty]}
Paths(cells) == {c.path : c \in cells}
AllCells == UNION {Cells(<<x>>, Variables[x]) : x \in DOMAIN Variables}
----------------------------------------------------------------------------
(* What an evaluation gives: a value, the objects behind it, the objects   *)
(* it read and wrote, the calls it made, and whether it was defined.  How  *)
(* well the code of ducc keeps the value: "exact"; "truth" for an && or || *)
(* whose right operand is neither 0 nor 1, of which only the truth is      *)
(* kept; "lost" for an assignment of a value that its object cannot hold.  *)
Pure(v, mem) == [v |-> v, mem |-> mem, reads |-> {}, writes |-> {}, called |-> <<>>,
                 ok |-> TRUE, keeps |-> "exact"]
Undefined(r) == [r EXCEPT !.ok = FALSE]
Where(r, cond) == IF cond THEN r ELSE Undefined(r)

(* b, which was evaluated after a, or in no particular order.              *)
After(a, b) == [b EXCEPT !.reads = @ \cup a.reads, !.writes = @ \cup a.writes,
                         !.called = a.called \o @, !.ok = @ /\ a.ok]
Unsequenced(a, b) ==
  Where(After(a, b), a.writes \cap (b.reads \cup b.writes) = {} /\ b.writes \cap a.reads = {})
Exact(r) == Where(r, r.keeps = "exact")
Holds(r, ty) == IF ty.kind \in Integers_ THEN r.v # 0 ELSE TRUE

Converted(v, ty) ==
  IF ty.kind = "ulong" THEN Unsigned(v)
  ELSE IF ty.kind \in Integers_ THEN Signed(v, type_sizeof(ty)) ELSE v

Load(r, ty) ==
  CASE ty.kind = "array" -> [r EXCEPT !.v = Append(@, 0)]
    [] ty.kind = "func" -> r
    [] ty.kind = "struct" ->
         LET at(m) == Append(r.v, m)
             names == {m.name : m \in Range(MembersOf(ty))}
         IN  IF \A m \in names : at(m) \in DOMAIN r.mem
             THEN [r EXCEPT !.v = [m \in names |-> r.mem[at(m)]], !.reads = @ \cup {at(m) : m \in names}]
             ELSE Undefined(r)
    [] OTHER -> IF r.v \in DOMAIN r.mem THEN [r EXCEPT !.v = r.mem[r.v], !.reads = @ \cup {r.v}]
                ELSE Undefined(r)

(* Stored at a path; the value of the assignment is what the object holds. *)
Store(r, path, ty, v) ==
  LET new == Converted(v, ty)
      mem == IF ty.kind = "struct"
             THEN [p \in Paths(Cells(path, ty)) |-> v[Last(p)]] @@ r.mem
             ELSE (path :> new) @@ r.mem
      stored == [r EXCEPT !.v = new, !.mem = mem, !.writes = @ \cup Paths(Cells(path, ty)),
                          !.keeps = IF new = v THEN "exact" ELSE "lost"]
  IN  Where(stored, Paths(Cells(path, ty)) \cap r.writes = {}
                    /\ Paths(Cells(path, ty)) \subseteq DOMAIN r.mem)

Bit(b) == IF b THEN 1 ELSE 0

(* An operator applied to values of types s and t: the set of its value,   *)
(* empty where the language defines none.                                  *)
ConvertedArithmetic(op, ty, x, y, b) ==
  LET wide(v) == IF ty.kind = "ulong" THEN {Unsigned(v)}
                 ELSE {w \in {v} : InRange(w, type_sizeof(ty))}
  IN  CASE op = "+" -> wide(x + y)
        [] op = "-" -> wide(x - y)
        [] op = "*" -> wide(x * y)
        [] op = "/" -> IF y = 0 THEN {} ELSE wide(Quotient(x, y))
        [] op = "%" -> IF y = 0 THEN {} ELSE wide(Remainder(x, y))
        [] op = "&" -> {Converted(BitsOf("and", x, y), ty)}
        [] op = "|" -> {Converted(BitsOf("or", x, y), ty)}
        [] op = "^" -> {Converted(BitsOf("xor", x, y), ty)}
        [] op = "<<" -> IF b \in 0..9 /\ x >= 0 THEN wide(x * 2 ^ b) ELSE {}
        [] op = ">>" -> IF b \in 0..9 THEN {x \div 2 ^ b} ELSE {}
        [] op = "==" -> {Bit(x = y)} [] op = "!=" -> {Bit(x # y)}
        [] op = "<" -> {Bit(x < y)}  [] op = "<=" -> {Bit(x <= y)}
        [] op = ">" -> {Bit(x > y)}  [] op = ">=" -> {Bit(x >= y)}
Arithmetic(op, ty, a, b) == ConvertedArithmetic(op, ty, Converted(a, ty), Converted(b, ty), b)

(* Pointers move within an array, up to one element behind its end.        *)
IsElement(p) == Len(p) > 1 /\ Last(p) \in 0..MaxIndex
Moved(p, n)  == {q \in {Append(Front(p), Last(p) + n)} : IsElement(p) /\ IsElement(q)}

Operated(op, s, a, t, b) ==
  CASE s.kind = "ptr" /\ t.kind = "ptr" ->
         IF op \in {"==", "!="} THEN {Bit((a = b) = (op = "=="))}
         ELSE IF ~IsElement(a) \/ ~IsElement(b) \/ Front(a) # Front(b) THEN {}
         ELSE Arithmetic(op, Int_, Last(a), Last(b))
    [] s.kind = "ptr" /\ t.kind # "ptr" -> Moved(a, IF op = "-" THEN -b ELSE b)
    [] s.kind # "ptr" /\ t.kind = "ptr" -> Moved(b, a)
    [] OTHER -> Arithmetic(op, IF op \in {"<<", ">>"} THEN Promoted(s, s) ELSE Promoted(s, t), a, b)

Result(r, vs) == IF vs = {} THEN Undefined(r) ELSE [r EXCEPT !.v = CHOOSE v \in vs : TRUE]

(* What a function returns: they are written elsewhere, and known.         *)
Returned(args) == CASE Len(args) = 0 -> 3 [] Len(args) = 1 -> args[1] + 1
                    [] Len(args) = 2 -> args[1] - 2 * args[2]
----------------------------------------------------------------------------
(* The value of an expression, and the object that it designates.          *)
RECURSIVE Evaluated(_, _, _)
Eval(e, mem)  == Evaluated("value", e, mem)
Place(e, mem) == Evaluated("object", e, mem)

ObjectOf(e, mem) ==
  LET member(r, m) == IF r.ok THEN [r EXCEPT !.v = Append(@, m)] ELSE r
  IN  CASE e.node = "var" -> Pure(<<e.name>>, mem)
        [] e.node = "un" /\ e.op = "*" -> Eval(e.of, mem)
        [] e.node = "index" ->
             LET base == Eval(e.of, mem)
                 i    == Exact(Eval(e.i, base.mem))
                 both == Unsequenced(base, i)
             IN  IF both.ok THEN Result(both, Moved(base.v, i.v)) ELSE both
        [] e.node = "dot" -> member(Place(e.of, mem), e.m)
        [] e.node = "arrow" -> member(Eval(e.of, mem), e.m)
        [] e.node = "cond" ->
             LET c == Eval(e.c, mem)
             IN  IF c.ok THEN After(c, Place(IF Holds(c, TypeOf(e.c)) THEN e.t ELSE e.e, c.mem)) ELSE c
        [] e.node = "comma" ->
             LET a == Eval(e.l, mem) IN IF a.ok THEN After(a, Place(e.r, a.mem)) ELSE a

(* An object designated by `at` is set to op of its value and another.     *)
StoredIf(r, path, ty) == IF r.ok THEN Store(r, path, ty, r.v) ELSE r
Updated(at, ty, op, by, v) ==
  LET old == Load(at, ty)
      new == IF op = "" THEN [at EXCEPT !.v = v]
             ELSE IF old.ok THEN Result([old EXCEPT !.v = v], Operated(op, ty, old.v, by, v)) ELSE old
  IN  [stored |-> StoredIf(new, at.v, ty), old |-> old.v]

Logical(op, a, s, e, mem) ==
  IF Holds(a, s) = (op = "||") THEN [a EXCEPT !.v = Bit(op = "||"), !.keeps = "exact"]
  ELSE LET b == Eval(e, a.mem)
           t == Decayed(TypeOf(e))
           known == After(a, Where(b, b.keeps # "lost"))
       IN  [known EXCEPT !.v = Bit(Holds(b, t)),
                         !.keeps = IF b.keeps = "exact" /\ t.kind \in Integers_ /\ b.v = Bit(b.v # 0)
                                   THEN "exact" ELSE "truth"]

ValueOf(e, mem) ==
  IF e.node \in {"index", "dot", "arrow"} \/ (e.node = "un" /\ e.op = "*")
     \/ (e.node = "var" /\ e.name \in DOMAIN Variables)
  THEN LET at == Place(e, mem) IN IF at.ok THEN Load(at, TypeOf(e)) ELSE at
  ELSE
  CASE e.node = "lit" -> Pure(Numerals[e.text], mem)
    [] e.node = "var" -> Pure(IF e.name \in DOMAIN Enumerators THEN Enumerators[e.name] ELSE <<e.name>>, mem)
    [] e.node = "sizeof" -> Pure(type_sizeof(TypeNames[e.name]), mem)
    [] e.node = "un" /\ e.op = "sizeof" -> Pure(type_sizeof(TypeOf(e.of)), mem)
    [] e.node = "un" /\ e.op = "&" -> Place(e.of, mem)
    [] e.node = "un" /\ e.op \in {"++", "--"} ->
         LET at == Place(e.of, mem)
         IN  IF at.ok THEN Updated(at, TypeOf(e.of), IF e.op = "++" THEN "+" ELSE "-", Int_, 1).stored ELSE at
    [] e.node = "post" ->
         LET at == Place(e.of, mem)
             u  == Updated(at, TypeOf(e.of), IF e.op = "++" THEN "+" ELSE "-", Int_, 1)
         IN  IF at.ok THEN [u.stored EXCEPT !.v = u.old, !.keeps = "exact"] ELSE at
    [] e.node = "un" /\ e.op \notin {"sizeof", "&", "++", "--"} ->
         LET r == Eval(e.of, mem)  t == TypeOf(e.of)
         IN  IF e.op = "!" THEN [Where(r, r.keeps # "lost") EXCEPT !.v = Bit(~Holds(r, t)), !.keeps = "exact"]
             ELSE IF ~r.ok THEN r
             ELSE Result(Exact(r), CASE e.op = "+" -> {r.v}
                                     [] e.op = "-" -> Arithmetic("-", Promoted(t, t), 0, r.v)
                                     [] e.op = "~" -> {Converted(-r.v - 1, Promoted(t, t))})
    [] e.node = "bin" /\ e.op \in {"&&", "||"} ->
         LET a == Eval(e.l, mem)
         IN  IF a.ok /\ a.keeps # "lost" THEN Logical(e.op, a, Decayed(TypeOf(e.l)), e.r, mem) ELSE Undefined(a)
    [] e.node = "bin" /\ e.op \notin {"&&", "||"} ->
         LET a == Exact(Eval(e.l, mem))
             b == Exact(Eval(e.r, a.mem))
             both == Unsequenced(a, b)
         IN  IF both.ok THEN Result(both, Operated(e.op, Decayed(TypeOf(e.l)), a.v, Decayed(TypeOf(e.r)), b.v))
             ELSE both
    [] e.node = "assign" ->
         LET at == Place(e.l, mem)
             r  == Exact(Eval(e.r, at.mem))
             by == Decayed(TypeOf(e.r))
             both == Unsequenced(IF e.op = "=" THEN at ELSE [at EXCEPT !.reads = @ \cup {at.v}], r)
         IN  IF both.ok
             THEN Updated([both EXCEPT !.v = at.v], TypeOf(e.l),
                          IF e.op = "=" THEN "" ELSE SubSeq(e.op, 1, Len(e.op) - 1), by, r.v).stored
             ELSE both
    [] e.node = "cond" ->
         LET c == Eval(e.c, mem)
         IN  IF c.ok /\ c.keeps # "lost"
             THEN After(c, Eval(IF Holds(c, Decayed(TypeOf(e.c))) THEN e.t ELSE e.e, c.mem)) ELSE Undefined(c)
    [] e.node = "comma" ->
         LET a == Eval(e.l, mem) IN IF a.ok THEN After(a, Eval(e.r, a.mem)) ELSE a
    [] e.node = "cast" ->
         LET r == Exact(Eval(e.of, mem)) IN [r EXCEPT !.v = Converted(@, TypeNames[e.name])]
    [] e.node = "call" ->
         LET f == Eval(e.f, mem)
             args == FoldLeft(LAMBDA acc, a :
                        LET r == Exact(Eval(a, acc.mem)) IN [Unsequenced(acc, r) EXCEPT !.v = Append(acc.v, r.v)],
                        [f EXCEPT !.v = <<>>], e.args)
         IN  IF args.ok THEN [args EXCEPT !.v = Returned(args.v), !.called = Append(@, <<f.v[1], args.v>>)]
             ELSE args

Evaluated(what, e, mem) == IF what = "object" THEN ObjectOf(e, mem) ELSE ValueOf(e, mem)
=============================================================================
