------------------------------ MODULE MCMacros ------------------------------
(* Instances of MacroMeaning.  A macro table is a function from names,     *)
(* and a text is built from the invocations of its macros.                 *)
EXTENDS MacroMeaning

Id(n)     == Token("ident", <<n>>)
P(k)      == Token(k, <<k>>)
One == Token("int", <<"1">>)
Sp == Token("ws", <<>>)
Nl == Token("nl", <<>>)

Object(body) == [kind |-> "obj", params |-> <<>>, body |-> body]
Function(params, body) ==
  [kind |-> "func", params |-> [i \in DOMAIN params |-> <<params[i]>>], body |-> body]

(* An invocation with one or two arguments.                                *)
Call1(n, a)    == <<Id(n), P("(")>> \o a \o <<P(")")>>
Call2(n, a, b) == <<Id(n), P("(")>> \o a \o <<P(","), Sp>> \o b \o <<P(")")>>
Calls(Fs, A) == {Call1(n, a) : n \in Fs, a \in A}
Program(table, text, lines) == [macros |-> table, text |-> Append(text, Nl), skip_newline |-> lines]

(* Macros that refer to each other only downwards: parenthesised, pasted,  *)
(* stringified, used twice, and invocations within bodies.                 *)
Straight ==
  (<<"o">> :> Object(<<One>>)) @@ (<<"e">> :> Object(<<>>)) @@
  (<<"f">> :> Function(<<"x">>, <<P("("), Id("x"), P(")"), Id("o")>>)) @@
  (<<"h">> :> Function(<<"x">>, <<Token("hash", <<"#">>), Sp, Id("x"), Sp, Id("o")>>)) @@
  (<<"g">> :> Function(<<"x", "y">>,
                <<Id("x"), Sp, Token("hashhash", <<"##">>), Id("y"), Sp>> \o Call1("f", <<Id("e"), One>>)))

(* What g pastes is at most one token each.                                *)
Words  == {<<>>, <<Id("o")>>, <<Id("z")>>, <<Id("e")>>}
Atoms  == Words \cup {<<P("("), Id("z"), P(","), One, P(")")>>}
Pastes == {Call2("g", a, b) : a \in Words, b \in Words \cup {<<One>>}}
Flat   == Atoms \cup Calls({"f", "h"}, Words) \cup Pastes
Nested == Flat \cup Calls({"f", "h"}, Flat \cup Calls({"f", "h"}, Flat))
Spaced == {<<Id("f"), Sp, P("("), Sp>> \o a \o <<Sp, P(")")>> : a \in Atoms}
Split  == {<<Id("g"), Nl, P("("), Nl>> \o a \o <<P(","), Nl>> \o a \o <<Nl, P(")")>> : a \in Words}
(* A function-like macro's name alone; the line goes on.                   *)
Alone  == {<<Id("f"), Sp>> \o a : a \in {<<One>>, <<Id("o")>>, Call1("f", <<Id("f")>>)}}

(* Macros that refer to themselves and to each other.                      *)
Cyclic ==
  (<<"a">> :> Object(<<Id("b"), Sp, Id("a")>>)) @@ (<<"b">> :> Object(<<Id("c"), Id("a")>>)) @@
  (<<"c">> :> Object(<<Id("b"), Sp, Id("z")>>)) @@
  (<<"r">> :> Function(<<"x">>, Call1("r", <<Id("x")>>) \o <<Id("x")>>))
CyclicTexts ==
  LET names == {<<Id(n)>> : n \in {"a", "b", "c", "z"}}
      calls == Calls({"r"}, {<<>>, <<Id("z")>>, <<Id("r")>>} \cup Calls({"r"}, {<<Id("z")>>}))
      words == names \cup calls
  IN  {w : w \in words} \cup {u \o <<Sp>> \o v : u \in words, v \in words}

Correct ==
  {Program(Straight, t, TRUE) : t \in Nested \cup Spaced \cup Split \cup Alone}
  \cup {Program(Straight, t, FALSE) : t \in Flat \cup Spaced \cup {<<Id("f"), P("("), Nl>>}}
  \cup {Program(Straight, u \o <<Sp>> \o v, TRUE) : u \in Flat, v \in Flat}
  \cup {Program(Straight, u \o <<Nl, Token("dir", <<>>), Nl>> \o u, TRUE) : u \in Flat}
  \cup {Program(Cyclic, t, TRUE) : t \in CyclicTexts}

(* A name that ends a line: of a function-like macro, and of another one.  *)
LineEnds ==
  {Program(Straight, u \o <<Nl, Token("dir", <<>>), Nl, One>>, TRUE) : u \in {<<Id("f")>>, <<Id("o")>>}}
=============================================================================
