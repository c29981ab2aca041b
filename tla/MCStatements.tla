---------------------------- MODULE MCStatements ----------------------------
(* Instances of StatementCode: all the programs of given sizes, made of    *)
(* given kinds of statements.                                              *)
EXTENDS StatementCode

T(kind, arg, kids) == [kind |-> kind, arg |-> arg, kids |-> kids]
Leaf(kind) == T(kind, 0, <<>>)

(* A family of programs: the kinds of statements, and forms of a for; and  *)
(* whether case labels may be within other statements of the switch.       *)
Loopy    == [inner |-> FALSE, kinds |-> {"expr", "break", "continue", "list", "if", "do",
                                         "for", "full", "forever"}]
Switchy  == [inner |-> FALSE, kinds |-> {"expr", "break", "continue", "list", "case", "default",
                                         "switch", "if", "for", "while"}]
Jumpy    == [inner |-> FALSE, kinds |-> {"expr", "return", "goto", "label", "list", "if",
                                         "for", "while"}]
Anything == [inner |-> FALSE, kinds |-> Switchy.kinds \cup Jumpy.kinds]
Nested   == [Switchy EXCEPT !.inner = TRUE]

(* A place in a program: what may stand there.  A break may not be in a    *)
(* loop in a switch: the code of such a break leaves the switch.           *)
Places ==
  {c \in [loop : BOOLEAN, break : BOOLEAN, inSwitch : BOOLEAN, label : BOOLEAN, list : BOOLEAN] :
     /\ c.label => c.inSwitch
     /\ c.break => c.loop \/ c.inSwitch
     /\ c.inSwitch => c.loop \/ c.break}
Outside == [loop |-> FALSE, break |-> FALSE, inSwitch |-> FALSE, label |-> FALSE, list |-> FALSE]
InList(c)    == [c EXCEPT !.list = TRUE]
InIf(g, c)   == [c EXCEPT !.list = FALSE, !.label = @ /\ g.inner]
InLoop(g, c) == [InIf(g, c) EXCEPT !.loop = TRUE, !.break = ~c.inSwitch]
InSwitch(c)  == [c EXCEPT !.break = TRUE, !.inSwitch = TRUE, !.label = TRUE, !.list = FALSE]

Leaves(c) ==
  {t \in {Leaf("expr"), Leaf("return"), Leaf("break"), Leaf("continue"), T("goto", "l", <<>>)} :
     /\ t.kind = "break" => c.break
     /\ t.kind = "continue" => c.loop}

Labels(c) ==
  (IF c.label THEN {<<"case", 1>>, <<"case", 2>>, <<"default", 0>>} ELSE {})
    \cup (IF c.label /\ ~c.list THEN {} ELSE {<<"label", "l">>})

(* The statements of n nodes that may stand at c, and the items of lists   *)
(* of n nodes, given those of fewer nodes.  A label is an item in a list   *)
(* and has a statement anywhere else.                                      *)
Trees(g, n, c, trees, items) ==
  LET one(kind, args, d) ==
        IF kind \in g.kinds THEN {T(kind, a, <<t>>) : a \in args, t \in trees[n - 1][d]} ELSE {}
      two == UNION {{T("if", 0, <<t, u>>) : t \in trees[k][InIf(g, c)],
                                             u \in trees[n - 1 - k][InIf(g, c)]} : k \in 1..(n - 2)}
      label == {l \in Labels(c) : ~c.list \/ n = 1}
      all ==
        IF n = 1 THEN Leaves(c) \cup {T(l[1], l[2], <<Leaf("nop")>>) : l \in {m \in label : c.list}}
        ELSE {T("list", 0, s) : s \in items[n - 1][InList(c)]}
               \cup one("if", {0}, InIf(g, c)) \cup two
               \cup one("for", {"full", "while", "forever"} \cap g.kinds, InLoop(g, c))
               \cup one("do", {0}, InLoop(g, c))
               \cup one("switch", {0}, InSwitch(c))
               \cup UNION {one(l[1], {l[2]}, c) : l \in label}
  IN  {t \in all : t.kind \in g.kinds}

Items(n, c, trees, items) ==
  {<<t>> : t \in trees[n][c]}
    \cup UNION {{<<t>> \o s : t \in trees[k][c], s \in items[n - k][c]} : k \in 1..(n - 1)}

(* A function of the places, computed once.                                *)
Table(op(_), places) == FoldSet(LAMBDA c, f : f @@ (c :> op(c)), <<>>, places)

RECURSIVE Upto(_, _)
Upto(g, n) ==
  IF n = 0 THEN [trees |-> <<>>, items |-> <<>>]
  ELSE LET less   == Upto(g, n - 1)
           places == {c \in Places : c.inSwitch => "switch" \in g.kinds}
           trees  == Append(less.trees,
                            Table(LAMBDA c : Trees(g, n, c, less.trees, less.items), places))
       IN  [trees |-> trees,
            items |-> Append(less.items, Table(LAMBDA c : Items(n, c, trees, less.items), places))]

(* All its statements, or those that are not in an inner switch.           *)
RECURSIVE Nodes(_), OwnNodes(_)
Nodes(t) == <<t>> \o FlattenSeq([k \in DOMAIN t.kids |-> Nodes(t.kids[k])])
OwnNodes(t) ==
  <<t>> \o IF t.kind = "switch" THEN <<>>
           ELSE FlattenSeq([k \in DOMAIN t.kids |-> OwnNodes(t.kids[k])])

Count(s, kind, arg) == Len(SelectSeq(s, LAMBDA t : t.kind = kind /\ t.arg = arg))

(* What C asks of labels.                                                  *)
Valid(t) ==
  LET all == Nodes(t) IN
  /\ Count(all, "label", "l") <= 1
  /\ Count(all, "goto", "l") > 0 => Count(all, "label", "l") = 1
  /\ \A i \in DOMAIN all : all[i].kind = "switch" =>
       LET own == OwnNodes(all[i].kids[1]) IN
       /\ Count(own, "case", 1) <= 1 /\ Count(own, "case", 2) <= 1
       /\ Count(own, "default", 0) <= 1

(* The bodies of n statements.                                             *)
Bodies(g, n) ==
  LET less == Upto(g, n - 1)
  IN  {t \in Trees(g, n, Outside, less.trees, less.items) : Valid(t)}

(* while (..) { switch (..) { n statements } .. }                          *)
SwitchBodies(g, n) ==
  LET upto == Upto(g, n)
      body(s) == T("for", "while",
                   <<T("list", 0, <<T("switch", 0, <<T("list", 0, s)>>), Leaf("expr")>>)>>)
  IN  {t \in {body(s) : s \in upto.items[n][InList(InSwitch(InLoop(g, Outside)))]} : Valid(t)}

Alone(bodies) == {<<b>> : b \in bodies}
PairsOf(bodies) == {<<b, c>> : b \in bodies, c \in bodies}

Bound == 5
Loops    == Bodies(Loopy, Bound)
Gotos    == Bodies(Jumpy, Bound)
Switches == SwitchBodies(Switchy, Bound - 1)
Short    == Bodies(Anything, Bound - 2)
Pairs    == PairsOf(Short)
Together == UNION {Alone(Loops), Alone(Gotos), Alone(Switches), Pairs}
AllPrograms == Together   \* a name whose value TLC has computed already

Inner == Alone(SwitchBodies(Nested, Bound - 2))
InnerCases == Inner
=============================================================================
