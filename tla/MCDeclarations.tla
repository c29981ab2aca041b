--------------------------- MODULE MCDeclarations ---------------------------
(* Instances of Declarations: sets of declarations that interact.          *)
EXTENDS Declarations

MCNames == {"a", "b", "c", "f", "g", "T", "U", "F", "S", "X", "E", "G", "m", "n", "red", "blue", "tall"}

IntType == Words(<<"int">>)
D(n, path) == Declarator_(n, path)
One(storage, base, n, path) == Declaration(storage, base, <<D(n, path)>>)
Program(S, k) == [of |-> S, max |-> k]

(* Every list of up to two specifier words, and the longer ones of those   *)
(* that go together.                                                       *)
WordLists == (SeqOf(TypeWords, 2) \cup SeqOf({"short", "int", "long", "unsigned", "double"}, 3)
              \cup SeqOf({"int", "long", "signed", "unsigned"}, 4)) \ {<<>>}
Qualified == {<<"const", "int">>, <<"unsigned", "const", "char">>, <<"long", "volatile", "long">>, <<"inline", "long", "int">>}
Specifiers == {One("", Words(w), "a", <<>>) : w \in WordLists \cup Qualified}

(* Every way from a name to its base with up to four derivations, save     *)
(* functions that return functions or arrays, arrays of functions and      *)
(* arrays of arrays.                                                       *)
NoParams == Taking(<<>>)
OneParam == Taking(<<Param("n", IntType, <<Pointer>>)>>)
Params   == {NoParams, OneParam, Taking(<<Param("", Words(<<"void">>), <<>>)>>),
             Taking(<<Param("", Words(<<"char">>), <<Pointer, Pointer>>), Param("m", Words(<<"const", "long">>), <<>>)>>)}
Follows(d, e) == (d.to = "ptr") \/ (d.to = "array" /\ e.to = "ptr") \/ (d.to = "func" /\ e.to = "ptr")
Paths(Steps, k) == {s \in SeqOf(Steps, k) : \A i \in 1..(Len(s) - 1) : Follows(s[i], s[i + 1])}
Deep    == Paths({Pointer, ArrayOf("2"), OneParam}, 5)
Shallow == Paths({Pointer, ArrayOf("3")} \cup Params, 2)
NoFunctionWithin(path) == \A i \in 2..Len(path) : path[i].to # "func"
IsFunction(path) == path # <<>> /\ path[1].to = "func"
Declarators == {One(s, IntType, "a", path) : s \in {"", "typedef"}, path \in Deep \cup Shallow}
               \cup {One(s, IntType, "a", path) : s \in {"static", "extern"},
                       path \in {q \in Deep \cup Shallow : NoFunctionWithin(q)
                                                           /\ (IsFunction(q) \/ \A i \in DOMAIN q : q[i].to # "func")}}
Defined(d) == [d EXCEPT !.definition = TRUE]
Functions == {Defined(One(s, base, n, path)) : s \in {"", "static", "extern"}, n \in {"f", "g"},
                base \in {IntType, Words(<<"void">>)},
                path \in {<<NoParams>>, <<OneParam, Pointer>>, <<NoParams, Pointer, Pointer>>}}
             \cup {Defined(One("", IntType, "f", <<NoParams, Pointer, OneParam>>)),
                   Defined(Declaration("", IntType, <<D("a", <<>>), D("f", <<NoParams>>)>>))}

(* Lists of declarators that share what the specifiers made.               *)
Lists == {Declaration(s, IntType, <<D("a", p), D("b", q)>>) : s \in {"", "typedef"}, p \in Shallow, q \in Shallow}
Statics == {Declaration("static", IntType, <<D("a", <<>>), D("b", <<>>)>>),
            Declaration("extern", IntType, <<D("a", <<>>), D("b", <<>>)>>),
            Declaration("", IntType, <<D("c", <<Pointer>>)>>),
            Declaration("extern", IntType, <<D("b", <<>>)>>),
            Declaration("", IntType, <<[D("a", <<>>) EXCEPT !.init = 1], D("c", <<Pointer>>)>>),
            Declaration("", IntType, <<[D("g", <<ArrayOf("")>>) EXCEPT !.init = 3]>>),
            Declaration("static", IntType, <<D("b", <<ArrayOf("2")>>)>>),
            One("static", IntType, "a", <<Pointer>>), One("extern", IntType, "a", <<Pointer>>),
            One("typedef", IntType, "T", <<>>), One("static", Named("T"), "m", <<>>), One("", Named("T"), "n", <<>>),
            One("", IntType, "f", <<OneParam>>), Defined(One("static", IntType, "f", <<OneParam, Pointer>>)),
            Defined(One("", IntType, "f", <<OneParam>>)), Defined(One("static", IntType, "f", <<OneParam>>))}

(* Typedef names, tags and enumerators that refer to each other.           *)
M(base, ds) == [base |-> base, declarators |-> ds]
Field(n, w) == [D(n, <<>>) EXCEPT !.width = w]
ListS  == Body("struct", "S", <<M(IntType, <<D("m", <<>>), D("n", <<ArrayOf("2")>>)>>),
                                M(Tag("struct", "S"), <<D("a", <<Pointer>>)>>)>>)
BothX  == Body("struct", "X", <<M(Tag("struct", "S"), <<D("m", <<Pointer>>)>>),
                                M(Body("union", NoTag, <<M(IntType, <<D("a", <<>>)>>), M(Tag("union", "X"), <<D("b", <<Pointer>>)>>)>>), <<>>),
                                M(IntType, <<Field("b", "8"), Field("c", "8")>>)>>)
UnionX == Body("union", "X", <<M(Words(<<"unsigned", "long">>), <<D("m", <<>>)>>),
                               M(Body("enum", "G", <<Enumerator("tall", "")>>), <<D("n", <<>>)>>)>>)
Nested == Body("struct", "X", <<M(Body("struct", "S", <<M(IntType, <<D("m", <<>>)>>)>>), <<D("a", <<>>), D("b", <<Pointer>>)>>)>>)
UsesT  == Body("struct", "X", <<M(Named("T"), <<D("m", <<>>), D("n", <<Pointer>>)>>)>>)
Colour == Body("enum", "E", <<Enumerator("red", ""), Enumerator("blue", "3"), Enumerator("m", "")>>)
Hue    == Body("enum", NoTag, <<Enumerator("n", "red"), Enumerator("g", "")>>)
Types == {Declaration("", b, <<>>) : b \in {Tag("struct", "S"), Tag("enum", "E"), ListS, BothX, UnionX, Nested, UsesT, Colour, Hue}}
         \cup {One("", Tag("struct", "S"), "a", <<Pointer>>), One("", Tag("struct", "S"), "b", <<>>),
               One("", ListS, "c", <<>>), One("typedef", ListS, "T", <<>>),
               One("typedef", Tag("struct", "S"), "T", <<Pointer>>),
               One("typedef", IntType, "T", <<>>), One("typedef", Named("T"), "U", <<Pointer>>),
               One("typedef", Named("T"), "F", <<Taking(<<Param("", Named("T"), <<>>), Param("m", Named("U"), <<Pointer>>)>>)>>),
               One("", Named("T"), "c", <<>>), One("", Named("U"), "f", <<Taking(<<Param("n", Named("T"), <<>>)>>)>>),
               One("", Named("F"), "g", <<>>), One("", Named("U"), "a", <<ArrayOf("2")>>),
               One("extern", Tag("union", "X"), "a", <<>>), One("", Tag("enum", "E"), "b", <<>>)}
Voids == {One("", Words(<<"void">>), "a", <<>>), One("typedef", Words(<<"void">>), "T", <<>>), One("", Named("T"), "b", <<>>),
          One("", Named("T"), "c", <<Pointer>>), One("", Named("T"), "f", <<OneParam>>)}

MCInputs == {Program(Specifiers, 1), Program(Declarators, 1), Program(Functions, 2), Program(Lists, 1),
             Program(Statics, 3), Program(Types, 4), Program(Voids, 3)}
=============================================================================
