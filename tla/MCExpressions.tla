---------------------------- MODULE MCExpressions ----------------------------
(* Instances of ExprCode: families of expressions over a few variables.    *)
EXTENDS ExprCode

V(name, ty) == [name |-> name, ty |-> ty]
MCStructs == [P |-> <<V("m", Scalar("char")), V("n", Int_), V("k", Ptr(Int_))>>,
              T |-> <<V("x", Scalar("char")), V("y", Scalar("char")), V("z", Scalar("char"))>>]
P == Struct("P")
MCLocals  == <<V("c", Scalar("char")), V("i", Int_), V("j", Int_), V("h", Scalar("short")), V("l", Scalar("long")),
               V("u", Scalar("ulong")), V("a", Array(Int_, 2)), V("p", Ptr(Int_)), V("s", P), V("t", Struct("T")),
               V("q", Ptr(P)), V("fp", Ptr(Func(Int_)))>>
MCGlobals == <<V("i", Int_), V("w", Int_), V("b", Array(P, 2)), V("v", Struct("T"))>>
MCVariables == [name \in {v.name : v \in Range(MCLocals) \cup Range(MCGlobals)} \cup {Text} |->
                  IF name = Text THEN Array(Scalar("char"), 2)
                  ELSE LET vs == SelectSeq(MCGlobals \o MCLocals, LAMBDA v : v.name = name) IN Last(vs).ty]
MCEnumerators == [red |-> 3, i |-> 2]
MCFunctions == [f |-> 2, g |-> 0, h1 |-> 1]

Start(i, j, c, h, l, u, w) ==
  ( <<"i">> :> i @@ <<"j">> :> j @@ <<"c">> :> c @@ <<"h">> :> h @@ <<"l">> :> l @@ <<"u">> :> u @@ <<"w">> :> w
    @@ <<"a", 0>> :> 7 @@ <<"a", 1>> :> -9 @@ <<"p">> :> <<"a", 1>>
    @@ <<"s", "m">> :> 2 @@ <<"s", "n">> :> 11 @@ <<"s", "k">> :> <<"i">>
    @@ <<"t", "x">> :> 1 @@ <<"t", "y">> :> -2 @@ <<"t", "z">> :> 3
    @@ <<"v", "x">> :> 0 @@ <<"v", "y">> :> 2 @@ <<"v", "z">> :> -1
    @@ <<"b", 0, "m">> :> 1 @@ <<"b", 0, "n">> :> 21 @@ <<"b", 0, "k">> :> <<"a", 0>>
    @@ <<"b", 1, "m">> :> -1 @@ <<"b", 1, "n">> :> 22 @@ <<"b", 1, "k">> :> <<"w">>
    @@ <<"q">> :> <<"b", 0>> @@ <<"fp">> :> <<"f">> @@ <<Text, 0>> :> 1 @@ <<Text, 1>> :> 0 )
MCObjects == {Start(6, 4, 3, -5, 40, Modulus(Word) - 3, 1), Start(-7, 1, 0, 12, -30, 9, 0)}
----------------------------------------------------------------------------
I_ == Var("i")  J_ == Var("j")  C_ == Var("c")  W_ == Var("w")  A_ == Var("a")  P_ == Var("p")  S_ == Var("s")
Q_ == Var("q")  B_ == Var("b")  H_ == Var("h")  L_ == Var("l")  U_ == Var("u")
Zero == Lit("0")  One == Lit("1")  Two == Lit("2")  Three == Lit("3")

(* Every pair of binary operators, grouped both ways.                      *)
Ops == UNION Range(BinaryOps)
Pairs == UNION {{Bin(Bin(I_, o, J_), n, C_), Bin(I_, o, Bin(J_, n, C_))} : o \in Ops, n \in Ops}
Test == {"<", ">=", "==", "!=", "&&", "||"}

(* What designates an integer object, and updates of it.                   *)
Places == {I_, C_, H_, L_, W_, Index(A_, One), Index(P_, Zero), Un("*", P_), Dot(S_, "n"), Dot(S_, "m"), Arrow(Q_, "n"),
           Un("*", Dot(S_, "k")), Index(Arrow(Q_, "k"), One), Dot(Index(B_, One), "n"), Un("*", Bin(A_, "+", One)),
           Arrow(Bin(Q_, "+", One), "n"), Dot(Un("*", Q_), "n"), Index(Bin(P_, "-", One), One), Un("*", Un("&", I_)),
           Un("*", Cond(J_, Un("&", I_), P_)), Arrow(Un("&", S_), "n"), Arrow(B_, "m")}
Assigns == {"=", "+=", "-=", "*=", "/=", "%=", "|=", "&=", "^=", "<<=", ">>="}
Updates == UNION {{Un("++", x), Un("--", x), Post(x, "++"), Post(x, "--"), Comma(Post(x, "++"), Bin(x, "+", J_)),
                   Bin(Bin(Post(x, "--"), "*", Two), "-", W_)} : x \in Places}
           \cup {Assign(x, o, y) : x \in {I_, C_, L_, U_, Index(A_, Zero), Un("*", P_), Arrow(Q_, "n")}, o \in Assigns,
                                   y \in {One, C_, Bin(J_, "-", Two)}}
           \cup {Assign(x, "=", Assign(y, o, J_)) : x \in Places, y \in {W_, L_, Dot(S_, "n")}, o \in {"=", "-="}}

(* Pointers, arrays, structures.                                           *)
Pointers_ == {P_, A_, Un("&", Index(A_, One)), Bin(P_, "-", One), Bin(One, "+", A_), Assign(P_, "-=", One),
              Un("--", P_), Post(P_, "--"), Comma(Post(P_, "--"), P_), Cond(J_, A_, P_), Assign(P_, "=", A_)}
Addresses == Pointers_ \cup {Un("*", x) : x \in Pointers_}
             \cup {Bin(x, o, A_) : x \in Pointers_, o \in {"-", "<", ">", "<=", "==", "!=", "&&"}}
             \cup {Un("!", P_), Assign(Var("s"), "=", Index(B_, One)), Assign(Index(B_, Zero), "=", Un("*", Bin(Q_, "+", One))),
                   Assign(Var("t"), "=", Var("v")), Comma(Assign(Var("t"), "=", Var("v")), Dot(Var("t"), "y")),
                   Dot(Cond(I_, Var("s"), Un("*", Q_)), "n"), Dot(Cond(Zero, Var("s"), Un("*", Q_)), "n"),
                   Assign(Un("*", Q_), "=", Cond(J_, Var("s"), Un("*", Q_))), Un("&", Dot(S_, "n")),
                   Un("&", Arrow(Q_, "m")), Assign(Dot(S_, "k"), "=", Un("&", Dot(Index(B_, One), "n"))),
                   Dot(Comma(Post(W_, "++"), S_), "m"), Assign(Q_, "+=", One), Arrow(Un("++", Q_), "m"), Arrow(Post(Q_, "++"), "n"),
                   Bin(Bin(Q_, "+", One), "-", B_), Index(Var(Text), Zero), Un("*", Var(Text)), Bin(Var(Text), "+", One)}
Sizes == {Un("sizeof", e) : e \in {I_, C_, L_, A_, P_, S_, Var("t"), B_, Index(B_, One), Arrow(Q_, "m"), Un("&", C_), Var(Text), Un("*", P_),
                                   Bin(C_, "+", C_), Un("!", L_), Un("-", C_), Post(I_, "++"), Call(Var("f"), <<One, Two>>),
                                   Assign(C_, "=", One), Bin(A_, "+", One), Comma(C_, H_)}}
         \cup {SizeofType(n) : n \in DOMAIN TypeNames} \cup {Bin(SizeofType("int"), "*", Bin(Two, "+", I_))}

(* Casts and unary operators.                                              *)
Casts == {Cast(n, x) : n \in {"char", "short", "int", "long"},
                       x \in {I_, C_, L_, H_, Bin(I_, "*", J_), Bin(Bin(I_, "*", I_), "+", Three), Un("-", J_)}}
         \cup {Un(o, Un(n, x)) : o \in {"-", "~", "!", "+"}, n \in {"-", "~", "!", "+"}, x \in {I_, C_, Un("*", P_)}}
         \cup {Bin(Cast("char", I_), o, Un("-", J_)) : o \in Ops}
         \cup {Bin(U_, o, x) : o \in {"/", "%", ">>"}, x \in {Two, Three, C_}}
         \cup {Un("*", Cast("int*", A_)), Bin(Var("red"), "+", I_), Un("-", Post(I_, "--")), Un("!", Un("++", C_))}

(* Calls, alone, in operands, in arguments, through pointers, and behind   *)
(* what decides whether they are made.                                     *)
F(x, y) == Call(Var("f"), <<x, y>>)
G == Call(Var("g"), <<>>)
Calls == {F(x, y) : x \in {I_, G, Post(I_, "++"), Cond(J_, G, One)}, y \in {J_, F(One, J_), Bin(I_, "+", G), Bin(G, "&&", J_)}}
         \cup {Bin(x, o, F(J_, Two)) : x \in {I_, Zero, G, F(I_, Three)}, o \in {"+", "-", "<", ">", "&&", "||", "/"}}
         \cup {Call(f, <<I_, G>>) : f \in {Var("fp"), Un("*", Var("fp")), Un("*", Var("f")), Un("&", Var("f"))}}
         \cup {Assign(Index(A_, Bin(G, "-", Two)), "=", F(One, Index(A_, Zero))), Bin(One, "+", F(Bin(I_, "*", G), Bin(Two, "-", G))),
               Bin(Bin(I_, "+", J_), "*", F(F(One, Two), F(Three, Call(Var("h1"), <<I_>>)))),
               Assign(I_, "+=", G), Assign(Un("*", P_), "-=", F(Post(J_, "++"), C_))}

(* What is evaluated only if it has to be.                                 *)
Bump == Post(W_, "++")
Lazy == {Bin(Bin(x, o, Assign(J_, "=", Three)), n, Bin(Bump, "/", C_)) : x \in {I_, C_, Bin(I_, "<", J_)}, o \in {"&&", "||"},
                                                                          n \in {"&&", "||"}}
        \cup {Cond(Bin(x, o, y), Assign(I_, "=", Bin(J_, "/", C_)), Cond(W_, Bump, Un("++", J_))) :
                x \in {C_, I_}, o \in Test, y \in {Zero, J_}}
        \cup {Cond(Cond(C_, I_, W_), Comma(Bump, I_), Cond(J_, C_, H_)), Comma(Comma(Bump, Un("--", J_)), Bin(W_, "+", J_)),
              Assign(I_, "=", Cond(C_, Assign(J_, "=", Two), Bump)), Un("!", Bin(I_, "&&", J_)), Cond(Bin(I_, "&&", J_), One, Two),
              Assign(I_, "=", Post(I_, "++")), Bin(Post(I_, "++"), "+", Post(I_, "++")), Bin(I_, "*", Un("++", I_)),
              Index(Cond(C_, A_, P_), Zero), Bin(Cond(C_, One, Zero), "+", Three), Cond(C_, Zero, Bin(One, "+", Three))}

MCPrograms == Pairs \cup Updates \cup Addresses \cup Sizes \cup Casts \cup Calls \cup Lazy
=============================================================================
