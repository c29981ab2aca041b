--------------------------- MODULE MacroReference ---------------------------
(***************************************************************************)
(* What macro expansion means: each token carries the set of the macros it *)
(* must not be expanded as (its hide set), and the text is rewritten from  *)
(* left to right.  White space plays no part.                              *)
(***************************************************************************)
EXTENDS MacroTokens, SequencesExt, FiniteSetsExt

(* What is left when white space and removed tokens are taken out.         *)
Visible(s) ==
  LET solid == SelectSeq(s, LAMBDA t : t.kind \notin {"ws", "nl", "removed", "eof", "placemarker"})
  IN  [i \in DOMAIN solid |-> [kind |-> solid[i].kind, text |-> solid[i].text]]
----------------------------------------------------------------------------
Hidden(t, H) == [t EXCEPT !.hide = @ \cup H]
HideAll(s, H) == [i \in DOMAIN s |-> Hidden(s[i], H)]
Marked(s) == [i \in DOMAIN s |-> [kind |-> s[i].kind, text |-> s[i].text, hide |-> {}]]

(* The place of the parenthesis that closes the one at i, and the commas   *)
(* between the arguments.                                                  *)
DepthAt(s, i, j) ==
  Cardinality({k \in i..j : s[k].kind = "("}) - Cardinality({k \in i..(j - 1) : s[k].kind = ")"})
Close(s, i) == Min({j \in i..Len(s) : s[j].kind = ")" /\ DepthAt(s, i, j) = 1})
Commas(s, i) == {j \in i..Close(s, i) : s[j].kind = "," /\ DepthAt(s, i, j) = 1}

(* The arguments of the invocation whose parenthesis is at i.              *)
Actuals(s, i) ==
  LET bounds == SetToSortSeq({i, Close(s, i)} \cup Commas(s, i), <)
  IN  [n \in 1..(Len(bounds) - 1) |-> SubSeq(s, bounds[n] + 1, bounds[n + 1] - 1)]

Param(m, t) == IF t.kind = "ident" /\ \E i \in DOMAIN m.params : m.params[i] = t.text
               THEN CHOOSE i \in DOMAIN m.params : m.params[i] = t.text ELSE 0

Text(s) == FlattenSeq([i \in DOMAIN s |-> s[i].text])

Glue(l, r) ==
  LET text == l.text \o r.text
  IN  [kind |-> IF \A i \in DOMAIN text : text[i] \in Digits THEN "int" ELSE "ident",
       text |-> text, hide |-> l.hide \cap r.hide]

(* The last token of s glued to the first of t; an empty side is nothing.  *)
GlueSeq(s, t) ==
  IF s = <<>> THEN t ELSE IF t = <<>> THEN s
  ELSE Front(s) \o <<Glue(Last(s), Head(t))>> \o Tail(t)

RECURSIVE Expand(_, _), Subst(_, _, _, _, _)

(* The body b of macro m with its parameters replaced, from left to right; *)
(* `done` is what has been made of the tokens in front.                    *)
Subst(T, m, b, args, done) ==
  LET t == b[1]
      next == IF Len(b) > 1 THEN b[2] ELSE t
      raw(u) == IF Param(m, u) = 0 THEN <<u>>
                ELSE IF Param(m, u) > Len(args) THEN <<>> ELSE args[Param(m, u)]
  IN  IF b = <<>> THEN done
      ELSE CASE t.kind = "hash" /\ Len(b) > 1 /\ Param(m, next) # 0 ->
                  Subst(T, m, SubSeq(b, 3, Len(b)), args,
                        Append(done, [kind |-> "str", text |-> Text(raw(next)), hide |-> {}]))
             [] t.kind = "hashhash" -> Subst(T, m, SubSeq(b, 3, Len(b)), args, GlueSeq(done, raw(next)))
             [] Param(m, t) # 0 ->
                  Subst(T, m, Tail(b), args,
                        done \o IF Len(b) > 1 /\ next.kind = "hashhash" THEN raw(t) ELSE Expand(T, raw(t)))
             [] OTHER -> Subst(T, m, Tail(b), args, Append(done, t))

Expand(T, s) ==
  LET t    == s[1]
      rest == Tail(s)
      m    == T[t.text]
      body == Marked(SelectSeq(m.body, LAMBDA u : u.kind # "ws"))
      after  == SubSeq(s, Close(s, 2) + 1, Len(s))
      hide   == (t.hide \cap s[Close(s, 2)].hide) \cup {t.text}
  IN  IF s = <<>> THEN <<>>
      ELSE IF t.kind # "ident" \/ t.text \notin DOMAIN T \/ t.text \in t.hide THEN <<t>> \o Expand(T, rest)
      ELSE IF m.kind = "obj" THEN Expand(T, HideAll(body, t.hide \cup {t.text}) \o rest)
      ELSE IF rest # <<>> /\ rest[1].kind = "("
      THEN Expand(T, HideAll(Subst(T, m, body, Actuals(s, 2), <<>>), hide) \o after)
      ELSE <<t>> \o Expand(T, rest)

Expansion(T, text) ==
  Expand(T, Marked(SelectSeq(text, LAMBDA t : t.kind \notin {"ws", "nl", "removed", "dir"})))
=============================================================================
