----------------------------- MODULE MacroTokens -----------------------------
(***************************************************************************)
(* The tokens that macro expansion works on: a kind, and the words that    *)
(* the spelling is put together from.                                      *)
(***************************************************************************)
EXTENDS Integers, Sequences

Digits == {"1", "2"}

TokenKinds == {"ident", "int", "str", "(", ")", ",", "other", "ws", "nl", "hash", "hashhash",
               "placemarker", "removed", "eof", "dir"}

Texts  == Seq(STRING)
Tokens == [kind : TokenKinds, text : Texts]

Token(kind, text) == [kind |-> kind, text |-> text]
Eof == Token("eof", <<>>)
=============================================================================
