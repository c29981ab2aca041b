--------------------------- MODULE TokenReference ---------------------------
(***************************************************************************)
(* The preprocessing tokens of a text, said without a reader: the logical  *)
(* characters of the text, the words of each kind of token, and the rule   *)
(* that a token is the longest prefix that is one.                         *)
(***************************************************************************)
EXTENDS Integers, Sequences, FiniteSets

Digits    == {"0", "1"}
WordChars == Digits \cup {"a", "e", "_", "define", "include", "int"}
Chars     == WordChars \cup
  {"(", ")", "{", "}", "[", "]", ",", ":", ";", "?", "~", "^", "*", "/", "%", "!", "=", "+",
   "|", "&", "-", ".", "<", ">", "#", "sp", "dq", "sq", "BS", "LF", "CR", "@"}

Kinds == {"header", "string", "punct", "whitespace", "directive", "nop", "char", "int",
          "double", "ident", "newline", "other", "eof"}

Punctuators ==
  {<<d>> : d \in {"(", ")", "{", "}", "[", "]", ",", ":", ";", "?", "~", "^", "*", "/", "%",
                  "!", "=", "+", "|", "&", "-", ".", "<", ">", "#"}}
  \cup {<<d, "=">> : d \in {"^", "*", "/", "%", "!", "=", "+", "|", "&", "-", "<", ">"}}
  \cup {<<d, d>> : d \in {"+", "-", "|", "&", "<", ">", "#"}}
  \cup {<<"-", ">">>, <<"<", "<", "=">>, <<">", ">", "=">>, <<".", ".", ".">>}
----------------------------------------------------------------------------
(* Line ends before position p of a text as it is stored.                  *)
LineEnds(b, p) ==
  Cardinality({i \in 1..(p - 1) : i <= Len(b) /\ \/ b[i] = "LF" /\ (i = 1 \/ b[i - 1] # "CR")
                                                 \/ b[i] = "CR"})

(* The members of a sequence at the places in S.                           *)
Keep(s, S) ==
  LET place[n \in 0..Len(s)] ==
        IF n = 0 THEN <<>> ELSE IF n \in S THEN Append(place[n - 1], s[n]) ELSE place[n - 1]
  IN  place[Len(s)]

(* The logical characters: one LF for each line end, then no backslash in  *)
(* front of a line end, and no such line end.                              *)
Lines(b) ==
  LET s == Keep(b, {i \in DOMAIN b : ~(b[i] = "LF" /\ i > 1 /\ b[i - 1] = "CR")})
  IN  [i \in DOMAIN s |-> IF s[i] = "CR" THEN "LF" ELSE s[i]]
Logical(b) ==
  LET s == Lines(b)
      splice(i) == i \in DOMAIN s /\ i + 1 \in DOMAIN s /\ s[i] = "BS" /\ s[i + 1] = "LF"
  IN  Keep(s, {i \in DOMAIN s : ~splice(i) /\ ~splice(i - 1)})
EndsInSplice(b) ==
  LET s == Lines(b) IN Len(s) > 1 /\ s[Len(s) - 1] = "BS" /\ s[Len(s)] = "LF"
----------------------------------------------------------------------------
All(s, S) == \A i \in DOMAIN s : s[i] \in S
Inner(s)  == SubSeq(s, 2, Len(s) - 1)

(* Place i is escaped: an odd number of backslashes stands in front of it. *)
Escaped(s, i) ==
  \E n \in 1..(i - 1) : /\ n % 2 = 1 /\ \A k \in 1..n : s[i - k] = "BS"
                        /\ (i - n = 1 \/ s[i - n - 1] # "BS")

IsWord(s)   == s # <<>> /\ All(s, WordChars) /\ s[1] \notin Digits
IsInt(s)    == s # <<>> /\ All(s, WordChars \ {"_"}) /\ s[1] \in Digits
IsDouble(s) == \E i \in 2..(Len(s) - 1) :
  s[i] = "." /\ IsInt(SubSeq(s, 1, i - 1)) /\ All(SubSeq(s, i + 1, Len(s)), Digits)
IsString(s) ==
  /\ Len(s) >= 2 /\ s[1] = "dq" /\ s[Len(s)] = "dq" /\ ~Escaped(s, Len(s))
  /\ \A i \in 2..(Len(s) - 1) : s[i] = "dq" => Escaped(s, i)
IsChar(s) ==
  \/ Len(s) = 3 /\ s[1] = "sq" /\ s[3] = "sq" /\ s[2] \notin {"BS", "sq"}
  \/ Len(s) = 4 /\ s[1] = "sq" /\ s[2] = "BS" /\ s[4] = "sq"
IsBlockComment(s) ==
  /\ Len(s) >= 4 /\ SubSeq(s, 1, 2) = <<"/", "*">>
  /\ \A i \in 3..(Len(s) - 1) : (s[i] = "*" /\ s[i + 1] = "/") <=> i = Len(s) - 1
IsLineComment(s) == Len(s) >= 2 /\ SubSeq(s, 1, 2) = <<"/", "/">> /\ All(s, Chars \ {"LF"})
IsAngle(s) ==
  /\ Len(s) >= 2 /\ s[1] = "<" /\ s[Len(s)] = ">" /\ \A i \in 2..(Len(s) - 1) : s[i] # ">"
IsDirective(s) ==
  \E i \in DOMAIN s : \E j \in i..Len(s) :
    /\ s[i] = "#" /\ All(SubSeq(s, 1, i - 1), {"sp"})
    /\ All(SubSeq(s, i + 1, j), {"sp"}) /\ All(SubSeq(s, j + 1, Len(s)), WordChars)

(* The name of a directive: what is behind the # and the blanks.           *)
Name(s) == Keep(s, {i \in DOMAIN s : s[i] \in WordChars})

(* s is a token of this kind.  In front of it on its line there is nothing *)
(* (bol), or an #include (header).                                         *)
IsToken(s, kind, bol, header) ==
  CASE kind = "header"     -> header /\ (IsAngle(s) \/ IsString(s))
    [] kind = "string"     -> ~header /\ IsString(s)
    [] kind = "punct"      -> s \in Punctuators
    [] kind = "whitespace" -> \/ s # <<>> /\ All(s, {"sp"})
                              \/ IsLineComment(s) \/ IsBlockComment(s)
    [] kind = "directive"  -> bol /\ IsDirective(s)
    [] kind = "char"       -> IsChar(s)
    [] kind = "int"        -> IsInt(s)
    [] kind = "double"     -> IsDouble(s)
    [] kind = "ident"      -> IsWord(s)
    [] kind = "newline"    -> s = <<"LF">>
    [] kind = "other"      -> s \in {<<"BS">>, <<"@">>, <<".", ".">>}
    [] OTHER               -> FALSE

(* What begins like one of these is nothing else.                          *)
Committed(s, header) ==
  CASE s[1] = "dq" \/ (header /\ s[1] = "<") -> {IF header THEN "header" ELSE "string"}
    [] s[1] = "sq"                           -> {"char"}
    [] Len(s) > 1 /\ s[1] = "/" /\ s[2] \in {"/", "*"} -> {"whitespace"}
    [] OTHER                                 -> Kinds

(* The tokens of the logical characters all as [kind, text], up to the     *)
(* first that is ill-formed: an unterminated literal or comment, a         *)
(* character constant that is not one character.  `behind` gives those     *)
(* that are behind the first n characters.                                 *)
TokensOf(all) ==
  LET behind[n \in 0..Len(all), bol \in BOOLEAN, header \in BOOLEAN] ==
        LET L == SubSeq(all, n + 1, Len(all))
            candidates == {x \in (1..Len(L)) \X Committed(L, header) :
                             IsToken(SubSeq(L, 1, x[1]), x[2], bol, header)}
            longest == CHOOSE x \in candidates :
                         \A y \in candidates :
                           x[1] > y[1] \/ (x[1] = y[1] /\ (x[2] = "directive" \/ y[2] # "directive"))
            s    == SubSeq(L, 1, longest[1])
            nop  == Name(s) = <<>> /\ longest[1] < Len(L) /\ L[longest[1] + 1] = "LF"
            kind == IF longest[2] # "directive" THEN longest[2]
                    ELSE IF nop THEN "nop" ELSE IF Name(s) = <<>> THEN "punct" ELSE "directive"
            text == CASE kind \in {"whitespace", "newline", "nop"} -> <<>>
                      [] kind \in {"string", "header", "char"}     -> Inner(s)
                      [] kind = "directive"                        -> Name(s)
                      [] OTHER -> IF longest[2] = "directive" THEN <<"#">> ELSE s
        IN  IF L = <<>> THEN <<[kind |-> "eof", text |-> <<>>]>>
            ELSE IF candidates = {} THEN <<>>
            ELSE <<[kind |-> kind, text |-> text]>> \o
                 behind[n + longest[1], kind = "newline",
                        kind # "newline" /\ kind # "header" /\
                          (header \/ (kind = "directive" /\ text = <<"include">>))]
  IN  behind[0, TRUE, FALSE]

Tokens(b) == TokensOf(Logical(b))
=============================================================================
