----------------------------- MODULE Tokenizer -----------------------------
(***************************************************************************)
(* do_tokenize_all of tokenize.c: one step for each preprocessing token.   *)
(* A character is itself, "dq" and "sq" are the quotes, "sp" is any blank. *)
(* The letters "define" and "include" stand for these words, "a" and "e"   *)
(* for others, so that a word is a short sequence of letters.              *)
(***************************************************************************)
EXTENDS TokenReference, Reader, SequencesExt

CONSTANT Files    \* the texts of the files to be tokenized

ASSUME FilesAssumption == \A text \in Files : text \in Seq(Chars)

VARIABLES
  file,                \* Lexer.src
  at_bol,              \* no token of the line has been read
  expect_header_name,  \* an #include has been read on this line
  tokens,              \* [kind, text, line]
  status               \* "run", "done", "fatal" or "overrun": out of the buffer

tvars == <<file, at_bol, expect_header_name, tokens, status>>

(* What a peek may give: behind the text too, and at its last backslash.   *)
Peeked == Chars \cup {"NUL", "fatal"}
Token == [kind : Kinds, text : Seq(Peeked), line : Nat \ {0}]

TypeOK ==
  /\ file.buf \in Seq(Chars)
  /\ file.pos \in 1..(Len(file.buf) + 3) /\ file.line \in Nat \ {0}
  /\ at_bol \in BOOLEAN /\ expect_header_name \in BOOLEAN
  /\ tokens \in Seq(Token) /\ \A i \in DOMAIN tokens : tokens[i].line <= file.line
  /\ status \in {"run", "done", "fatal", "overrun"}
----------------------------------------------------------------------------
Init ==
  /\ \E text \in Files : file = infile_open(text)
  /\ at_bol = TRUE /\ expect_header_name = FALSE
  /\ tokens = <<>> /\ status = "run"

(* A token has been read and f is what is left; the line is the one where  *)
(* it began.  A backslash at the end of the file is fatal when it is seen. *)
Push(kind, text, f) ==
  /\ file' = f
  /\ tokens' = Append(tokens, [kind |-> kind, text |-> text, line |-> file.line])
  /\ at_bol' = (kind = "newline")
  /\ status' = IF infile_peek_char(f) = "fatal" THEN "fatal" ELSE "run"

c == infile_peek_char(file)
Rest == infile_next_char(file)

(* The loops over a quoted text, which test for the closing character      *)
(* only.  A backslash takes the next character with it, but not in <...>.  *)
quoted(f, close) ==
  LET read == While(LAMBDA t : infile_peek_char(t.file) \notin {"NUL", "fatal", close},
                    LAMBDA t : LET d    == infile_peek_char(t.file)
                                   g    == infile_next_char(t.file)
                                   pair == d = "BS" /\ close = "dq"
                               IN  [file |-> IF pair THEN infile_next_char(g) ELSE g,
                                    text |-> t.text \o IF pair THEN <<d, infile_peek_char(g)>>
                                                                ELSE <<d>>],
                    [file |-> f, text |-> <<>>], Turns(f))
      end  == infile_peek_char(read.file)
  IN  [file |-> IF end = close THEN infile_next_char(read.file) ELSE read.file,
       text |-> read.text, end |-> end]

PushQuoted(kind, close) ==
  LET q == quoted(Rest, close) IN
  IF q.end = "NUL"
  THEN status' = "overrun" /\ UNCHANGED <<file, at_bol, tokens>>
  ELSE Push(kind, q.text, q.file)

HeaderName ==
  /\ expect_header_name /\ c \in {"dq", "<"}
  /\ PushQuoted("header", IF c = "<" THEN ">" ELSE c)
  /\ expect_header_name' = FALSE

StringLiteral ==
  /\ c = "dq" /\ ~expect_header_name
  /\ PushQuoted("string", "dq")
  /\ UNCHANGED expect_header_name

(* The characters that are a token alone, and those that may be followed   *)
(* by one or two more.                                                     *)
Alone == {"(", ")", "{", "}", "[", "]", ",", ":", ";", "?", "~"}
may_follow(d) ==
  CASE d \in {"^", "*", "/", "%", "!", "="} -> {"="}
    [] d \in {"+", "|", "&"}      -> {"=", d}
    [] d = "-"                    -> {"=", "-", ">"}
    [] d = "."                    -> {"."}
    [] d \in {"<", ">"}           -> {"=", d}
    [] OTHER                      -> {}
may_be_third(s) ==
  CASE s \in {<<"<", "<">>, <<">", ">">>} -> {"="}
    [] s = <<".", ".">>                    -> {"."}
    [] OTHER                               -> {}

Opens == c \in {"<", "dq"} /\ expect_header_name
Comment == c = "/" /\ infile_peek_char(Rest) \in {"/", "*"}

Punctuator ==
  LET second == consume_if(Rest, may_follow(c))
      third  == consume_if(second.file, may_be_third(<<c>> \o second.text))
      text   == <<c>> \o second.text \o third.text
  IN
  /\ c \in Alone \/ may_follow(c) # {}
  /\ ~Opens /\ ~Comment
  /\ Push(IF text = <<".", ".">> THEN "other" ELSE "punct", text, third.file)
  /\ UNCHANGED expect_header_name

(* The loop of //..., up to the end of the line: its last peek has moved   *)
(* over splices.                                                           *)
behind_line(f0) ==
  spliced(While(LAMBDA f : ~infile_eof(f) /\ infile_peek_char(f) \notin {"LF", "fatal"},
                infile_next_char, f0, Turns(f0)))

LineComment ==
  /\ Comment /\ infile_peek_char(Rest) = "/"
  /\ Push("whitespace", <<>>, behind_line(infile_next_char(Rest)))
  /\ UNCHANGED expect_header_name

(* The loop of /*...*/: a star not followed by a slash is passed over.     *)
closes(f) == infile_peek_char(f) = "*" /\ infile_peek_char2(f) = "/"
behind_comment(f0) ==
  LET f == While(LAMBDA g : infile_peek_char(g) \notin {"NUL", "fatal"} /\ ~closes(g),
                 infile_next_char, f0, Turns(f0))
  IN  IF closes(f) THEN infile_next_char(infile_next_char(f)) ELSE spliced(f)

BlockComment ==
  /\ Comment /\ infile_peek_char(Rest) = "*"
  /\ Push("whitespace", <<>>, behind_comment(infile_next_char(Rest)))
  /\ UNCHANGED expect_header_name

(* pplexer_tokenize_pp_directive: blanks, then the name, behind the #.  An *)
(* empty name is a plain #, unless the line ends there.                    *)
PushDirective(f) ==
  LET name == take_while(take_while(f, {"sp"}).file, WordChars)
      nop  == name.text = <<>> /\ infile_peek_char(name.file) = "LF"
  IN  /\ Push(IF nop THEN "nop" ELSE IF name.text = <<>> THEN "punct" ELSE "directive",
              IF name.text = <<>> /\ ~nop THEN <<"#">> ELSE name.text, name.file)
      /\ expect_header_name' = (expect_header_name \/ name.text = <<"include">>)

Hash ==
  /\ c = "#"
  /\ IF infile_peek_char(Rest) = "#"
     THEN Push("punct", <<"#", "#">>, infile_next_char(Rest)) /\ UNCHANGED expect_header_name
     ELSE IF at_bol THEN PushDirective(spliced(Rest))
     ELSE Push("punct", <<"#">>, spliced(Rest)) /\ UNCHANGED expect_header_name

(* Blanks at the beginning of a line are part of the directive they are in *)
(* front of.                                                               *)
Whitespace ==
  LET blanks == take_while(file, {"sp"}).file IN
  /\ c = "sp"
  /\ IF at_bol /\ infile_peek_char(blanks) = "#"
     THEN PushDirective(infile_next_char(blanks))
     ELSE Push("whitespace", <<>>, blanks) /\ UNCHANGED expect_header_name

(* A quote, one character or an escape, and whatever comes next.           *)
CharacterConstant ==
  LET first == infile_peek_char(Rest)
      last  == IF first = "BS" THEN infile_next_char(Rest) ELSE Rest
      text  == IF first = "BS" THEN <<first, infile_peek_char(last)>> ELSE <<first>>
  IN
  /\ c = "sq"
  /\ Push("char", text, infile_next_char(infile_next_char(last)))
  /\ UNCHANGED expect_header_name

Number ==
  LET whole    == take_while(file, WordChars \ {"_"})
      fraction == infile_peek_char(whole.file) = "." /\ infile_peek_char2(whole.file) \in Digits
      digits   == take_while(infile_next_char(whole.file), Digits)
  IN
  /\ c \in Digits
  /\ IF fraction THEN Push("double", whole.text \o <<".">> \o digits.text, digits.file)
     ELSE Push("int", whole.text, whole.file)
  /\ UNCHANGED expect_header_name

Identifier ==
  /\ c \in WordChars \ Digits
  /\ LET word == take_while(file, WordChars) IN Push("ident", word.text, word.file)
  /\ UNCHANGED expect_header_name

(* The end of the line resets expect_header_name.  Mutant: it does not.    *)
kept_header_name == expect_header_name
reset_header_name == FALSE

NewLine ==
  /\ c = "LF"
  /\ Push("newline", <<>>, Rest)
  /\ expect_header_name' = reset_header_name

Other ==
  /\ c \in {"BS", "@", "NUL"}
  /\ Push("other", <<c>>, Rest)
  /\ UNCHANGED expect_header_name

EndOfFile ==
  /\ infile_eof(file)
  /\ status' = "done"
  /\ tokens' = Append(tokens, [kind |-> "eof", text |-> <<>>, line |-> file.line])
  /\ UNCHANGED <<file, at_bol, expect_header_name>>

(* The backslash that ends the file is the first character of a token.     *)
Fatal ==
  /\ c = "fatal" /\ status' = "fatal"
  /\ UNCHANGED <<file, at_bol, expect_header_name, tokens>>

Read ==
  \/ HeaderName \/ StringLiteral \/ Punctuator \/ LineComment \/ BlockComment
  \/ Hash \/ Whitespace \/ CharacterConstant \/ Number \/ Identifier \/ NewLine
  \/ Other \/ Fatal

Next == status = "run" /\ (EndOfFile \/ (~infile_eof(file) /\ Read))

Spec == Init /\ [][Next]_tvars
----------------------------------------------------------------------------
(* The line the reader is at is one more than the line ends, spliced or    *)
(* not, LF, CR or CRLF, it has passed; so every token has its line.        *)
LinesCounted == file.line = 1 + LineEnds(file.buf, file.pos)

(* The tokens are those of the logical characters: the longest at each     *)
(* place, wherever splices cut them, with directives at the beginning of a *)
(* line and header names behind an #include of the same line only.  Of a   *)
(* text with an ill-formed token this is said of the tokens before it.  A  *)
(* splice that ends the file may add a token, of the terminator.           *)
TokensOfLogical ==
  status \in {"done", "overrun"} =>
    LET want == Tokens(file.buf)
        got  == [i \in DOMAIN tokens |-> [kind |-> tokens[i].kind, text |-> tokens[i].text]]
        told == SelectSeq(got, LAMBDA t : t.text # <<"NUL">>)
    IN  IF want # <<>> /\ Last(want).kind = "eof"
        THEN status = "done" /\ told = want /\ (told # got => EndsInSplice(file.buf))
        ELSE IsPrefix(want, got)

(* A file whose last character is a backslash is never read to its end,     *)
(* not even within a literal or a comment that is not closed: it is        *)
(* rejected, and no other file is.                                         *)
RejectsLastBackslash ==
  LET b    == file.buf
      last == b # <<>> /\ b[Len(b)] = "BS"
  IN  /\ status = "fatal" => last
      /\ status \in {"done", "overrun"} => ~last
=============================================================================
