--------------------------- MODULE TokenPipeline ---------------------------
(***************************************************************************)
(* What becomes of the tokens of a text without directives and macros      *)
(* before they reach the parser: concat_adjacent_string_literals           *)
(* (preprocess.c) and convert_pp_tokens_to_tokens (tokenize.c), run one    *)
(* after the other by main.                                                *)
(***************************************************************************)
EXTENDS Tokenizer

VARIABLES
  phase,   \* "tokenize", "concat", "convert", "parse" or "unreachable"
  pos,     \* the loop variable of both passes
  last,    \* last_nonempty_token_pos; 0 before there is one
  pp,      \* the preprocessing tokens, as the first pass changes them
  out      \* the tokens for the parser

pvars == <<phase, pos, last, pp, out>>

Keywords ==
  {"alignas", "alignof", "auto", "bool", "break", "case", "char", "const", "constexpr",
   "continue", "default", "do", "double", "else", "enum", "extern", "false", "float", "for",
   "goto", "if", "inline", "int", "long", "nullptr", "register", "restrict", "return",
   "short", "signed", "sizeof", "static", "static_assert", "struct", "switch",
   "thread_local", "true", "typedef", "typeof", "typeof_unqual", "union", "unsigned",
   "void", "volatile", "while", "_Atomic", "_BitInt", "_Complex", "_Decimal128",
   "_Decimal32", "_Decimal64", "_Generic", "_Imaginary", "_Noreturn"}

Empty == {"removed", "whitespace", "newline"}

PipelineTypeOK ==
  /\ TypeOK
  /\ phase \in {"tokenize", "concat", "convert", "parse", "unreachable"}
  /\ pp \in Seq([kind : Kinds \cup {"removed"}, text : Seq(Peeked), line : 1..file.line])
  /\ pos \in 1..(Len(pp) + 1) /\ last \in 0..Len(pp) /\ Len(out) <= Len(pp)
  /\ \A i \in DOMAIN out :
       /\ out[i].kind \in {"punct", "int", "double", "string", "ident", "keyword", "eof"}
       /\ out[i].line \in 1..file.line
----------------------------------------------------------------------------
PipelineInit ==
  /\ Init
  /\ phase = "tokenize" /\ pos = 1 /\ last = 0 /\ pp = <<>> /\ out = <<>>

Tokenize ==
  /\ phase = "tokenize" /\ Next
  /\ UNCHANGED pvars

(* A text without directives passes the preprocessor as it is.             *)
Preprocessed ==
  /\ phase = "tokenize" /\ status = "done"
  /\ \A i \in DOMAIN tokens : tokens[i].kind \notin {"directive", "nop", "header"}
  /\ phase' = "concat" /\ pp' = tokens
  /\ UNCHANGED <<tvars, pos, last, out>>

(* Where the pass remembers a string that the next one can be added to: it *)
(* stays where it is when a string has been added.  Mutant: it moves on.   *)
last_seen(joined) == pos
last_nonempty_token_pos(joined) == IF joined THEN last ELSE pos

Concat ==
  LET empty  == pp[pos].kind \in Empty
      joined == ~empty /\ pp[pos].kind = "string" /\ last # 0 /\ pp[last].kind = "string"
  IN
  /\ phase = "concat" /\ pos <= Len(pp)
  /\ pp' = IF joined THEN [pp EXCEPT ![last].text = @ \o pp[pos].text, ![pos].kind = "removed"]
           ELSE pp
  /\ last' = IF empty THEN last ELSE last_nonempty_token_pos(joined)
  /\ pos' = pos + 1
  /\ UNCHANGED <<tvars, phase, out>>

Concatenated ==
  /\ phase = "concat" /\ pos > Len(pp)
  /\ phase' = "convert" /\ pos' = 1
  /\ UNCHANGED <<tvars, last, pp, out>>

(* The value of a character constant.                                      *)
character(text) ==
  IF text[1] # "BS" THEN text[1]
  ELSE CASE text[2] = "e" -> "ESC"
         [] text[2] = "a" -> "BEL"
         [] text[2] = "0" -> "NUL"
         [] OTHER         -> text[2]

(* The loop over a literal: \e becomes one character.                      *)
literal(text) ==
  LET from[i \in 1..(Len(text) + 1)] ==
        IF i > Len(text) THEN <<>>
        ELSE IF i < Len(text) /\ text[i] = "BS" /\ text[i + 1] = "e"
             THEN <<"ESC">> \o from[i + 2]
             ELSE <<text[i]>> \o from[i + 1]
  IN  from[1]

(* The token that a preprocessing token becomes.                           *)
converted(t) ==
  CASE t.kind = "char"   -> [t EXCEPT !.kind = "int", !.text = <<character(t.text)>>]
    [] t.kind = "string" -> [t EXCEPT !.text = literal(t.text)]
    [] t.kind = "ident" /\ Len(t.text) = 1 /\ t.text[1] \in Keywords -> [t EXCEPT !.kind = "keyword"]
    [] OTHER -> t

Convert ==
  /\ phase = "convert" /\ pos <= Len(pp)
  /\ phase' = IF pp[pos].kind = "other" THEN "unreachable" ELSE phase
  /\ out' = IF pp[pos].kind \in Empty \cup {"other"} THEN out ELSE Append(out, converted(pp[pos]))
  /\ pos' = pos + 1
  /\ UNCHANGED <<tvars, last, pp>>

Converted ==
  /\ phase = "convert" /\ pos > Len(pp)
  /\ phase' = "parse"
  /\ UNCHANGED <<tvars, pos, last, pp, out>>

PipelineNext == Tokenize \/ Preprocessed \/ Concat \/ Concatenated \/ Convert \/ Converted

PipelineSpec == PipelineInit /\ [][PipelineNext]_<<tvars, pvars>>
----------------------------------------------------------------------------
(* The literal at i has one in front of it; the tokens that the parser gets *)
(* begin at the others that are not white space; and the texts of the       *)
(* literals from i up to the next of these.                                 *)
Joins(ts, i) ==
  /\ ts[i].kind = "string"
  /\ \E j \in 1..(i - 1) :
       ts[j].kind = "string" /\ \A k \in (j + 1)..(i - 1) : ts[k].kind \in Empty

Starts(ts) == {i \in DOMAIN ts : ts[i].kind \notin Empty /\ ~Joins(ts, i)}

Following(ts) ==
  LET starts == Starts(ts)
      from[i \in 1..(Len(ts) + 1)] ==
        IF i > Len(ts) \/ i \in starts THEN <<>>
        ELSE IF ts[i].kind = "string" THEN ts[i].text \o from[i + 1] ELSE from[i + 1]
  IN  from

Joined(ts, i) ==
  IF ts[i].kind # "string" THEN ts[i]
  ELSE [ts[i] EXCEPT !.text = @ \o Following(ts)[i + 1]]

(* Each maximal run of string literals with nothing but white space in     *)
(* between reaches the parser as one literal with their texts in order;    *)
(* every other token that is not white space reaches it once, in order.    *)
AdjacentLiteralsJoined ==
  phase = "parse" =>
    LET starts == Starts(tokens)
    IN  /\ Len(out) = Cardinality(starts)
        /\ \A i \in starts :
             out[Cardinality({j \in starts : j <= i})] = converted(Joined(tokens, i))
=============================================================================
