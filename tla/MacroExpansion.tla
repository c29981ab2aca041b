--------------------------- MODULE MacroExpansion ---------------------------
(***************************************************************************)
(* Macro expansion in preprocess.c.  expand_macro rewrites the array of    *)
(* tokens in place and is called again on what it wrote; it counts the     *)
(* tokens it has processed to know where to stop.                          *)
(*                                                                         *)
(* `frames` is the recursion, the outermost first: the text, then          *)
(*   "call"    an invocation whose arguments are being expanded,           *)
(*   "arg"     an argument being expanded, in an array of its own,         *)
(*   "rescan"  what a macro was replaced by being expanded again.          *)
(* `arrays` are the token arrays: the text's, then those of "arg" frames.  *)
(***************************************************************************)
EXTENDS MacroTokens, SequencesExt, FiniteSetsExt

CONSTANTS
  Programs,    \* a table of macros, the tokens of a text, and whether it is
               \* one of text lines or the condition of an #if
  MaxFrames    \* bound: depth of the recursion; beyond it the stack is full

MacroKinds == {"obj", "func"}
Macros == [kind : MacroKinds, params : Seq(Texts), body : Seq(Tokens)]

(* A table is finite, and the last line of a text is complete.             *)
ASSUME ProgramsAssumption ==
  \A p \in Programs :
    /\ IsFiniteSet(DOMAIN p.macros) /\ DOMAIN p.macros \subseteq Texts
    /\ \A name \in DOMAIN p.macros : p.macros[name] \in Macros
    /\ p.text \in Seq(Tokens) /\ p.text # <<>> /\ Last(p.text).kind = "nl"
    /\ p.skip_newline \in BOOLEAN

VARIABLES
  macros,       \* Preprocessor.macros, without undefined entries
  source,       \* the text as it was read
  skip_newline, \* the parameter of that name: text lines, not a condition
  arrays,       \* [toks, pos] of each token array
  frames,
  at_start,     \* the text frame is at the beginning of a line
  status        \* "run", "done", "fatal", "overrun" (out of the array) or "overflow"

vars == <<macros, source, skip_newline, arrays, frames, at_start, status>>

TextFrame   == [what : {"text"}]
CallFrame   == [what : {"call"}, name : Texts, start : Nat, end : Nat,
                args : Seq(Seq(Tokens)), next : Nat \ {0}, keep : SUBSET Nat]
ArgFrame    == [what : {"arg"}, count : Nat, processed : Nat]
RescanFrame == [what : {"rescan"}, name : Texts, count : Nat, processed : Nat,
                before : Nat, rest : Nat]

(* The outermost frame is the text's, an argument belongs to an invocation *)
(* and has an array.                                                       *)
TypeOK ==
  /\ arrays \in Seq([toks : Seq(Tokens), pos : Nat])
  /\ \A a \in DOMAIN arrays : arrays[a].pos \in 1..(Len(arrays[a].toks) + 1)
  /\ frames \in Seq(TextFrame \cup CallFrame \cup ArgFrame \cup RescanFrame)
  /\ frames # <<>> /\ \A i \in DOMAIN frames : frames[i].what = "text" <=> i = 1
  /\ \A i \in 2..Len(frames) : frames[i].what = "arg" <=> frames[i - 1].what = "call"
  /\ Len(arrays) = 1 + Cardinality({i \in DOMAIN frames : frames[i].what = "arg"})
  /\ at_start \in BOOLEAN
  /\ status \in {"run", "done", "fatal", "overrun", "overflow"}
----------------------------------------------------------------------------
Top == Last(frames)
Toks == Last(arrays).toks
Pos  == Last(arrays).pos
At(i) == IF i <= Len(Toks) THEN Toks[i] ELSE Eof
Tok  == At(Pos)

(* Mutant: one token more.                                                 *)
one_more_replaced(s, from, to, by) == SubSeq(s, 1, from - 1) \o by \o SubSeq(s, to + 1, Len(s))
Replace(s, from, to, by) == SubSeq(s, 1, from - 1) \o by \o SubSeq(s, to, Len(s))
SetTop(a) == arrays' = Append(Front(arrays), a)
Moved(p)  == SetTop([Last(arrays) EXCEPT !.pos = p])

(* expand_macro returns to frames fs and tells how many tokens it took.    *)
Returned(fs, n) ==
  IF Last(fs).what = "text" THEN fs
  ELSE Append(Front(fs), [Last(fs) EXCEPT !.processed = @ + n])

(* The macros whose expansions are being rescanned.  Mutant: the innermost *)
(* only.                                                                   *)
innermost_only ==
  LET scans == {i \in DOMAIN frames : frames[i].what = "rescan"}
  IN  IF scans = {} THEN {} ELSE {frames[Max(scans)].name}
already_expanded == {frames[i].name : i \in {j \in DOMAIN frames : frames[j].what = "rescan"}}

Scanning ==
  /\ status = "run"
  /\ \/ Top.what = "text" /\ ~(at_start /\ Tok.kind = "dir")
     \/ Top.what \in {"arg", "rescan"} /\ Top.processed < Top.count

AtMacro == Scanning /\ Tok.kind = "ident"

(* Whether white space is skipped at place i within an invocation: text    *)
(* lines pass over line ends too.                                          *)
Blank(i) == At(i).kind = "ws" \/ (skip_newline /\ At(i).kind = "nl")
skip_whitespaces_or_newlines(i) == Min({j \in i..(Len(Toks) + 1) : ~Blank(j)})

(* pp_parse_macro_arguments with the parenthesis at place i: the arguments *)
(* without white space, and the place behind the closing parenthesis, or 0 *)
(* if the array ends before.                                               *)
Opened(i, j) == Cardinality({k \in i..j : Toks[k].kind = "("}) - Cardinality({k \in i..j : Toks[k].kind = ")"})
pp_parse_macro_arguments(i) ==
  LET closes == {j \in i..Len(Toks) : Toks[j].kind = ")" /\ Opened(i, j) = 0}
      close  == Min(closes)
      commas == {j \in i..close : Toks[j].kind = "," /\ Opened(i, j) = 1}
      bound[n \in 0..(Cardinality(commas) + 1)] ==
        IF n = 0 THEN i ELSE Min({close} \cup {j \in commas : j > bound[n - 1]})
      Dropped(t) == t.kind \in {"ws", "removed"} \/ (skip_newline /\ t.kind = "nl")
      Kept(s) == FlattenSeq([j \in DOMAIN s |-> IF Dropped(s[j]) THEN <<>> ELSE <<s[j]>>])
      Arg(n) == Kept(SubSeq(Toks, bound[n - 1] + 1, bound[n] - 1))
  IN  IF closes = {} THEN [args |-> <<>>, end |-> 0]
      ELSE [args |-> IF skip_whitespaces_or_newlines(i + 1) = close THEN <<>>
                     ELSE [n \in 1..(Cardinality(commas) + 1) |-> Arg(n)],
            end  |-> close + 1]
----------------------------------------------------------------------------
(* Neighbours in a sequence of tokens that are not white space, or 0.      *)
LeftOf(s, i)  == Max({0} \cup {j \in 1..(i - 1) : s[j].kind # "ws"})
RightOf(s, i) == LET S == {j \in (i + 1)..Len(s) : s[j].kind # "ws"} IN IF S = {} THEN 0 ELSE Min(S)

macro_find_param(m, t) ==
  IF t.kind # "ident" \/ ~\E i \in DOMAIN m.params : m.params[i] = t.text THEN 0
  ELSE Min({i \in DOMAIN m.params : m.params[i] = t.text})

(* The parameters that are operands of # or ##.  Mutant: only of #.        *)
Operators(s, kind) == {j \in DOMAIN s : s[j].kind = kind}
Operands(m) == {RightOf(m.body, i) : i \in Operators(m.body, "hash") \cup Operators(m.body, "hashhash")}
                 \cup {LeftOf(m.body, i) : i \in Operators(m.body, "hashhash")}
hash_only(m) ==
  {macro_find_param(m, m.body[RightOf(m.body, i)]) : i \in Operators(m.body, "hash")} \ {0}
no_expand(m) == {macro_find_param(m, m.body[i]) : i \in Operands(m) \ {0}} \ {0}

stringify_tokens(arg) == Token("str", FlattenSeq([i \in DOMAIN arg |-> arg[i].text]))

concat_two_tokens(l, r) ==
  IF l.kind = "placemarker" THEN r
  ELSE IF r.kind = "placemarker" THEN l
  ELSE Token(IF \A i \in DOMAIN (l.text \o r.text) : (l.text \o r.text)[i] \in Digits
             THEN "int" ELSE "ident", l.text \o r.text)

(* Parameter substitution: an empty argument leaves a placemarker, and one *)
(* that is missing is read as empty.                                       *)
argument(args, p) == IF p \in DOMAIN args /\ args[p] # <<>> THEN args[p] ELSE <<Token("placemarker", <<>>)>>
substituted(m, args) ==
  LET operand(i) == IF m.body[i].kind = "hash" THEN RightOf(m.body, i) ELSE 0
      strings == {i \in DOMAIN m.body : operand(i) # 0 /\ macro_find_param(m, m.body[operand(i)]) # 0}
      gone == UNION {(i + 1)..operand(i) : i \in strings}
      Piece(i) ==
        LET p == macro_find_param(m, m.body[IF i \in strings THEN operand(i) ELSE i])
        IN  IF i \in gone THEN <<>>
            ELSE IF i \in strings
            THEN <<stringify_tokens(IF p \in DOMAIN args THEN args[p] ELSE <<>>)>>
            ELSE IF p # 0 THEN argument(args, p) ELSE <<m.body[i]>>
  IN  FlattenSeq([i \in DOMAIN m.body |-> Piece(i)])

(* The first ## operator from place u.from on, which needs two operands.   *)
paste_next(u) ==
  LET ops == {i \in u.from..Len(u.toks) : u.toks[i].kind = "hashhash"}
      p   == Min(ops)
      l   == LeftOf(u.toks, p)
      r   == RightOf(u.toks, p)
  IN  IF ~u.ok \/ ops = {} THEN u
      ELSE IF l = 0 \/ r = 0 THEN [u EXCEPT !.ok = FALSE]
      ELSE [ok |-> TRUE, from |-> l + 1,
            toks |-> Replace(u.toks, l, r + 1, <<concat_two_tokens(u.toks[l], u.toks[r])>>)]

(* The ## operators from the left.                                         *)
pasted(s) ==
  LET n == Cardinality(Operators(s, "hashhash"))
      after[k \in 0..n] ==
        IF k = 0 THEN [ok |-> TRUE, from |-> 1, toks |-> s] ELSE paste_next(after[k - 1])
  IN  after[n]

(* Placemarkers are gone after that: removed, but still in the array.      *)
without_placemarkers(s) ==
  [i \in DOMAIN s |-> IF s[i].kind = "placemarker" THEN Token("removed", <<>>) ELSE s[i]]
----------------------------------------------------------------------------
Init ==
  /\ \E p \in Programs : macros = p.macros /\ source = p.text /\ skip_newline = p.skip_newline
  /\ arrays = <<[toks |-> Append(source, Eof), pos |-> 1]>>
  /\ frames = <<[what |-> "text"]>>
  /\ at_start = TRUE /\ status = "run"

(* preprocess_group_part: a directive at the beginning of a line.  What it *)
(* does is not here; the line is passed.                                   *)
Directive ==
  /\ status = "run" /\ Top.what = "text" /\ at_start /\ Tok.kind = "dir"
  /\ LET ends == {i \in Pos..Len(Toks) : Toks[i].kind = "nl"}
         removed == [i \in DOMAIN Toks |-> IF i \in Pos..Min(ends) THEN Token("removed", <<>>) ELSE Toks[i]]
     IN  SetTop([toks |-> removed, pos |-> Min(ends) + 1])
  /\ UNCHANGED <<macros, source, skip_newline, frames, at_start, status>>

(* preprocess_text_line: a token that is not a name.  A text that ends in  *)
(* the middle of a line is rejected.  The loop over the condition of an    *)
(* #if ends at the line end.                                               *)
TextToken ==
  /\ Scanning /\ Top.what = "text" /\ Tok.kind # "ident"
  /\ IF Tok.kind = "eof" \/ (~skip_newline /\ Tok.kind = "nl")
     THEN /\ status' = IF at_start \/ ~skip_newline THEN "done" ELSE "fatal"
          /\ UNCHANGED <<arrays, at_start>>
     ELSE /\ Moved(Pos + 1)
          /\ at_start' = (Tok.kind = "nl")
          /\ UNCHANGED status
  /\ UNCHANGED <<macros, source, skip_newline, frames>>

(* The loops of expand_macro and expand_macro_arg on such a token.         *)
Pass ==
  /\ Scanning /\ Top.what # "text" /\ Tok.kind # "ident"
  /\ IF Pos > Len(Toks) THEN status' = "overrun" /\ UNCHANGED <<arrays, frames>>
     ELSE Moved(Pos + 1) /\ frames' = Returned(frames, 1) /\ UNCHANGED status
  /\ UNCHANGED <<macros, source, skip_newline, at_start>>

(* The name of a macro that is being expanded, or of none.                 *)
NotExpanded ==
  /\ AtMacro /\ (Tok.text \in already_expanded \/ Tok.text \notin DOMAIN macros)
  /\ Moved(Pos + 1)
  /\ frames' = Returned(frames, 1)
  /\ at_start' = FALSE
  /\ UNCHANGED <<macros, source, skip_newline, status>>

Expandable == AtMacro /\ Tok.text \notin already_expanded /\ Tok.text \in DOMAIN macros
Macro == macros[Tok.text]

(* A function-like macro's name without parenthesis: white space and line  *)
(* ends behind it are passed.                                              *)
NotInvoked ==
  LET next == skip_whitespaces_or_newlines(Pos + 1) IN
  /\ Expandable /\ Macro.kind = "func" /\ At(next).kind # "("
  /\ Moved(next)
  /\ frames' = Returned(frames, next - Pos)
  /\ at_start' = FALSE
  /\ UNCHANGED <<macros, source, skip_newline, status>>

(* The arguments are read; in a condition, the line may not end right      *)
(* behind the parenthesis.  The code tests a flag for each argument, of    *)
(* which there are as many as parameters: what it reads for further        *)
(* arguments is any value.                                                 *)
Invoke ==
  LET open == skip_whitespaces_or_newlines(Pos + 1)
      read == pp_parse_macro_arguments(open)
      split == At(skip_whitespaces_or_newlines(open + 1)).kind = "nl"
  IN
  /\ Expandable /\ Macro.kind = "func" /\ At(open).kind = "("
  /\ IF split THEN status' = "fatal" /\ UNCHANGED <<arrays, frames>>
     ELSE IF read.end = 0 THEN status' = "overrun" /\ UNCHANGED <<arrays, frames>>
     ELSE /\ \E further \in SUBSET ((Len(Macro.params) + 1)..Len(read.args)) :
               frames' = Append(frames, [what |-> "call", name |-> Tok.text, start |-> Pos,
                                         end |-> read.end, args |-> read.args, next |-> 1,
                                         keep |-> no_expand(Macro) \cup further])
          /\ UNCHANGED <<arrays, status>>
  /\ at_start' = FALSE
  /\ UNCHANGED <<macros, source, skip_newline>>

InCall == status = "run" /\ Top.what = "call"
NextArg(f) == [f EXCEPT !.next = @ + 1]

(* expand_macro_arg: the argument with an end token, in its own array.     *)
ExpandArg ==
  /\ InCall /\ Top.next <= Len(Top.args) /\ Top.next \notin Top.keep
  /\ LET arg == Append(Top.args[Top.next], Eof)
     IN  /\ arrays' = Append(arrays, [toks |-> arg, pos |-> 1])
         /\ frames' = Append(frames, [what |-> "arg", count |-> Len(arg), processed |-> 0])
  /\ UNCHANGED <<macros, source, skip_newline, at_start, status>>

KeepArg ==
  /\ InCall /\ Top.next <= Len(Top.args) /\ Top.next \in Top.keep
  /\ frames' = Append(Front(frames), NextArg(Top))
  /\ UNCHANGED <<macros, source, skip_newline, arrays, at_start, status>>

EndArg ==
  LET call == frames[Len(frames) - 1] IN
  /\ status = "run" /\ Top.what = "arg" /\ Top.processed >= Top.count
  /\ arrays' = Front(arrays)
  /\ frames' = Append(Front(Front(frames)), NextArg([call EXCEPT !.args[call.next] = Front(Toks)]))
  /\ UNCHANGED <<macros, source, skip_newline, at_start, status>>

(* The tokens from start on, up to end, are replaced and scanned again.    *)
(* `rest` is how many tokens there are behind them.                        *)
Rescan(fs, name, start, end, by) ==
  /\ SetTop([toks |-> Replace(Toks, start, end, by), pos |-> start])
  /\ frames' = Append(fs, [what |-> "rescan", name |-> name, count |-> Len(by), processed |-> 0,
                           before |-> end - start, rest |-> Len(Toks) - end + 1])

Substitute ==
  LET m      == macros[Top.name]
      region == pasted(substituted(m, Top.args))
  IN
  /\ InCall /\ Top.next > Len(Top.args)
  /\ IF ~region.ok THEN status' = "fatal" /\ UNCHANGED <<arrays, frames>>
     ELSE /\ Rescan(Front(frames), Top.name, Top.start, Top.end, without_placemarkers(region.toks))
          /\ UNCHANGED status
  /\ UNCHANGED <<macros, source, skip_newline, at_start>>

(* An object-like macro; __FILE__ and __LINE__ are ones of one token.      *)
ExpandObject ==
  /\ Expandable /\ Macro.kind = "obj"
  /\ IF Len(frames) = MaxFrames THEN status' = "overflow" /\ UNCHANGED <<arrays, frames>>
     ELSE Rescan(frames, Tok.text, Pos, Pos + 1, Macro.body) /\ UNCHANGED status
  /\ at_start' = FALSE
  /\ UNCHANGED <<macros, source, skip_newline>>

(* How many tokens of the caller an expansion took.  Mutant: those it      *)
(* became.                                                                 *)
token_count_after_expansion(f)  == f.count
token_count_before_expansion(f) == f.before

EndRescan ==
  /\ status = "run" /\ Top.what = "rescan" /\ Top.processed >= Top.count
  /\ frames' = Returned(Front(frames), token_count_before_expansion(Top))
  /\ UNCHANGED <<macros, source, skip_newline, arrays, at_start, status>>

Next ==
  \/ Directive \/ TextToken \/ Pass \/ NotExpanded \/ NotInvoked
  \/ Invoke \/ ExpandArg \/ KeepArg \/ EndArg \/ Substitute \/ ExpandObject \/ EndRescan

Spec == Init /\ [][Next]_vars
----------------------------------------------------------------------------
(* Where the tokens end that the innermost scan may take.                  *)
Behind == IF Top.what = "rescan" THEN Top.rest ELSE 0
OwnEnd == Len(Toks) + 1 - Behind

(* An invocation within an expansion ends within it.  This is about the    *)
(* macros and the text: the code reads on behind the expansion if not.     *)
InvocationsWithin ==
  LET open == skip_whitespaces_or_newlines(Pos + 1)
      split == At(skip_whitespaces_or_newlines(open + 1)).kind = "nl"
  IN  Expandable /\ Macro.kind = "func" =>
        /\ open <= OwnEnd
        /\ At(open).kind = "(" /\ ~split => pp_parse_macro_arguments(open).end \in 1..OwnEnd

(* Every expansion stops exactly where the tokens end that it wrote: as    *)
(* many tokens as it has still to process stand between the position and   *)
(* the tokens behind the expansion.  So no expansion leaves its array.     *)
StopsAtOwnEnd ==
  /\ status = "run" /\ Top.what \in {"rescan", "arg"} => OwnEnd - Pos = Top.count - Top.processed
  /\ status # "overrun"
ScansOwnTokens == InvocationsWithin /\ StopsAtOwnEnd

(* However the macros refer to each other and to themselves, the recursion *)
(* ends.                                                                   *)
RecursionEnds == status # "overflow"

(* A macro is never expanded within its own expansion.                     *)
NoMacroWithinItself ==
  \A i, j \in DOMAIN frames :
    frames[i].what = "rescan" /\ frames[j].what = "rescan" /\ frames[i].name = frames[j].name => i = j

(* What stands in front of the position stays: in the innermost array, and *)
(* in those further out.                                                   *)
InFrontKept ==
  \A a \in DOMAIN arrays \cap DOMAIN arrays' :
    /\ arrays[a].pos <= arrays'[a].pos
    /\ \A i \in 1..(arrays[a].pos - 1) : arrays'[a].toks[i] = arrays[a].toks[i]

(* So do the tokens behind the innermost expansion that is being rescanned.*)
BehindKept ==
  LET n == Len(arrays)
      scan == IF Top.what = "call" THEN frames[Len(frames) - 1] ELSE Top
      rest == IF scan.what = "rescan" THEN scan.rest ELSE 0
  IN  n \in DOMAIN arrays' =>
        \A i \in 0..(rest - 1) : arrays'[n].toks[Len(arrays'[n].toks) - i] = Toks[Len(Toks) - i]

(* However deep the splices, each leaves alone what stands in front of its *)
(* invocation, in its own array and in those further out, and the tokens   *)
(* behind the expansion that the invocation is part of.                    *)
SplicesInPlace == [][InFrontKept /\ BehindKept]_vars

(* A directive at the beginning of a line is handled as one: the text is   *)
(* not passed beyond a directive that is still there.                      *)
DirectivesSeen ==
  \A i \in 1..(arrays[1].pos - 1) : arrays[1].toks[i].kind # "dir"
=============================================================================
