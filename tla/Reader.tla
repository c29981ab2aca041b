------------------------------- MODULE Reader -------------------------------
(***************************************************************************)
(* The reader of io.c: a file f = [buf, pos, line] that gives its          *)
(* characters one by one, with line splices taken out and line ends made   *)
(* LF.  Behind the text the buffer holds zeros.                            *)
(*                                                                         *)
(* "BS", "LF" and "CR" are backslash, line feed and carriage return; "NUL" *)
(* is the terminator, and "fatal" what peeking at a backslash in front of  *)
(* it gives: the reader stops the compiler there.                          *)
(***************************************************************************)
EXTENDS Integers, Sequences

infile_open(text) == [buf |-> text, pos |-> 1, line |-> 1]

At(f, i) == IF i <= Len(f.buf) THEN f.buf[i] ELSE "NUL"

infile_eof(f) == At(f, f.pos) = "NUL"

(* The loop of C from the state s, of at most n turns: what the last turn  *)
(* leaves.  A loop over a file passes a character with every turn and      *)
(* stops at its end, so that Turns of them are enough.                     *)
While(go(_), step(_), s, n) ==
  LET after[k \in 0..n] ==
        IF k = 0 THEN s
        ELSE LET t == after[k - 1] IN IF go(t) THEN step(t) ELSE t
  IN  after[n]
Turns(f) == Len(f.buf) + 1

(* Backslash and line end at the position: CRLF counts as one line end.    *)
splice_length(f) ==
  IF At(f, f.pos) # "BS" THEN 0
  ELSE CASE At(f, f.pos + 1) = "CR" -> IF At(f, f.pos + 2) = "LF" THEN 3 ELSE 2
         [] At(f, f.pos + 1) = "LF" -> 2
         [] OTHER                   -> 0

(* infile_peek_char moves the position over splices ...                    *)
spliced(f0) ==
  While(LAMBDA f : splice_length(f) # 0,
        LAMBDA f : [f EXCEPT !.pos = @ + splice_length(f), !.line = @ + 1],
        f0, Turns(f0))

(* ... and gives the character behind them, as it is seen there.  Mutant:  *)
(* a backslash that ends the file is one like others.                      *)
seen_unchecked(f) == IF At(f, f.pos) = "CR" THEN "LF" ELSE At(f, f.pos)
seen(f) ==
  CASE At(f, f.pos) = "BS" /\ At(f, f.pos + 1) = "NUL" -> "fatal"
    [] At(f, f.pos) = "CR" -> "LF"
    [] OTHER -> At(f, f.pos)

infile_peek_char(f) == seen(spliced(f))

(* Mutant: a line end is counted for its CR and again for its LF.          *)
next_by_one(f0) ==
  LET f == spliced(f0) IN
  IF seen(f) = "fatal" THEN f
  ELSE [f EXCEPT !.pos = @ + 1, !.line = IF seen(f) = "LF" THEN @ + 1 ELSE @]
infile_next_char(f0) ==
  LET f     == spliced(f0)
      width == IF At(f, f.pos) = "CR" /\ At(f, f.pos + 1) = "LF" THEN 2 ELSE 1
  IN  IF seen(f) = "fatal" THEN f
      ELSE [f EXCEPT !.pos = @ + width, !.line = IF seen(f) = "LF" THEN @ + 1 ELSE @]

infile_peek_char2(f) == infile_peek_char(infile_next_char(f))

(* infile_consume_if for each of a set of characters.                      *)
consume_if(f, S) ==
  CASE S = {} -> [file |-> f, text |-> <<>>]
    [] infile_peek_char(f) \in S ->
         [file |-> infile_next_char(f), text |-> <<infile_peek_char(f)>>]
    [] OTHER -> [file |-> spliced(f), text |-> <<>>]

(* The loops that take characters as long as they are in S.                *)
take_while(f, S) ==
  LET taken == While(LAMBDA t : infile_peek_char(t.file) \in S,
                     LAMBDA t : [file |-> infile_next_char(t.file),
                                 text |-> Append(t.text, infile_peek_char(t.file))],
                     [file |-> f, text |-> <<>>], Turns(f))
  IN  [taken EXCEPT !.file = spliced(@)]
=============================================================================
