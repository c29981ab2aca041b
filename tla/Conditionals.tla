---------------------------- MODULE Conditionals ----------------------------
(***************************************************************************)
(* Conditional inclusion, #define and #undef in preprocess.c, for one      *)
(* file: a recursive descent over the lines, in which a group that is not  *)
(* included is passed over by counting #if and #endif.                     *)
(*                                                                         *)
(* The file is what is read of it: a step reads one more line.  `sections` *)
(* is the recursion: one record for each preprocess_if_section in progress *)
(* with the group it is in, the outermost first, and for the whole file.   *)
(***************************************************************************)
EXTENDS CondReference, SequencesExt

CONSTANTS
  Names,         \* macro names
  Redefinitions, \* whether a macro may be defined while it is defined
  MaxLines       \* bound: lines of the file

ASSUME CondAssumption ==
  /\ Names # {} /\ MaxLines \in Nat /\ Redefinitions \in BOOLEAN

VARIABLES
  lines,      \* the file, as far as it has been read
  truth,      \* for each line, what its condition evaluates to there
  macros,     \* Preprocessor.macros: [name, undef], in order of definition
  sections,   \* the groups being preprocessed or skipped
  kept,       \* the text lines that are not removed
  status      \* "run", "done", or the fatal error

vars == <<lines, truth, macros, sections, kept, status>>

Line == [kind : {"text", "define", "undef", "if", "elif", "else", "endif"},
         name : Names, want : BOOLEAN]

(* The lines to read: conditions ask whether a macro is defined (want) or  *)
(* is not, as #ifdef, #ifndef, #elifdef, #elifndef and defined() do.       *)
Inputs ==
  {l \in Line : /\ l.kind \notin {"if", "elif"} => l.want
                /\ l.kind \in {"text", "else", "endif"} =>
                     l.name = CHOOSE n \in Names : TRUE}

Section == [delimiter : {"normal", "after_if", "after_else"},
            include : BOOLEAN, nesting : Nat, did_include : BOOLEAN]

TypeOK ==
  /\ lines \in Seq(Line) /\ Len(lines) <= MaxLines
  /\ truth \in [DOMAIN lines -> BOOLEAN]
  /\ macros \in Seq([name : Names, undef : BOOLEAN])
  /\ sections \in Seq(Section) /\ sections # <<>>
  /\ kept \subseteq DOMAIN lines
  /\ status \in {"run", "done", "unexpected", "expected endif"}
----------------------------------------------------------------------------
(* find_macro: the first entry of that name that is not undefined, or 0.   *)
find_macro(n) ==
  LET hits == {i \in DOMAIN macros : macros[i].name = n /\ ~macros[i].undef}
  IN  IF hits = {} THEN 0 ELSE Min(hits)

Top == Last(sections)

is_delimiter_of_current_group(kind) ==
  CASE Top.delimiter = "normal"     -> FALSE
    [] Top.delimiter = "after_if"   -> kind \in {"elif", "else", "endif"}
    [] Top.delimiter = "after_else" -> kind = "endif"

(* Line l ends the group, or is read within it: included or skipped.       *)
Ends(l)     == (Top.include \/ Top.nesting = 0) /\ is_delimiter_of_current_group(l.kind)
Included(l) == Top.include /\ ~is_delimiter_of_current_group(l.kind)
Skipped(l)  == ~Top.include /\ ~Ends(l)

Group(delimiter, include, did_include) ==
  [delimiter |-> delimiter, include |-> include, nesting |-> 0,
   did_include |-> did_include]

Read(l) ==
  /\ status = "run" /\ Len(lines) < MaxLines
  /\ lines' = Append(lines, l)
  /\ truth' = Append(truth, (find_macro(l.name) # 0) <=> l.want)
Condition == truth'[Len(lines')]
----------------------------------------------------------------------------
Init ==
  /\ lines = <<>> /\ truth = <<>> /\ macros = <<>> /\ kept = {}
  /\ sections = <<Group("normal", TRUE, FALSE)>>
  /\ status = "run"

(* preprocess_text_line.  What the macros of the line become is not here.  *)
TextLine(l) ==
  /\ l.kind = "text" /\ Included(l)
  /\ kept' = kept \cup {Len(lines')}
  /\ UNCHANGED <<macros, sections, status>>

(* preprocess_define_directive: a new entry, whatever there is already.    *)
Define(l) ==
  /\ l.kind = "define" /\ Included(l)
  /\ Redefinitions \/ find_macro(l.name) = 0
  /\ macros' = Append(macros, [name |-> l.name, undef |-> FALSE])
  /\ UNCHANGED <<sections, kept, status>>

(* The entry that #undef marks.  Mutant: the first of that name, marked or *)
(* not.                                                                    *)
entry_of_name(n) ==
  LET hits == {i \in DOMAIN macros : macros[i].name = n}
  IN  IF hits = {} THEN 0 ELSE Min(hits)
entry_to_undef(n) == find_macro(n)

(* preprocess_undef_directive.                                             *)
Undef(l) ==
  /\ l.kind = "undef" /\ Included(l)
  /\ macros' = [i \in DOMAIN macros |->
                  IF i = entry_to_undef(l.name) THEN [macros[i] EXCEPT !.undef = TRUE]
                  ELSE macros[i]]
  /\ UNCHANGED <<sections, kept, status>>

(* preprocess_if_section, up to its first group.                           *)
If(l) ==
  /\ l.kind = "if" /\ Included(l)
  /\ sections' = Append(sections, Group("after_if", Condition, Condition))
  /\ UNCHANGED <<macros, kept, status>>

(* Whether a group behind #elif is included: unless one was.  Mutant: the  *)
(* condition alone decides.                                                *)
condition_alone == Condition
elif_included == Condition /\ ~Top.did_include

(* The next group of preprocess_elif_groups_opt.                           *)
Elif(l) ==
  LET do_include == elif_included IN
  /\ l.kind = "elif" /\ Ends(l)
  /\ sections' = Append(Front(sections),
                        Group("after_if", do_include, Top.did_include \/ do_include))
  /\ UNCHANGED <<macros, kept, status>>

(* preprocess_else_group.                                                  *)
Else(l) ==
  /\ l.kind = "else" /\ Ends(l)
  /\ sections' = Append(Front(sections),
                        Group("after_else", ~Top.did_include, Top.did_include))
  /\ UNCHANGED <<macros, kept, status>>

(* preprocess_endif_directive: the section is done.                        *)
Endif(l) ==
  /\ l.kind = "endif" /\ Ends(l)
  /\ sections' = Front(sections)
  /\ UNCHANGED <<macros, kept, status>>

(* preprocess_group_part on a directive that ends no group of the section. *)
Unexpected(l) ==
  /\ l.kind \in {"elif", "else", "endif"} /\ Included(l)
  /\ status' = "unexpected"
  /\ UNCHANGED <<macros, sections, kept>>

(* skip_group_opt counts #if and #endif.  Mutant: it does not.             *)
no_nesting(kind) == 0
nesting_change(kind) ==
  CASE kind = "if"    -> 1
    [] kind = "endif" -> -1
    [] OTHER          -> 0

(* skip_group_opt: the line is removed.                                    *)
SkipLine(l) ==
  /\ Skipped(l)
  /\ sections' = Append(Front(sections), [Top EXCEPT !.nesting = @ + nesting_change(l.kind)])
  /\ UNCHANGED <<macros, kept, status>>

(* The end of the file, in a group of a section or not.                    *)
EndOfFile ==
  /\ status = "run"
  /\ status' = IF Top.delimiter = "normal" THEN "done" ELSE "expected endif"
  /\ UNCHANGED <<lines, truth, macros, sections, kept>>

Step(l) ==
  /\ Read(l)
  /\ \/ TextLine(l) \/ Define(l) \/ Undef(l)
     \/ If(l) \/ Elif(l) \/ Else(l) \/ Endif(l)
     \/ Unexpected(l) \/ SkipLine(l)

Next == EndOfFile \/ \E l \in Inputs : Step(l)

Spec == Init /\ [][Next]_vars
----------------------------------------------------------------------------
(* Exactly the text lines that are part of the program survive: of each    *)
(* section the first group whose condition holds and no other, and nothing *)
(* of a section within a skipped group, however deep.                      *)
KeptIsLive ==
  status # "unexpected" =>
    kept = {i \in Of(lines, "text", DOMAIN lines) : Live(lines, truth, i)}

(* A macro is defined when the last #define or #undef of it that is part   *)
(* of the program says so; directives in skipped groups have no effect.    *)
MacrosAsWritten ==
  \A n \in Names : find_macro(n) # 0 <=> Defined(lines, truth, n)

(* A file is accepted only if its sections are balanced, and rejected only *)
(* for a directive without a section, a section without its #endif or a    *)
(* group behind an #else.                                                  *)
RejectsUnbalanced ==
  /\ status = "done" => NoStray(lines) /\ Depth(lines, Len(lines) + 1) = 0
  /\ status = "unexpected" => ~NoStray(lines) \/ ~ElseIsLast(lines, truth)
  /\ status = "expected endif" => Depth(lines, Len(lines) + 1) > 0
=============================================================================
