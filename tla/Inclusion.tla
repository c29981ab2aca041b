----------------------------- MODULE Inclusion -----------------------------
(***************************************************************************)
(* File inclusion in preprocess.c: a file that is included is tokenized    *)
(* and preprocessed by a Preprocessor of its own, which shares the table   *)
(* of macros and the list of dependencies, and its tokens are put into the *)
(* array of the file that includes it.                                     *)
(*                                                                         *)
(* A line of a file is a text line, #define, #ifndef, #endif, or #include  *)
(* and #include_next in the forms "..." and <...>.  Sections are balanced  *)
(* here; what the groups of any section do is in Conditionals.  A path is  *)
(* the sequence of its components, as it is spelled.                       *)
(***************************************************************************)
EXTENDS Integers, SequencesExt, FiniteSetsExt

CONSTANTS
  Inputs,      \* the command lines: [files, include_paths, system, user]
  Main,        \* path of the source file
  DepthLimit,  \* 32 in preprocessor_new
  MaxFrames    \* bound: files open at once, beyond the limit

ASSUME InclusionAssumption == DepthLimit \in Nat \ {0} /\ MaxFrames \in Nat

VARIABLES
  input,          \* what is being compiled
  stack,          \* the Preprocessors, the main file's first
  macros,         \* names of the macros that are defined
  included_files, \* paths, in the order in which they were listed
  opened,         \* history: the files preprocessed, and where they were included
  status          \* "run", "done", or the fatal error

vars == <<input, stack, macros, included_files, opened, status>>

Statuses == {"run", "done", "cannot resolve", "cannot open", "depth limit", "overflow"}

(* The frame of a file: its path, the line it is at, the depth of its      *)
(* Preprocessor, and the text lines in its array, each by the lines of the *)
(* #includes that led to it and its own.                                   *)
TypeOK ==
  /\ stack # <<>> /\ stack[1].path = Main
  /\ \A i \in DOMAIN stack :
       /\ stack[i].depth \in 0..(DepthLimit - 1)
       /\ stack[i].pos \in 1..(Len(input.files[stack[i].file]) + 1)
       /\ \A t \in Range(stack[i].text) : t # <<>> /\ Head(t) < stack[i].pos
  /\ \A o \in Range(opened) : o.file \in DOMAIN input.files
  /\ status \in Statuses
----------------------------------------------------------------------------
(* dirname.                                                                *)
Dir(path) == IF Len(path) = 1 THEN <<".">> ELSE Front(path)

(* The file a path leads to: "." and ".." removed, where there are no      *)
(* links.                                                                  *)
Walk(at, component) ==
  CASE component = "."               -> at
    [] component = ".." /\ at # <<>> -> Front(at)
    [] OTHER                         -> Append(at, component)
Place(path) == FoldLeft(Walk, <<>>, path)
Readable(path) == Place(path) \in DOMAIN input.files

Top   == Last(stack)
Lines == input.files[Top.file]
Line  == Lines[Top.pos]
Spelled(i, name) == input.include_paths[i] \o name

NotFound == <<>>
FirstOf(places, name) == IF places = {} THEN NotFound ELSE Spelled(Min(places), name)
Candidates(name) == {i \in DOMAIN input.include_paths : Readable(Spelled(i, name))}

resolve_include_name(l) ==
  IF l.form = "quote" THEN Dir(Top.path) \o l.name ELSE FirstOf(Candidates(l.name), l.name)

(* Only the file itself, as it is spelled, is passed over.                 *)
resolve_next_include_name(l) ==
  FirstOf({i \in Candidates(l.name) : Spelled(i, l.name) # Top.path}, l.name)

resolved(l) == IF l.next THEN resolve_next_include_name(l) ELSE resolve_include_name(l)

(* Whether the file is listed as a dependency: by the options, but for     *)
(* #include_next.                                                          *)
listed(l) == IF l.next THEN l.form = "quote"
             ELSE IF l.form = "quote" THEN input.user ELSE input.system

(* Mutants: only the last file listed is compared; only the file's name.   *)
last_included(path) == Last(included_files) = path
name_included(path) == \E i \in DOMAIN included_files : Last(included_files[i]) = Last(path)
already_included(path) == \E i \in DOMAIN included_files : included_files[i] = path

(* The depth of an included file's Preprocessor.  Mutant: the includer's.  *)
same_depth(depth)    == depth
include_depth(depth) == depth + 1

(* insert_pp_tokens: the array of an included file goes where its #include *)
(* is.  Mutant: to the front of the array.                                 *)
insert_in_front(text, at, by) == [i \in DOMAIN by |-> <<at>> \o by[i]] \o text
insert_pp_tokens(text, at, by) == text \o [i \in DOMAIN by |-> <<at>> \o by[i]]

(* The line behind the #endif of the section that begins at line i.        *)
Ifs(i, j)     == Cardinality({k \in i..j : Lines[k].kind = "ifndef"})
Endifs(i, j)  == Cardinality({k \in i..j : Lines[k].kind = "endif"})
BehindEndif(i) == Min({j \in i..Len(Lines) : Ifs(i, j) = Endifs(i, j)}) + 1

Advanced(f, p) == [f EXCEPT !.pos = p]
Preprocess(path, depth) ==
  [path |-> path, file |-> Place(path), pos |-> 1, depth |-> depth, text |-> <<>>]
----------------------------------------------------------------------------
Init ==
  /\ input \in Inputs
  /\ stack = <<Preprocess(Main, 0)>>
  /\ macros = {} /\ included_files = <<Main>>
  /\ opened = <<[file |-> Place(Main), path |-> Main, at |-> <<>>, line |-> [kind |-> "main"]]>>
  /\ status = "run"

AtLine(kind) ==
  /\ status = "run" /\ Top.pos <= Len(Lines) /\ Line.kind = kind
  /\ UNCHANGED <<input, status>>
Go(p) == stack' = Append(Front(stack), Advanced(Top, p))

TextLine ==
  /\ AtLine("text")
  /\ stack' = Append(Front(stack), [Advanced(Top, Top.pos + 1) EXCEPT !.text = Append(@, <<Top.pos>>)])
  /\ UNCHANGED <<macros, included_files, opened>>

Define ==
  /\ AtLine("define")
  /\ macros' = macros \cup {Line.name}
  /\ Go(Top.pos + 1)
  /\ UNCHANGED <<included_files, opened>>

(* preprocess_if_section with #ifndef: the group, or nothing of it.        *)
Ifndef ==
  /\ AtLine("ifndef")
  /\ Go(IF Line.name \in macros THEN BehindEndif(Top.pos) ELSE Top.pos + 1)
  /\ UNCHANGED <<macros, included_files, opened>>

Endif ==
  /\ AtLine("endif")
  /\ Go(Top.pos + 1)
  /\ UNCHANGED <<macros, included_files, opened>>

(* Where the main file's lines led to line `pos` of the innermost file.    *)
Trail == [i \in DOMAIN stack |-> stack[i].pos]

(* preprocess_include_directive and preprocess_include_next_directive: the *)
(* dependency is listed before the file is opened, and the depth is tested *)
(* when it is.                                                             *)
Include ==
  LET path  == resolved(Line)
      depth == include_depth(Top.depth)
  IN
  /\ status = "run" /\ Top.pos <= Len(Lines) /\ Line.kind = "include"
  /\ included_files' = IF path # NotFound /\ listed(Line) /\ ~already_included(path)
                       THEN Append(included_files, path) ELSE included_files
  /\ status' = IF path = NotFound              THEN "cannot resolve"
               ELSE IF ~Readable(path)         THEN "cannot open"
               ELSE IF depth >= DepthLimit     THEN "depth limit"
               ELSE IF Len(stack) >= MaxFrames THEN "overflow"
               ELSE "run"
  /\ IF status' = "run"
     THEN /\ stack' = Append(stack, Preprocess(path, depth))
          /\ opened' = Append(opened, [file |-> Place(path), path |-> path,
                                       at |-> Trail, line |-> Line])
     ELSE UNCHANGED <<stack, opened>>
  /\ UNCHANGED <<input, macros>>

(* The end of a file: expand_include_directive of the file that included   *)
(* it, or the end of preprocess.                                           *)
EndOfFile ==
  LET includer == stack[Len(stack) - 1] IN
  /\ status = "run" /\ Top.pos > Len(Lines)
  /\ IF Len(stack) = 1 THEN status' = "done" /\ UNCHANGED stack
     ELSE /\ stack' = Append(Front(Front(stack)),
                [Advanced(includer, includer.pos + 1) EXCEPT
                   !.text = insert_pp_tokens(@, includer.pos, Top.text)])
          /\ UNCHANGED status
  /\ UNCHANGED <<input, macros, included_files, opened>>

Next == TextLine \/ Define \/ Ifndef \/ Endif \/ Include \/ EndOfFile

Spec == Init /\ [][Next]_vars /\ WF_vars(Next)
----------------------------------------------------------------------------
(* A text line is guarded by the section it is in if the section begins by *)
(* defining the macro whose absence it asks for.                           *)
Guards(f, i, j) ==
  LET s == input.files[f] IN
  /\ i + 1 < j /\ s[i].kind = "ifndef" /\ s[i + 1].kind = "define" /\ s[i + 1].name = s[i].name
  /\ \A k \in i..j : s[k].kind # "endif"
Guarded(f, j) == \E i \in 1..j : Guards(f, i, j)
FirstTime(k) == \A j \in 1..(k - 1) : opened[j].file # opened[k].file

(* The text lines that the inclusions ask for: each line of a file at each *)
(* of its inclusions, a guarded one only at the first.                     *)
Asked ==
  UNION {{Append(opened[k].at, i) : i \in
            {j \in DOMAIN input.files[opened[k].file] :
               /\ input.files[opened[k].file][j].kind = "text"
               /\ Guarded(opened[k].file, j) => FirstTime(k)}} : k \in DOMAIN opened}

Before(s, t) ==
  \E n \in 1..Min({Len(s), Len(t)}) : SubSeq(s, 1, n - 1) = SubSeq(t, 1, n - 1) /\ s[n] < t[n]

(* The text of a program is what its inclusions ask for, in the order of   *)
(* the lines and with that of a file at the line that includes it: no line *)
(* of a guarded file comes twice, also when it includes itself or is       *)
(* reached by several ways and spellings.                                  *)
TextInPlace ==
  status = "done" =>
    /\ Range(stack[1].text) = Asked
    /\ \A i \in 1..(Len(stack[1].text) - 1) : Before(stack[1].text[i], stack[1].text[i + 1])

(* What TextInPlace needs of the files: sections are used as guards only.  *)
(* A section begins by defining the macro whose absence it asks for, which *)
(* nothing else defines; it has no section in it; and no file is included  *)
(* in front of it.                                                         *)
Section(s, i, e) ==
  /\ s[i + 1].kind = "define" /\ s[i + 1].name = s[i].name
  /\ s[e].kind = "endif" /\ \A j \in (i + 1)..(e - 1) : s[j].kind \notin {"ifndef", "endif"}
GuardsOnly(files) ==
  \A f \in DOMAIN files : \A i \in DOMAIN files[f] : files[f][i].kind = "ifndef" =>
    /\ \E e \in (i + 2)..Len(files[f]) : Section(files[f], i, e)
    /\ \A j \in 1..(i - 1) : files[f][j].kind # "include"
    /\ \A g \in DOMAIN files : \A j \in DOMAIN files[g] :
         files[g][j].kind = "define" /\ files[g][j].name = files[f][i].name => g = f /\ j = i + 1

WellFormed ==
  \A c \in Inputs :
    /\ \A f \in DOMAIN c.files : c.files[f] \in Seq(Range(c.files[f]))
    /\ GuardsOnly(c.files)
    /\ Place(Main) \in DOMAIN c.files

(* A path is listed once as a dependency, however often it is included.    *)
ListedOnce ==
  \A i, j \in DOMAIN included_files : included_files[i] = included_files[j] => i = j

(* The dependencies are the main file and every file that was preprocessed *)
(* for a directive of a kind the options ask for, and no other.            *)
DependenciesComplete ==
  status = "done" =>
    Range(included_files) = {o.path : o \in {q \in Range(opened) : q.line.kind = "main" \/ listed(q.line)}}

(* However files include each other, the preprocessor ends: the depth of   *)
(* inclusion is limited, so that no recursion needs more.                  *)
Terminates == <>(status \notin {"run", "overflow"})
=============================================================================
