-------------------------- MODULE Inclusion_proofs --------------------------
(***************************************************************************)
(* Proofs about Inclusion, for any command lines and files: the list of    *)
(* dependencies, the depth of the stack of Preprocessors, and, for files   *)
(* whose sections are guards, that the text of each file is in its place.  *)
(***************************************************************************)
EXTENDS Inclusion, AbiLemmas, SequenceTheorems, FiniteSetTheorems

Listed == {o.path : o \in {q \in Range(opened) : q.line.kind = "main" \/ listed(q.line)}}

(* The list and the history are sequences, the list has no path twice, and *)
(* as long as no file has failed it holds the paths of the files that were *)
(* preprocessed, by the options.                                           *)
DepsInv ==
  /\ included_files \in Seq(Range(included_files))
  /\ opened \in Seq(Range(opened))
  /\ ListedOnce
  /\ status \in {"run", "done"} => Range(included_files) = Listed

(* Appending adds one element to the range of a sequence.                  *)
LEMMA RangeAppend ==
  ASSUME NEW S, NEW s \in Seq(S), NEW x
  PROVE  /\ Append(s, x) \in Seq(Range(Append(s, x)))
         /\ Range(Append(s, x)) = Range(s) \cup {x}
<1> DEFINE t == Append(s, x)
<1>1. s \in Seq(S \cup {x}) /\ x \in S \cup {x}
  OBVIOUS
<1>2. /\ Len(t) = Len(s) + 1 /\ DOMAIN t = 1..Len(s) + 1 /\ DOMAIN s = 1..Len(s) /\ Len(s) \in Nat
      /\ \A i \in 1..Len(s) : t[i] = s[i]
      /\ t[Len(s) + 1] = x
      /\ t \in Seq(S \cup {x})
  BY <1>1
<1>3. Range(t) = Range(s) \cup {x}
  BY <1>2 DEF Range
<1>4. t \in Seq(Range(t))
  BY <1>2 DEF Range
<1> QED BY <1>3, <1>4

(* A path that is not in the list can be appended to it.                   *)
LEMMA OnceAppend ==
  ASSUME NEW S, NEW s \in Seq(S), NEW x,
         \A i, j \in DOMAIN s : s[i] = s[j] => i = j,
         ~ \E i \in DOMAIN s : s[i] = x
  PROVE  \A i, j \in DOMAIN Append(s, x) : Append(s, x)[i] = Append(s, x)[j] => i = j
<1> DEFINE t == Append(s, x)
<1>1. s \in Seq(S \cup {x}) /\ x \in S \cup {x}
  OBVIOUS
<1>2. /\ DOMAIN t = 1..Len(s) + 1 /\ DOMAIN s = 1..Len(s) /\ Len(s) \in Nat
      /\ \A i \in 1..Len(s) : t[i] = s[i]
      /\ t[Len(s) + 1] = x
  BY <1>1
<1>3. SUFFICES ASSUME NEW i \in DOMAIN t, NEW j \in DOMAIN t, t[i] = t[j]
               PROVE  i = j
  OBVIOUS
<1>4. CASE i \in 1..Len(s) /\ j \in 1..Len(s)
  BY <1>2, <1>3, <1>4
<1>5. CASE i = Len(s) + 1 /\ j = Len(s) + 1
  BY <1>5
<1>6. CASE i \in 1..Len(s) /\ j = Len(s) + 1
  BY <1>2, <1>3, <1>6
<1>7. CASE i = Len(s) + 1 /\ j \in 1..Len(s)
  BY <1>2, <1>3, <1>7
<1> QED BY <1>2, <1>4, <1>5, <1>6, <1>7
----------------------------------------------------------------------------
(* The main file is listed at the beginning.                               *)
LEMMA DepsInit == Init => DepsInv
<1> SUFFICES ASSUME Init PROVE DepsInv
  OBVIOUS
<1>1. included_files = <<Main>> /\ Range(included_files) = {Main}
  BY DEF Init, Range
<1>2. PICK o : opened = <<o>> /\ o.path = Main /\ o.line.kind = "main"
  BY DEF Init
<1>3. Range(opened) = {o}
  BY <1>2 DEF Range
<1>4. Listed = {Main}
  BY <1>2, <1>3 DEF Listed
<1>5. included_files \in Seq({Main}) /\ opened \in Seq({o})
  BY <1>1, <1>2
<1>6. ListedOnce
  BY <1>1 DEF ListedOnce
<1> QED BY <1>1, <1>3, <1>4, <1>5, <1>6 DEF DepsInv

(* A path is compared with the whole list before it is appended, and what  *)
(* is listed is opened, or the preprocessor stops.                         *)
LEMMA DepsInclude == ASSUME DepsInv, Include PROVE DepsInv'
<1> DEFINE path == resolved(Line)
           new  == path # NotFound /\ listed(Line) /\ ~already_included(path)
           o    == [file |-> Place(path), path |-> path, at |-> Trail, line |-> Line]
<1>1. /\ status = "run" /\ Line.kind = "include" /\ input' = input
      /\ included_files' = IF new THEN Append(included_files, path) ELSE included_files
      /\ IF status' = "run" THEN opened' = Append(opened, o) ELSE opened' = opened
      /\ status' = "run" => path # NotFound
      /\ status' # "done"
  BY DEF Include
<1>2. /\ included_files \in Seq(Range(included_files)) /\ opened \in Seq(Range(opened))
      /\ ListedOnce /\ Range(included_files) = Listed
  BY <1>1 DEF DepsInv
<1>3. /\ included_files' \in Seq(Range(included_files'))
      /\ Range(included_files') = Range(included_files) \cup (IF new THEN {path} ELSE {})
  BY <1>1, <1>2, RangeAppend
<1>4. /\ opened' \in Seq(Range(opened'))
      /\ Range(opened') = Range(opened) \cup (IF status' = "run" THEN {o} ELSE {})
  <2> HIDE DEF o
  <2>1. CASE status' = "run"
    BY <2>1, <1>1, <1>2, RangeAppend
  <2>2. CASE status' # "run"
    BY <2>2, <1>1, <1>2
  <2> QED BY <2>1, <2>2
<1>5. ListedOnce'
  <2>1. CASE new
    BY <2>1, <1>1, <1>2, OnceAppend DEF ListedOnce, already_included
  <2>2. CASE ~new
    BY <2>2, <1>1, <1>2 DEF ListedOnce
  <2> QED BY <2>1, <2>2
<1>6. ASSUME status' = "run" PROVE Range(included_files') = Listed'
  <2>1. \A l : listed(l)' <=> listed(l)
    BY <1>1 DEF listed
  <2>2. Listed' = {p.path : p \in {q \in Range(opened') : q.line.kind = "main" \/ listed(q.line)}}
    BY <2>1 DEF Listed
  <2>3. o.path = path /\ o.line = Line /\ Line.kind # "main"
    BY <1>1
  <2>4. Listed' = Listed \cup (IF listed(Line) THEN {path} ELSE {})
    BY <2>2, <2>3, <1>4, <1>6 DEF Listed
  <2>5. already_included(path) => path \in Range(included_files)
    BY <1>2 DEF already_included, Range
  <2> QED BY <1>1, <1>2, <1>3, <1>6, <2>4, <2>5
<1> QED BY <1>1, <1>3, <1>4, <1>5, <1>6 DEF DepsInv

(* Nothing but an #include changes the list or the history.                *)
LEMMA DepsNext == DepsInv /\ [Next]_vars => DepsInv'
<1> SUFFICES ASSUME DepsInv, [Next]_vars PROVE DepsInv'
  OBVIOUS
<1>1. CASE Include
  BY <1>1, DepsInclude
<1>2. CASE TextLine \/ Define \/ Ifndef \/ Endif \/ EndOfFile \/ UNCHANGED vars
  <2>1. /\ included_files' = included_files /\ opened' = opened /\ input' = input
        /\ status' \in {"run", "done"} => status \in {"run", "done"}
    BY <1>2 DEF TextLine, Define, Ifndef, Endif, EndOfFile, AtLine, vars
  <2>2. Listed' = Listed
    BY <2>1 DEF Listed, listed
  <2> QED BY <2>1, <2>2 DEF DepsInv, ListedOnce
<1> QED BY <1>1, <1>2 DEF Next

(* A path is listed once as a dependency, however often, and from however  *)
(* many files, it is included.                                             *)
THEOREM InclusionListedOnce == Spec => []ListedOnce
<1>1. DepsInv => ListedOnce
  BY DEF DepsInv
<1> QED BY DepsInit, DepsNext, <1>1, PTL DEF Spec

(* When the preprocessor is done, the dependencies are the files it has    *)
(* preprocessed for directives that the options ask for.                   *)
THEOREM InclusionDependencies == Spec => []DependenciesComplete
<1>1. DepsInv => DependenciesComplete
  BY DEF DepsInv, DependenciesComplete, Listed
<1> QED BY DepsInit, DepsNext, <1>1, PTL DEF Spec
----------------------------------------------------------------------------
(* The depth of a Preprocessor counts those below it on the stack.         *)
Fields == {"path", "file", "pos", "depth", "text"}
DepthInv ==
  /\ stack \in Seq(Range(stack)) /\ stack # <<>>
  /\ Len(stack) <= DepthLimit
  /\ \A i \in 1..Len(stack) : DOMAIN stack[i] = Fields /\ stack[i].depth = i - 1

(* However files include each other, no more than DepthLimit of them are   *)
(* open at once, the main file included.                                   *)
DepthBounded == Len(stack) <= DepthLimit

(* The last but one of a number of places.                                 *)
LEMMA LastButOne ==
  ASSUME NEW n \in Nat, n # 0
  PROVE  /\ (n - 1) - 1 + 1 = n - 1 /\ (n - 1) - 1 = n - 2
         /\ (IF 1 <= n - 1 THEN (n - 1) - 1 + 1 ELSE 0) = n - 1
         /\ n # 1 => n - 1 \in 1..n
<1>1. (n - 1) - 1 = n - 2
  OBVIOUS
<1>2. (n - 1) - 1 + 1 = n - 1
  OBVIOUS
<1>3. (IF 1 <= n - 1 THEN (n - 1) - 1 + 1 ELSE 0) = n - 1
  BY <1>2
<1>4. n # 1 => n - 1 \in 1..n
  OBVIOUS
<1> QED BY <1>1, <1>2, <1>3, <1>4

(* All but the last element of a sequence.                                 *)
LEMMA FrontIs ==
  ASSUME NEW S, NEW s \in Seq(S), s # <<>>
  PROVE  /\ Front(s) \in Seq(S) /\ Len(Front(s)) = Len(s) - 1
         /\ \A i \in 1..(Len(s) - 1) : Front(s)[i] = s[i]
<1>1. /\ Len(s) \in Nat \ {0} /\ 1 \in Int /\ Len(s) - 1 \in Int
      /\ \A i \in 1..(Len(s) - 1) : s[i] \in S
  OBVIOUS
<1>2. /\ Front(s) \in Seq(S)
      /\ Len(Front(s)) = IF 1 <= Len(s) - 1 THEN Len(s) - 1 - 1 + 1 ELSE 0
      /\ \A i \in 1..(Len(s) - 1 - 1 + 1) : Front(s)[i] = s[1 + i - 1]
  BY <1>1, SubSeqProperties DEF Front
<1> DEFINE t == Front(s)
           n == Len(s)
<1> HIDE DEF t, n
<1>3. n \in Nat /\ n # 0
  BY <1>1 DEF n
<1>4. n - 1 - 1 + 1 = n - 1 /\ \A i \in 1..(n - 1) : 1 + i - 1 = i
  BY <1>3
<1>5. Len(t) = n - 1
  BY <1>2, <1>3, LastButOne DEF t, n
<1>6. \A i \in 1..(n - 1) : t[i] = s[i]
  BY <1>2, <1>4 DEF t, n
<1> QED BY <1>2, <1>5, <1>6 DEF t, n

(* A stack keeps DepthInv when its last frame moves on in its file.        *)
LEMMA DepthMoved ==
  ASSUME DepthInv, NEW f, stack' = Append(Front(stack), f),
         DOMAIN f = Fields, f.depth = Top.depth
  PROVE  DepthInv'
<1> DEFINE n == Len(stack)
<1>1. /\ stack \in Seq(Range(stack)) /\ n \in Nat \ {0} /\ n <= DepthLimit
      /\ Top.depth = n - 1
  BY DEF DepthInv, Top, Last
<1>2. /\ Front(stack) \in Seq(Range(stack)) /\ Len(Front(stack)) = n - 1
      /\ \A i \in 1..(n - 1) : Front(stack)[i] = stack[i]
  BY <1>1, FrontIs DEF DepthInv
<1>3. /\ stack' \in Seq(Range(stack')) /\ Len(stack') = n
      /\ \A i \in 1..(n - 1) : stack'[i] = stack[i]
      /\ stack'[n] = f
  <2>1. stack' \in Seq(Range(stack'))
    BY <1>2, RangeAppend
  <2> QED BY <2>1, <1>1, <1>2
<1>4. \A i \in 1..Len(stack') : DOMAIN stack'[i] = Fields /\ stack'[i].depth = i - 1
  <2>1. \A i \in 1..(n - 1) : DOMAIN stack[i] = Fields /\ stack[i].depth = i - 1
    BY <1>1 DEF DepthInv
  <2>2. \A i \in 1..n : i = n \/ i \in 1..(n - 1)
    BY <1>1
  <2> QED BY <2>1, <2>2, <1>1, <1>3
<1> QED BY <1>1, <1>3, <1>4 DEF DepthInv

(* The main file's Preprocessor has depth 0.                               *)
LEMMA DepthInit == Init => DepthInv
<1> SUFFICES ASSUME Init PROVE DepthInv
  OBVIOUS
<1>1. stack = <<Preprocess(Main, 0)>>
  BY DEF Init
<1>2. Range(stack) = {Preprocess(Main, 0)} /\ Len(stack) = 1 /\ stack[1] = Preprocess(Main, 0)
  BY <1>1 DEF Range
<1>3. DOMAIN Preprocess(Main, 0) = Fields /\ Preprocess(Main, 0).depth = 0
  BY DEF Preprocess, Fields
<1>4. stack \in Seq(Range(stack)) /\ stack # <<>>
  BY <1>1, <1>2
<1> QED BY <1>2, <1>3, <1>4, InclusionAssumption DEF DepthInv

(* A file is opened one deeper than the file that includes it, if that is  *)
(* less than the limit.                                                    *)
LEMMA DepthInclude == ASSUME DepthInv, Include PROVE DepthInv'
<1> DEFINE f == Preprocess(resolved(Line), include_depth(Top.depth))
<1>1. /\ status' = "run" => stack' = Append(stack, f) /\ ~(include_depth(Top.depth) >= DepthLimit)
      /\ status' # "run" => stack' = stack
  BY DEF Include
<1>2. /\ stack \in Seq(Range(stack)) /\ Len(stack) \in Nat \ {0} /\ Len(stack) <= DepthLimit
      /\ include_depth(Top.depth) = Len(stack)
  BY DEF DepthInv, Top, Last, include_depth
<1>3. DOMAIN f = Fields /\ f.depth = Len(stack)
  BY <1>2 DEF Preprocess, Fields
<1>4. CASE status' = "run"
  <2> HIDE DEF f
  <2>1. stack' \in Seq(Range(stack'))
    BY <1>1, <1>2, <1>4, RangeAppend
  <2>2. /\ Len(stack') = Len(stack) + 1
        /\ \A i \in 1..Len(stack) : stack'[i] = stack[i]
        /\ stack'[Len(stack) + 1] = f
    BY <1>1, <1>2, <1>4
  <2>3. \A i \in 1..Len(stack) : DOMAIN stack[i] = Fields /\ stack[i].depth = i - 1
    BY DEF DepthInv
  <2>4. \A i \in 1..(Len(stack) + 1) : i = Len(stack) + 1 \/ i \in 1..Len(stack)
    BY <1>2
  <2>5. \A i \in 1..Len(stack') : DOMAIN stack'[i] = Fields /\ stack'[i].depth = i - 1
    BY <1>2, <1>3, <2>2, <2>3, <2>4
  <2>6. Len(stack') <= DepthLimit
    BY <1>1, <1>2, <1>4, <2>2, InclusionAssumption
  <2>7. stack' # <<>>
    BY <1>2, <2>2
  <2> QED BY <2>1, <2>5, <2>6, <2>7 DEF DepthInv
<1>5. CASE status' # "run"
  BY <1>1, <1>5 DEF DepthInv
<1> QED BY <1>4, <1>5

(* At the end of a file the file that included it goes on.                 *)
LEMMA DepthEnd == ASSUME DepthInv, EndOfFile PROVE DepthInv'
<1> DEFINE n == Len(stack)
           s == Front(Front(stack))
           f == [Advanced(stack[n - 1], stack[n - 1].pos + 1) EXCEPT
                   !.text = insert_pp_tokens(@, stack[n - 1].pos, Top.text)]
<1>1. stack \in Seq(Range(stack)) /\ n \in Nat \ {0} /\ n <= DepthLimit
  BY DEF DepthInv
<1>2. CASE n = 1
  BY <1>2 DEF EndOfFile, DepthInv
<1>3. CASE n # 1
  <2>1. stack' = Append(s, f)
    BY <1>3 DEF EndOfFile
  <2>2. /\ s \in Seq(Range(stack)) /\ Len(s) = n - 2
        /\ \A i \in 1..(n - 2) : s[i] = stack[i]
    <3> DEFINE r == Front(stack)
    <3>1. /\ r \in Seq(Range(stack)) /\ Len(r) = n - 1
          /\ \A i \in 1..(n - 1) : r[i] = stack[i]
      BY <1>1, FrontIs DEF DepthInv
    <3> HIDE DEF r
    <3>2. r # <<>>
      BY <1>1, <1>3, <3>1
    <3>3. /\ Front(r) \in Seq(Range(stack)) /\ Len(Front(r)) = Len(r) - 1
          /\ \A i \in 1..(Len(r) - 1) : Front(r)[i] = r[i]
      BY <3>1, <3>2, FrontIs
    <3> QED BY <1>1, <1>3, <3>1, <3>3 DEF r
  <2>3. DOMAIN stack[n - 1] = Fields /\ stack[n - 1].depth = n - 2
    <3> HIDE DEF s, f
    <3>1. n - 1 \in 1..n /\ (n - 1) - 1 = n - 2
      BY <1>1, <1>3, LastButOne
    <3> QED BY <3>1 DEF DepthInv
  <2>4. DOMAIN f = Fields /\ f.depth = n - 2
    BY <2>3 DEF Advanced, Fields
  <2> HIDE DEF s, f
  <2>5. /\ stack' \in Seq(Range(stack')) /\ Len(stack') = n - 1
        /\ \A i \in 1..(n - 2) : stack'[i] = stack[i]
        /\ stack'[n - 1] = f
    <3>1. stack' \in Seq(Range(stack'))
      BY <2>1, <2>2, RangeAppend
    <3> QED BY <3>1, <2>1, <2>2, <1>1, <1>3
  <2>6. \A i \in 1..(n - 2) : DOMAIN stack[i] = Fields /\ stack[i].depth = i - 1
    BY <1>1 DEF DepthInv
  <2>7. \A i \in 1..(n - 1) : i = n - 1 \/ i \in 1..(n - 2)
    BY <1>1, <1>3
  <2>8. \A i \in 1..Len(stack') : DOMAIN stack'[i] = Fields /\ stack'[i].depth = i - 1
    BY <2>4, <2>5, <2>6, <2>7, <1>1
  <2>9. Len(stack') <= DepthLimit /\ stack' # <<>>
    BY <2>5, <1>1, <1>3, InclusionAssumption
  <2> QED BY <2>5, <2>8, <2>9 DEF DepthInv
<1> QED BY <1>2, <1>3

(* The other lines move the innermost file on, and so does no step.        *)
LEMMA DepthNext == DepthInv /\ [Next]_vars => DepthInv'
<1> SUFFICES ASSUME DepthInv, [Next]_vars PROVE DepthInv'
  OBVIOUS
<1>1. DOMAIN Top = Fields
  BY DEF DepthInv, Top, Last
<1>2. CASE TextLine
  <2> DEFINE f == [Advanced(Top, Top.pos + 1) EXCEPT !.text = Append(@, <<Top.pos>>)]
  <2>1. stack' = Append(Front(stack), f)
    BY <1>2 DEF TextLine
  <2>2. DOMAIN f = Fields /\ f.depth = Top.depth
    BY <1>1 DEF Advanced, Fields
  <2> HIDE DEF f
  <2> QED BY <2>1, <2>2, DepthMoved
<1>3. ASSUME NEW p, Go(p) PROVE DepthInv'
  <2>1. DOMAIN Advanced(Top, p) = Fields /\ Advanced(Top, p).depth = Top.depth
    BY <1>1 DEF Advanced, Fields
  <2> QED BY <1>3, <2>1, DepthMoved DEF Go
<1>4. CASE Define \/ Ifndef \/ Endif
  BY <1>3, <1>4 DEF Define, Ifndef, Endif
<1>5. CASE Include
  BY <1>5, DepthInclude
<1>6. CASE EndOfFile
  BY <1>6, DepthEnd
<1>7. CASE UNCHANGED vars
  BY <1>7 DEF vars, DepthInv
<1> QED BY <1>2, <1>4, <1>5, <1>6, <1>7 DEF Next

(* However the files include each other, in circles too, the preprocessor  *)
(* never has more than DepthLimit of them open.                            *)
THEOREM InclusionDepthBounded == Spec => []DepthBounded
<1>1. DepthInv => DepthBounded
  BY DEF DepthInv, DepthBounded
<1> QED BY DepthInit, DepthNext, <1>1, PTL DEF Spec
----------------------------------------------------------------------------
(* The proof of TextInPlace: of what the inclusions ask for, each file in  *)
(* progress has in its array the lines up to the place it is at.           *)
(*                                                                         *)
(* In what follows F are the files, S the stack of Preprocessors, O the    *)
(* history of the files opened and M the macros.                           *)
(*                                                                         *)
(* A trail leads to the file of frame d if it goes by the lines at which   *)
(* the frames below are, and along it if it begins with these.             *)
At(S, a, d) == Len(a) = d - 1 /\ \A j \in 1..(d - 1) : a[j] = S[j].pos
Along(S, a, d) == d <= Len(a) /\ \A j \in 1..(d - 1) : a[j] = S[j].pos

(* What is left of a trail from frame d on.                                *)
Rest(a, d) == [j \in 1..(Len(a) - d + 1) |-> a[j + d - 1]]

(* FirstTime, and the lines that Asked is made of.                         *)
First(O, k) == \A j \in 1..(k - 1) : O[j].file # O[k].file
IsGuarded(F, f, j) ==
  \E i \in 1..j :
    /\ i + 1 < j /\ F[f][i].kind = "ifndef"
    /\ F[f][i + 1].kind = "define" /\ F[f][i + 1].name = F[f][i].name
    /\ \A k \in i..j : F[f][k].kind # "endif"
Wants(F, O, k, i) ==
  /\ i \in DOMAIN F[O[k].file] /\ F[O[k].file][i].kind = "text"
  /\ IsGuarded(F, O[k].file, i) => First(O, k)
Asks(F, O, a) == \E k \in DOMAIN O, i \in Nat : Wants(F, O, k, i) /\ a = Append(O[k].at, i)

(* Frames are at a line of their files or behind the last one, and those   *)
(* below the innermost at an #include.                                     *)
Frames(F, S) ==
  /\ Len(S) \in Nat \ {0} /\ DOMAIN S = 1..Len(S)
  /\ \A d \in 1..Len(S) :
       /\ S[d].file \in DOMAIN F /\ S[d].pos \in 1..(Len(F[S[d].file]) + 1)
       /\ S[d].text \in Seq(Seq(Nat))
       /\ \A t \in Range(S[d].text) : t # <<>> /\ t[1] < S[d].pos
       /\ d < Len(S) => S[d].pos <= Len(F[S[d].file]) /\ F[S[d].file][S[d].pos].kind = "include"

History(F, O) ==
  /\ Len(O) \in Nat /\ DOMAIN O = 1..Len(O)
  /\ \A k \in 1..Len(O) : O[k].file \in DOMAIN F /\ O[k].at \in Seq(Nat)

(* Each inclusion has a trail of its own, each frame is one of them, and   *)
(* none was made behind the place where a frame is.                        *)
Chain(S, O) ==
  /\ \A k, l \in 1..Len(O) : O[k].at = O[l].at => k = l
  /\ \A d \in 1..Len(S) : \E k \in 1..Len(O) : At(S, O[k].at, d) /\ O[k].file = S[d].file
  /\ \A k \in 1..Len(O), d \in 1..Len(S) : Along(S, O[k].at, d) =>
       O[k].at[d] <= S[d].pos /\ (d = Len(S) => O[k].at[d] < S[d].pos)

(* A section is entered in the first inclusion of a file only.             *)
InSection(F, f, p, i) ==
  /\ i \in 1..(p - 1) /\ F[f][i].kind = "ifndef"
  /\ \A j \in i..(p - 1) : F[f][j].kind # "endif"
Sections(F, S, O) ==
  \A d \in 1..Len(S), k \in 1..Len(O) : At(S, O[k].at, d) =>
    \A i \in 1..(S[d].pos - 1) : InSection(F, S[d].file, S[d].pos, i) => First(O, k)

(* The macro of a guard is defined from when the first inclusion of its    *)
(* file has passed the line that defines it.                               *)
IsGuard(F, f, i) == f \in DOMAIN F /\ i \in DOMAIN F[f] /\ F[f][i].kind = "ifndef"
Past(S, a, i) == \A d \in 1..Len(S) : At(S, a, d) => S[d].pos > i + 1
Defined(F, S, O, M) ==
  \A f, i : IsGuard(F, f, i) =>
    (F[f][i].name \in M <=>
       \E k \in 1..Len(O) : O[k].file = f /\ First(O, k) /\ Past(S, O[k].at, i))

(* A frame has in its array, in order, the text asked for at and below the *)
(* lines it has passed.                                                    *)
Reached(F, O, S, a, d) == Asks(F, O, a) /\ Along(S, a, d) /\ a[d] < S[d].pos
Texts(F, S, O) ==
  \A d \in 1..Len(S) :
    /\ \A a : Reached(F, O, S, a, d) => Rest(a, d) \in Range(S[d].text)
    /\ \A t \in Range(S[d].text) : \E a : Reached(F, O, S, a, d) /\ t = Rest(a, d)
InOrder(text) == \A i \in 1..(Len(text) - 1) : Before(text[i], text[i + 1])
Ordered(S) == \A d \in 1..Len(S) : InOrder(S[d].text)

Whole(F, S, O, M) ==
  /\ Frames(F, S) /\ History(F, O) /\ Chain(S, O) /\ Sections(F, S, O)
  /\ Defined(F, S, O, M) /\ Texts(F, S, O) /\ Ordered(S)

(* The inductive invariant, together with DepthInv and DepsInv, which say  *)
(* that the stack and the history are sequences.                           *)
TextInv ==
  /\ input \in Inputs
  /\ Whole(input.files, stack, opened, macros)
  /\ status = "done" => Len(stack) = 1 /\ stack[1].pos > Len(input.files[stack[1].file])

(* The files are sequences of lines, with guards for sections.             *)
Files(F) ==
  /\ \A f \in DOMAIN F : Len(F[f]) \in Nat /\ DOMAIN F[f] = 1..Len(F[f])
  /\ GuardsOnly(F)
----------------------------------------------------------------------------
(* What a section says of the lines around it.                             *)
LEMMA GuardIs ==
  ASSUME NEW F, Files(F), NEW f, NEW i, IsGuard(F, f, i)
  PROVE  /\ i \in 1..Len(F[f]) /\ i \in Nat /\ Len(F[f]) \in Nat
         /\ i + 2 <= Len(F[f])
         /\ F[f][i + 1].kind = "define" /\ F[f][i + 1].name = F[f][i].name
         /\ \E e \in (i + 2)..Len(F[f]) : Section(F[f], i, e)
         /\ \A j \in 1..(i + 1) : F[f][j].kind # "include"
         /\ \A g \in DOMAIN F : \A j \in DOMAIN F[g] :
              F[g][j].kind = "define" /\ F[g][j].name = F[f][i].name => g = f /\ j = i + 1
<1>1. f \in DOMAIN F /\ Len(F[f]) \in Nat /\ i \in 1..Len(F[f]) /\ F[f][i].kind = "ifndef"
  BY DEF Files, IsGuard
<1>2. PICK e \in (i + 2)..Len(F[f]) : Section(F[f], i, e)
  BY <1>1 DEF Files, GuardsOnly
<1>3. F[f][i + 1].kind = "define" /\ F[f][i + 1].name = F[f][i].name
  BY <1>2 DEF Section
<1>4. \A j \in 1..(i - 1) : F[f][j].kind # "include"
  BY <1>1 DEF Files, GuardsOnly
<1>5. \A j \in 1..(i + 1) : F[f][j].kind # "include"
  <2> TAKE j \in 1..(i + 1)
  <2>1. j \in 1..(i - 1) \/ j = i \/ j = i + 1
    BY <1>1
  <2> QED  BY <2>1, <1>1, <1>3, <1>4
<1>6. \A g \in DOMAIN F : \A j \in DOMAIN F[g] :
         F[g][j].kind = "define" /\ F[g][j].name = F[f][i].name => g = f /\ j = i + 1
  BY <1>1 DEF Files, GuardsOnly
<1>7. i + 2 <= Len(F[f])
  BY <1>1, <1>2
<1> QED  BY <1>1, <1>2, <1>3, <1>5, <1>6, <1>7

(* Two trails that lead to the same frame are the same.                    *)
LEMMA SameAt ==
  ASSUME NEW S, NEW d \in Nat, NEW a \in Seq(Nat), NEW b \in Seq(Nat), At(S, a, d), At(S, b, d)
  PROVE  a = b
<1>1. Len(a) = Len(b) /\ \A j \in 1..Len(a) : a[j] = b[j]
  BY DEF At
<1> QED  BY <1>1, SeqEqual

(* A trail with one more line leads along frame d as the trail does, or    *)
(* the trail leads to the frame and the line is in it.                     *)
LEMMA AlongAppend ==
  ASSUME NEW S, NEW d \in Nat \ {0}, NEW b \in Seq(Nat), NEW i \in Nat,
         Along(S, Append(b, i), d)
  PROVE  \/ Along(S, b, d)
         \/ At(S, b, d) /\ Append(b, i)[d] = i /\ Len(Append(b, i)) = d
<1> DEFINE a == Append(b, i)
<1>1. /\ a \in Seq(Nat) /\ Len(a) = Len(b) + 1 /\ \A j \in 1..Len(b) : a[j] = b[j]
      /\ a[Len(b) + 1] = i /\ Len(b) \in Nat
  OBVIOUS
<1>2. d <= Len(b) + 1 /\ \A j \in 1..(d - 1) : a[j] = S[j].pos
  BY <1>1 DEF Along
<1>3. \A j \in 1..(d - 1) : b[j] = S[j].pos
  BY <1>1, <1>2
<1>4. CASE d <= Len(b)
  BY <1>1, <1>3, <1>4 DEF Along
<1>5. CASE d = Len(b) + 1
  <2>1. At(S, b, d)
    BY <1>1, <1>3, <1>5 DEF At
  <2> QED  BY <1>1, <1>5, <2>1
<1> QED  BY <1>1, <1>2, <1>4, <1>5

(* A line asked for in the file that frame d is in.                        *)
LEMMA AtAppend ==
  ASSUME NEW S, NEW d \in Nat \ {0}, NEW b \in Seq(Nat), NEW i \in Nat, At(S, b, d)
  PROVE  /\ Along(S, Append(b, i), d) /\ Append(b, i)[d] = i
         /\ Len(Append(b, i)) = d
<1> DEFINE a == Append(b, i)
<1>1. /\ Len(a) = Len(b) + 1 /\ (\A j \in 1..Len(b) : a[j] = b[j])
      /\ a[Len(b) + 1] = i /\ Len(b) \in Nat
  OBVIOUS
<1>2. Len(b) = d - 1 /\ \A j \in 1..(d - 1) : b[j] = S[j].pos
  BY DEF At
<1> HIDE DEF a
<1>3. Along(S, a, d) /\ a[d] = i
  BY <1>1, <1>2 DEF Along
<1>4. Len(a) = d
  BY <1>1, <1>2
<1> QED  BY <1>3, <1>4 DEF a

(* What is left of a trail from its last line on is that line.             *)
LEMMA RestLast ==
  ASSUME NEW a \in Seq(Nat), NEW d \in Nat \ {0}, Len(a) = d
  PROVE  Rest(a, d) = <<a[d]>>
<1>1. Len(a) - d + 1 = 1 /\ \A j \in 1..1 : j + d - 1 = d
  OBVIOUS
<1>2. Rest(a, d) = [j \in 1..1 |-> a[d]]
  BY <1>1 DEF Rest
<1>3. <<a[d]>> = [j \in 1..1 |-> a[d]]
  OBVIOUS
<1> QED  BY <1>2, <1>3

(* What is asked for is a trail of one line or more.                       *)
LEMMA AsksType ==
  ASSUME NEW F, Files(F), NEW O, History(F, O), NEW a, Asks(F, O, a)
  PROVE  \E k \in 1..Len(O), i \in Nat :
           /\ a = Append(O[k].at, i) /\ O[k].at \in Seq(Nat) /\ Wants(F, O, k, i)
           /\ i \in 1..Len(F[O[k].file]) /\ a \in Seq(Nat) /\ Len(a) \in Nat /\ Len(a) = Len(O[k].at) + 1
<1>1. PICK k \in DOMAIN O, i \in Nat : Wants(F, O, k, i) /\ a = Append(O[k].at, i)
  BY DEF Asks
<1>2. k \in 1..Len(O) /\ O[k].at \in Seq(Nat) /\ O[k].file \in DOMAIN F
  BY DEF History
<1>3. i \in 1..Len(F[O[k].file])
  BY <1>1, <1>2 DEF Wants, Files
<1>4. a \in Seq(Nat) /\ Len(a) = Len(O[k].at) + 1 /\ Len(a) \in Nat
  BY <1>1, <1>2
<1> QED  BY <1>1, <1>2, <1>3, <1>4

(* What is asked for along frame d is asked for by an inclusion below the  *)
(* frame's file, or is a line of that file.                                *)
LEMMA AskedAlong ==
  ASSUME NEW F, Files(F), NEW S, NEW O, History(F, O), NEW a, Asks(F, O, a),
         NEW d \in Nat \ {0}, Along(S, a, d)
  PROVE  \E k \in 1..Len(O), i \in Nat :
           /\ Wants(F, O, k, i) /\ a \in Seq(Nat)
           /\ \/ Along(S, O[k].at, d) /\ a[d] = O[k].at[d]
              \/ At(S, O[k].at, d) /\ a[d] = i /\ Len(a) = d
<1>1. PICK k \in 1..Len(O), i \in Nat :
        a = Append(O[k].at, i) /\ O[k].at \in Seq(Nat) /\ Wants(F, O, k, i) /\ a \in Seq(Nat)
  BY AsksType
<1> DEFINE b == O[k].at
<1>2. b \in Seq(Nat) /\ a = Append(b, i) /\ Wants(F, O, k, i) /\ a \in Seq(Nat)
  BY <1>1
<1> SUFFICES \/ Along(S, b, d) /\ a[d] = b[d]
             \/ At(S, b, d) /\ a[d] = i /\ Len(a) = d
  BY <1>2
<1> HIDE DEF b
<1>3. Along(S, b, d) \/ (At(S, b, d) /\ a[d] = i /\ Len(a) = d)
  BY <1>2, AlongAppend
<1>4. Along(S, b, d) => a[d] = b[d]
  BY <1>2 DEF Along
<1> QED  BY <1>3, <1>4

(* The inclusion of a frame: there is one, and its file is the frame's.    *)
LEMMA FrameOpened ==
  ASSUME NEW F, NEW S, NEW O, Frames(F, S), History(F, O), Chain(S, O), NEW d \in 1..Len(S)
  PROVE  /\ \E k \in 1..Len(O) : At(S, O[k].at, d)
         /\ \A k, l \in 1..Len(O) : At(S, O[k].at, d) /\ At(S, O[l].at, d) => k = l
         /\ \A k \in 1..Len(O) : At(S, O[k].at, d) => O[k].file = S[d].file
<1>1. d \in Nat
  BY DEF Frames
<1>2. PICK m \in 1..Len(O) : At(S, O[m].at, d) /\ O[m].file = S[d].file
  BY DEF Chain
<1>3. \A k, l \in 1..Len(O) : At(S, O[k].at, d) /\ At(S, O[l].at, d) => k = l
  <2> SUFFICES ASSUME NEW k \in 1..Len(O), NEW l \in 1..Len(O), At(S, O[k].at, d), At(S, O[l].at, d)
               PROVE  k = l
    OBVIOUS
  <2>1. O[k].at = O[l].at
    BY <1>1, SameAt DEF History
  <2> QED  BY <2>1 DEF Chain
<1> QED  BY <1>2, <1>3

(* A file that was opened was opened a first time, and only one time is    *)
(* the first.                                                              *)
LEMMA FirstIs ==
  ASSUME NEW F, NEW O, History(F, O), NEW k \in 1..Len(O)
  PROVE  /\ \E l \in 1..Len(O) : O[l].file = O[k].file /\ First(O, l)
         /\ \A l, m \in 1..Len(O) : O[l].file = O[m].file /\ First(O, l) /\ First(O, m) => l = m
<1>1. Len(O) \in Nat
  BY DEF History
<1> DEFINE T == {j \in 1..Len(O) : O[j].file = O[k].file}
<1>2. T \subseteq Nat /\ T # {}
  BY <1>1
<1>3. PICK l \in T : \A j \in T : l <= j
  BY <1>2, FirstExists
<1>4. First(O, l)
  <2> SUFFICES ASSUME NEW j \in 1..(l - 1), O[j].file = O[l].file  PROVE FALSE
    BY DEF First
  <2>1. j \in T
    BY <1>1
  <2> QED  BY <2>1, <1>1, <1>3
<1>5. \A m, n \in 1..Len(O) : O[m].file = O[n].file /\ First(O, m) /\ First(O, n) => m = n
  <2> SUFFICES ASSUME NEW m \in 1..Len(O), NEW n \in 1..Len(O), O[m].file = O[n].file,
                      First(O, m), First(O, n), m # n
               PROVE  FALSE
    OBVIOUS
  <2>1. m \in 1..(n - 1) \/ n \in 1..(m - 1)
    BY <1>1
  <2> QED  BY <2>1 DEF First
<1> QED  BY <1>3, <1>4, <1>5
----------------------------------------------------------------------------
(* A frame below the innermost is another one.                             *)
LEMMA Under ==
  ASSUME NEW n \in Nat, NEW d \in 1..(n - 1)
  PROVE  d # n /\ d < n /\ d \in 1..n
OBVIOUS

(* The innermost frame moves on to line p, with another text.              *)
Moved(F, S, T, p, text) ==
  /\ Len(T) = Len(S) /\ DOMAIN T = 1..Len(T)
  /\ \A d \in 1..(Len(S) - 1) : T[d] = S[d]
  /\ T[Len(S)].file = S[Len(S)].file /\ T[Len(S)].pos = p /\ T[Len(S)].text = text
  /\ p \in (S[Len(S)].pos + 1)..(Len(F[S[Len(S)].file]) + 1)

(* What a move must meet.  The sections of the new place are entered in    *)
(* the first inclusion; a guard's macro is defined now if it was before,   *)
(* or if the first inclusion of its file is passing the guard's first      *)
(* lines; and the text added is what is wanted of the lines passed.        *)
SectionsKept(F, S, O, n, p) ==
  \A k \in 1..Len(O), i \in Nat : At(S, O[k].at, n) /\ InSection(F, S[n].file, p, i) => First(O, k)
Crossing(F, S, O, f, i, p) ==
  \E k \in 1..Len(O) :
    /\ O[k].file = f /\ First(O, k) /\ At(S, O[k].at, Len(S))
    /\ S[Len(S)].pos <= i + 1 /\ i + 1 < p
MacrosKept(F, S, O, M, N, p) ==
  \A f, i : IsGuard(F, f, i) => (F[f][i].name \in N <=> F[f][i].name \in M \/ Crossing(F, S, O, f, i, p))
FitText(text, p) ==
  text \in Seq(Seq(Nat)) /\ InOrder(text) /\ \A t \in Range(text) : t # <<>> /\ t[1] < p
TextAdded(F, S, O, n, p, text) ==
  /\ \A t \in Range(S[n].text) : t \in Range(text)
  /\ \A k \in 1..Len(O), i \in Nat :
       At(S, O[k].at, n) /\ S[n].pos <= i /\ i < p /\ Wants(F, O, k, i) => <<i>> \in Range(text)
  /\ \A t \in Range(text) : t \notin Range(S[n].text) =>
       \E k \in 1..Len(O), i \in Nat : At(S, O[k].at, n) /\ i < p /\ Wants(F, O, k, i) /\ t = <<i>>

(* The trails to and along the frames are the same.                        *)
LEMMA MovedAt ==
  ASSUME NEW F, NEW S, NEW T, NEW p, NEW text, Files(F), Frames(F, S), Moved(F, S, T, p, text)
  PROVE  /\ \A a, d : d \in 1..Len(S) => (At(T, a, d) <=> At(S, a, d)) /\ (Along(T, a, d) <=> Along(S, a, d))
         /\ Len(S) \in Nat \ {0} /\ p \in Nat /\ S[Len(S)].pos \in Nat \ {0} /\ S[Len(S)].pos < p
         /\ \A d \in 1..Len(S) : d \in 1..(Len(S) - 1) \/ d = Len(S)
         /\ S[Len(S)].file \in DOMAIN F /\ Len(F[S[Len(S)].file]) \in Nat
<1>1. Len(S) \in Nat \ {0}
  BY DEF Frames
<1>2. Len(S) \in 1..Len(S)
  BY <1>1
<1>3. S[Len(S)].file \in DOMAIN F /\ S[Len(S)].pos \in 1..(Len(F[S[Len(S)].file]) + 1)
  BY <1>2 DEF Frames
<1>4. Len(F[S[Len(S)].file]) \in Nat
  BY <1>3 DEF Files
<1>5. p \in Nat /\ S[Len(S)].pos \in Nat \ {0} /\ S[Len(S)].pos < p
  BY <1>3, <1>4 DEF Moved
<1>6. \A a, d : d \in 1..Len(S) => (At(T, a, d) <=> At(S, a, d)) /\ (Along(T, a, d) <=> Along(S, a, d))
  <2> SUFFICES ASSUME NEW a, NEW d \in 1..Len(S)
               PROVE  (At(T, a, d) <=> At(S, a, d)) /\ (Along(T, a, d) <=> Along(S, a, d))
    OBVIOUS
  <2>1. \A j \in 1..(d - 1) : T[j] = S[j]
    BY <1>1 DEF Moved
  <2> QED  BY <2>1 DEF At, Along
<1> QED  BY <1>1, <1>3, <1>4, <1>5, <1>6

LEMMA MovedFrames ==
  ASSUME NEW F, NEW S, NEW T, NEW p, NEW text, Files(F), Frames(F, S), Moved(F, S, T, p, text),
         FitText(text, p)
  PROVE  Frames(F, T)
<1>1. /\ Len(S) \in Nat \ {0} /\ p \in Nat \ {0}
      /\ \A d \in 1..Len(S) : d \in 1..(Len(S) - 1) \/ d = Len(S)
      /\ S[Len(S)].file \in DOMAIN F /\ Len(F[S[Len(S)].file]) \in Nat
  BY MovedAt
<1>2. Len(T) = Len(S) /\ DOMAIN T = 1..Len(T)
  BY DEF Moved
<1>3. ASSUME NEW d \in 1..Len(S)
      PROVE  /\ T[d].file \in DOMAIN F /\ T[d].pos \in 1..(Len(F[T[d].file]) + 1)
             /\ T[d].text \in Seq(Seq(Nat))
             /\ \A t \in Range(T[d].text) : t # <<>> /\ t[1] < T[d].pos
             /\ d < Len(T) => T[d].pos <= Len(F[T[d].file]) /\ F[T[d].file][T[d].pos].kind = "include"
  <2>1. CASE d \in 1..(Len(S) - 1)
    <3>1. T[d] = S[d]
      BY <2>1 DEF Moved
    <3> QED  BY <3>1, <1>2 DEF Frames
  <2>2. CASE d = Len(S)
    <3>1. T[d].file = S[Len(S)].file /\ T[d].pos = p /\ T[d].text = text
          /\ p \in (S[Len(S)].pos + 1)..(Len(F[S[Len(S)].file]) + 1)
      BY <2>2 DEF Moved
    <3>2. p \in 1..(Len(F[S[Len(S)].file]) + 1)
      BY <3>1, <1>1
    <3>3. ~(d < Len(T))
      <4>1. Len(S) \in Nat
        BY <1>1
      <4> QED  BY <4>1, <1>2, <2>2
    <3> QED  BY <3>1, <3>2, <3>3, <1>1 DEF FitText
  <2> QED  BY <1>1, <2>1, <2>2
<1> QED  BY <1>1, <1>2, <1>3 DEF Frames

LEMMA MovedChain ==
  ASSUME NEW F, NEW S, NEW T, NEW O, NEW p, NEW text, Files(F), Frames(F, S), History(F, O),
         Chain(S, O), Moved(F, S, T, p, text)
  PROVE  Chain(T, O)
<1>1. /\ \A a, d : d \in 1..Len(S) => (At(T, a, d) <=> At(S, a, d)) /\ (Along(T, a, d) <=> Along(S, a, d))
      /\ Len(S) \in Nat \ {0} /\ p \in Nat /\ S[Len(S)].pos \in Nat \ {0} /\ S[Len(S)].pos < p
      /\ \A d \in 1..Len(S) : d \in 1..(Len(S) - 1) \/ d = Len(S)
  BY MovedAt
<1>2. Len(T) = Len(S) /\ T[Len(S)].file = S[Len(S)].file /\ T[Len(S)].pos = p
  BY DEF Moved
<1>3. \A d \in 1..Len(S) : T[d].file = S[d].file
  BY <1>1, <1>2 DEF Moved
<1>4. \A d \in 1..Len(S) : \E k \in 1..Len(O) : At(T, O[k].at, d) /\ O[k].file = T[d].file
  BY <1>1, <1>3 DEF Chain
<1>5. ASSUME NEW k \in 1..Len(O), NEW d \in 1..Len(S), Along(T, O[k].at, d)
      PROVE  O[k].at[d] <= T[d].pos /\ (d = Len(S) => O[k].at[d] < T[d].pos)
  <2>1. Along(S, O[k].at, d)
    BY <1>1, <1>5
  <2>2. O[k].at[d] <= S[d].pos /\ (d = Len(S) => O[k].at[d] < S[d].pos)
    BY <2>1 DEF Chain
  <2>3. O[k].at \in Seq(Nat) /\ d <= Len(O[k].at) /\ d \in Nat \ {0}
    BY <2>1, <1>1 DEF History, Along
  <2>4. O[k].at[d] \in Nat
    BY <2>3
  <2>5. CASE d \in 1..(Len(S) - 1)
    <3>1. T[d] = S[d] /\ d # Len(S)
      <4>1. Len(S) \in Nat
        BY <1>1
      <4>2. d # Len(S)
        BY <4>1, <2>5, Under
      <4> QED  BY <4>2, <2>5 DEF Moved
    <3> QED  BY <3>1, <2>2
  <2>6. CASE d = Len(S)
    BY <2>6, <2>2, <2>4, <1>1, <1>2
  <2> QED  BY <1>1, <2>5, <2>6
<1> QED  BY <1>2, <1>4, <1>5 DEF Chain

(* The sections of the new place are entered in the first inclusion.       *)
LEMMA MovedSections ==
  ASSUME NEW F, NEW S, NEW T, NEW O, NEW p, NEW text, Files(F), Frames(F, S), Sections(F, S, O),
         Moved(F, S, T, p, text), SectionsKept(F, S, O, Len(S), p)
  PROVE  Sections(F, T, O)
<1>1. /\ \A a, d : d \in 1..Len(S) => (At(T, a, d) <=> At(S, a, d))
      /\ Len(S) \in Nat \ {0} /\ p \in Nat
      /\ \A d \in 1..Len(S) : d \in 1..(Len(S) - 1) \/ d = Len(S)
  BY MovedAt
<1>2. Len(T) = Len(S) /\ T[Len(S)].file = S[Len(S)].file /\ T[Len(S)].pos = p
  BY DEF Moved
<1>3. ASSUME NEW d \in 1..Len(S), NEW k \in 1..Len(O), At(T, O[k].at, d),
             NEW i \in 1..(T[d].pos - 1), InSection(F, T[d].file, T[d].pos, i)
      PROVE  First(O, k)
  <2>1. At(S, O[k].at, d)
    BY <1>1, <1>3
  <2>2. CASE d \in 1..(Len(S) - 1)
    <3>1. T[d] = S[d]
      BY <2>2 DEF Moved
    <3> QED  BY <3>1, <2>1, <1>3 DEF Sections
  <2>3. CASE d = Len(S)
    BY <2>1, <2>3, <1>1, <1>2, <1>3 DEF SectionsKept
  <2> QED  BY <1>1, <2>2, <2>3
<1> QED  BY <1>2, <1>3 DEF Sections

(* The macros of guards are defined where they should be.                  *)
LEMMA MovedDefined ==
  ASSUME NEW F, NEW S, NEW T, NEW O, NEW M, NEW N, NEW p, NEW text, Files(F), Frames(F, S),
         Defined(F, S, O, M), Moved(F, S, T, p, text), MacrosKept(F, S, O, M, N, p)
  PROVE  Defined(F, T, O, N)
<1>1. /\ \A a, d : d \in 1..Len(S) => (At(T, a, d) <=> At(S, a, d))
      /\ Len(S) \in Nat \ {0} /\ p \in Nat /\ S[Len(S)].pos \in Nat \ {0} /\ S[Len(S)].pos < p
      /\ \A d \in 1..Len(S) : d \in 1..(Len(S) - 1) \/ d = Len(S)
  BY MovedAt
<1>2. Len(T) = Len(S) /\ T[Len(S)].pos = p /\ \A d \in 1..(Len(S) - 1) : T[d] = S[d]
  BY DEF Moved
<1>3. ASSUME NEW f, NEW i, IsGuard(F, f, i)
      PROVE  F[f][i].name \in N <=>
               \E k \in 1..Len(O) : O[k].file = f /\ First(O, k) /\ Past(T, O[k].at, i)
  <2>1. i \in Nat
    BY <1>3, GuardIs
  <2>2. ASSUME NEW k \in 1..Len(O), Past(S, O[k].at, i)  PROVE Past(T, O[k].at, i)
    <3> SUFFICES ASSUME NEW d \in 1..Len(S), At(S, O[k].at, d)  PROVE T[d].pos > i + 1
      BY <1>1, <1>2 DEF Past
    <3>1. S[d].pos > i + 1
      BY <2>2 DEF Past
    <3> QED  BY <3>1, <2>1, <1>1, <1>2
  <2>3. ASSUME NEW k \in 1..Len(O), At(S, O[k].at, Len(S)), i + 1 < p  PROVE Past(T, O[k].at, i)
    <3> SUFFICES ASSUME NEW d \in 1..Len(S), At(S, O[k].at, d)  PROVE T[d].pos > i + 1
      BY <1>1, <1>2 DEF Past
    <3>1. d = Len(S)
      BY <2>3, <1>1 DEF At
    <3> QED  BY <3>1, <2>1, <2>3, <1>1, <1>2
  <2>4. ASSUME NEW k \in 1..Len(O), Past(T, O[k].at, i), ~Past(S, O[k].at, i)
        PROVE  At(S, O[k].at, Len(S)) /\ S[Len(S)].pos <= i + 1 /\ i + 1 < p
    <3>1. PICK d \in 1..Len(S) : At(S, O[k].at, d) /\ ~(S[d].pos > i + 1)
      BY <2>4 DEF Past
    <3>2. T[d].pos > i + 1
      BY <2>4, <3>1, <1>1, <1>2 DEF Past
    <3>3. d = Len(S)
      BY <3>1, <3>2, <1>1, <1>2
    <3> QED  BY <3>1, <3>2, <3>3, <2>1, <1>1, <1>2
  <2>5. F[f][i].name \in M <=> \E k \in 1..Len(O) : O[k].file = f /\ First(O, k) /\ Past(S, O[k].at, i)
    BY <1>3 DEF Defined
  <2>6. F[f][i].name \in N <=> F[f][i].name \in M \/ Crossing(F, S, O, f, i, p)
    BY <1>3 DEF MacrosKept
  <2> QED  BY <2>2, <2>3, <2>4, <2>5, <2>6 DEF Crossing
<1> QED  BY <1>3 DEF Defined

(* The text that the new place adds is what is wanted of the lines passed. *)
LEMMA MovedTexts ==
  ASSUME NEW F, NEW S, NEW T, NEW O, NEW n, n = Len(S), NEW p, NEW text, Files(F), Frames(F, S), History(F, O),
         Chain(S, O), Texts(F, S, O), Moved(F, S, T, p, text), TextAdded(F, S, O, n, p, text)
  PROVE  Texts(F, T, O)
<1>0. n \in Nat \ {0}
  BY MovedAt
<1>1. /\ \A a, d : d \in 1..n => (Along(T, a, d) <=> Along(S, a, d))
      /\ n \in Nat \ {0} /\ p \in Nat /\ S[n].pos \in Nat \ {0} /\ S[n].pos < p
      /\ \A d \in 1..n : d \in 1..(n - 1) \/ d = n
  BY MovedAt
<1>2. Len(T) = n /\ T[n].pos = p /\ T[n].text = text /\ \A d \in 1..(n - 1) : T[d] = S[d]
  BY DEF Moved
<1>3. ASSUME NEW d \in 1..(n - 1)
      PROVE  /\ \A a : Reached(F, O, T, a, d) => Rest(a, d) \in Range(T[d].text)
             /\ \A t \in Range(T[d].text) : \E a : Reached(F, O, T, a, d) /\ t = Rest(a, d)
  <2>1. d \in 1..n /\ T[d] = S[d]
    BY <1>1, <1>2
  <2>2. \A a : Reached(F, O, T, a, d) <=> Reached(F, O, S, a, d)
    BY <2>1, <1>1 DEF Reached
  <2> QED  BY <2>1, <2>2 DEF Texts
<1>4. n \in 1..n 
  BY <1>1
<1>5. ASSUME NEW a, Reached(F, O, T, a, n)  PROVE Rest(a, n) \in Range(text)
  <2>1. Asks(F, O, a) /\ Along(S, a, n) /\ a[n] < p
    BY <1>1, <1>2, <1>4, <1>5 DEF Reached
  <2>2. PICK k \in 1..Len(O), i \in Nat :
          /\ Wants(F, O, k, i) /\ a \in Seq(Nat)
          /\ \/ Along(S, O[k].at, n) /\ a[n] = O[k].at[n]
             \/ At(S, O[k].at, n) /\ a[n] = i /\ Len(a) = n
    BY <2>1, <1>0, AskedAlong
  <2>3. CASE a[n] < S[n].pos
    <3>1. Reached(F, O, S, a, n)
      BY <2>1, <2>3 DEF Reached
    <3>2. Rest(a, n) \in Range(S[n].text)
      BY <3>1, <1>4 DEF Texts
    <3> QED  BY <3>2 DEF TextAdded
  <2>4. CASE ~(a[n] < S[n].pos)
    <3>1. ~(Along(S, O[k].at, n) /\ a[n] = O[k].at[n])
      BY <2>4, <1>4 DEF Chain
    <3>2. At(S, O[k].at, n) /\ a[n] = i /\ Rest(a, n) = <<i>>
      BY <3>1, <2>2, <1>0, RestLast
    <3>3. S[n].pos <= i /\ i < p
      BY <3>2, <2>1, <2>2, <2>4, <1>1
    <3> QED  BY <2>2, <3>2, <3>3 DEF TextAdded
  <2> QED  BY <2>3, <2>4
<1>6. ASSUME NEW t \in Range(text)  PROVE \E a : Reached(F, O, T, a, n) /\ t = Rest(a, n)
  <2>1. CASE t \in Range(S[n].text)
    <3>1. PICK a : Reached(F, O, S, a, n) /\ t = Rest(a, n)
      BY <2>1, <1>4 DEF Texts
    <3>2. Asks(F, O, a) /\ Along(S, a, n) /\ a[n] < S[n].pos
      BY <3>1 DEF Reached
    <3>3. a \in Seq(Nat) /\ n <= Len(a) /\ Len(a) \in Nat
      BY <3>2, AsksType DEF Along
    <3>4. a[n] \in Nat
      BY <3>3, <1>1
    <3>5. a[n] < p
      BY <3>2, <3>4, <1>1
    <3> QED  BY <3>1, <3>2, <3>5, <1>1, <1>2, <1>4 DEF Reached
  <2>2. CASE t \notin Range(S[n].text)
    <3>1. PICK k \in 1..Len(O), i \in Nat : At(S, O[k].at, n) /\ i < p /\ Wants(F, O, k, i) /\ t = <<i>>
      BY <2>2 DEF TextAdded
    <3> DEFINE a == Append(O[k].at, i)
    <3>2. O[k].at \in Seq(Nat) /\ k \in DOMAIN O
      BY DEF History
    <3>3. Along(S, a, n) /\ a[n] = i /\ Rest(a, n) = <<i>>
      <4>1. At(S, O[k].at, n) /\ O[k].at \in Seq(Nat)
        BY <3>1, <3>2
      <4>3. Along(S, Append(O[k].at, i), n) /\ Append(O[k].at, i)[n] = i /\ Len(Append(O[k].at, i)) = n
        <5> DEFINE b == O[k].at
        <5>1. At(S, b, n) /\ b \in Seq(Nat)
          BY <4>1
        <5> HIDE DEF b
        <5>2. Along(S, Append(b, i), n) /\ Append(b, i)[n] = i /\ Len(Append(b, i)) = n
          BY <5>1, <1>0, AtAppend
        <5> QED  BY <5>2 DEF b
      <4>2. a \in Seq(Nat)
        BY <3>2
      <4> HIDE DEF a
      <4> QED  BY <4>2, <4>3, <1>0, RestLast DEF a
    <3>4. Asks(F, O, a)
      BY <3>1, <3>2 DEF Asks
    <3> HIDE DEF a
    <3>5. Reached(F, O, T, a, n)
      BY <3>1, <3>3, <3>4, <1>1, <1>2, <1>4 DEF Reached
    <3> QED  BY <3>1, <3>3, <3>5
  <2> QED  BY <2>1, <2>2
<1>7. \A d \in 1..n :
        /\ \A a : Reached(F, O, T, a, d) => Rest(a, d) \in Range(T[d].text)
        /\ \A t \in Range(T[d].text) : \E a : Reached(F, O, T, a, d) /\ t = Rest(a, d)
  <2> TAKE d \in 1..n
  <2>1. CASE d \in 1..(n - 1)
    BY <2>1, <1>3
  <2>2. CASE d = n
    BY <2>2, <1>2, <1>5, <1>6
  <2> QED  BY <1>1, <2>1, <2>2
<1> QED  BY <1>2, <1>7 DEF Texts

LEMMA MovedOrdered ==
  ASSUME NEW F, NEW S, NEW T, NEW p, NEW text, Files(F), Frames(F, S), Ordered(S),
         Moved(F, S, T, p, text), FitText(text, p)
  PROVE  Ordered(T)
<1>1. \A d \in 1..Len(S) : d \in 1..(Len(S) - 1) \/ d = Len(S)
  BY MovedAt
<1>2. Len(T) = Len(S) /\ T[Len(S)].text = text /\ \A d \in 1..(Len(S) - 1) : T[d] = S[d]
  BY DEF Moved
<1>3. \A d \in 1..Len(S) : InOrder(T[d].text)
  BY <1>1, <1>2 DEF Ordered, FitText
<1> QED  BY <1>2, <1>3 DEF Ordered
----------------------------------------------------------------------------
(* A move that meets the conditions of the lemmas above keeps it all.      *)
LEMMA WholeMoves ==
  ASSUME NEW F, NEW S, NEW T, NEW O, NEW M, NEW N, NEW n, n = Len(S), NEW p, NEW text,
         Files(F), Whole(F, S, O, M), Moved(F, S, T, p, text),
         FitText(text, p), SectionsKept(F, S, O, n, p), MacrosKept(F, S, O, M, N, p),
         TextAdded(F, S, O, n, p, text)
  PROVE  Whole(F, T, O, N)
<1>1. /\ Frames(F, S) /\ History(F, O) /\ Chain(S, O) /\ Sections(F, S, O)
      /\ Defined(F, S, O, M) /\ Texts(F, S, O) /\ Ordered(S)
  BY DEF Whole
<1>2. Frames(F, T)
  BY <1>1, MovedFrames
<1>3. Chain(T, O)
  BY <1>1, MovedChain
<1>4. Sections(F, T, O)
  BY <1>1, MovedSections
<1>5. Defined(F, T, O, N)
  BY <1>1, MovedDefined
<1>6. Texts(F, T, O)
  BY <1>1, MovedTexts
<1>7. Ordered(T)
  BY <1>1, MovedOrdered
<1> QED  BY <1>1, <1>2, <1>3, <1>4, <1>5, <1>6, <1>7 DEF Whole

(* The innermost frame, its line and its inclusion.                        *)
Inner(F, S, O, n) ==
  /\ n = Len(S) /\ n \in Nat \ {0} /\ n \in 1..Len(S)
  /\ S[n].pos \in Nat \ {0} /\ S[n].file \in DOMAIN F
  /\ Len(F[S[n].file]) \in Nat /\ DOMAIN F[S[n].file] = 1..Len(F[S[n].file])
  /\ S[n].pos <= Len(F[S[n].file]) + 1
  /\ \E k \in 1..Len(O) : At(S, O[k].at, n)
  /\ \A k, l \in 1..Len(O) : At(S, O[k].at, n) /\ At(S, O[l].at, n) => k = l
  /\ \A k \in 1..Len(O) : At(S, O[k].at, n) => O[k].file = S[n].file
LEMMA Innermost ==
  ASSUME NEW F, NEW S, NEW O, NEW M, Files(F), Whole(F, S, O, M)
  PROVE  Inner(F, S, O, Len(S))
<1> DEFINE n == Len(S)
<1>1. Frames(F, S) /\ History(F, O) /\ Chain(S, O)
  BY DEF Whole
<1>2. n \in Nat \ {0}
  BY <1>1 DEF Frames
<1>3. n \in 1..n
  BY <1>2
<1>4. S[n].file \in DOMAIN F /\ S[n].pos \in 1..(Len(F[S[n].file]) + 1)
  BY <1>1, <1>3 DEF Frames
<1>5. Len(F[S[n].file]) \in Nat /\ DOMAIN F[S[n].file] = 1..Len(F[S[n].file])
  BY <1>4 DEF Files
<1>6. S[n].pos \in Nat \ {0} /\ S[n].pos <= Len(F[S[n].file]) + 1
  BY <1>4, <1>5
<1>7. /\ \E k \in 1..Len(O) : At(S, O[k].at, n)
      /\ \A k, l \in 1..Len(O) : At(S, O[k].at, n) /\ At(S, O[l].at, n) => k = l
      /\ \A k \in 1..Len(O) : At(S, O[k].at, n) => O[k].file = S[n].file
  BY <1>1, <1>3, FrameOpened
<1> QED  BY <1>2, <1>3, <1>4, <1>5, <1>6, <1>7 DEF Inner

(* Between the first lines of a guard there is nothing to cross but its    *)
(* #define.                                                                *)
LEMMA NoCrossing ==
  ASSUME NEW F, NEW S, NEW O, NEW n, Files(F), Inner(F, S, O, n),
         F[S[n].file][S[n].pos].kind # "define", NEW f, NEW i, IsGuard(F, f, i)
  PROVE  ~Crossing(F, S, O, f, i, S[n].pos + 1)
<1> SUFFICES ASSUME Crossing(F, S, O, f, i, S[n].pos + 1)  PROVE FALSE
  OBVIOUS
<1>1. PICK k \in 1..Len(O) :
        O[k].file = f /\ At(S, O[k].at, n) /\ S[n].pos <= i + 1 /\ i + 1 < S[n].pos + 1
  BY DEF Crossing, Inner
<1>2. f = S[n].file /\ S[n].pos \in Nat
  BY <1>1 DEF Inner
<1>3. F[f][i + 1].kind = "define" /\ i \in Nat
  BY GuardIs
<1>4. i + 1 = S[n].pos
  BY <1>1, <1>2, <1>3
<1> QED  BY <1>2, <1>3, <1>4

(* A section around the line behind line q is the one that begins at line  *)
(* q, or around line q too.                                                *)
LEMMA SectionBefore ==
  ASSUME NEW F, NEW f, NEW q \in Nat, NEW i, InSection(F, f, q + 1, i)
  PROVE  i \in 1..q /\ (i # q => i \in 1..(q - 1) /\ InSection(F, f, q, i))
<1>1. q + 1 - 1 = q
  OBVIOUS
<1>2. i \in 1..q /\ F[f][i].kind = "ifndef" /\ \A j \in i..q : F[f][j].kind # "endif"
  BY <1>1 DEF InSection
<1>3. i # q => i \in 1..(q - 1) /\ \A j \in i..(q - 1) : j \in i..q
  BY <1>2
<1> QED  BY <1>2, <1>3 DEF InSection

(* The innermost frame is in no other sections behind its line than in     *)
(* front of it, but for the one that begins there.                         *)
LEMMA SectionsPassed ==
  ASSUME NEW F, NEW S, NEW O, NEW n, Inner(F, S, O, n), Sections(F, S, O),
         NEW k \in 1..Len(O), At(S, O[k].at, n), NEW i,
         InSection(F, S[n].file, S[n].pos + 1, i),
         i = S[n].pos => First(O, k)
  PROVE  First(O, k)
<1>1. S[n].pos \in Nat /\ n \in 1..Len(S)
  BY DEF Inner
<1>2. i # S[n].pos => i \in 1..(S[n].pos - 1) /\ InSection(F, S[n].file, S[n].pos, i)
  BY <1>1, SectionBefore
<1> QED  BY <1>1, <1>2 DEF Sections

(* The innermost frame is its file's first inclusion.                      *)
FirstEntry(S, O, n) == \A k \in 1..Len(O) : At(S, O[k].at, n) => First(O, k)

(* Going on by one line is into a section only where one begins.           *)
LEMMA SectionsOne ==
  ASSUME NEW F, NEW S, NEW O, NEW n, Inner(F, S, O, n), Sections(F, S, O),
         F[S[n].file][S[n].pos].kind = "ifndef" => FirstEntry(S, O, n)
  PROVE  SectionsKept(F, S, O, n, S[n].pos + 1)
<1> SUFFICES ASSUME NEW k \in 1..Len(O), NEW i \in Nat, At(S, O[k].at, n),
                    InSection(F, S[n].file, S[n].pos + 1, i)
             PROVE  First(O, k)
  BY DEF SectionsKept
<1>1. i = S[n].pos => First(O, k)
  BY DEF InSection, FirstEntry
<1> QED  BY <1>1, SectionsPassed

(* The text of the innermost frame is in place also behind its line.       *)
LEMMA TextFits ==
  ASSUME NEW F, NEW S, NEW O, NEW n, Inner(F, S, O, n), Frames(F, S), Ordered(S),
         NEW p \in Nat, S[n].pos <= p
  PROVE  FitText(S[n].text, p)
<1>1. n \in 1..Len(S) /\ S[n].pos \in Nat
  BY DEF Inner
<1>2. S[n].text \in Seq(Seq(Nat)) /\ InOrder(S[n].text)
  BY <1>1 DEF Frames, Ordered
<1>3. ASSUME NEW t \in Range(S[n].text)  PROVE t # <<>> /\ t[1] < p
  <2>1. t # <<>> /\ t[1] < S[n].pos
    BY <1>1, <1>3 DEF Frames
  <2>2. t \in Seq(Nat)
    BY <1>2, <1>3 DEF Range
  <2>3. t[1] \in Nat
    BY <2>1, <2>2
  <2> QED  BY <2>1, <2>3, <1>1
<1> QED  BY <1>2, <1>3 DEF FitText

(* A line that has no text in it.                                          *)
LEMMA PassLine ==
  ASSUME NEW F, NEW S, NEW T, NEW O, NEW M, NEW N, NEW n, n = Len(S), Files(F), Whole(F, S, O, M),
         Moved(F, S, T, S[n].pos + 1, S[n].text), F[S[n].file][S[n].pos].kind # "text",
         F[S[n].file][S[n].pos].kind = "ifndef" => FirstEntry(S, O, n),
         MacrosKept(F, S, O, M, N, S[n].pos + 1)
  PROVE  Whole(F, T, O, N)
<1>1. Inner(F, S, O, n)
  BY Innermost
<1>2. Frames(F, S) /\ Ordered(S) /\ Sections(F, S, O)
  BY DEF Whole
<1>3. S[n].pos \in Nat /\ S[n].pos + 1 \in Nat /\ S[n].pos <= S[n].pos + 1
  BY <1>1 DEF Inner
<1>4. FitText(S[n].text, S[n].pos + 1)
  BY <1>1, <1>2, <1>3, TextFits
<1>5. SectionsKept(F, S, O, n, S[n].pos + 1)
  BY <1>1, <1>2, SectionsOne
<1>6. ASSUME NEW k \in 1..Len(O), NEW i \in Nat, At(S, O[k].at, n), S[n].pos <= i, i < S[n].pos + 1
      PROVE  ~Wants(F, O, k, i)
  <2>1. i = S[n].pos
    BY <1>3, <1>6
  <2> QED  BY <2>1, <1>1, <1>6 DEF Wants, Inner
<1>7. TextAdded(F, S, O, n, S[n].pos + 1, S[n].text)
  BY <1>6 DEF TextAdded
<1> QED  BY <1>4, <1>5, <1>7, WholeMoves
----------------------------------------------------------------------------
(* The lesser of two lengths.                                              *)
LEMMA LesserIs ==
  ASSUME NEW m \in Nat, NEW n \in Nat
  PROVE  Min({m, n}) = IF m <= n THEN m ELSE n
<1>1. \E x \in {m, n} : \A y \in {m, n} : x <= y
  BY FirstExists
<1>2. Min({m, n}) \in {m, n} /\ \A y \in {m, n} : Min({m, n}) <= y
  BY <1>1 DEF Min
<1> DEFINE l == Min({m, n})
<1> HIDE DEF l
<1>3. (l = m \/ l = n) /\ l <= m /\ l <= n
  BY <1>2 DEF l
<1> QED  BY <1>3 DEF l

LEMMA WithinBoth ==
  ASSUME NEW k \in Nat, NEW l \in Nat, NEW n
  PROVE  n \in 1..Min({k, l}) <=> n \in Nat \ {0} /\ n <= k /\ n <= l
<1> DEFINE m == Min({k, l})
<1>1. m = IF k <= l THEN k ELSE l
  BY LesserIs
<1> HIDE DEF m
<1>2. n \in 1..m <=> n \in Nat \ {0} /\ n <= k /\ n <= l
  BY <1>1
<1> QED  BY <1>2 DEF m

(* The first m lines of two trails.                                        *)
LEMMA SameStart ==
  ASSUME NEW s \in Seq(Nat), NEW t \in Seq(Nat), NEW m \in Nat, m <= Len(s), m <= Len(t)
  PROVE  SubSeq(s, 1, m) = SubSeq(t, 1, m) <=> \A i \in 1..m : s[i] = t[i]
<1>1. (\A i \in 1..m : s[i] \in Nat) /\ (\A i \in 1..m : t[i] \in Nat)
  OBVIOUS
<1>2. 1 \in Int /\ m \in Int /\ m - 1 + 1 = m /\ (IF 1 <= m THEN m - 1 + 1 ELSE 0) = m
      /\ \A i \in 1..m : 1 + i - 1 = i
  OBVIOUS
<1> DEFINE x == SubSeq(s, 1, m)
           y == SubSeq(t, 1, m)
<1>3. /\ x \in Seq(Nat) /\ Len(x) = IF 1 <= m THEN m - 1 + 1 ELSE 0
      /\ \A i \in 1..(m - 1 + 1) : x[i] = s[1 + i - 1]
  BY <1>1, <1>2, SubSeqProperties
<1>4. /\ y \in Seq(Nat) /\ Len(y) = IF 1 <= m THEN m - 1 + 1 ELSE 0
      /\ \A i \in 1..(m - 1 + 1) : y[i] = t[1 + i - 1]
  BY <1>1, <1>2, SubSeqProperties
<1> HIDE DEF x, y
<1>5. /\ Len(x) = m /\ \A i \in 1..m : x[i] = s[i]
      /\ Len(y) = m /\ \A i \in 1..m : y[i] = t[i]
  BY <1>2, <1>3, <1>4
<1>6. ASSUME \A i \in 1..m : s[i] = t[i]  PROVE x = y
  <2>1. Len(x) = Len(y) /\ \A i \in 1..Len(x) : x[i] = y[i]
    BY <1>5, <1>6
  <2> QED  BY <1>3, <1>4, <2>1, SeqEqual
<1>7. x = y => \A i \in 1..m : s[i] = t[i]
  BY <1>5
<1>8. x = y <=> \A i \in 1..m : s[i] = t[i]
  BY <1>6, <1>7
<1> QED  BY <1>8 DEF x, y

(* Before: equal up to a line, and lesser there.                           *)
Lesser(s, t, n) ==
  n \in Nat \ {0} /\ n <= Len(s) /\ n <= Len(t) /\ (\A i \in 1..(n - 1) : s[i] = t[i]) /\ s[n] < t[n]
LEMMA BeforeIs ==
  ASSUME NEW s \in Seq(Nat), NEW t \in Seq(Nat)
  PROVE  Before(s, t) <=> \E n : Lesser(s, t, n)
<1>1. Len(s) \in Nat /\ Len(t) \in Nat
  OBVIOUS
<1>2. \A n : n \in 1..Min({Len(s), Len(t)}) <=> n \in Nat \ {0} /\ n <= Len(s) /\ n <= Len(t)
  BY <1>1, WithinBoth
<1>3. ASSUME NEW n \in Nat \ {0}, n <= Len(s), n <= Len(t)
      PROVE  SubSeq(s, 1, n - 1) = SubSeq(t, 1, n - 1) <=> \A i \in 1..(n - 1) : s[i] = t[i]
  <2>1. n - 1 \in Nat /\ n - 1 <= Len(s) /\ n - 1 <= Len(t)
    BY <1>1, <1>3
  <2> QED  BY <2>1, SameStart
<1> QED  BY <1>2, <1>3 DEF Before, Lesser

(* What begins with a lesser line comes before.                            *)
LEMMA BeforeHead ==
  ASSUME NEW s \in Seq(Nat), NEW t \in Seq(Nat), s # <<>>, t # <<>>, s[1] < t[1]
  PROVE  Before(s, t)
<1>1. Len(s) \in Nat \ {0} /\ Len(t) \in Nat \ {0}
  OBVIOUS
<1>2. Lesser(s, t, 1)
  BY <1>1 DEF Lesser
<1> QED  BY <1>2, BeforeIs

(* A line behind all those of a text can be appended to it.                *)
LEMMA OrderAppend ==
  ASSUME NEW text, NEW q \in Nat, FitText(text, q)
  PROVE  FitText(Append(text, <<q>>), q + 1) /\ Range(Append(text, <<q>>)) = Range(text) \cup {<<q>>}
<1> DEFINE more == Append(text, <<q>>)
<1>1. text \in Seq(Seq(Nat)) /\ InOrder(text) /\ \A t \in Range(text) : t # <<>> /\ t[1] < q
  BY DEF FitText
<1>2. <<q>> \in Seq(Nat) /\ <<q>> # <<>> /\ <<q>>[1] = q
  OBVIOUS
<1>3. Range(more) = Range(text) \cup {<<q>>}
  BY <1>1, RangeAppend
<1>4. /\ Len(text) \in Nat /\ Len(more) = Len(text) + 1 /\ more \in Seq(Seq(Nat))
      /\ (\A i \in 1..Len(text) : more[i] = text[i]) /\ more[Len(text) + 1] = <<q>>
  BY <1>1, <1>2
<1>5. \A t \in Range(text) : t \in Seq(Nat)
  BY <1>1 DEF Range
<1>6. \A t \in Range(more) : t # <<>> /\ t[1] < q + 1
  <2> TAKE t \in Range(more)
  <2>1. CASE t = <<q>>
    BY <2>1, <1>2
  <2>2. CASE t \in Range(text)
    <3>1. t \in Seq(Nat) /\ t # <<>> /\ t[1] < q
      BY <2>2, <1>1, <1>5
    <3>2. t[1] \in Nat
      BY <3>1
    <3> QED  BY <3>1, <3>2
  <2> QED  BY <1>3, <2>1, <2>2
<1>7. InOrder(more)
  <2> HIDE DEF more
  <2>3. Len(more) - 1 = Len(text)
    BY <1>4
  <2> SUFFICES ASSUME NEW i \in 1..Len(text)  PROVE Before(more[i], more[i + 1])
    BY <2>3 DEF InOrder
  <2>1. CASE i = Len(text)
    <3>1. more[i] = text[i] /\ more[i + 1] = <<q>>
      BY <2>1, <1>4
    <3>2. text[i] \in Range(text)
      BY <1>1 DEF Range
    <3> DEFINE s == text[i]
               t == <<q>>
    <3>3. s \in Seq(Nat) /\ s # <<>> /\ s[1] < t[1] /\ t \in Seq(Nat) /\ t # <<>>
      BY <3>2, <1>1, <1>2, <1>5
    <3> HIDE DEF s, t
    <3>4. Before(s, t)
      BY <3>3, BeforeHead
    <3> QED  BY <3>1, <3>4 DEF s, t
  <2>2. CASE i # Len(text)
    <3>1. i \in 1..(Len(text) - 1) /\ i + 1 \in 1..Len(text)
      BY <2>2, <1>4
    <3> QED  BY <3>1, <1>1, <1>4 DEF InOrder
  <2> QED  BY <2>1, <2>2
<1> QED  BY <1>3, <1>4, <1>6, <1>7 DEF FitText

(* A text line.                                                            *)
LEMMA PassText ==
  ASSUME NEW F, NEW S, NEW T, NEW O, NEW M, NEW n, n = Len(S), Files(F), Whole(F, S, O, M),
         Moved(F, S, T, S[n].pos + 1, Append(S[n].text, <<S[n].pos>>)),
         S[n].pos <= Len(F[S[n].file]), F[S[n].file][S[n].pos].kind = "text"
  PROVE  Whole(F, T, O, M)
<1> DEFINE q    == S[n].pos
           f    == S[n].file
           more == Append(S[n].text, <<q>>)
<1>1. Inner(F, S, O, n)
  BY Innermost
<1>2. Frames(F, S) /\ Ordered(S) /\ Sections(F, S, O)
  BY DEF Whole
<1>3. q \in Nat \ {0} /\ q + 1 \in Nat /\ q <= q /\ q \in DOMAIN F[f] /\ n \in 1..Len(S)
      /\ \A k \in 1..Len(O) : At(S, O[k].at, n) => O[k].file = f
  BY <1>1 DEF Inner
<1>4. FitText(S[n].text, q)
  BY <1>1, <1>2, <1>3, TextFits
<1>5. FitText(more, q + 1) /\ Range(more) = Range(S[n].text) \cup {<<q>>}
  BY <1>3, <1>4, OrderAppend
<1>6. SectionsKept(F, S, O, n, q + 1)
  BY <1>1, <1>2, SectionsOne
<1>7. MacrosKept(F, S, O, M, M, q + 1)
  <2>1. \A g, i : IsGuard(F, g, i) => ~Crossing(F, S, O, g, i, q + 1)
    BY <1>1, NoCrossing
  <2> QED  BY <2>1 DEF MacrosKept
<1>8. PICK m \in 1..Len(O) : At(S, O[m].at, n)
  BY <1>1 DEF Inner
<1>9. Wants(F, O, m, q)
  <2> SUFFICES ASSUME IsGuarded(F, f, q)  PROVE First(O, m)
    BY <1>3, <1>8 DEF Wants
  <2>1. PICK i \in 1..q : i + 1 < q /\ F[f][i].kind = "ifndef" /\ \A j \in i..q : F[f][j].kind # "endif"
    BY DEF IsGuarded
  <2>2. i \in 1..(q - 1) /\ \A j \in i..(q - 1) : j \in i..q
    BY <2>1, <1>3
  <2>3. InSection(F, f, q, i)
    BY <2>1, <2>2 DEF InSection
  <2> QED  BY <1>2, <1>3, <1>8, <2>2, <2>3 DEF Sections
<1>10. TextAdded(F, S, O, n, q + 1, more)
  <2>1. ASSUME NEW i \in Nat, q <= i, i < q + 1  PROVE i = q
    BY <1>3, <2>1
  <2>2. q < q + 1 /\ q \in Nat
    BY <1>3
  <2> HIDE DEF more, q
  <2>3. \A t \in Range(S[n].text) : t \in Range(more)
    BY <1>5
  <2>4. <<q>> \in Range(more)
    BY <1>5
  <2>5. \A t \in Range(more) : t \notin Range(S[n].text) =>
          \E k \in 1..Len(O), i \in Nat : At(S, O[k].at, n) /\ i < q + 1 /\ Wants(F, O, k, i) /\ t = <<i>>
    BY <1>5, <1>8, <1>9, <2>2
  <2>6. \A i \in Nat : q <= i /\ i < q + 1 => i = q
    BY <2>1
  <2> QED  BY <2>3, <2>4, <2>5, <2>6 DEF TextAdded, q
<1> QED  BY <1>5, <1>6, <1>7, <1>10, WholeMoves

(* A #define: if its macro is a guard's, it is the first line of the       *)
(* guard's section.                                                        *)
LEMMA PassDefine ==
  ASSUME NEW F, NEW S, NEW T, NEW O, NEW M, NEW n, n = Len(S), Files(F), Whole(F, S, O, M),
         Moved(F, S, T, S[n].pos + 1, S[n].text),
         S[n].pos <= Len(F[S[n].file]), F[S[n].file][S[n].pos].kind = "define"
  PROVE  Whole(F, T, O, M \cup {F[S[n].file][S[n].pos].name})
<1> DEFINE N == M \cup {F[S[n].file][S[n].pos].name}
<1>1. Inner(F, S, O, n) /\ Sections(F, S, O)
  BY Innermost DEF Whole
<1>2. S[n].pos \in Nat \ {0} /\ S[n].pos \in DOMAIN F[S[n].file] /\ n \in 1..Len(S) /\ n = Len(S)
      /\ S[n].file \in DOMAIN F
      /\ \A k \in 1..Len(O) : At(S, O[k].at, n) => O[k].file = S[n].file
  BY <1>1 DEF Inner
<1>3. PICK m \in 1..Len(O) : At(S, O[m].at, n)
  BY <1>1 DEF Inner
<1>4. ASSUME NEW f, NEW i, IsGuard(F, f, i)
      PROVE  F[f][i].name \in N <=> F[f][i].name \in M \/ Crossing(F, S, O, f, i, S[n].pos + 1)
  <2>1. /\ i \in 1..Len(F[f]) /\ i \in Nat /\ F[f][i].kind = "ifndef"
        /\ F[f][i + 1].kind = "define" /\ F[f][i + 1].name = F[f][i].name
        /\ \A g \in DOMAIN F : \A j \in DOMAIN F[g] :
             F[g][j].kind = "define" /\ F[g][j].name = F[f][i].name => g = f /\ j = i + 1
    BY <1>4, GuardIs DEF IsGuard
  <2>2. ASSUME F[S[n].file][S[n].pos].name = F[f][i].name
        PROVE  Crossing(F, S, O, f, i, S[n].pos + 1)
    <3>1. S[n].file = f /\ S[n].pos = i + 1
      BY <1>2, <2>1, <2>2
    <3>2. i \in 1..(S[n].pos - 1) /\ \A j \in i..(S[n].pos - 1) : j = i
      BY <2>1, <3>1
    <3>3. InSection(F, S[n].file, S[n].pos, i)
      BY <2>1, <3>1, <3>2 DEF InSection
    <3>4. First(O, m)
      BY <1>1, <1>2, <1>3, <3>2, <3>3 DEF Sections
    <3>5. S[n].pos <= i + 1 /\ i + 1 < S[n].pos + 1
      BY <2>1, <3>1
    <3> QED  BY <1>2, <1>3, <3>1, <3>4, <3>5 DEF Crossing
  <2>3. ASSUME Crossing(F, S, O, f, i, S[n].pos + 1)
        PROVE  F[S[n].file][S[n].pos].name = F[f][i].name
    <3>1. PICK k \in 1..Len(O) : O[k].file = f /\ At(S, O[k].at, n) /\ S[n].pos <= i + 1 /\ i + 1 < S[n].pos + 1
      BY <1>2, <2>3 DEF Crossing
    <3>2. S[n].file = f /\ S[n].pos = i + 1
      BY <1>2, <2>1, <3>1
    <3> QED  BY <2>1, <3>2
  <2> QED  BY <2>2, <2>3
<1>5. MacrosKept(F, S, O, M, N, S[n].pos + 1)
  BY <1>4 DEF MacrosKept
<1> HIDE DEF N
<1>6. Whole(F, T, O, N)
  BY <1>5, PassLine
<1> QED  BY <1>6 DEF N

(* An #endif.                                                              *)
LEMMA PassEndif ==
  ASSUME NEW F, NEW S, NEW T, NEW O, NEW M, NEW n, n = Len(S), Files(F), Whole(F, S, O, M),
         Moved(F, S, T, S[n].pos + 1, S[n].text), F[S[n].file][S[n].pos].kind = "endif"
  PROVE  Whole(F, T, O, M)
<1>1. Inner(F, S, O, n)
  BY Innermost
<1>2. \A f, i : IsGuard(F, f, i) => ~Crossing(F, S, O, f, i, S[n].pos + 1)
  BY <1>1, NoCrossing
<1>3. MacrosKept(F, S, O, M, M, S[n].pos + 1)
  BY <1>2 DEF MacrosKept
<1> QED  BY <1>3, PassLine

(* A guard whose macro is not defined is entered: its file was not         *)
(* included before, for else the first inclusion would be in front of the  *)
(* guard, where no file is included.                                       *)
LEMMA EnterSection ==
  ASSUME NEW F, NEW S, NEW T, NEW O, NEW M, NEW n, n = Len(S), Files(F), Whole(F, S, O, M),
         Moved(F, S, T, S[n].pos + 1, S[n].text),
         S[n].pos <= Len(F[S[n].file]), F[S[n].file][S[n].pos].kind = "ifndef",
         F[S[n].file][S[n].pos].name \notin M
  PROVE  Whole(F, T, O, M)
<1> DEFINE f == S[n].file
           q == S[n].pos
<1>1. Inner(F, S, O, n) /\ Frames(F, S) /\ History(F, O) /\ Chain(S, O) /\ Defined(F, S, O, M)
  BY Innermost DEF Whole
<1>2. IsGuard(F, f, q) /\ q \in Nat /\ n \in Nat /\ n = Len(S)
  BY <1>1 DEF IsGuard, Inner
<1>3. \A j \in 1..(q + 1) : F[f][j].kind # "include"
  BY <1>2, GuardIs
<1>4. PICK m \in 1..Len(O) : At(S, O[m].at, n) /\ O[m].file = f
  BY <1>1 DEF Inner
<1>5. PICK l \in 1..Len(O) : O[l].file = f /\ First(O, l)
  BY <1>1, <1>4, FirstIs
<1>6. ~Past(S, O[l].at, q)
  BY <1>1, <1>2, <1>5 DEF Defined
<1>7. PICK d \in 1..Len(S) : At(S, O[l].at, d) /\ ~(S[d].pos > q + 1)
  BY <1>6 DEF Past
<1>8. S[d].file = f
  BY <1>1, <1>5, <1>7, FrameOpened
<1>9. d = n
  <2> SUFFICES ASSUME d < n  PROVE FALSE
    BY <1>2
  <2>1. S[d].pos \in 1..(Len(F[f]) + 1) /\ F[f][S[d].pos].kind = "include"
    BY <1>1, <1>2, <1>8 DEF Frames
  <2>2. Len(F[f]) \in Nat
    BY <1>1 DEF Inner
  <2>3. S[d].pos \in 1..(q + 1)
    BY <1>2, <1>7, <2>1, <2>2
  <2> QED  BY <1>3, <2>1, <2>3
<1>10. FirstEntry(S, O, n)
  BY <1>1, <1>5, <1>7, <1>9 DEF FirstEntry, Inner
<1>11. \A g, i : IsGuard(F, g, i) => ~Crossing(F, S, O, g, i, q + 1)
  BY <1>1, NoCrossing
<1>12. MacrosKept(F, S, O, M, M, q + 1)
  BY <1>11 DEF MacrosKept
<1> QED  BY <1>10, <1>12, PassLine

(* A guard whose macro is defined is left out: the first inclusion of its  *)
(* file has passed it, so that this is another one.                        *)
LEMMA SkipSection ==
  ASSUME NEW F, NEW S, NEW T, NEW O, NEW M, NEW n, n = Len(S), Files(F), Whole(F, S, O, M),
         NEW e \in Nat, Moved(F, S, T, e + 1, S[n].text),
         S[n].pos <= Len(F[S[n].file]), F[S[n].file][S[n].pos].kind = "ifndef",
         S[n].pos + 2 <= e, Section(F[S[n].file], S[n].pos, e),
         F[S[n].file][S[n].pos].name \in M
  PROVE  Whole(F, T, O, M)
<1> DEFINE f == S[n].file
           q == S[n].pos
           s == F[f]
<1>1. Inner(F, S, O, n) /\ Frames(F, S) /\ Ordered(S) /\ History(F, O) /\ Defined(F, S, O, M)
  BY Innermost DEF Whole
<1>2. IsGuard(F, f, q) /\ q \in Nat \ {0} /\ n = Len(S) /\ e + 1 \in Nat /\ q <= e + 1 /\ n \in 1..Len(S)
  BY <1>1 DEF IsGuard, Inner
<1>3. s[q].kind = "ifndef" /\ s[q + 1].kind = "define" /\ s[q + 1].name = s[q].name
      /\ s[e].kind = "endif" /\ \A j \in (q + 1)..(e - 1) : s[j].kind \notin {"ifndef", "endif"}
  BY DEF Section
<1>4. ASSUME NEW k \in 1..Len(O), At(S, O[k].at, n)  PROVE O[k].file = f /\ ~First(O, k)
  <2>1. O[k].file = f
    BY <1>1, <1>4 DEF Inner
  <2>2. PICK l \in 1..Len(O) : O[l].file = f /\ First(O, l) /\ Past(S, O[l].at, q)
    BY <1>1, <1>2 DEF Defined
  <2>3. First(O, k) => l = k
    BY <1>1, <2>1, <2>2, FirstIs
  <2>4. ~(S[n].pos > q + 1)
    BY <1>2
  <2>5. l # k
    BY <1>2, <1>4, <2>2, <2>4 DEF Past
  <2> QED  BY <2>1, <2>3, <2>5
<1>5. FitText(S[n].text, e + 1)
  BY <1>1, <1>2, TextFits
<1>6. SectionsKept(F, S, O, n, e + 1)
  <2> SUFFICES ASSUME NEW i, InSection(F, f, e + 1, i)  PROVE FALSE
    BY DEF SectionsKept
  <2>1. i \in 1..e /\ s[e].kind # "endif"
    <3>1. e + 1 - 1 = e
      OBVIOUS
    <3>2. i \in 1..e /\ \A j \in i..e : s[j].kind # "endif"
      BY <3>1 DEF InSection
    <3> QED  BY <3>2
  <2> QED  BY <2>1, <1>3
<1>7. MacrosKept(F, S, O, M, M, e + 1)
  <2> SUFFICES ASSUME NEW g, NEW i, IsGuard(F, g, i), Crossing(F, S, O, g, i, e + 1)
               PROVE  F[g][i].name \in M
    BY DEF MacrosKept
  <2>1. PICK k \in 1..Len(O) : O[k].file = g /\ At(S, O[k].at, n) /\ First(O, k)
    BY <1>2 DEF Crossing
  <2> QED  BY <1>4, <2>1
<1>8. ASSUME NEW k \in 1..Len(O), NEW i \in Nat, At(S, O[k].at, n), q <= i, i < e + 1
      PROVE  ~Wants(F, O, k, i)
  <2> SUFFICES ASSUME Wants(F, O, k, i)  PROVE FALSE
    OBVIOUS
  <2>1. O[k].file = f /\ ~First(O, k)
    BY <1>4, <1>8
  <2>2. s[i].kind = "text" /\ ~IsGuarded(F, f, i)
    BY <2>1 DEF Wants
  <2>3. i # q /\ i # q + 1 /\ i # e
    BY <2>2, <1>3
  <2> HIDE DEF q, s
  <2>4. q + 1 < i /\ q \in 1..i /\ i <= e - 1
    BY <2>3, <1>2, <1>8
  <2>5. \A j \in q..i : j = q \/ j \in (q + 1)..(e - 1)
    BY <2>4, <1>2
  <2>6. \A j \in q..i : s[j].kind # "endif"
    BY <2>5, <1>3
  <2>7. IsGuarded(F, f, i)
    BY <2>4, <2>6, <1>3 DEF IsGuarded, s
  <2> QED  BY <2>2, <2>7
<1>9. TextAdded(F, S, O, n, e + 1, S[n].text)
  BY <1>8 DEF TextAdded
<1> QED  BY <1>5, <1>6, <1>7, <1>9, WholeMoves
----------------------------------------------------------------------------
(* A file is opened at an #include: frame n + 1 is at its first line, and  *)
(* the trail of the inclusion goes by the lines of the frames below.       *)
Opened(F, S, T, O, P, n) ==
  /\ n = Len(S) /\ F[S[n].file][S[n].pos].kind = "include" /\ S[n].pos <= Len(F[S[n].file])
  /\ Len(T) = n + 1 /\ DOMAIN T = 1..(n + 1) /\ \A d \in 1..n : T[d] = S[d]
  /\ T[n + 1].file \in DOMAIN F /\ T[n + 1].pos = 1 /\ T[n + 1].text = <<>>
  /\ Len(P) = Len(O) + 1 /\ DOMAIN P = 1..(Len(O) + 1) /\ \A k \in 1..Len(O) : P[k] = O[k]
  /\ P[Len(O) + 1].file = T[n + 1].file /\ P[Len(O) + 1].at \in Seq(Nat)
  /\ Len(P[Len(O) + 1].at) = n /\ \A d \in 1..n : P[Len(O) + 1].at[d] = S[d].pos

(* The frames below lead where they led, no inclusion was made at the new  *)
(* frame's place before, and the inclusions before are the first ones that *)
(* they were.                                                              *)
LEMMA OpenedAt ==
  ASSUME NEW F, NEW S, NEW T, NEW O, NEW P, NEW n, Files(F), Frames(F, S), History(F, O), Chain(S, O),
         Opened(F, S, T, O, P, n)
  PROVE  /\ n \in Nat \ {0} /\ Len(O) \in Nat /\ n = Len(S)
         /\ \A d \in 1..(n + 1) : d \in 1..n \/ d = n + 1
         /\ \A k \in 1..(Len(O) + 1) : k \in 1..Len(O) \/ k = Len(O) + 1
         /\ \A a, d : d \in 1..(n + 1) => (At(T, a, d) <=> At(S, a, d)) /\ (Along(T, a, d) <=> Along(S, a, d))
         /\ \A k \in 1..Len(O) : ~At(S, O[k].at, n + 1) /\ ~Along(S, O[k].at, n + 1)
         /\ \A k \in 1..Len(O) : First(P, k) <=> First(O, k)
<1>1. n \in Nat \ {0} /\ Len(O) \in Nat /\ n = Len(S)
  BY DEF Opened, Frames, History
<1>2. /\ \A d \in 1..(n + 1) : d \in 1..n \/ d = n + 1
      /\ \A k \in 1..(Len(O) + 1) : k \in 1..Len(O) \/ k = Len(O) + 1
  BY <1>1
<1>3. \A a, d : d \in 1..(n + 1) => (At(T, a, d) <=> At(S, a, d)) /\ (Along(T, a, d) <=> Along(S, a, d))
  <2> SUFFICES ASSUME NEW a, NEW d \in 1..(n + 1)
               PROVE  (At(T, a, d) <=> At(S, a, d)) /\ (Along(T, a, d) <=> Along(S, a, d))
    OBVIOUS
  <2>1. \A j \in 1..(d - 1) : j \in 1..n
    BY <1>1
  <2>2. \A j \in 1..(d - 1) : T[j] = S[j]
    BY <2>1 DEF Opened
  <2> QED  BY <2>2 DEF At, Along
<1>4. ASSUME NEW k \in 1..Len(O), At(S, O[k].at, n + 1) \/ Along(S, O[k].at, n + 1)  PROVE FALSE
  <2>1. n + 1 - 1 = n /\ n \in 1..n /\ \A j \in 1..(n - 1) : j \in 1..n
    BY <1>1
  <2>2. \A j \in 1..n : O[k].at[j] = S[j].pos
    BY <1>4, <2>1 DEF At, Along
  <2>3. Len(O[k].at) \in Nat
    BY DEF History
  <2>4. n <= Len(O[k].at)
    BY <1>1, <1>4, <2>3 DEF At, Along
  <2>5. Along(S, O[k].at, n)
    BY <2>1, <2>2, <2>4 DEF Along
  <2>6. O[k].at[n] < S[n].pos
    BY <1>1, <2>1, <2>5 DEF Chain
  <2>7. S[n].pos \in Nat
    <3>1. S[n].file \in DOMAIN F /\ S[n].pos \in 1..(Len(F[S[n].file]) + 1)
      BY <1>1, <2>1 DEF Frames
    <3>2. Len(F[S[n].file]) \in Nat
      BY <3>1 DEF Files
    <3> QED  BY <3>1, <3>2
  <2> QED  BY <2>1, <2>2, <2>6, <2>7
<1>5. ASSUME NEW k \in 1..Len(O)  PROVE First(P, k) <=> First(O, k)
  <2>1. P[k] = O[k] /\ \A j \in 1..(k - 1) : P[j] = O[j]
    BY <1>1 DEF Opened
  <2> QED  BY <2>1 DEF First
<1> QED  BY <1>1, <1>2, <1>3, <1>4, <1>5

LEMMA OpenFrames ==
  ASSUME NEW F, NEW S, NEW T, NEW O, NEW P, NEW n, Files(F), Frames(F, S), Opened(F, S, T, O, P, n)
  PROVE  Frames(F, T)
<1>1. n \in Nat \ {0} /\ n = Len(S) /\ Len(T) = n + 1 /\ DOMAIN T = 1..(n + 1)
  BY DEF Opened, Frames
<1>2. ASSUME NEW d \in 1..(n + 1)
      PROVE  /\ T[d].file \in DOMAIN F /\ T[d].pos \in 1..(Len(F[T[d].file]) + 1)
             /\ T[d].text \in Seq(Seq(Nat))
             /\ \A t \in Range(T[d].text) : t # <<>> /\ t[1] < T[d].pos
             /\ d < Len(T) => T[d].pos <= Len(F[T[d].file]) /\ F[T[d].file][T[d].pos].kind = "include"
  <2>1. CASE d \in 1..n
    <3>1. T[d] = S[d] /\ (d < n \/ d = n)
      BY <1>1, <2>1 DEF Opened
    <3>2. CASE d < n
      BY <1>1, <2>1, <3>1, <3>2 DEF Frames
    <3>3. CASE d = n
      BY <1>1, <2>1, <3>1, <3>3 DEF Frames, Opened
    <3> QED  BY <3>1, <3>2, <3>3
  <2>2. CASE d = n + 1
    <3>1. T[d].file \in DOMAIN F /\ T[d].pos = 1 /\ T[d].text = <<>>
      BY <2>2 DEF Opened
    <3>2. Len(F[T[d].file]) \in Nat
      BY <3>1 DEF Files
    <3>3. <<>> \in Seq(Seq(Nat)) /\ Range(<<>>) = {}
      BY DEF Range
    <3> QED  BY <1>1, <2>2, <3>1, <3>2, <3>3
  <2> QED  BY <1>1, <2>1, <2>2
<1> QED  BY <1>1, <1>2 DEF Frames

LEMMA OpenHistory ==
  ASSUME NEW F, NEW S, NEW T, NEW O, NEW P, NEW n, History(F, O), Opened(F, S, T, O, P, n)
  PROVE  History(F, P)
<1>1. Len(O) \in Nat /\ Len(P) = Len(O) + 1 /\ DOMAIN P = 1..(Len(O) + 1)
  BY DEF Opened, History
<1>2. \A k \in 1..(Len(O) + 1) : k \in 1..Len(O) \/ k = Len(O) + 1
  BY <1>1
<1>3. \A k \in 1..Len(O) : P[k].file \in DOMAIN F /\ P[k].at \in Seq(Nat)
  BY DEF Opened, History
<1>4. P[Len(O) + 1].file \in DOMAIN F /\ P[Len(O) + 1].at \in Seq(Nat)
  BY DEF Opened
<1> QED  BY <1>1, <1>2, <1>3, <1>4 DEF History

LEMMA OpenChain ==
  ASSUME NEW F, NEW S, NEW T, NEW O, NEW P, NEW n, Files(F), Frames(F, S), History(F, O), Chain(S, O),
         Opened(F, S, T, O, P, n)
  PROVE  Chain(T, P)
<1> DEFINE l == Len(O) + 1
<1>1. /\ n \in Nat \ {0} /\ Len(O) \in Nat /\ n = Len(S)
      /\ \A d \in 1..(n + 1) : d \in 1..n \/ d = n + 1
      /\ \A k \in 1..l : k \in 1..Len(O) \/ k = l
      /\ \A a, d : d \in 1..(n + 1) => (At(T, a, d) <=> At(S, a, d)) /\ (Along(T, a, d) <=> Along(S, a, d))
      /\ \A k \in 1..Len(O) : ~At(S, O[k].at, n + 1) /\ ~Along(S, O[k].at, n + 1)
  BY OpenedAt
<1>2. /\ Len(T) = n + 1 /\ (\A d \in 1..n : T[d] = S[d]) /\ Len(P) = l /\ (\A k \in 1..Len(O) : P[k] = O[k])
      /\ P[l].file = T[n + 1].file /\ Len(P[l].at) = n /\ \A d \in 1..n : P[l].at[d] = S[d].pos
  BY DEF Opened
<1>3. l \in 1..l /\ n + 1 \in 1..(n + 1) /\ l \in Nat
  BY <1>1
<1>4. At(S, P[l].at, n + 1)
  <2>1. n + 1 - 1 = n
    BY <1>1
  <2> QED  BY <1>2, <2>1 DEF At
<1>5. \A k, m \in 1..l : P[k].at = P[m].at => k = m
  <2>1. ASSUME NEW k \in 1..Len(O)  PROVE P[k].at # P[l].at
    BY <1>1, <1>2, <1>4
  <2>2. \A k, m \in 1..Len(O) : P[k].at = P[m].at => k = m
    BY <1>2 DEF Chain
  <2> HIDE DEF l
  <2> QED  BY <1>1, <2>1, <2>2
<1>6. ASSUME NEW d \in 1..(n + 1)  PROVE \E k \in 1..l : At(T, P[k].at, d) /\ P[k].file = T[d].file
  <2>1. CASE d \in 1..n
    <3>1. PICK k \in 1..Len(O) : At(S, O[k].at, d) /\ O[k].file = S[d].file
      BY <1>1, <2>1 DEF Chain
    <3>2. k \in 1..l /\ P[k] = O[k] /\ T[d] = S[d]
      BY <1>1, <1>2, <2>1
    <3> QED  BY <1>1, <3>1, <3>2
  <2>2. CASE d = n + 1
    BY <1>1, <1>2, <1>3, <1>4, <2>2
  <2> QED  BY <1>1, <2>1, <2>2
<1>7. ASSUME NEW k \in 1..l, NEW d \in 1..(n + 1), Along(T, P[k].at, d)
      PROVE  P[k].at[d] <= T[d].pos /\ (d = n + 1 => P[k].at[d] < T[d].pos)
  <2>1. Along(S, P[k].at, d)
    BY <1>1, <1>7
  <2>2. CASE d = n + 1
    <3>1. k = l
      BY <1>1, <1>2, <2>1, <2>2
    <3>2. ~(n + 1 <= n)
      BY <1>1
    <3> QED  BY <1>2, <2>1, <2>2, <3>1, <3>2 DEF Along
  <2>3. CASE d \in 1..n
    <3>1. d # n + 1 /\ T[d] = S[d]
      BY <1>1, <1>2, <2>3
    <3>2. CASE k \in 1..Len(O)
      BY <1>1, <1>2, <2>1, <2>3, <3>1, <3>2 DEF Chain
    <3>3. CASE k = l
      <4>1. P[k].at[d] = T[d].pos
        BY <1>2, <2>3, <3>1, <3>3
      <4>2. T[d].pos \in Int
        <5>1. S[d].file \in DOMAIN F /\ S[d].pos \in 1..(Len(F[S[d].file]) + 1)
          BY <1>1, <2>3 DEF Frames
        <5>2. Len(F[S[d].file]) \in Nat
          BY <5>1 DEF Files
        <5> QED  BY <3>1, <5>1, <5>2
      <4> QED  BY <3>1, <4>1, <4>2
    <3> QED  BY <1>1, <3>2, <3>3
  <2> QED  BY <1>1, <2>2, <2>3
<1> QED  BY <1>2, <1>5, <1>6, <1>7 DEF Chain

LEMMA OpenSections ==
  ASSUME NEW F, NEW S, NEW T, NEW O, NEW P, NEW n, Files(F), Frames(F, S), History(F, O), Chain(S, O),
         Sections(F, S, O), Opened(F, S, T, O, P, n)
  PROVE  Sections(F, T, P)
<1>1. /\ n \in Nat \ {0} /\ Len(O) \in Nat /\ n = Len(S)
      /\ \A d \in 1..(n + 1) : d \in 1..n \/ d = n + 1
      /\ \A k \in 1..(Len(O) + 1) : k \in 1..Len(O) \/ k = Len(O) + 1
      /\ \A a, d : d \in 1..(n + 1) => (At(T, a, d) <=> At(S, a, d))
      /\ \A k \in 1..Len(O) : First(P, k) <=> First(O, k)
  BY OpenedAt
<1>2. /\ Len(T) = n + 1 /\ (\A d \in 1..n : T[d] = S[d]) /\ Len(P) = Len(O) + 1
      /\ \A k \in 1..Len(O) : P[k] = O[k]
      /\ Len(P[Len(O) + 1].at) = n /\ T[n + 1].pos = 1
  BY DEF Opened
<1>3. ASSUME NEW d \in 1..(n + 1), NEW k \in 1..(Len(O) + 1), At(T, P[k].at, d),
             NEW i \in 1..(T[d].pos - 1), InSection(F, T[d].file, T[d].pos, i)
      PROVE  First(P, k)
  <2>1. At(S, P[k].at, d)
    BY <1>1, <1>3
  <2>2. d # n + 1
    <3>1. i \in 1..(1 - 1) => FALSE
      OBVIOUS
    <3> QED  BY <1>2, <1>3, <3>1
  <2>3. d \in 1..n /\ T[d] = S[d]
    BY <1>1, <1>2, <2>2
  <2>4. k # Len(O) + 1
    <3>1. d - 1 # n
      BY <1>1, <2>3
    <3> QED  BY <1>2, <2>1, <3>1 DEF At
  <2>5. k \in 1..Len(O)
    BY <1>1, <2>4
  <2> QED  BY <1>1, <1>2, <1>3, <2>1, <2>3, <2>5 DEF Sections
<1> QED  BY <1>2, <1>3 DEF Sections

LEMMA OpenDefined ==
  ASSUME NEW F, NEW S, NEW T, NEW O, NEW P, NEW n, NEW M, Files(F), Frames(F, S), History(F, O), Chain(S, O),
         Defined(F, S, O, M), Opened(F, S, T, O, P, n)
  PROVE  Defined(F, T, P, M)
<1>1. /\ n \in Nat \ {0} /\ Len(O) \in Nat /\ n = Len(S)
      /\ \A d \in 1..(n + 1) : d \in 1..n \/ d = n + 1
      /\ \A k \in 1..(Len(O) + 1) : k \in 1..Len(O) \/ k = Len(O) + 1
      /\ \A a, d : d \in 1..(n + 1) => (At(T, a, d) <=> At(S, a, d))
      /\ \A k \in 1..Len(O) : ~At(S, O[k].at, n + 1)
      /\ \A k \in 1..Len(O) : First(P, k) <=> First(O, k)
  BY OpenedAt
<1>2. /\ Len(T) = n + 1 /\ (\A d \in 1..n : T[d] = S[d]) /\ Len(P) = Len(O) + 1
      /\ (\A k \in 1..Len(O) : P[k] = O[k])
      /\ Len(P[Len(O) + 1].at) = n /\ (\A d \in 1..n : P[Len(O) + 1].at[d] = S[d].pos) /\ T[n + 1].pos = 1
  BY DEF Opened
<1>3. At(S, P[Len(O) + 1].at, n + 1) /\ n + 1 \in 1..(n + 1)
  <2>1. n + 1 - 1 = n /\ n + 1 \in 1..(n + 1)
    BY <1>1
  <2> QED  BY <1>2, <2>1 DEF At
<1>4. ASSUME NEW i \in Nat, NEW k \in 1..Len(O)  PROVE Past(T, P[k].at, i) <=> Past(S, O[k].at, i)
  <2>1. \A d \in 1..n : d \in 1..(n + 1) /\ T[d] = S[d]
    BY <1>1, <1>2
  <2> QED  BY <1>1, <1>2, <2>1 DEF Past
<1>5. ASSUME NEW i \in Nat  PROVE ~Past(T, P[Len(O) + 1].at, i)
  <2>1. ~(T[n + 1].pos > i + 1)
    BY <1>2
  <2> QED  BY <1>1, <1>2, <1>3, <2>1 DEF Past
<1>6. ASSUME NEW f, NEW i, IsGuard(F, f, i)
      PROVE  F[f][i].name \in M <=> \E k \in 1..(Len(O) + 1) : P[k].file = f /\ First(P, k) /\ Past(T, P[k].at, i)
  <2>1. i \in Nat
    BY <1>6, GuardIs
  <2>2. F[f][i].name \in M <=> \E k \in 1..Len(O) : O[k].file = f /\ First(O, k) /\ Past(S, O[k].at, i)
    BY <1>6 DEF Defined
  <2>3. \A k \in 1..Len(O) : k \in 1..(Len(O) + 1)
    BY <1>1
  <2> QED  BY <1>1, <1>2, <1>4, <1>5, <2>1, <2>2, <2>3
<1> QED  BY <1>2, <1>6 DEF Defined

LEMMA OpenTexts ==
  ASSUME NEW F, NEW S, NEW T, NEW O, NEW P, NEW n, Files(F), Frames(F, S), History(F, O), Chain(S, O),
         Texts(F, S, O), Opened(F, S, T, O, P, n)
  PROVE  Texts(F, T, P)
<1> DEFINE l == Len(O) + 1
<1>1. /\ n \in Nat \ {0} /\ Len(O) \in Nat /\ n = Len(S)
      /\ \A d \in 1..(n + 1) : d \in 1..n \/ d = n + 1
      /\ \A k \in 1..l : k \in 1..Len(O) \/ k = l
      /\ \A a, d : d \in 1..(n + 1) => (Along(T, a, d) <=> Along(S, a, d))
      /\ \A k \in 1..Len(O) : ~At(S, O[k].at, n + 1) /\ ~Along(S, O[k].at, n + 1)
      /\ \A k \in 1..Len(O) : First(P, k) <=> First(O, k)
  BY OpenedAt
<1>2. /\ Len(T) = n + 1 /\ (\A d \in 1..n : T[d] = S[d]) /\ (\A k \in 1..Len(O) : P[k] = O[k])
      /\ DOMAIN P = 1..l /\ P[l].at \in Seq(Nat)
      /\ Len(P[l].at) = n /\ (\A d \in 1..n : P[l].at[d] = S[d].pos)
      /\ T[n + 1].pos = 1 /\ T[n + 1].text = <<>>
  BY DEF Opened
<1>3. DOMAIN O = 1..Len(O) /\ History(F, P) /\ Len(P) = l
  BY OpenHistory DEF History, Opened
<1> HIDE DEF l
<1>4. \A k \in 1..Len(O) : k \in 1..l
  BY <1>1 DEF l
<1>5. \A k \in 1..Len(O) : \A i : Wants(F, P, k, i) <=> Wants(F, O, k, i)
  BY <1>1, <1>2 DEF Wants
<1>6. \A a : Asks(F, O, a) => Asks(F, P, a)
  BY <1>2, <1>3, <1>4, <1>5 DEF Asks
<1>7. ASSUME NEW a, Asks(F, P, a), ~Asks(F, O, a)
      PROVE  /\ a \in Seq(Nat) /\ Len(a) = n + 1 /\ \A d \in 1..n : a[d] = S[d].pos
             /\ a[n + 1] \in Nat \ {0}
  <2>1. PICK k \in 1..l, i \in Nat :
          a = Append(P[k].at, i) /\ Wants(F, P, k, i) /\ i \in 1..Len(F[P[k].file]) /\ a \in Seq(Nat)
    BY <1>3, <1>7, AsksType
  <2>2. k = l
    <3> SUFFICES ASSUME k \in 1..Len(O)  PROVE FALSE
      BY <1>1
    <3> QED  BY <1>2, <1>3, <1>5, <1>7, <2>1 DEF Asks
  <2> DEFINE b == P[l].at
  <2>3. b \in Seq(Nat) /\ Len(b) = n /\ (\A d \in 1..n : b[d] = S[d].pos) /\ a = Append(b, i)
    BY <1>2, <2>1, <2>2
  <2> HIDE DEF b
  <2>4. i # 0
    <3>1. P[k].file \in DOMAIN F
      BY <1>3 DEF History
    <3>2. Len(F[P[k].file]) \in Nat
      BY <3>1 DEF Files
    <3> QED  BY <2>1, <3>2
  <2> QED  BY <1>1, <2>1, <2>3, <2>4
<1>8. ASSUME NEW d \in 1..n, NEW a  PROVE Reached(F, P, T, a, d) <=> Reached(F, O, S, a, d)
  <2>1. d \in 1..(n + 1) /\ T[d] = S[d]
    BY <1>1, <1>2
  <2>2. ASSUME Asks(F, P, a), ~Asks(F, O, a)  PROVE ~(a[d] < S[d].pos)
    <3>1. a \in Seq(Nat) /\ Len(a) = n + 1 /\ a[d] = S[d].pos
      BY <1>7, <2>2
    <3>2. d \in 1..Len(a)
      BY <1>1, <3>1
    <3>3. a[d] \in Nat
      BY <3>1, <3>2
    <3> QED  BY <3>1, <3>3
  <2> QED  BY <1>1, <1>6, <2>1, <2>2 DEF Reached
<1>9. ASSUME NEW a, Reached(F, P, T, a, n + 1)  PROVE FALSE
  <2>1. n + 1 \in 1..(n + 1) /\ n + 1 \in Nat \ {0}
    BY <1>1
  <2>2. Asks(F, P, a) /\ Along(S, a, n + 1) /\ a[n + 1] < 1
    BY <1>1, <1>2, <1>9, <2>1 DEF Reached
  <2>3. Asks(F, O, a)
    <3> SUFFICES ASSUME ~Asks(F, O, a)  PROVE FALSE
      OBVIOUS
    <3>1. a[n + 1] \in Nat \ {0}
      BY <1>7, <2>2
    <3> QED  BY <2>2, <3>1
  <2>4. PICK k \in 1..Len(O), i \in Nat : Along(S, O[k].at, n + 1) \/ At(S, O[k].at, n + 1)
    BY <2>1, <2>2, <2>3, AskedAlong
  <2> QED  BY <1>1, <2>4
<1>10. ASSUME NEW d \in 1..(n + 1)
       PROVE  /\ \A a : Reached(F, P, T, a, d) => Rest(a, d) \in Range(T[d].text)
              /\ \A t \in Range(T[d].text) : \E a : Reached(F, P, T, a, d) /\ t = Rest(a, d)
  <2>1. CASE d \in 1..n
    <3>1. T[d] = S[d] /\ d \in 1..Len(S)
      BY <1>1, <1>2, <2>1
    <3> QED  BY <1>8, <2>1, <3>1 DEF Texts
  <2>2. CASE d = n + 1
    <3>1. Range(<<>>) = {}
      BY DEF Range
    <3> QED  BY <1>2, <1>9, <2>2, <3>1
  <2> QED  BY <1>1, <2>1, <2>2
<1> QED  BY <1>2, <1>10 DEF Texts

(* An #include of a file that can be read.                                 *)
LEMMA OpenFile ==
  ASSUME NEW F, NEW S, NEW T, NEW O, NEW P, NEW n, NEW M, Files(F), Whole(F, S, O, M), Opened(F, S, T, O, P, n)
  PROVE  Whole(F, T, P, M)
<1>1. /\ Frames(F, S) /\ History(F, O) /\ Chain(S, O) /\ Sections(F, S, O)
      /\ Defined(F, S, O, M) /\ Texts(F, S, O) /\ Ordered(S)
  BY DEF Whole
<1>2. Frames(F, T) /\ History(F, P)
  BY <1>1, OpenFrames, OpenHistory
<1>3. Chain(T, P)
  BY <1>1, OpenChain
<1>4. Sections(F, T, P)
  BY <1>1, OpenSections
<1>5. Defined(F, T, P, M)
  BY <1>1, OpenDefined
<1>6. Texts(F, T, P)
  BY <1>1, OpenTexts
<1>7. Ordered(T)
  <2>1. /\ n = Len(S) /\ n \in Nat /\ Len(T) = n + 1 /\ T[n + 1].text = <<>>
        /\ \A d \in 1..n : T[d] = S[d]
    BY <1>1 DEF Opened, Frames
  <2>2. \A d \in 1..(n + 1) : d \in 1..n \/ d = n + 1
    BY <2>1
  <2>3. InOrder(<<>>)
    BY DEF InOrder
  <2> QED  BY <1>1, <2>1, <2>2, <2>3 DEF Ordered
<1> QED  BY <1>2, <1>3, <1>4, <1>5, <1>6, <1>7 DEF Whole
----------------------------------------------------------------------------
(* The lines of an included file, from the #include on.                    *)
Prefixed(q, by) == [i \in DOMAIN by |-> <<q>> \o by[i]]

LEMMA PrefixIs ==
  ASSUME NEW q \in Nat, NEW u \in Seq(Nat)
  PROVE  /\ <<q>> \o u \in Seq(Nat) /\ <<q>> \o u # <<>> /\ (<<q>> \o u)[1] = q
         /\ Len(<<q>> \o u) = Len(u) + 1 /\ \A i \in 1..Len(u) : (<<q>> \o u)[i + 1] = u[i]
<1> DEFINE v == <<q>> \o u
<1>1. <<q>> \in Seq(Nat) /\ Len(<<q>>) = 1 /\ <<q>>[1] = q /\ Len(u) \in Nat
  OBVIOUS
<1>2. /\ v \in Seq(Nat) /\ Len(v) = 1 + Len(u)
      /\ \A i \in 1..1 + Len(u) : v[i] = IF i <= 1 THEN <<q>>[i] ELSE u[i - 1]
  BY <1>1, ConcatProperties
<1> HIDE DEF v
<1>3. v[1] = q
  BY <1>1, <1>2
<1>4. \A i \in 1..Len(u) : v[i + 1] = u[i]
  <2> TAKE i \in 1..Len(u)
  <2>1. i + 1 \in 1..1 + Len(u) /\ ~(i + 1 <= 1) /\ i + 1 - 1 = i
    BY <1>1
  <2> QED  BY <1>2, <2>1
<1>5. Len(v) = Len(u) + 1 /\ v # <<>>
  BY <1>1, <1>2
<1> QED  BY <1>2, <1>3, <1>4, <1>5 DEF v

(* Two trails through the same line are in the order in which they go on.  *)
LEMMA BeforePrefixed ==
  ASSUME NEW q \in Nat, NEW s \in Seq(Nat), NEW t \in Seq(Nat), Before(s, t)
  PROVE  Before(<<q>> \o s, <<q>> \o t)
<1> DEFINE v == <<q>> \o s
           w == <<q>> \o t
<1>1. /\ v \in Seq(Nat) /\ v[1] = q /\ Len(v) = Len(s) + 1 /\ (\A i \in 1..Len(s) : v[i + 1] = s[i])
      /\ w \in Seq(Nat) /\ w[1] = q /\ Len(w) = Len(t) + 1 /\ (\A i \in 1..Len(t) : w[i + 1] = t[i])
  BY PrefixIs
<1>2. Len(s) \in Nat /\ Len(t) \in Nat
  OBVIOUS
<1>3. PICK n : Lesser(s, t, n)
  BY BeforeIs
<1> HIDE DEF v, w
<1>4. n \in Nat \ {0} /\ n <= Len(s) /\ n <= Len(t) /\ (\A i \in 1..(n - 1) : s[i] = t[i]) /\ s[n] < t[n]
  BY <1>3 DEF Lesser
<1>5. n + 1 \in Nat \ {0} /\ n + 1 <= Len(v) /\ n + 1 <= Len(w)
  BY <1>1, <1>2, <1>4
<1>6. v[n + 1] < w[n + 1]
  <2>1. n \in 1..Len(s) /\ n \in 1..Len(t)
    BY <1>2, <1>4
  <2>2. v[n + 1] = s[n] /\ w[n + 1] = t[n]
    BY <1>1, <2>1
  <2> QED  BY <1>4, <2>2
<1>7. ASSUME NEW i \in 1..(n + 1 - 1)  PROVE v[i] = w[i]
  <2>1. CASE i = 1
    BY <1>1, <2>1
  <2>2. CASE i # 1
    <3>1. i - 1 \in 1..(n - 1) /\ i - 1 \in 1..Len(s) /\ i - 1 \in 1..Len(t) /\ i - 1 + 1 = i
      BY <1>2, <1>4, <2>2
    <3>2. v[i - 1 + 1] = s[i - 1] /\ w[i - 1 + 1] = t[i - 1] /\ s[i - 1] = t[i - 1]
      BY <1>1, <1>4, <3>1
    <3> QED  BY <3>1, <3>2
  <2> QED  BY <2>1, <2>2
<1>8. Lesser(v, w, n + 1)
  BY <1>4, <1>5, <1>6, <1>7 DEF Lesser
<1>9. Before(v, w)
  BY <1>1, <1>8, BeforeIs
<1> QED  BY <1>9 DEF v, w

(* The text of an included file fits behind that of the file up to the     *)
(* #include.                                                               *)
LEMMA OrderInsert ==
  ASSUME NEW text, NEW q \in Nat, FitText(text, q), NEW by \in Seq(Seq(Nat)), InOrder(by)
  PROVE  /\ FitText(text \o Prefixed(q, by), q + 1)
         /\ \A t : t \in Range(text \o Prefixed(q, by)) <=>
              t \in Range(text) \/ \E u \in Range(by) : t = <<q>> \o u
<1> DEFINE pre  == Prefixed(q, by)
           more == text \o pre
<1>1. text \in Seq(Seq(Nat)) /\ InOrder(text) /\ \A t \in Range(text) : t # <<>> /\ t[1] < q
  BY DEF FitText
<1>2. Len(by) \in Nat /\ DOMAIN by = 1..Len(by) /\ \A i \in 1..Len(by) : by[i] \in Seq(Nat)
  OBVIOUS
<1>3. pre = [i \in 1..Len(by) |-> <<q>> \o by[i]]
  BY <1>2 DEF Prefixed
<1>4. \A i \in 1..Len(by) : <<q>> \o by[i] \in Seq(Nat)
  BY <1>2, PrefixIs
<1>5. pre \in Seq(Seq(Nat)) /\ Len(pre) = Len(by) /\ \A i \in 1..Len(by) : pre[i] = <<q>> \o by[i]
  BY <1>2, <1>3, <1>4
<1> HIDE DEF pre
<1>6. /\ more \in Seq(Seq(Nat)) /\ Len(more) = Len(text) + Len(pre)
      /\ \A i \in 1..Len(text) + Len(pre) : more[i] = IF i <= Len(text) THEN text[i] ELSE pre[i - Len(text)]
  BY <1>1, <1>5, ConcatProperties
<1> DEFINE m == Len(text)
           n == Len(by)
<1>7. m \in Nat /\ n \in Nat
  BY <1>1, <1>2
<1>8. \A i \in 1..m : text[i] \in Range(text)
  BY <1>1 DEF Range
<1> HIDE DEF more, m, n
<1>9. Len(more) = m + n /\ \A i \in 1..m : more[i] = text[i]
  <2>1. Len(more) = m + n /\ \A i \in 1..m + n : more[i] = IF i <= m THEN text[i] ELSE pre[i - m]
    BY <1>5, <1>6 DEF m, n
  <2>2. \A i \in 1..m : i \in 1..m + n /\ i <= m
    BY <1>7
  <2> QED  BY <2>1, <2>2
<1>10. \A i \in 1..n : m + i \in 1..m + n /\ more[m + i] = <<q>> \o by[i]
  <2> TAKE i \in 1..n
  <2>1. m + i \in 1..m + n /\ ~(m + i <= m) /\ m + i - m = i
    BY <1>7
  <2>2. \A j \in 1..m + n : more[j] = IF j <= m THEN text[j] ELSE pre[j - m]
    BY <1>5, <1>6 DEF m, n
  <2>3. pre[i] = <<q>> \o by[i]
    BY <1>5 DEF n
  <2>4. more[m + i] = pre[i]
    BY <1>7, <2>1, <2>2
  <2> QED  BY <2>1, <2>3, <2>4
<1>11. \A i \in 1..m + n : i \in 1..m \/ \E j \in 1..n : i = m + j
  <2> TAKE i \in 1..m + n
  <2> SUFFICES ASSUME i \notin 1..m  PROVE i - m \in 1..n /\ i = m + (i - m)
    OBVIOUS
  <2> QED  BY <1>7
<1>12. DOMAIN more = 1..m + n
  <2>1. DOMAIN more = 1..Len(more)
    BY <1>6
  <2> QED  BY <1>9, <2>1
<1>13. \A t : t \in Range(more) <=> t \in Range(text) \/ \E u \in Range(by) : t = <<q>> \o u
  <2>1. \A t : t \in Range(text) <=> \E i \in 1..m : t = text[i]
    BY <1>1 DEF Range, m
  <2>2. \A u : u \in Range(by) <=> \E i \in 1..n : u = by[i]
    BY <1>2 DEF Range, n
  <2>3. \A t : t \in Range(more) <=> \E i \in 1..m + n : t = more[i]
    BY <1>12 DEF Range
  <2>4. \A i \in 1..m : i \in 1..m + n
    BY <1>7
  <2>5. ASSUME NEW t, t \in Range(more)
        PROVE  t \in Range(text) \/ \E u \in Range(by) : t = <<q>> \o u
    <3>1. PICK i \in 1..m + n : t = more[i]
      BY <2>3, <2>5
    <3>2. CASE i \in 1..m
      BY <1>9, <2>1, <3>1, <3>2
    <3>3. CASE i \notin 1..m
      <4>1. PICK j \in 1..n : i = m + j
        BY <1>11, <3>3
      <4>2. t = <<q>> \o by[j] /\ by[j] \in Range(by)
        BY <1>10, <2>2, <3>1, <4>1
      <4> QED  BY <4>2
    <3> QED  BY <3>2, <3>3
  <2>6. ASSUME NEW t, t \in Range(text)  PROVE t \in Range(more)
    BY <1>9, <2>1, <2>3, <2>4, <2>6
  <2>7. ASSUME NEW u \in Range(by)  PROVE <<q>> \o u \in Range(more)
    <3>1. PICK j \in 1..n : u = by[j]
      BY <2>2
    <3>2. m + j \in 1..m + n /\ more[m + j] = <<q>> \o u
      BY <1>10, <3>1
    <3> QED  BY <2>3, <3>2
  <2> QED  BY <2>5, <2>6, <2>7
<1>14. ASSUME NEW t \in Range(more)  PROVE t # <<>> /\ t[1] < q + 1
  <2>1. CASE t \in Range(text)
    <3>1. t \in Seq(Nat) /\ t # <<>> /\ t[1] < q
      BY <1>1, <2>1 DEF Range
    <3>2. t[1] \in Nat
      BY <3>1
    <3> QED  BY <3>1, <3>2
  <2>2. CASE \E u \in Range(by) : t = <<q>> \o u
    <3>1. PICK u \in Range(by) : t = <<q>> \o u
      BY <2>2
    <3>3. u \in Seq(Nat)
      BY <1>2 DEF Range
    <3>2. t # <<>> /\ t[1] = q
      BY <3>1, <3>3, PrefixIs
    <3> QED  BY <3>2
  <2> QED  BY <1>13, <2>1, <2>2
<1>15. ASSUME NEW i \in 1..(m + n - 1)  PROVE Before(more[i], more[i + 1])
  <2>1. CASE i < m
    <3>1. i \in 1..m /\ i + 1 \in 1..m /\ i \in 1..(m - 1)
      BY <1>7, <2>1
    <3> QED  BY <1>1, <1>9, <3>1 DEF InOrder, m
  <2>2. CASE i = m
    <3>1. i \in 1..m /\ 1 \in 1..n /\ m + 1 = i + 1
      BY <1>7, <2>2
    <3>2. more[i] = text[i] /\ more[i + 1] = <<q>> \o by[1] /\ by[1] \in Seq(Nat)
      BY <1>2, <1>9, <1>10, <3>1 DEF n
    <3> DEFINE v == text[i]
               w == <<q>> \o by[1]
    <3>3. w \in Seq(Nat) /\ w # <<>> /\ w[1] = q
      BY <3>2, PrefixIs
    <3>4. v \in Seq(Nat) /\ v # <<>> /\ v[1] < q
      BY <1>1, <1>8, <3>1 DEF m
    <3> HIDE DEF v, w
    <3>5. Before(v, w)
      BY <3>3, <3>4, BeforeHead
    <3> QED  BY <3>2, <3>5 DEF v, w
  <2>3. CASE i > m
    <3> DEFINE j == i - m
    <3>1. j \in 1..(n - 1) /\ j \in 1..n /\ j + 1 \in 1..n /\ m + j = i /\ m + (j + 1) = i + 1
      BY <1>7, <2>3
    <3> HIDE DEF j
    <3>2. more[i] = <<q>> \o by[j] /\ more[i + 1] = <<q>> \o by[j + 1]
      BY <1>10, <3>1
    <3>3. by[j] \in Seq(Nat) /\ by[j + 1] \in Seq(Nat) /\ Before(by[j], by[j + 1])
      BY <1>2, <3>1 DEF InOrder, n
    <3>4. Before(<<q>> \o by[j], <<q>> \o by[j + 1])
      BY <3>3, BeforePrefixed
    <3> QED  BY <3>2, <3>4
  <2> QED  BY <1>7, <2>1, <2>2, <2>3
<1>16. InOrder(more)
  <2>1. Len(more) - 1 = m + n - 1
    BY <1>7, <1>9
  <2>2. \A i \in 1..(m + n - 1) : Before(more[i], more[i + 1])
    BY <1>15
  <2> QED  BY <2>1, <2>2 DEF InOrder
<1> QED  BY <1>6, <1>13, <1>14, <1>16 DEF FitText, more, pre

(* What is left of a trail from a line on, and from the next on.           *)
LEMMA RestIs ==
  ASSUME NEW a \in Seq(Nat), NEW m \in Nat \ {0}, m <= Len(a) + 1
  PROVE  /\ Rest(a, m) \in Seq(Nat) /\ Len(Rest(a, m)) = Len(a) - m + 1
         /\ \A i \in 1..(Len(a) - m + 1) : Rest(a, m)[i] = a[i + m - 1]
<1> DEFINE l == Len(a) - m + 1
           u == Rest(a, m)
<1>1. Len(a) \in Nat /\ \A i \in 1..Len(a) : a[i] \in Nat
  OBVIOUS
<1>2. l \in Nat /\ \A i \in 1..l : i + m - 1 \in 1..Len(a)
  BY <1>1
<1>3. u = [i \in 1..l |-> a[i + m - 1]]
  BY DEF Rest
<1> HIDE DEF l, u
<1>4. \A i \in 1..l : a[i + m - 1] \in Nat
  BY <1>1, <1>2
<1>5. u \in Seq(Nat) /\ Len(u) = l /\ \A i \in 1..l : u[i] = a[i + m - 1]
  BY <1>2, <1>3, <1>4
<1> QED  BY <1>5 DEF l, u

LEMMA RestNext ==
  ASSUME NEW a \in Seq(Nat), NEW m \in Nat \ {0}, m + 1 <= Len(a)
  PROVE  Rest(a, m) = <<a[m]>> \o Rest(a, m + 1)
<1>1. Len(a) \in Nat /\ a[m] \in Nat /\ m + 1 \in Nat \ {0} /\ m + 1 <= Len(a) + 1 /\ m <= Len(a) + 1
  OBVIOUS
<1> DEFINE l == Len(a) - m
           u == Rest(a, m + 1)
           v == Rest(a, m)
           w == <<a[m]>> \o u
<1>2. l \in Nat /\ Len(a) - m + 1 = l + 1 /\ Len(a) - (m + 1) + 1 = l
      /\ \A i \in 1..l : i + (m + 1) - 1 = i + m
  BY <1>1
<1>3. v \in Seq(Nat) /\ Len(v) = Len(a) - m + 1 /\ \A i \in 1..(Len(a) - m + 1) : v[i] = a[i + m - 1]
  BY <1>1, RestIs
<1>4. /\ u \in Seq(Nat) /\ Len(u) = Len(a) - (m + 1) + 1
      /\ \A i \in 1..(Len(a) - (m + 1) + 1) : u[i] = a[i + (m + 1) - 1]
  BY <1>1, RestIs
<1> HIDE DEF l, u, v
<1>7. Len(v) = l + 1 /\ \A i \in 1..(l + 1) : v[i] = a[i + m - 1]
  BY <1>2, <1>3
<1>8. Len(u) = l /\ \A i \in 1..l : u[i] = a[i + m]
  BY <1>2, <1>4
<1>9. w \in Seq(Nat) /\ w[1] = a[m] /\ Len(w) = l + 1 /\ \A i \in 1..l : w[i + 1] = u[i]
  BY <1>1, <1>4, <1>8, PrefixIs
<1> HIDE DEF w
<1>10. ASSUME NEW i \in 1..(l + 1)  PROVE v[i] = w[i]
  <2>1. CASE i = 1
    <3>1. i + m - 1 = m
      BY <2>1
    <3> QED  BY <1>7, <1>9, <2>1, <3>1
  <2>2. CASE i # 1
    <3>1. i - 1 \in 1..l /\ i - 1 + 1 = i /\ i - 1 + m = i + m - 1
      BY <1>2, <2>2
    <3>2. w[i] = u[i - 1] /\ u[i - 1] = a[i + m - 1]
      BY <1>8, <1>9, <3>1
    <3> QED  BY <1>7, <3>2
  <2> QED  BY <2>1, <2>2
<1>11. v = w
  BY <1>3, <1>7, <1>9, <1>10, SeqEqual
<1> QED  BY <1>11 DEF u, v, w
----------------------------------------------------------------------------
(* An included file ends: the file that includes it goes on behind its     *)
(* #include, with the text of the other behind its own.                    *)
Closed(F, S, T, m) ==
  /\ m \in Nat \ {0} /\ Len(S) = m + 1 /\ S[m + 1].pos > Len(F[S[m + 1].file])
  /\ Len(T) = m /\ DOMAIN T = 1..m /\ \A d \in 1..(m - 1) : T[d] = S[d]
  /\ T[m].file = S[m].file /\ T[m].pos = S[m].pos + 1
  /\ T[m].text = S[m].text \o Prefixed(S[m].pos, S[m + 1].text)

(* The includer's line, and the trails to what is left of the stack.       *)
LEMMA ClosedAt ==
  ASSUME NEW F, NEW S, NEW T, NEW m, Files(F), Frames(F, S), Closed(F, S, T, m)
  PROVE  /\ m \in Nat \ {0} /\ m \in 1..Len(S) /\ m + 1 \in 1..Len(S)
         /\ \A d \in 1..m : d \in 1..Len(S)
         /\ \A d \in 1..m : d \in 1..(m - 1) \/ d = m
         /\ \A d \in 1..Len(S) : d \in 1..m \/ d = m + 1
         /\ \A d \in 1..(m - 1) : d \in 1..m /\ d # m /\ d # m + 1
         /\ \A a, d : d \in 1..m => (At(T, a, d) <=> At(S, a, d)) /\ (Along(T, a, d) <=> Along(S, a, d))
         /\ S[m].file \in DOMAIN F /\ Len(F[S[m].file]) \in Nat
         /\ S[m].pos \in Nat \ {0} /\ S[m].pos <= Len(F[S[m].file])
         /\ F[S[m].file][S[m].pos].kind = "include"
         /\ Len(F[S[m + 1].file]) \in Nat /\ S[m + 1].file \in DOMAIN F /\ S[m + 1].pos \in Nat
<1>1. m \in Nat \ {0} /\ Len(S) = m + 1
  BY DEF Closed
<1>2. /\ m \in 1..Len(S) /\ m + 1 \in 1..Len(S) /\ m < Len(S)
      /\ \A d \in 1..m : d \in 1..Len(S)
      /\ \A d \in 1..m : d \in 1..(m - 1) \/ d = m
      /\ \A d \in 1..Len(S) : d \in 1..m \/ d = m + 1
      /\ \A d \in 1..(m - 1) : d \in 1..m /\ d # m /\ d # m + 1
  BY <1>1
<1>3. /\ S[m].file \in DOMAIN F /\ S[m].pos \in 1..(Len(F[S[m].file]) + 1)
      /\ S[m].pos <= Len(F[S[m].file]) /\ F[S[m].file][S[m].pos].kind = "include"
  BY <1>2 DEF Frames
<1>4. S[m + 1].file \in DOMAIN F /\ S[m + 1].pos \in 1..(Len(F[S[m + 1].file]) + 1)
  BY <1>2 DEF Frames
<1>5. Len(F[S[m].file]) \in Nat /\ Len(F[S[m + 1].file]) \in Nat
  BY <1>3, <1>4 DEF Files
<1>6. S[m].pos \in Nat \ {0} /\ S[m + 1].pos \in Nat
  BY <1>3, <1>4, <1>5
<1>7. ASSUME NEW a, NEW d \in 1..m
      PROVE  (At(T, a, d) <=> At(S, a, d)) /\ (Along(T, a, d) <=> Along(S, a, d))
  <2>1. \A j \in 1..(d - 1) : j \in 1..(m - 1)
    BY <1>1
  <2>2. \A j \in 1..(d - 1) : T[j] = S[j]
    BY <2>1 DEF Closed
  <2> QED  BY <2>2 DEF At, Along
<1> QED  BY <1>1, <1>2, <1>3, <1>4, <1>5, <1>6, <1>7

(* A trail goes along the next frame if it goes by all lines up to there.  *)
LEMMA AlongNext ==
  ASSUME NEW S, NEW a, NEW m \in Nat \ {0}
  PROVE  Along(S, a, m + 1) <=> m + 1 <= Len(a) /\ \A j \in 1..m : a[j] = S[j].pos
<1>1. m + 1 - 1 = m
  OBVIOUS
<1> QED  BY <1>1 DEF Along

(* The text of the includer.                                               *)
LEMMA CloseText ==
  ASSUME NEW F, NEW S, NEW T, NEW m, Files(F), Frames(F, S), Ordered(S), Closed(F, S, T, m)
  PROVE  /\ FitText(T[m].text, S[m].pos + 1)
         /\ \A t : t \in Range(T[m].text) <=>
              t \in Range(S[m].text) \/ \E u \in Range(S[m + 1].text) : t = <<S[m].pos>> \o u
<1>1. /\ m \in 1..Len(S) /\ m + 1 \in 1..Len(S) /\ S[m].pos \in Nat
  BY ClosedAt
<1>2. FitText(S[m].text, S[m].pos)
  BY <1>1 DEF FitText, Frames, Ordered
<1>3. S[m + 1].text \in Seq(Seq(Nat)) /\ InOrder(S[m + 1].text)
  BY <1>1 DEF Frames, Ordered
<1>4. T[m].text = S[m].text \o Prefixed(S[m].pos, S[m + 1].text)
  BY DEF Closed
<1> DEFINE text == S[m].text
           by   == S[m + 1].text
           q    == S[m].pos
<1>5. FitText(text, q) /\ by \in Seq(Seq(Nat)) /\ InOrder(by) /\ q \in Nat
  BY <1>1, <1>2, <1>3
<1> HIDE DEF text, by, q
<1>6. /\ FitText(text \o Prefixed(q, by), q + 1)
      /\ \A t : t \in Range(text \o Prefixed(q, by)) <=>
           t \in Range(text) \/ \E u \in Range(by) : t = <<q>> \o u
  BY <1>5, OrderInsert
<1> QED  BY <1>4, <1>6 DEF text, by, q

LEMMA CloseFrames ==
  ASSUME NEW F, NEW S, NEW T, NEW m, Files(F), Frames(F, S), Ordered(S), Closed(F, S, T, m)
  PROVE  Frames(F, T) /\ Ordered(T)
<1>1. /\ m \in Nat \ {0} /\ m \in 1..Len(S) /\ \A d \in 1..m : d \in 1..(m - 1) \/ d = m
      /\ S[m].file \in DOMAIN F /\ Len(F[S[m].file]) \in Nat
      /\ S[m].pos \in Nat \ {0} /\ S[m].pos <= Len(F[S[m].file])
      /\ \A d \in 1..m : d \in 1..Len(S)
  BY ClosedAt
<1>2. /\ Len(T) = m /\ DOMAIN T = 1..m /\ (\A d \in 1..(m - 1) : T[d] = S[d]) /\ Len(S) = m + 1
      /\ T[m].file = S[m].file /\ T[m].pos = S[m].pos + 1
  BY DEF Closed
<1>3. FitText(T[m].text, S[m].pos + 1)
  BY CloseText
<1>4. ASSUME NEW d \in 1..m
      PROVE  /\ T[d].file \in DOMAIN F /\ T[d].pos \in 1..(Len(F[T[d].file]) + 1)
             /\ T[d].text \in Seq(Seq(Nat))
             /\ \A t \in Range(T[d].text) : t # <<>> /\ t[1] < T[d].pos
             /\ d < m => T[d].pos <= Len(F[T[d].file]) /\ F[T[d].file][T[d].pos].kind = "include"
             /\ InOrder(T[d].text)
  <2>1. CASE d \in 1..(m - 1)
    <3>1. T[d] = S[d] /\ d \in 1..Len(S) /\ d < Len(S)
      BY <1>1, <1>2, <2>1
    <3> QED  BY <3>1 DEF Frames, Ordered
  <2>2. CASE d = m
    <3>1. T[m].pos \in 1..(Len(F[T[m].file]) + 1) /\ ~(m < m)
      BY <1>1, <1>2
    <3> QED  BY <1>1, <1>2, <1>3, <2>2, <3>1 DEF FitText
  <2> QED  BY <1>1, <2>1, <2>2
<1> QED  BY <1>1, <1>2, <1>4 DEF Frames, Ordered

LEMMA CloseChain ==
  ASSUME NEW F, NEW S, NEW T, NEW m, NEW O, Files(F), Frames(F, S), History(F, O), Chain(S, O), Closed(F, S, T, m)
  PROVE  Chain(T, O)
<1>1. /\ m \in Nat \ {0} /\ \A d \in 1..m : d \in 1..(m - 1) \/ d = m
      /\ (\A d \in 1..m : d \in 1..Len(S)) /\ \A d \in 1..(m - 1) : d # m
      /\ S[m].pos \in Nat \ {0} /\ m \in 1..Len(S) /\ m \in 1..m
      /\ \A a, d : d \in 1..m => (At(T, a, d) <=> At(S, a, d)) /\ (Along(T, a, d) <=> Along(S, a, d))
  BY ClosedAt
<1>2. /\ Len(T) = m /\ (\A d \in 1..(m - 1) : T[d] = S[d])
      /\ T[m].file = S[m].file /\ T[m].pos = S[m].pos + 1
  BY DEF Closed
<1>3. \A d \in 1..m : \E k \in 1..Len(O) : At(T, O[k].at, d) /\ O[k].file = T[d].file
  <2> TAKE d \in 1..m
  <2>1. T[d].file = S[d].file
    BY <1>1, <1>2
  <2> QED  BY <1>1, <2>1 DEF Chain
<1>4. ASSUME NEW k \in 1..Len(O), NEW d \in 1..m, Along(T, O[k].at, d)
      PROVE  O[k].at[d] <= T[d].pos /\ (d = m => O[k].at[d] < T[d].pos)
  <2>1. Along(S, O[k].at, d) /\ d \in 1..Len(S)
    BY <1>1, <1>4
  <2>2. O[k].at[d] <= S[d].pos
    BY <2>1 DEF Chain
  <2>3. O[k].at \in Seq(Nat) /\ d \in 1..Len(O[k].at)
    BY <1>1, <2>1 DEF History, Along
  <2>4. O[k].at[d] \in Nat
    BY <2>3
  <2>5. CASE d \in 1..(m - 1)
    BY <1>1, <1>2, <2>2, <2>5
  <2>6. CASE d = m
    <3>1. O[k].at[d] < S[m].pos + 1
      BY <1>1, <2>2, <2>4, <2>6
    <3> QED  BY <1>1, <1>2, <2>4, <2>6, <3>1
  <2> QED  BY <1>1, <2>5, <2>6
<1>5. \A k, l \in 1..Len(O) : O[k].at = O[l].at => k = l
  BY DEF Chain
<1> QED  BY <1>2, <1>3, <1>4, <1>5 DEF Chain

LEMMA CloseSections ==
  ASSUME NEW F, NEW S, NEW T, NEW m, NEW O, Files(F), Frames(F, S), Sections(F, S, O), Closed(F, S, T, m)
  PROVE  Sections(F, T, O)
<1>1. /\ m \in Nat \ {0} /\ \A d \in 1..m : d \in 1..(m - 1) \/ d = m
      /\ (\A d \in 1..m : d \in 1..Len(S))
      /\ S[m].pos \in Nat \ {0} /\ m \in 1..Len(S) /\ F[S[m].file][S[m].pos].kind = "include"
      /\ \A a, d : d \in 1..m => (At(T, a, d) <=> At(S, a, d))
  BY ClosedAt
<1>2. /\ Len(T) = m /\ (\A d \in 1..(m - 1) : T[d] = S[d])
      /\ T[m].file = S[m].file /\ T[m].pos = S[m].pos + 1
  BY DEF Closed
<1>3. ASSUME NEW d \in 1..m, NEW k \in 1..Len(O), At(T, O[k].at, d),
             NEW i \in 1..(T[d].pos - 1), InSection(F, T[d].file, T[d].pos, i)
      PROVE  First(O, k)
  <2>1. At(S, O[k].at, d) /\ d \in 1..Len(S)
    BY <1>1, <1>3
  <2>2. CASE d \in 1..(m - 1)
    BY <1>2, <1>3, <2>1, <2>2 DEF Sections
  <2>3. CASE d = m
    <3>1. InSection(F, S[m].file, S[m].pos + 1, i)
      BY <1>2, <1>3, <2>3
    <3>2. i # S[m].pos
      BY <1>1, <3>1 DEF InSection
    <3>3. i \in 1..(S[m].pos - 1) /\ InSection(F, S[m].file, S[m].pos, i)
      BY <1>1, <3>1, <3>2, SectionBefore
    <3> QED  BY <2>1, <2>3, <3>3 DEF Sections
  <2> QED  BY <1>1, <2>2, <2>3
<1> QED  BY <1>2, <1>3 DEF Sections

LEMMA CloseDefined ==
  ASSUME NEW F, NEW S, NEW T, NEW m, NEW O, NEW M, Files(F), Frames(F, S), History(F, O), Chain(S, O),
         Defined(F, S, O, M), Closed(F, S, T, m)
  PROVE  Defined(F, T, O, M)
<1>1. /\ m \in Nat \ {0} /\ (\A d \in 1..m : d \in 1..(m - 1) \/ d = m)
      /\ (\A d \in 1..Len(S) : d \in 1..m \/ d = m + 1)
      /\ (\A d \in 1..m : d \in 1..Len(S)) /\ m + 1 \in 1..Len(S) /\ m \in 1..Len(S)
      /\ S[m].pos \in Nat \ {0} /\ F[S[m].file][S[m].pos].kind = "include"
      /\ Len(F[S[m + 1].file]) \in Nat /\ S[m + 1].pos \in Nat
      /\ \A a, d : d \in 1..m => (At(T, a, d) <=> At(S, a, d))
  BY ClosedAt
<1>2. /\ Len(T) = m /\ (\A d \in 1..(m - 1) : T[d] = S[d]) /\ T[m].pos = S[m].pos + 1
      /\ S[m + 1].pos > Len(F[S[m + 1].file])
  BY DEF Closed
<1>3. ASSUME NEW f, NEW i, IsGuard(F, f, i)
      PROVE  F[f][i].name \in M <=> \E k \in 1..Len(O) : O[k].file = f /\ First(O, k) /\ Past(T, O[k].at, i)
  <2>1. /\ i \in Nat /\ F[f][i + 1].kind = "define" /\ i + 2 <= Len(F[f])
    BY <1>3, GuardIs
  <2>2. ASSUME NEW k \in 1..Len(O), Past(S, O[k].at, i)  PROVE Past(T, O[k].at, i)
    <3> SUFFICES ASSUME NEW d \in 1..m, At(S, O[k].at, d)  PROVE T[d].pos > i + 1
      BY <1>1, <1>2 DEF Past
    <3>1. S[d].pos > i + 1
      BY <1>1, <2>2 DEF Past
    <3>2. CASE d = m
      BY <1>1, <1>2, <2>1, <3>1, <3>2
    <3> QED  BY <1>1, <1>2, <3>1, <3>2
  <2>3. ASSUME NEW k \in 1..Len(O), O[k].file = f, Past(T, O[k].at, i)  PROVE Past(S, O[k].at, i)
    <3> SUFFICES ASSUME NEW d \in 1..Len(S), At(S, O[k].at, d)  PROVE S[d].pos > i + 1
      BY DEF Past
    <3>1. S[d].file = f
      BY <2>3, FrameOpened
    <3>2. CASE d \in 1..(m - 1)
      <4>1. d \in 1..m
        BY <1>1, <3>2
      <4> QED  BY <1>1, <1>2, <2>3, <3>2, <4>1 DEF Past
    <3>3. CASE d = m
      <4>1. S[m].pos + 1 > i + 1
        BY <1>1, <1>2, <2>3, <3>3 DEF Past
      <4>2. S[m].pos # i + 1
        BY <1>1, <2>1, <3>1, <3>3
      <4> QED  BY <1>1, <2>1, <3>3, <4>1, <4>2
    <3>4. CASE d = m + 1
      BY <1>1, <1>2, <2>1, <3>1, <3>4
    <3> QED  BY <1>1, <3>2, <3>3, <3>4
  <2>4. F[f][i].name \in M <=> \E k \in 1..Len(O) : O[k].file = f /\ First(O, k) /\ Past(S, O[k].at, i)
    BY <1>3 DEF Defined
  <2> QED  BY <2>2, <2>3, <2>4
<1> QED  BY <1>3 DEF Defined

LEMMA CloseTexts ==
  ASSUME NEW F, NEW S, NEW T, NEW m, NEW O, Files(F), Frames(F, S), History(F, O), Chain(S, O), Ordered(S),
         Texts(F, S, O), Closed(F, S, T, m)
  PROVE  Texts(F, T, O)
<1>1. /\ m \in Nat \ {0} /\ (\A d \in 1..m : d \in 1..(m - 1) \/ d = m) /\ m \in 1..m
      /\ (\A d \in 1..m : d \in 1..Len(S)) /\ m + 1 \in 1..Len(S) /\ m \in 1..Len(S)
      /\ (\A d \in 1..(m - 1) : d \in 1..m)
      /\ S[m].pos \in Nat \ {0} /\ F[S[m].file][S[m].pos].kind = "include"
      /\ Len(F[S[m + 1].file]) \in Nat /\ S[m + 1].file \in DOMAIN F /\ S[m + 1].pos \in Nat
      /\ \A a, d : d \in 1..m => (Along(T, a, d) <=> Along(S, a, d))
  BY ClosedAt
<1>2. /\ Len(T) = m /\ (\A d \in 1..(m - 1) : T[d] = S[d]) /\ T[m].pos = S[m].pos + 1
      /\ S[m + 1].pos > Len(F[S[m + 1].file]) /\ Len(S) = m + 1
  BY DEF Closed
<1>3. \A t : t \in Range(T[m].text) <=>
        t \in Range(S[m].text) \/ \E u \in Range(S[m + 1].text) : t = <<S[m].pos>> \o u
  BY CloseText
<1>4. ASSUME NEW a, Asks(F, O, a), Along(S, a, m), a[m] = S[m].pos
      PROVE  a \in Seq(Nat) /\ m + 1 <= Len(a) /\ Along(S, a, m + 1)
  <2>1. PICK k \in 1..Len(O), i \in Nat :
          /\ a = Append(O[k].at, i) /\ O[k].at \in Seq(Nat) /\ Wants(F, O, k, i) /\ a \in Seq(Nat)
    BY <1>4, AsksType
  <2> DEFINE b == O[k].at
  <2>2. b \in Seq(Nat) /\ a = Append(b, i)
    BY <2>1
  <2>3. ~At(S, b, m)
    <3> SUFFICES ASSUME At(S, b, m)  PROVE FALSE
      OBVIOUS
    <3>1. O[k].file = S[m].file
      BY <1>1, FrameOpened
    <3> HIDE DEF b
    <3>2. a[m] = i
      <4> HIDE DEF b
      <4>2. m \in Nat \ {0} /\ b \in Seq(Nat)
        BY <1>1, <2>2
      <4>1. Along(S, Append(b, i), m) /\ Append(b, i)[m] = i /\ Len(Append(b, i)) = m
        BY <4>2, AtAppend
      <4> QED  BY <2>2, <4>1
    <3>3. F[O[k].file][i].kind = "text"
      BY <2>1 DEF Wants
    <3> QED  BY <1>1, <1>4, <3>1, <3>2, <3>3
  <2> HIDE DEF b
  <2>4. Along(S, b, m)
    BY <1>1, <1>4, <2>2, <2>3, AlongAppend
  <2>5. Len(b) \in Nat /\ Len(a) = Len(b) + 1
    BY <2>2
  <2>6. m + 1 <= Len(a)
    BY <1>1, <2>4, <2>5 DEF Along
  <2>7. \A j \in 1..m : a[j] = S[j].pos
    <3>1. \A j \in 1..m : j \in 1..(m - 1) \/ j = m
      BY <1>1
    <3> QED  BY <1>4, <3>1 DEF Along
  <2> QED  BY <1>1, <2>1, <2>6, <2>7, AlongNext
<1>5. ASSUME NEW a, Asks(F, O, a), Along(S, a, m + 1)
      PROVE  a \in Seq(Nat) /\ m + 1 <= Len(a) /\ Along(S, a, m) /\ a[m] = S[m].pos /\ a[m + 1] < S[m + 1].pos
  <2>1. m + 1 \in Nat \ {0} /\ m + 1 = Len(S) /\ m + 1 - 1 = m /\ \A j \in 1..(m - 1) : j \in 1..m
    BY <1>1, <1>2
  <2>2. PICK k \in 1..Len(O), i \in Nat :
          /\ Wants(F, O, k, i) /\ a \in Seq(Nat)
          /\ \/ Along(S, O[k].at, m + 1) /\ a[m + 1] = O[k].at[m + 1]
             \/ At(S, O[k].at, m + 1) /\ a[m + 1] = i /\ Len(a) = m + 1
    BY <1>5, <2>1, AskedAlong
  <2>3. m + 1 <= Len(a) /\ \A j \in 1..m : a[j] = S[j].pos
    BY <1>1, <1>5, AlongNext
  <2>4. m <= Len(a)
    <3>1. Len(a) \in Nat
      BY <2>2
    <3> QED  BY <1>1, <2>3, <3>1
  <2>5. a[m + 1] < S[m + 1].pos
    <3>1. CASE Along(S, O[k].at, m + 1) /\ a[m + 1] = O[k].at[m + 1]
      BY <1>1, <2>1, <3>1 DEF Chain
    <3>2. CASE At(S, O[k].at, m + 1) /\ a[m + 1] = i
      <4>1. O[k].file = S[m + 1].file
        BY <1>1, <3>2, FrameOpened
      <4>2. i \in 1..Len(F[S[m + 1].file])
        BY <1>1, <2>2, <4>1 DEF Wants, Files
      <4> QED  BY <1>1, <1>2, <3>2, <4>2
    <3> QED  BY <2>2, <3>1, <3>2
  <2> QED  BY <1>1, <2>1, <2>2, <2>3, <2>4, <2>5 DEF Along
<1>6. ASSUME NEW a, Reached(F, O, T, a, m)  PROVE Rest(a, m) \in Range(T[m].text)
  <2>1. Asks(F, O, a) /\ Along(S, a, m) /\ a[m] < S[m].pos + 1
    BY <1>1, <1>2, <1>6 DEF Reached
  <2>2. a[m] \in Nat
    <3>1. a \in Seq(Nat) /\ Len(a) \in Nat
      BY <2>1, AsksType
    <3>2. m \in 1..Len(a)
      BY <1>1, <2>1, <3>1 DEF Along
    <3> QED  BY <3>1, <3>2
  <2>3. CASE a[m] < S[m].pos
    BY <1>1, <1>3, <2>1, <2>3 DEF Reached, Texts
  <2>4. CASE a[m] = S[m].pos
    <3>1. a \in Seq(Nat) /\ m + 1 <= Len(a) /\ Along(S, a, m + 1)
      BY <1>4, <2>1, <2>4
    <3>2. a[m + 1] < S[m + 1].pos
      BY <1>5, <2>1, <3>1
    <3>3. Rest(a, m + 1) \in Range(S[m + 1].text)
      BY <1>1, <2>1, <3>1, <3>2 DEF Reached, Texts
    <3>4. Rest(a, m) = <<a[m]>> \o Rest(a, m + 1)
      BY <1>1, <3>1, RestNext
    <3> QED  BY <1>3, <2>4, <3>3, <3>4
  <2> QED  BY <1>1, <2>1, <2>2, <2>3, <2>4
<1>7. ASSUME NEW t \in Range(T[m].text)  PROVE \E a : Reached(F, O, T, a, m) /\ t = Rest(a, m)
  <2>1. CASE t \in Range(S[m].text)
    <3>1. PICK a : Reached(F, O, S, a, m) /\ t = Rest(a, m)
      BY <1>1, <2>1 DEF Texts
    <3>2. Asks(F, O, a) /\ Along(S, a, m) /\ a[m] < S[m].pos
      BY <3>1 DEF Reached
    <3>3. a[m] \in Nat
      <4>1. a \in Seq(Nat) /\ Len(a) \in Nat
        BY <3>2, AsksType
      <4>2. m \in 1..Len(a)
        BY <1>1, <3>2, <4>1 DEF Along
      <4> QED  BY <4>1, <4>2
    <3>4. a[m] < S[m].pos + 1
      BY <1>1, <3>2, <3>3
    <3> QED  BY <1>1, <1>2, <3>1, <3>2, <3>4 DEF Reached
  <2>2. CASE \E u \in Range(S[m + 1].text) : t = <<S[m].pos>> \o u
    <3>1. PICK u \in Range(S[m + 1].text) : t = <<S[m].pos>> \o u
      BY <2>2
    <3>2. PICK a : Reached(F, O, S, a, m + 1) /\ u = Rest(a, m + 1)
      BY <1>1 DEF Texts
    <3>3. Asks(F, O, a) /\ Along(S, a, m + 1)
      BY <3>2 DEF Reached
    <3>4. a \in Seq(Nat) /\ m + 1 <= Len(a) /\ Along(S, a, m) /\ a[m] = S[m].pos
      BY <1>5, <3>3
    <3>5. Rest(a, m) = <<a[m]>> \o Rest(a, m + 1)
      BY <1>1, <3>4, RestNext
    <3>6. a[m] < S[m].pos + 1
      BY <1>1, <3>4
    <3> QED  BY <1>1, <1>2, <3>1, <3>2, <3>3, <3>4, <3>5, <3>6 DEF Reached
  <2> QED  BY <1>3, <2>1, <2>2
<1>8. ASSUME NEW d \in 1..m
      PROVE  /\ \A a : Reached(F, O, T, a, d) => Rest(a, d) \in Range(T[d].text)
             /\ \A t \in Range(T[d].text) : \E a : Reached(F, O, T, a, d) /\ t = Rest(a, d)
  <2>1. CASE d \in 1..(m - 1)
    <3>1. T[d] = S[d] /\ d \in 1..Len(S)
      BY <1>1, <1>2, <2>1
    <3>2. \A a : Reached(F, O, T, a, d) <=> Reached(F, O, S, a, d)
      BY <1>1, <3>1 DEF Reached
    <3> QED  BY <3>1, <3>2 DEF Texts
  <2>2. CASE d = m
    BY <1>6, <1>7, <2>2
  <2> QED  BY <1>1, <2>1, <2>2
<1> QED  BY <1>2, <1>8 DEF Texts

(* The end of an included file.                                            *)
LEMMA CloseFile ==
  ASSUME NEW F, NEW S, NEW T, NEW m, NEW O, NEW M, Files(F), Whole(F, S, O, M), Closed(F, S, T, m)
  PROVE  Whole(F, T, O, M)
<1>1. /\ Frames(F, S) /\ History(F, O) /\ Chain(S, O) /\ Sections(F, S, O)
      /\ Defined(F, S, O, M) /\ Texts(F, S, O) /\ Ordered(S)
  BY DEF Whole
<1>2. Frames(F, T) /\ Ordered(T)
  BY <1>1, CloseFrames
<1>3. Chain(T, O)
  BY <1>1, CloseChain
<1>4. Sections(F, T, O)
  BY <1>1, CloseSections
<1>5. Defined(F, T, O, M)
  BY <1>1, CloseDefined
<1>6. Texts(F, T, O)
  BY <1>1, CloseTexts
<1> QED  BY <1>1, <1>2, <1>3, <1>4, <1>5, <1>6 DEF Whole
----------------------------------------------------------------------------
(* The line behind a section's #endif, counted by BehindEndif.             *)
LEMMA BehindSection ==
  ASSUME NEW i \in Nat \ {0}, Len(Lines) \in Nat, Lines[i].kind = "ifndef",
         NEW e \in (i + 2)..Len(Lines), Section(Lines, i, e)
  PROVE  BehindEndif(i) = e + 1
<1> DEFINE s == Lines
           T == {j \in i..Len(s) : Ifs(i, j) = Endifs(i, j)}
<1>1. /\ s[i].kind = "ifndef" /\ s[i + 1].kind = "define" /\ s[e].kind = "endif"
      /\ \A j \in (i + 1)..(e - 1) : s[j].kind \notin {"ifndef", "endif"}
  BY DEF Section
<1>2. e \in Nat /\ i + 2 <= e /\ e <= Len(s)
  OBVIOUS
<1>3. Cardinality({i}) = 1 /\ Cardinality({e}) = 1 /\ Cardinality({}) = 0
  BY FS_Singleton, FS_EmptySet
<1>4. ASSUME NEW j \in i..(e - 1)  PROVE Ifs(i, j) = 1 /\ Endifs(i, j) = 0
  <2> HIDE DEF s
  <2>1. \A k \in i..j : k = i \/ k \in (i + 1)..(e - 1)
    BY <1>2
  <2>2. i \in i..j
    BY <1>2
  <2>3. {k \in i..j : s[k].kind = "ifndef"} = {i}
    BY <1>1, <2>1, <2>2
  <2>4. {k \in i..j : s[k].kind = "endif"} = {}
    BY <1>1, <2>1
  <2> QED  BY <1>3, <2>3, <2>4 DEF Ifs, Endifs, s
<1>5. Ifs(i, e) = 1 /\ Endifs(i, e) = 1
  <2> HIDE DEF s
  <2>1. \A k \in i..e : k = i \/ k = e \/ k \in (i + 1)..(e - 1)
    BY <1>2
  <2>2. i \in i..e /\ e \in i..e /\ i # e
    BY <1>2
  <2>3. {k \in i..e : s[k].kind = "ifndef"} = {i}
    BY <1>1, <2>1, <2>2
  <2>4. {k \in i..e : s[k].kind = "endif"} = {e}
    BY <1>1, <2>1, <2>2
  <2> QED  BY <1>3, <2>3, <2>4 DEF Ifs, Endifs, s
<1>6. e \in T /\ \A j \in T : e <= j /\ j \in Nat
  <2>1. e \in i..Len(s)
    BY <1>2
  <2>2. \A j \in i..Len(s) : j \in Nat /\ (e <= j \/ j \in i..(e - 1))
    BY <1>2
  <2> HIDE DEF s
  <2> QED  BY <1>4, <1>5, <2>1, <2>2
<1> HIDE DEF T
<1>7. Min(T) \in T /\ \A j \in T : Min(T) <= j
  BY <1>6 DEF Min
<1> DEFINE m == Min(T)
<1>8. m \in Nat /\ e <= m /\ m <= e
  BY <1>6, <1>7
<1> HIDE DEF m
<1>9. m = e
  BY <1>2, <1>8
<1> QED  BY <1>9 DEF BehindEndif, T, m

(* The files of a command line are as the lemmas want them.                *)
LEMMA FilesOf == ASSUME WellFormed, NEW c \in Inputs  PROVE Files(c.files)
<1>1. \A f \in DOMAIN c.files : c.files[f] \in Seq(Range(c.files[f]))
  BY DEF WellFormed
<1>2. \A f \in DOMAIN c.files : Len(c.files[f]) \in Nat /\ DOMAIN c.files[f] = 1..Len(c.files[f])
  BY <1>1
<1> QED  BY <1>2 DEF Files, WellFormed

(* The innermost frame moves on.                                           *)
LEMMA MovesOn ==
  ASSUME DepthInv, NEW f, stack' = Append(Front(stack), f), f.file = Top.file,
         f.pos \in (Top.pos + 1)..(Len(Lines) + 1)
  PROVE  Moved(input.files, stack, stack', f.pos, f.text)
<1> DEFINE n == Len(stack)
           r == Front(stack)
<1>1. stack \in Seq(Range(stack)) /\ stack # <<>> /\ n \in Nat \ {0}
  BY DEF DepthInv
<1>2. r \in Seq(Range(stack)) /\ Len(r) = n - 1 /\ \A d \in 1..(n - 1) : r[d] = stack[d]
  BY <1>1, FrontIs
<1> HIDE DEF r
<1>3. /\ Len(stack') = n /\ DOMAIN stack' = 1..n
      /\ (\A d \in 1..(n - 1) : stack'[d] = stack[d]) /\ stack'[n] = f
  <2>1. stack' = Append(r, f)
    BY DEF r
  <2> QED  BY <1>1, <1>2, <2>1
<1> QED  BY <1>3 DEF Moved, Top, Last, Lines

(* In the middle of a file there is a line to read.                        *)
Reading(kind) ==
  /\ DepthInv /\ input \in Inputs /\ Files(input.files) /\ Whole(input.files, stack, opened, macros)
  /\ AtLine(kind)
LEMMA AtTheLine ==
  ASSUME NEW kind, Reading(kind)
  PROVE  /\ Top = stack[Len(stack)] /\ Lines = input.files[stack[Len(stack)].file]
         /\ Line = input.files[stack[Len(stack)].file][stack[Len(stack)].pos]
         /\ Line.kind = kind /\ Top.pos <= Len(Lines) /\ Top.pos \in Nat \ {0} /\ Len(Lines) \in Nat
         /\ Top.file \in DOMAIN input.files
         /\ DOMAIN Top = Fields /\ input' = input
<1>1. Inner(input.files, stack, opened, Len(stack))
  BY Innermost DEF Reading
<1>2. Top = stack[Len(stack)] /\ Lines = input.files[stack[Len(stack)].file]
      /\ Line = input.files[stack[Len(stack)].file][stack[Len(stack)].pos]
  BY DEF Top, Last, Lines, Line
<1>3. Top.pos \in Nat \ {0} /\ Len(Lines) \in Nat /\ Len(stack) \in 1..Len(stack)
      /\ Top.file \in DOMAIN input.files
  BY <1>1, <1>2 DEF Inner
<1>4. DOMAIN Top = Fields
  BY <1>2, <1>3 DEF Reading, DepthInv
<1> QED  BY <1>2, <1>3, <1>4 DEF Reading, AtLine

(* The lines that are passed one by one.                                   *)
LEMMA StepText ==
  ASSUME Reading("text"), TextLine
  PROVE  Whole(input.files, stack', opened', macros')
<1> DEFINE f == [Advanced(Top, Top.pos + 1) EXCEPT !.text = Append(@, <<Top.pos>>)]
<1>1. /\ Top = stack[Len(stack)] /\ Lines = input.files[stack[Len(stack)].file]
      /\ Line = input.files[stack[Len(stack)].file][stack[Len(stack)].pos]
      /\ Line.kind = "text" /\ Top.pos <= Len(Lines) /\ Top.pos \in Nat \ {0} /\ Len(Lines) \in Nat
      /\ DOMAIN Top = Fields
  BY AtTheLine
<1>2. stack' = Append(Front(stack), f) /\ opened' = opened /\ macros' = macros
  BY DEF TextLine
<1>3. f.file = Top.file /\ f.pos = Top.pos + 1 /\ f.text = Append(Top.text, <<Top.pos>>)
  BY <1>1 DEF Advanced, Fields
<1> HIDE DEF f
<1>4. f.pos \in (Top.pos + 1)..(Len(Lines) + 1)
  BY <1>1, <1>3
<1>5. Moved(input.files, stack, stack', f.pos, f.text)
  BY <1>2, <1>3, <1>4, MovesOn DEF Reading
<1>6. Moved(input.files, stack, stack', stack[Len(stack)].pos + 1,
            Append(stack[Len(stack)].text, <<stack[Len(stack)].pos>>))
  BY <1>1, <1>3, <1>5
<1>7. Whole(input.files, stack', opened, macros)
  BY <1>1, <1>6, PassText DEF Reading
<1> QED  BY <1>2, <1>7

(* A frame that goes on to line p.                                         *)
LEMMA Goes ==
  ASSUME NEW kind, Reading(kind), NEW p, Go(p), p \in (Top.pos + 1)..(Len(Lines) + 1)
  PROVE  Moved(input.files, stack, stack', p, stack[Len(stack)].text)
<1> DEFINE f == Advanced(Top, p)
<1>1. Top = stack[Len(stack)] /\ DOMAIN Top = Fields
  BY AtTheLine
<1>2. stack' = Append(Front(stack), f)
  BY DEF Go
<1>3. f.file = Top.file /\ f.pos = p /\ f.text = Top.text
  BY <1>1 DEF Advanced, Fields
<1> HIDE DEF f
<1>4. Moved(input.files, stack, stack', f.pos, f.text)
  BY <1>2, <1>3, MovesOn DEF Reading
<1> QED  BY <1>1, <1>3, <1>4

LEMMA StepDefine ==
  ASSUME Reading("define"), Define
  PROVE  Whole(input.files, stack', opened', macros')
<1>1. /\ Top = stack[Len(stack)] /\ Lines = input.files[stack[Len(stack)].file]
      /\ Line = input.files[stack[Len(stack)].file][stack[Len(stack)].pos]
      /\ Line.kind = "define" /\ Top.pos <= Len(Lines) /\ Top.pos \in Nat \ {0} /\ Len(Lines) \in Nat
  BY AtTheLine
<1>2. Go(Top.pos + 1) /\ opened' = opened /\ macros' = macros \cup {Line.name}
  BY DEF Define
<1>3. Top.pos + 1 \in (Top.pos + 1)..(Len(Lines) + 1)
  BY <1>1
<1>4. Moved(input.files, stack, stack', stack[Len(stack)].pos + 1, stack[Len(stack)].text)
  BY <1>1, <1>2, <1>3, Goes
<1>5. Whole(input.files, stack', opened,
            macros \cup {input.files[stack[Len(stack)].file][stack[Len(stack)].pos].name})
  BY <1>1, <1>4, PassDefine DEF Reading
<1> QED  BY <1>1, <1>2, <1>5

LEMMA StepEndif ==
  ASSUME Reading("endif"), Endif
  PROVE  Whole(input.files, stack', opened', macros')
<1>1. /\ Top = stack[Len(stack)] /\ Lines = input.files[stack[Len(stack)].file]
      /\ Line = input.files[stack[Len(stack)].file][stack[Len(stack)].pos]
      /\ Line.kind = "endif" /\ Top.pos <= Len(Lines) /\ Top.pos \in Nat \ {0} /\ Len(Lines) \in Nat
  BY AtTheLine
<1>2. Go(Top.pos + 1) /\ opened' = opened /\ macros' = macros
  BY DEF Endif
<1>3. Top.pos + 1 \in (Top.pos + 1)..(Len(Lines) + 1)
  BY <1>1
<1>4. Moved(input.files, stack, stack', stack[Len(stack)].pos + 1, stack[Len(stack)].text)
  BY <1>1, <1>2, <1>3, Goes
<1>5. Whole(input.files, stack', opened, macros)
  BY <1>1, <1>4, PassEndif DEF Reading
<1> QED  BY <1>2, <1>5

(* A section is entered or left out.                                       *)
LEMMA StepIfndef ==
  ASSUME Reading("ifndef"), Ifndef
  PROVE  Whole(input.files, stack', opened', macros')
<1> DEFINE n == Len(stack)
           F == input.files
<1>1. /\ Top = stack[n] /\ Lines = F[stack[n].file] /\ Line = F[stack[n].file][stack[n].pos]
      /\ Line.kind = "ifndef" /\ Top.pos <= Len(Lines) /\ Top.pos \in Nat \ {0} /\ Len(Lines) \in Nat
      /\ Top.file \in DOMAIN F
  BY AtTheLine
<1>2. /\ Go(IF Line.name \in macros THEN BehindEndif(Top.pos) ELSE Top.pos + 1)
      /\ opened' = opened /\ macros' = macros
  BY DEF Ifndef
<1>3. CASE Line.name \notin macros
  <2>1. Top.pos + 1 \in (Top.pos + 1)..(Len(Lines) + 1)
    BY <1>1
  <2>2. Moved(F, stack, stack', stack[n].pos + 1, stack[n].text)
    BY <1>1, <1>2, <1>3, <2>1, Goes
  <2>3. Whole(F, stack', opened, macros)
    BY <1>1, <1>3, <2>2, EnterSection DEF Reading
  <2> QED  BY <1>2, <2>3
<1>4. CASE Line.name \in macros
  <2>1. DOMAIN Lines = 1..Len(Lines) /\ Files(F)
    BY <1>1 DEF Reading, Files
  <2>2. Top.pos \in DOMAIN Lines
    BY <1>1, <2>1
  <2>3. PICK e \in (Top.pos + 2)..Len(Lines) : Section(Lines, Top.pos, e)
    BY <1>1, <2>1, <2>2 DEF Files, GuardsOnly, Line
  <2>4. Lines[Top.pos].kind = "ifndef"
    BY <1>1 DEF Line
  <2>5. BehindEndif(Top.pos) = e + 1
    BY <1>1, <2>3, <2>4, BehindSection
  <2>6. e \in Nat /\ e + 1 \in (Top.pos + 1)..(Len(Lines) + 1) /\ Top.pos + 2 <= e
    BY <1>1, <2>3
  <2>7. Moved(F, stack, stack', e + 1, stack[n].text)
    BY <1>2, <1>4, <2>5, <2>6, Goes
  <2>8. Whole(F, stack', opened, macros)
    BY <1>1, <1>4, <2>3, <2>6, <2>7, SkipSection DEF Reading
  <2> QED  BY <1>2, <2>8
<1> QED  BY <1>3, <1>4
----------------------------------------------------------------------------
(* What is asked for along the main file.                                  *)
LEMMA AskedMain ==
  ASSUME NEW F, Files(F), NEW S, NEW O, History(F, O), NEW a, Asks(F, O, a), Along(S, a, 1)
  PROVE  \E k \in 1..Len(O), i \in Nat :
           /\ Wants(F, O, k, i) /\ a \in Seq(Nat)
           /\ \/ Along(S, O[k].at, 1) /\ a[1] = O[k].at[1]
              \/ At(S, O[k].at, 1) /\ a[1] = i /\ Len(a) = 1
<1> DEFINE d == 1
<1>1. d \in Nat \ {0} /\ Along(S, a, d)
  OBVIOUS
<1> HIDE DEF d
<1>2. \E k \in 1..Len(O), i \in Nat :
        /\ Wants(F, O, k, i) /\ a \in Seq(Nat)
        /\ \/ Along(S, O[k].at, d) /\ a[d] = O[k].at[d]
           \/ At(S, O[k].at, d) /\ a[d] = i /\ Len(a) = d
  BY <1>1, AskedAlong
<1> QED  BY <1>2 DEF d

(* The main file is opened, at its first line.                             *)
LEMMA TextInit == ASSUME WellFormed, Init  PROVE TextInv
<1> DEFINE F == input.files
           S == stack
           O == opened
<1>1. /\ input \in Inputs /\ stack = <<Preprocess(Main, 0)>> /\ macros = {} /\ status = "run"
      /\ opened = <<[file |-> Place(Main), path |-> Main, at |-> <<>>, line |-> [kind |-> "main"]]>>
  BY DEF Init
<1>2. Files(F) /\ Place(Main) \in DOMAIN F
  BY <1>1, FilesOf DEF WellFormed
<1>3. /\ Len(S) = 1 /\ DOMAIN S = 1..1 /\ S[1].file = Place(Main) /\ S[1].pos = 1 /\ S[1].text = <<>>
  BY <1>1 DEF Preprocess
<1>4. /\ Len(O) = 1 /\ DOMAIN O = 1..1 /\ O[1].file = Place(Main) /\ O[1].at = <<>>
  BY <1>1
<1> HIDE DEF F, S, O
<1>5. Len(F[Place(Main)]) \in Nat
  BY <1>2 DEF Files
<1>6. Range(<<>>) = {} /\ InOrder(<<>>) /\ <<>> \in Seq(Seq(Nat)) /\ <<>> \in Seq(Nat) /\ Len(<<>>) = 0
  BY DEF Range, InOrder
<1>7. At(S, O[1].at, 1) /\ ~Along(S, O[1].at, 1)
  BY <1>4, <1>6 DEF At, Along
<1>8. \A d \in 1..1 : d = 1
  OBVIOUS
<1>9. Frames(F, S)
  <2>1. 1 \in Nat \ {0} /\ ~(1 < 1) /\ 1 \in 1..(Len(F[Place(Main)]) + 1)
    BY <1>5
  <2> QED  BY <1>2, <1>3, <1>6, <1>8, <2>1 DEF Frames
<1>10. History(F, O)
  <2>1. Len(O) \in Nat /\ DOMAIN O = 1..Len(O)
    BY <1>4
  <2>2. \A k \in 1..Len(O) : O[k].file \in DOMAIN F /\ O[k].at \in Seq(Nat)
    BY <1>2, <1>4, <1>6, <1>8
  <2> QED  BY <2>1, <2>2 DEF History
<1>11. Chain(S, O)
  BY <1>3, <1>4, <1>7, <1>8 DEF Chain
<1>12. Sections(F, S, O)
  <2>1. 1..(1 - 1) = {}
    OBVIOUS
  <2> QED  BY <1>3, <1>8, <2>1 DEF Sections
<1>13. Defined(F, S, O, {})
  <2> SUFFICES ASSUME NEW f, NEW i, IsGuard(F, f, i), NEW k \in 1..Len(O), Past(S, O[k].at, i)
               PROVE  FALSE
    BY DEF Defined
  <2>1. i \in Nat /\ k = 1
    BY <1>2, <1>4, GuardIs
  <2>2. 1 > i + 1
    BY <1>3, <1>7, <2>1 DEF Past
  <2> QED  BY <2>1, <2>2
<1>14. Texts(F, S, O)
  <2>1. ASSUME NEW a, Reached(F, O, S, a, 1)  PROVE FALSE
    <3>1. Asks(F, O, a) /\ Along(S, a, 1) /\ a[1] < 1
      BY <1>3, <2>1 DEF Reached
    <3>2. PICK k \in 1..Len(O), i \in Nat :
            /\ Wants(F, O, k, i) /\ a \in Seq(Nat)
            /\ \/ Along(S, O[k].at, 1) /\ a[1] = O[k].at[1]
               \/ At(S, O[k].at, 1) /\ a[1] = i /\ Len(a) = 1
      BY <1>2, <1>10, <3>1, AskedMain
    <3>3. k = 1
      BY <1>4
    <3>4. a[1] = i /\ i \in 1..Len(F[Place(Main)])
      BY <1>2, <1>4, <1>7, <3>2, <3>3 DEF Wants, Files
    <3> QED  BY <1>5, <3>1, <3>4
  <2> QED  BY <1>3, <1>6, <1>8, <2>1 DEF Texts
<1>15. Ordered(S)
  BY <1>3, <1>6, <1>8 DEF Ordered
<1>16. Whole(F, S, O, macros)
  BY <1>1, <1>9, <1>10, <1>11, <1>12, <1>13, <1>14, <1>15 DEF Whole
<1> QED  BY <1>1, <1>16 DEF TextInv, F, S, O

(* An #include of a file that can be read opens it.                        *)
LEMMA StepInclude ==
  ASSUME DepthInv, DepsInv, input \in Inputs, Files(input.files),
         Whole(input.files, stack, opened, macros), Include
  PROVE  Whole(input.files, stack', opened', macros') /\ status' # "done" /\ input' = input
<1> DEFINE n    == Len(stack)
           path == resolved(Line)
           f    == Preprocess(path, include_depth(Top.depth))
           o    == [file |-> Place(path), path |-> path, at |-> Trail, line |-> Line]
           l    == Len(opened) + 1
<1>1. /\ Top.pos <= Len(Lines) /\ Line.kind = "include" /\ macros' = macros /\ input' = input
      /\ status' # "done"
      /\ status' = "run" => Readable(path)
      /\ IF status' = "run" THEN stack' = Append(stack, f) /\ opened' = Append(opened, o)
         ELSE stack' = stack /\ opened' = opened
  BY DEF Include
<1>2. CASE status' # "run"
  BY <1>1, <1>2
<1>3. CASE status' = "run"
  <2>1. /\ f.file = Place(path) /\ f.pos = 1 /\ f.text = <<>> /\ Place(path) \in DOMAIN input.files
        /\ o.file = Place(path) /\ o.at = Trail
    BY <1>1, <1>3 DEF Preprocess, Readable
  <2>2. Inner(input.files, stack, opened, n)
    BY Innermost
  <2>3. /\ Line = input.files[stack[n].file][stack[n].pos] /\ Lines = input.files[stack[n].file]
        /\ Top = stack[n]
    BY DEF Top, Last, Lines, Line
  <2>4. stack \in Seq(Range(stack)) /\ n \in Nat \ {0} /\ DOMAIN stack = 1..n
    BY DEF DepthInv
  <2>5. opened \in Seq(Range(opened)) /\ Len(opened) \in Nat
    BY DEF DepsInv
  <2>6. \A d \in 1..n : stack[d].pos \in Nat
    <3> TAKE d \in 1..n
    <3>1. stack[d].file \in DOMAIN input.files /\ stack[d].pos \in 1..(Len(input.files[stack[d].file]) + 1)
      BY DEF Whole, Frames
    <3>2. Len(input.files[stack[d].file]) \in Nat
      BY <3>1 DEF Files
    <3> QED  BY <3>1, <3>2
  <2>7. Trail \in Seq(Nat) /\ Len(Trail) = n /\ \A d \in 1..n : Trail[d] = stack[d].pos
    <3>1. Trail = [d \in 1..n |-> stack[d].pos]
      BY <2>4 DEF Trail
    <3> QED  BY <2>4, <2>6, <3>1
  <2> HIDE DEF f, o
  <2>8. /\ Len(stack') = n + 1 /\ DOMAIN stack' = 1..(n + 1)
        /\ (\A d \in 1..n : stack'[d] = stack[d]) /\ stack'[n + 1] = f
    BY <1>1, <1>3, <2>4
  <2>9. /\ Len(opened') = Len(opened) + 1 /\ DOMAIN opened' = 1..(Len(opened) + 1)
        /\ (\A k \in 1..Len(opened) : opened'[k] = opened[k]) /\ opened'[Len(opened) + 1] = o
    BY <1>1, <1>3, <2>5
  <2>10. Opened(input.files, stack, stack', opened, opened', n)
    BY <1>1, <2>1, <2>3, <2>7, <2>8, <2>9 DEF Opened
  <2>11. Whole(input.files, stack', opened', macros)
    BY <2>10, OpenFile
  <2> QED  BY <1>1, <2>11
<1> QED  BY <1>2, <1>3

(* The end of a file gives its text to the includer, or ends it all.       *)
LEMMA StepEnd ==
  ASSUME DepthInv, input \in Inputs, Files(input.files),
         Whole(input.files, stack, opened, macros), EndOfFile
  PROVE  /\ Whole(input.files, stack', opened', macros') /\ input' = input
         /\ status' = "done" => Len(stack') = 1 /\ stack'[1].pos > Len(input.files[stack'[1].file])
<1> DEFINE n == Len(stack)
           s == Front(Front(stack))
           h == stack[n - 1]
           f == [Advanced(h, h.pos + 1) EXCEPT !.text = insert_pp_tokens(@, h.pos, Top.text)]
<1>1. /\ status = "run" /\ Top.pos > Len(Lines) /\ opened' = opened /\ macros' = macros /\ input' = input
      /\ IF n = 1 THEN status' = "done" /\ stack' = stack
         ELSE stack' = Append(s, f) /\ status' = status
  BY DEF EndOfFile
<1>2. /\ Lines = input.files[stack[n].file] /\ Top = stack[n]
      /\ stack \in Seq(Range(stack)) /\ stack # <<>> /\ n \in Nat \ {0} /\ DOMAIN stack = 1..n
  BY DEF Top, Last, Lines, DepthInv
<1>3. CASE n = 1
  BY <1>1, <1>2, <1>3
<1>4. CASE n # 1
  <2>1. n - 1 \in Nat \ {0} /\ n = (n - 1) + 1 /\ (n - 1) - 1 = n - 2 /\ n - 1 \in 1..n
    BY <1>2, <1>4
  <2>2. /\ s \in Seq(Range(stack)) /\ Len(s) = n - 2
        /\ \A i \in 1..(n - 2) : s[i] = stack[i]
    <3> DEFINE r == Front(stack)
    <3>1. /\ r \in Seq(Range(stack)) /\ Len(r) = n - 1
          /\ \A i \in 1..(n - 1) : r[i] = stack[i]
      BY <1>2, FrontIs
    <3> HIDE DEF r
    <3>2. r # <<>>
      BY <2>1, <3>1
    <3>3. /\ Front(r) \in Seq(Range(stack)) /\ Len(Front(r)) = Len(r) - 1
          /\ \A i \in 1..(Len(r) - 1) : Front(r)[i] = r[i]
      BY <3>1, <3>2, FrontIs
    <3>4. \A i \in 1..(n - 2) : i \in 1..(n - 1)
      BY <1>2
    <3> QED  BY <2>1, <3>1, <3>3, <3>4 DEF r
  <2>3. DOMAIN h = Fields
    BY <2>1 DEF DepthInv
  <2>4. f.file = h.file /\ f.pos = h.pos + 1 /\ f.text = insert_pp_tokens(h.text, h.pos, Top.text)
    BY <2>3 DEF Advanced, Fields
  <2> HIDE DEF s, f
  <2>5. /\ Len(stack') = n - 1 /\ DOMAIN stack' = 1..(n - 1)
        /\ (\A d \in 1..(n - 2) : stack'[d] = stack[d]) /\ stack'[n - 1] = f
    <3>1. Len(s) + 1 = n - 1
      BY <1>2, <2>2
    <3>2. /\ Len(Append(s, f)) = Len(s) + 1 /\ DOMAIN Append(s, f) = 1..(Len(s) + 1)
          /\ (\A d \in 1..Len(s) : Append(s, f)[d] = s[d]) /\ Append(s, f)[Len(s) + 1] = f
      BY <2>2
    <3> QED  BY <1>1, <1>4, <2>2, <3>1, <3>2
  <2>6. f.text = h.text \o Prefixed(h.pos, stack[n].text)
    BY <1>2, <2>4 DEF insert_pp_tokens, Prefixed
  <2> DEFINE m == n - 1
  <2>7. /\ m \in Nat \ {0} /\ n = m + 1 /\ \A d \in 1..(m - 1) : stack'[d] = stack[d]
        /\ Len(stack') = m /\ DOMAIN stack' = 1..m
        /\ stack'[m].file = stack[m].file /\ stack'[m].pos = stack[m].pos + 1
        /\ stack'[m].text = stack[m].text \o Prefixed(stack[m].pos, stack[n].text)
    BY <2>1, <2>4, <2>5, <2>6
  <2> HIDE DEF m
  <2>8. Closed(input.files, stack, stack', m)
    BY <1>1, <1>2, <2>7 DEF Closed
  <2>9. Whole(input.files, stack', opened, macros)
    BY <2>8, CloseFile
  <2>10. status' # "done"
    BY <1>1, <1>4
  <2> QED  BY <1>1, <2>9, <2>10
<1> QED  BY <1>3, <1>4

(* Every line keeps the invariant.                                         *)
LEMMA TextNext == ASSUME WellFormed, DepthInv, DepsInv, TextInv, [Next]_vars  PROVE TextInv'
<1>1. input \in Inputs /\ Files(input.files) /\ Whole(input.files, stack, opened, macros)
  BY FilesOf DEF TextInv
<1>2. ASSUME NEW kind, AtLine(kind)
      PROVE  Reading(kind) /\ input' = input /\ status' = "run"
  BY <1>1, <1>2 DEF Reading, AtLine
<1>3. CASE TextLine
  <2>1. AtLine("text")
    BY <1>3 DEF TextLine
  <2>2. Whole(input.files, stack', opened', macros')
    BY <1>2, <1>3, <2>1, StepText
  <2> QED  BY <1>1, <1>2, <2>1, <2>2 DEF TextInv
<1>4. CASE Define
  <2>1. AtLine("define")
    BY <1>4 DEF Define
  <2>2. Whole(input.files, stack', opened', macros')
    BY <1>2, <1>4, <2>1, StepDefine
  <2> QED  BY <1>1, <1>2, <2>1, <2>2 DEF TextInv
<1>5. CASE Ifndef
  <2>1. AtLine("ifndef")
    BY <1>5 DEF Ifndef
  <2>2. Whole(input.files, stack', opened', macros')
    BY <1>2, <1>5, <2>1, StepIfndef
  <2> QED  BY <1>1, <1>2, <2>1, <2>2 DEF TextInv
<1>6. CASE Endif
  <2>1. AtLine("endif")
    BY <1>6 DEF Endif
  <2>2. Whole(input.files, stack', opened', macros')
    BY <1>2, <1>6, <2>1, StepEndif
  <2> QED  BY <1>1, <1>2, <2>1, <2>2 DEF TextInv
<1>7. CASE Include
  <2>1. Whole(input.files, stack', opened', macros') /\ status' # "done" /\ input' = input
    BY <1>1, <1>7, StepInclude
  <2> QED  BY <1>1, <2>1 DEF TextInv
<1>8. CASE EndOfFile
  <2>1. /\ Whole(input.files, stack', opened', macros') /\ input' = input
        /\ status' = "done" => Len(stack') = 1 /\ stack'[1].pos > Len(input.files[stack'[1].file])
    BY <1>1, <1>8, StepEnd
  <2> QED  BY <1>1, <2>1 DEF TextInv
<1>9. CASE UNCHANGED vars
  BY <1>9 DEF TextInv, vars
<1> QED  BY <1>3, <1>4, <1>5, <1>6, <1>7, <1>8, <1>9 DEF Next
----------------------------------------------------------------------------
(* What Asked collects are the trails that are asked for.                  *)
LEMMA AskedIs ==
  ASSUME Files(input.files), History(input.files, opened), NEW a
  PROVE  a \in Asked <=> Asks(input.files, opened, a)
<1>1. ASSUME NEW k \in DOMAIN opened
      PROVE  /\ opened[k].file \in DOMAIN input.files
             /\ \A i \in DOMAIN input.files[opened[k].file] : i \in Nat
  <2>1. opened[k].file \in DOMAIN input.files
    BY <1>1 DEF History
  <2>2. DOMAIN input.files[opened[k].file] = 1..Len(input.files[opened[k].file])
    BY <2>1 DEF Files
  <2> QED  BY <2>1, <2>2
<1>2. \A f, j : Guarded(f, j) <=> IsGuarded(input.files, f, j)
  BY DEF Guarded, Guards, IsGuarded
<1>3. \A k : FirstTime(k) <=> First(opened, k)
  BY DEF FirstTime, First
<1>4. a \in Asked <=>
        \E k \in DOMAIN opened : \E i \in DOMAIN input.files[opened[k].file] :
          /\ input.files[opened[k].file][i].kind = "text"
          /\ Guarded(opened[k].file, i) => FirstTime(k)
          /\ a = Append(opened[k].at, i)
  BY DEF Asked
<1> QED  BY <1>1, <1>2, <1>3, <1>4 DEF Asks, Wants

(* At the end of the main file all that is asked for was reached.          *)
LEMMA TextAtEnd == ASSUME WellFormed, TextInv  PROVE TextInPlace
<1> DEFINE F == input.files
           S == stack
           O == opened
<1> SUFFICES ASSUME status = "done"
             PROVE  Range(S[1].text) = Asked /\ InOrder(S[1].text)
  BY DEF TextInPlace, InOrder
<1>1. /\ Files(F) /\ Frames(F, S) /\ History(F, O) /\ Chain(S, O) /\ Texts(F, S, O) /\ Ordered(S)
      /\ Len(S) = 1 /\ S[1].pos > Len(F[S[1].file])
  BY FilesOf DEF TextInv, Whole
<1>2. \A a : a \in Asked <=> Asks(F, O, a)
  BY <1>1, AskedIs
<1> HIDE DEF F, S, O
<1>3. 1 \in 1..Len(S) /\ 1 = Len(S) /\ 1 \in Nat \ {0}
  BY <1>1
<1>4. Len(F[S[1].file]) \in Nat /\ S[1].pos \in Nat
  <2>1. S[1].file \in DOMAIN F /\ S[1].pos \in 1..(Len(F[S[1].file]) + 1)
    BY <1>1, <1>3 DEF Frames
  <2>2. Len(F[S[1].file]) \in Nat
    BY <1>1, <2>1 DEF Files
  <2> QED  BY <2>1, <2>2
<1>5. ASSUME NEW a, Asks(F, O, a)  PROVE Reached(F, O, S, a, 1) /\ Rest(a, 1) = a
  <2>1. PICK b \in Seq(Nat), i \in Nat : a = Append(b, i)
    BY <1>1, <1>5, AsksType
  <2>2. a \in Seq(Nat) /\ Len(a) \in Nat /\ 1 <= Len(a)
    BY <2>1
  <2>3. Along(S, a, 1)
    <3>1. 1..(1 - 1) = {}
      OBVIOUS
    <3> QED  BY <2>2, <3>1 DEF Along
  <2>4. PICK k \in 1..Len(O), j \in Nat :
          /\ Wants(F, O, k, j) /\ a \in Seq(Nat)
          /\ \/ Along(S, O[k].at, 1) /\ a[1] = O[k].at[1]
             \/ At(S, O[k].at, 1) /\ a[1] = j /\ Len(a) = 1
    BY <1>1, <1>5, <2>3, AskedMain
  <2>5. ASSUME Along(S, O[k].at, 1), a[1] = O[k].at[1]  PROVE a[1] < S[1].pos
    BY <1>1, <1>3, <2>5 DEF Chain
  <2>6. ASSUME At(S, O[k].at, 1), a[1] = j  PROVE a[1] < S[1].pos
    <3>1. O[k].file = S[1].file
      <4>1. PICK d \in 1..Len(S) : d = 1 /\ At(S, O[k].at, d)
        BY <1>3, <2>6
      <4> QED  BY <1>1, <4>1, FrameOpened
    <3>3. S[1].file \in DOMAIN F
      BY <1>1, <1>3 DEF Frames
    <3>2. j \in 1..Len(F[S[1].file])
      BY <1>1, <2>4, <3>1, <3>3 DEF Wants, Files
    <3> QED  BY <1>1, <1>4, <2>6, <3>2
  <2>7. a[1] < S[1].pos
    BY <2>4, <2>5, <2>6
  <2>8. Rest(a, 1) = a
    <3>1. 1 <= Len(a) + 1 /\ Len(a) - 1 + 1 = Len(a) /\ \A x \in 1..Len(a) : x + 1 - 1 = x
      BY <2>2
    <3> DEFINE r == Rest(a, 1)
    <3>2. /\ r \in Seq(Nat) /\ Len(r) = Len(a) - 1 + 1
          /\ \A x \in 1..(Len(a) - 1 + 1) : r[x] = a[x + 1 - 1]
      BY <1>3, <2>2, <3>1, RestIs
    <3> HIDE DEF r
    <3>3. Len(r) = Len(a) /\ \A x \in 1..Len(r) : r[x] = a[x]
      BY <3>1, <3>2
    <3>4. r = a
      BY <2>2, <3>2, <3>3, SeqEqual
    <3> QED  BY <3>4 DEF r
  <2> QED  BY <1>5, <2>3, <2>7, <2>8 DEF Reached
<1>6. \A t : t \in Range(S[1].text) <=> Asks(F, O, t)
  <2>1. ASSUME NEW t, t \in Range(S[1].text)  PROVE Asks(F, O, t)
    <3>1. PICK a : Reached(F, O, S, a, 1) /\ t = Rest(a, 1)
      BY <1>1, <1>3, <2>1 DEF Texts
    <3>2. Asks(F, O, a)
      BY <3>1 DEF Reached
    <3> QED  BY <1>5, <3>1, <3>2
  <2>2. ASSUME NEW t, Asks(F, O, t)  PROVE t \in Range(S[1].text)
    <3>1. Reached(F, O, S, t, 1) /\ Rest(t, 1) = t
      BY <1>5, <2>2
    <3>2. Rest(t, 1) \in Range(S[1].text)
      BY <1>1, <1>3, <3>1 DEF Texts
    <3> QED  BY <3>1, <3>2
  <2> QED  BY <2>1, <2>2
<1>7. Range(S[1].text) = Asked
  BY <1>2, <1>6
<1>8. InOrder(S[1].text)
  BY <1>1, <1>3 DEF Ordered
<1> QED  BY <1>7, <1>8

(* The text of a program whose sections are include guards is what its     *)
(* inclusions ask for, in the order of the lines, with that of a file at   *)
(* the line that includes it and no line of a guarded file twice: for any  *)
(* files, however they include each other, and any depth.                  *)
THEOREM InclusionTextInPlace == ASSUME WellFormed  PROVE Spec => []TextInPlace
<1>1. Init => TextInv
  BY TextInit
<1>2. DepthInv /\ DepsInv /\ TextInv /\ [Next]_vars => TextInv'
  BY TextNext
<1>3. TextInv => TextInPlace
  BY TextAtEnd
<1> QED  BY <1>1, <1>2, <1>3, DepthInit, DepthNext, DepsInit, DepsNext, PTL DEF Spec
=============================================================================
