--------------------------- MODULE CondReference ---------------------------
(***************************************************************************)
(* What conditional inclusion promises of a file, said of the file as a    *)
(* whole and not of any way to process it.  L is a sequence of lines and   *)
(* T[b] tells whether the condition of directive b held where it stands.   *)
(*   if-section: if-group elif-groups? else-group? endif-line              *)
(***************************************************************************)
EXTENDS Integers, Sequences, FiniteSetsExt

Of(L, k, S) == {j \in S : L[j].kind = k}

(* Sections open in front of line i.                                       *)
Depth(L, i) == Cardinality(Of(L, "if", 1..(i - 1))) - Cardinality(Of(L, "endif", 1..(i - 1)))

(* The section that #if o opens is over before line i.                     *)
Closed(L, o, i) ==
  \E e \in Of(L, "endif", (o + 1)..(i - 1)) : Depth(L, e) = Depth(L, o) + 1

(* The #elif and #else lines of that section before line i, with its #if.  *)
Branches(L, o, i) ==
  {o} \cup {b \in Of(L, "elif", (o + 1)..(i - 1)) \cup Of(L, "else", (o + 1)..(i - 1)) :
              Depth(L, b) = Depth(L, o) + 1 /\ ~Closed(L, o, b)}

Enclosing(L, i) == {o \in Of(L, "if", 1..(i - 1)) : ~Closed(L, o, i)}

(* Line i is in the first group of the section whose condition held.       *)
InTakenGroup(L, T, o, i) ==
  LET groups == Branches(L, o, i)
      holds(b) == L[b].kind = "else" \/ T[b]
  IN  {b \in groups : holds(b)} # {} /\ Min({b \in groups : holds(b)}) = Max(groups)

(* A line is part of the program if all the groups around it are taken.    *)
Live(L, T, i) == \A o \in Enclosing(L, i) : InTakenGroup(L, T, o, i)

(* A name is defined behind the last line: the last #define or #undef of   *)
(* it that is part of the program is a #define.                            *)
Defined(L, T, n) ==
  LET lines == {d \in DOMAIN L : /\ L[d].kind \in {"define", "undef"} /\ L[d].name = n
                                 /\ Live(L, T, d)}
  IN  lines # {} /\ L[Max(lines)].kind = "define"

(* Every #elif, #else and #endif belongs to an open section.               *)
NoStray(L) ==
  \A i \in DOMAIN L : L[i].kind \in {"elif", "else", "endif"} => Depth(L, i) > 0

(* Nothing but #endif follows the #else of a section.  The rule is for the *)
(* sections that are themselves part of the program.                       *)
ElseIsLast(L, T) ==
  \A o \in Of(L, "if", DOMAIN L) : Live(L, T, o) =>
    LET groups == Branches(L, o, Len(L) + 1)
    IN  \A b \in groups : L[b].kind = "else" => b = Max(groups)
=============================================================================
