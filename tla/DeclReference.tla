---------------------------- MODULE DeclReference ----------------------------
(***************************************************************************)
(* C declarations as a programmer thinks of them, and what they declare.   *)
(* A declaration is a storage class, a base and declarators; a declarator  *)
(* is a name with the derivations that lead from the name to the base      *)
(* ("x is a pointer to an array of 3 ..."), outermost first.  Spelling one *)
(* gives tokens (a token is its text); Meaning gives its type.             *)
(***************************************************************************)
EXTENDS Integers, SequencesExt, FiniteSetsExt

CONSTANT Names          \* the identifiers of the programs

ValueOf(t) == CASE t = "1" -> 1 [] t = "2" -> 2 [] t = "3" -> 3 [] t = "8" -> 8
IsNumber(t) == t \in {"1", "2", "3", "8"}

(* Specifiers that say nothing of the type.                                *)
Qualifiers == {"const", "volatile", "restrict", "inline", "_Noreturn"}
Storages   == {"static", "extern", "typedef"}
----------------------------------------------------------------------------
(* A base is a list of words, a typedef name, a tag, or a tag with a body. *)
Plain(kind)    == [kind |-> kind]
Words(ws)      == [base |-> "words", words |-> ws]
Named(n)       == [base |-> "name", name |-> n]
Tag(kind, t)   == [base |-> "tag", kind |-> kind, tag |-> t]
Body(kind, t, ms) == [base |-> "body", kind |-> kind, tag |-> t, members |-> ms]
NoTag == ""

Pointer        == [to |-> "ptr"]
ArrayOf(n)     == [to |-> "array", size |-> n]
Taking(params) == [to |-> "func", params |-> params]

(* A declarator; width is a bit-field's, init how many initializers there  *)
(* are, 0 for none, and value what an enumerator is set to.                *)
Declarator_(n, path) == [name |-> n, path |-> path, init |-> 0, width |-> ""]
Param(n, base, path) == [base |-> base, declarator |-> Declarator_(n, path)]
Declaration(storage, base, ds) ==
  [storage |-> storage, base |-> base, declarators |-> ds, definition |-> FALSE]
Enumerator(n, v) == [name |-> n, value |-> v]

(* What lists of words C gives a meaning to: sets of words, "long" counted.*)
WordKinds ==
  LET S == "signed"  U == "unsigned"  H == "short"  I == "int"  L == "long"
  IN  { <<"void", 0, {"void"}>>, <<"char", 0, {"char"}>>, <<"schar", 0, {S, "char"}>>,
        <<"uchar", 0, {U, "char"}>>, <<"float", 0, {"float"}>>, <<"double", 0, {"double"}>>,
        <<"bool", 0, {"bool"}>>, <<"ldouble", 1, {L, "double"}>> }
      \cup {<<"short", 0, {H} \cup s>> : s \in SUBSET {S, I}}
      \cup {<<"ushort", 0, {U, H} \cup s>> : s \in SUBSET {I}}
      \cup {<<"int", 0, s>> : s \in (SUBSET {S, I}) \ {{}}}
      \cup {<<"uint", 0, {U} \cup s>> : s \in SUBSET {I}}
      \cup {<<"long", 1, {L} \cup s>> : s \in SUBSET {S, I}}
      \cup {<<"ulong", 1, {U, L} \cup s>> : s \in SUBSET {I}}
      \cup {<<"llong", 2, {L} \cup s>> : s \in SUBSET {S, I}}
      \cup {<<"ullong", 2, {U, L} \cup s>> : s \in SUBSET {I}}

Kinds(words) ==
  LET types == SelectSeq(words, LAMBDA w : w \notin Qualifiers)
      longs == Len(SelectSeq(types, LAMBDA w : w = "long"))
      once  == Len(types) = Cardinality(Range(types)) + (IF longs > 1 THEN longs - 1 ELSE 0)
  IN  {k \in WordKinds : once /\ k[2] = longs /\ k[3] = Range(types)}
----------------------------------------------------------------------------
(* Spelling.                                                               *)
Joined(ss, sep) ==
  FoldLeft(LAMBDA acc, s : IF acc = <<>> THEN s ELSE acc \o <<sep>> \o s, <<>>, ss)

RECURSIVE Spelling(_, _, _), BaseSpelling(_), Around(_, _, _)

(* The derivations around what is spelled already: prefix for pointers,    *)
(* suffix for the others, parentheses between a pointer and a suffix.      *)
Around(inner, path, afterPointer) ==
  IF path = <<>> THEN inner
  ELSE LET d == Head(path)
           held == IF afterPointer /\ d.to # "ptr" THEN <<"(">> \o inner \o <<")">> ELSE inner
       IN  CASE d.to = "ptr"   -> Around(<<"*">> \o inner, Tail(path), TRUE)
             [] d.to = "array" -> Around(held \o (IF d.size = "" THEN <<"[", "]">> ELSE <<"[", d.size, "]">>),
                                         Tail(path), FALSE)
             [] d.to = "func"  ->
                  Around(held \o <<"(">> \o
                         Joined([i \in DOMAIN d.params |->
                                  BaseSpelling(d.params[i].base) \o
                                  Spelling(d.params[i].declarator.name, d.params[i].declarator.path, FALSE)], ",")
                         \o <<")">>, Tail(path), FALSE)

Spelling(name, path, parens) ==
  LET word == IF name = "" THEN <<>> ELSE <<name>>
  IN  Around(IF parens THEN <<"(">> \o word \o <<")">> ELSE word, path, FALSE)

Initializer(n) ==
  CASE n = 0 -> <<>> [] n = 1 -> <<"=", "1">>
    [] OTHER -> <<"=", "{">> \o Joined([i \in 1..n |-> <<"1">>], ",") \o <<"}">>

DeclaratorSpelling(d) ==
  Spelling(d.name, d.path, FALSE) \o (IF d.width = "" THEN <<>> ELSE <<":", d.width>>)
  \o Initializer(d.init)
DeclaratorsSpelling(ds) == Joined([i \in DOMAIN ds |-> DeclaratorSpelling(ds[i])], ",")

BaseSpelling(b) ==
  LET named(t) == IF t = NoTag THEN <<>> ELSE <<t>>
      member(m) == BaseSpelling(m.base) \o DeclaratorsSpelling(m.declarators) \o <<";">>
      enumerator(e) == <<e.name>> \o (IF e.value = "" THEN <<>> ELSE <<"=", e.value>>)
  IN  CASE b.base = "words" -> b.words
        [] b.base = "name"  -> <<b.name>>
        [] b.base = "tag"   -> <<b.kind, b.tag>>
        [] b.base = "body" /\ b.kind = "enum" ->
             <<"enum">> \o named(b.tag) \o <<"{">>
             \o Joined([i \in DOMAIN b.members |-> enumerator(b.members[i])], ",") \o <<"}">>
        [] b.base = "body" /\ b.kind # "enum" ->
             <<b.kind>> \o named(b.tag) \o <<"{">>
             \o FoldLeft(LAMBDA acc, m : acc \o member(m), <<>>, b.members) \o <<"}">>

(* A storage class may stand before or after the base.                     *)
Spelled(d, storageFirst) ==
  LET storage == IF d.storage = "" THEN <<>> ELSE <<d.storage>>
      base    == BaseSpelling(d.base)
  IN  (IF storageFirst THEN storage \o base ELSE base \o storage)
      \o DeclaratorsSpelling(d.declarators)
      \o (IF d.definition THEN <<"{", "}">> ELSE <<";">>)
----------------------------------------------------------------------------
(* Meaning.  Typedefs is the function from the typedef names declared so   *)
(* far to their types; an anonymous structure is known by its members.     *)
RECURSIVE Meaning(_, _, _), BaseMeaning(_, _), MembersMeaning(_, _)

Derived(d, type, Typedefs) ==
  CASE d.to = "ptr"   -> [kind |-> "ptr", base |-> type]
    [] d.to = "array" -> [kind |-> "array", base |-> type,
                          size |-> IF d.size = "" THEN -1 ELSE ValueOf(d.size)]
    [] d.to = "func"  ->
         [kind |-> "func", result |-> type,
          params |-> LET all == [i \in DOMAIN d.params |->
                                  Meaning(d.params[i].declarator.path, d.params[i].base, Typedefs)]
                     IN  IF all = <<Plain("void")>> THEN <<>> ELSE all]

Meaning(path, base, Typedefs) ==
  IF path = <<>> THEN BaseMeaning(base, Typedefs)
  ELSE Derived(Head(path), Meaning(Tail(path), base, Typedefs), Typedefs)

BaseMeaning(b, Typedefs) ==
  CASE b.base = "words" -> IF Kinds(b.words) = {} THEN Plain("none")
                               ELSE Plain((CHOOSE k \in Kinds(b.words) : TRUE)[1])
    [] b.base = "name"  -> Typedefs[b.name]
    [] b.base \in {"tag", "body"} /\ b.tag # NoTag -> [kind |-> b.kind, tag |-> b.tag]
    [] b.base = "body" /\ b.tag = NoTag ->
         [kind |-> b.kind, members |-> IF b.kind = "enum" THEN <<>> ELSE MembersMeaning(b.members, Typedefs)]

(* The members in order; a member without a declarator has no name.        *)
MembersMeaning(ms, Typedefs) ==
  FoldLeft(LAMBDA acc, m : acc \o
             IF m.declarators = <<>>
             THEN <<[name |-> "", type |-> BaseMeaning(m.base, Typedefs), width |-> -1]>>
             ELSE [i \in DOMAIN m.declarators |->
                    [name |-> m.declarators[i].name,
                     type |-> Meaning(m.declarators[i].path, m.base, Typedefs),
                     width |-> IF m.declarators[i].width = "" THEN -1 ELSE ValueOf(m.declarators[i].width)]],
           <<>>, ms)
----------------------------------------------------------------------------
(* The bases with a body in a base, its own and those of its members.      *)
RECURSIVE Bodies(_)
Bodies(b) ==
  IF b.base # "body" THEN <<>>
  ELSE (IF b.kind = "enum" THEN <<>>
        ELSE FoldLeft(LAMBDA acc, m : acc \o Bodies(m.base), <<>>, b.members)) \o <<b>>

AllBodies(program) == FoldLeft(LAMBDA acc, d : acc \o Bodies(d.base), <<>>, program)

(* The typedef names of a program, the first declaration of each counts.   *)
TypedefsOf(program) ==
  LET add(T, d, x) == IF x.name \in DOMAIN T THEN T
                      ELSE [n \in DOMAIN T \cup {x.name} |->
                             IF n = x.name THEN Meaning(x.path, d.base, T) ELSE T[n]]
  IN  FoldLeft(LAMBDA T, d : IF d.storage # "typedef" THEN T
                             ELSE FoldLeft(LAMBDA U, x : add(U, d, x), T, d.declarators),
               [n \in {} |-> Plain("void")], program)

(* The types of the members of the tag's body.                             *)
TagMembers(program, kind, tag) ==
  LET at == CHOOSE i \in DOMAIN program :
              \E b \in Range(Bodies(program[i].base)) : b.kind = kind /\ b.tag = tag
      body == CHOOSE b \in Range(Bodies(program[at].base)) : b.kind = kind /\ b.tag = tag
  IN  MembersMeaning(body.members, TypedefsOf(SubSeq(program, 1, at - 1)))

(* The value of each enumerator: as it says, or one more than the last.    *)
EnumeratorValues(body, known) ==
  LET value(K, e, last) == CASE e.value = "" -> last + 1
                             [] IsNumber(e.value) -> ValueOf(e.value)
                             [] OTHER -> K[e.value]
  IN  FoldLeft(LAMBDA acc, e :
                 LET v == value(acc.known, e, acc.last)
                 IN  [known |-> [n \in DOMAIN acc.known \cup {e.name} |->
                                  IF n = e.name THEN v ELSE acc.known[n]], last |-> v],
               [known |-> known, last |-> -1], body.members).known
Enumerators(program) ==
  FoldLeft(LAMBDA K, b : IF b.kind = "enum" THEN EnumeratorValues(b, K) ELSE K,
           [n \in {} |-> 0], AllBodies(program))
----------------------------------------------------------------------------
(* Programs that must be rejected: a list of words that is no type, a tag  *)
(* with two bodies, an object of type void, a function's body after        *)
(* several declarators.                                                    *)
BadWords(b) == b.base = "words" /\ Kinds(b.words) = {}
TwoBodies(program) ==
  LET all == AllBodies(program)
  IN  \E i, j \in DOMAIN all : i < j /\ all[i].tag # NoTag /\ all[i].kind = all[j].kind /\ all[i].tag = all[j].tag
VoidObject(program) ==
  \E i \in DOMAIN program : \E x \in Range(program[i].declarators) :
    /\ program[i].storage # "typedef"
    /\ Meaning(x.path, program[i].base, TypedefsOf(SubSeq(program, 1, i - 1))) = Plain("void")
Invalid(program) ==
  \/ \E i \in DOMAIN program : BadWords(program[i].base)
  \/ TwoBodies(program)
  \/ VoidObject(program)
  \/ \E i \in DOMAIN program : program[i].definition /\ Len(program[i].declarators) # 1

(* What the object file must hold: a definition of each function that has  *)
(* a body and of each object that is not extern, and which are global.     *)
Defines(d, x, T) == IF Meaning(x.path, d.base, T).kind = "func" THEN d.definition
                    ELSE d.storage \notin {"extern", "typedef"}
Symbols(program) ==
  UNION {LET d == program[i]  T == TypedefsOf(SubSeq(program, 1, i - 1))
         IN  {[name |-> x.name, global |-> d.storage # "static"] :
               x \in {y \in Range(d.declarators) : Defines(d, y, T)}} : i \in DOMAIN program}
----------------------------------------------------------------------------
(* The programs considered: a typedef name is declared before it is used;  *)
(* a name is declared again only with the same type and not static, it is  *)
(* neither a typedef's nor defined again, no enumerator has the name of    *)
(* something else, and what is defined has a complete type.                *)
RECURSIVE UsedNames(_), PathNames(_)
PathNames(path) == UNION {IF path[i].to # "func" THEN {}
                          ELSE UNION {UsedNames(q.base) \cup PathNames(q.declarator.path) : q \in Range(path[i].params)}
                          : i \in DOMAIN path}
DeclarationNames(base, ds) == UsedNames(base) \cup UNION {PathNames(x.path) : x \in Range(ds)}
UsedNames(b) == CASE b.base = "name" -> {b.name}
                  [] b.base = "body" /\ b.kind # "enum" ->
                       UNION {DeclarationNames(m.base, m.declarators) : m \in Range(b.members)}
                  [] OTHER -> {}
Before(program, i) == TypedefsOf(SubSeq(program, 1, i - 1))
Occurrences(program) ==
  UNION {{[at |-> i, x |-> x] : x \in Range(program[i].declarators)} : i \in DOMAIN program}
Again(program, o, q) ==
  /\ Meaning(o.x.path, program[o.at].base, Before(program, o.at))
       = Meaning(q.x.path, program[q.at].base, Before(program, q.at))
  /\ LET d == program[o.at]  e == program[q.at]
     IN  /\ {d.storage, e.storage} \cap {"static", "typedef"} = {}
         /\ ~(Defines(d, o.x, Before(program, o.at)) /\ Defines(e, q.x, Before(program, q.at)))
Admissible(program) ==
  /\ \A i \in DOMAIN program : DeclarationNames(program[i].base, program[i].declarators)
                                 \subseteq DOMAIN Before(program, i)
  /\ LET enums == SelectSeq(AllBodies(program), LAMBDA b : b.kind = "enum")
         names(b) == {e.name : e \in Range(b.members)}
     IN  /\ \A i, j \in DOMAIN enums : i < j /\ names(enums[i]) \cap names(enums[j]) # {}
                                       => enums[i].tag = enums[j].tag /\ enums[i].tag # NoTag
         /\ \A j \in DOMAIN enums : \A e \in Range(enums[j].members) :
              e.value = "" \/ IsNumber(e.value) \/ \E i \in 1..(j - 1) : e.value \in names(enums[i])
  /\ LET occ == Occurrences(program)  values == Enumerators(program)
     IN  /\ \A o, q \in occ : o.x.name = q.x.name /\ o # q => o.at # q.at /\ Again(program, o, q)
         /\ \A o \in occ : o.x.name \notin DOMAIN values
         /\ \A o \in occ : LET d == program[o.at]
                           IN  d.base.base = "tag" /\ o.x.path = <<>> /\ d.storage \in {"", "static"}
                               => \E b \in Range(AllBodies(SubSeq(program, 1, o.at - 1))) :
                                    b.kind = d.base.kind /\ b.tag = d.base.tag
=============================================================================
