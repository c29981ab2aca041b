---------------------------- MODULE Declarations ----------------------------
(***************************************************************************)
(* The parser of declarations (cc1/parse.c): it reads the tokens of one    *)
(* external declaration after another by recursive descent, and fills the  *)
(* tables of the parser.  Types are objects on the heap that refer to each *)
(* other and are changed after they were made: the storage class of a      *)
(* declaration is kept on them, so the declarators of a list share it, and *)
(* codegen.c reads it when everything is parsed.                           *)
(***************************************************************************)
EXTENDS DeclReference, TLC

CONSTANT Inputs     \* sets of declarations: a program takes all of its declarations from
                    \* the set "of" of one of them, at most "max"

VARIABLES parser,           \* the Parser, with the heap of types
          written           \* the declarations read so far

vars == <<parser, written>>
----------------------------------------------------------------------------
(* The token list.  Reading stops at the first error.                      *)
Ahead(p, n) == IF p.fatal THEN "fatal"
               ELSE IF p.pos + n <= Len(p.tokens) THEN p.tokens[p.pos + n] ELSE "eof"
peek_token(p)  == Ahead(p, 0)
peek_token2(p) == Ahead(p, 1)
next_token(p)  == [p EXCEPT !.pos = @ + 1]
fatal_error(p) == [p EXCEPT !.fatal = TRUE]
expect(p, t)   == IF peek_token(p) = t THEN next_token(p) ELSE fatal_error(p)

(* A function returns the parser and what it made: a type and a name.      *)
Result(p, type, name) == [p |-> p, type |-> type, name |-> name]

(* The index of the first definition of that name, 0 for none.             *)
find(list, name) == SelectInSeq(list, LAMBDA x : x.name = name)

is_typedef_name(p, t) == t \in Names /\ find(p.typedefs, t) # 0
TypeQualifiers == {"const", "restrict", "volatile"}
TypeWords == {"void", "char", "short", "int", "long", "float", "double", "signed", "unsigned", "bool"}
is_type_token(p, t) ==
  \/ t \in TypeWords \cup {"struct", "union", "enum"} \cup TypeQualifiers \cup {"inline", "_Noreturn", "static"}
  \/ is_typedef_name(p, t)

(* A new type object, at the end of the heap.                              *)
type_new(p, kind) ==
  LET object == [kind |-> kind, base |-> 0, result |-> 0, size |-> 0, index |-> 0,
                 storage |-> "unspecified", params |-> <<>>]
  IN  Result([p EXCEPT !.heap = Append(@, object)], Len(p.heap) + 1, "")
Made(p, kind, change(_)) ==
  LET new == type_new(p, kind) IN Result([new.p EXCEPT !.heap[new.type] = change(@)], new.type, "")
type_new_ptr(p, base)         == Made(p, "ptr", LAMBDA o : [o EXCEPT !.base = base])
type_new_array(p, base, size) == Made(p, "array", LAMBDA o : [o EXCEPT !.base = base, !.size = size])
type_new_func(p, result, params) ==
  Made(p, "func", LAMBDA o : [o EXCEPT !.result = result, !.params = params])
shared_type(p, type) == Result(p, type, "")
type_dup(p, type) == Result([p EXCEPT !.heap = Append(@, p.heap[type])], Len(p.heap) + 1, "")

generate_anonymous_name(n) == "__anonymous_" \o ToString(n) \o "__"

(* The functions of the recursive descent, which call each other, do so by *)
(* name: parse_part, which is defined below them, says what a name stands  *)
(* for.  Its last argument is what the function is given of what has been  *)
(* read, a type as a rule.                                                 *)
RECURSIVE parse_part(_, _, _)
declaration_specifiers(p)       == parse_part("declaration_specifiers", p, 0)
member_specifiers(p)            == parse_part("member_specifiers", p, 0)
tag_specifier(p, kind)          == parse_part("tag_specifier", p, kind)
enum_members(p, index)          == parse_part("enum_members", p, index)
member_declarations(p)          == parse_part("member_declarations", p, 0)
declarator(p, type)             == parse_part("declarator", p, type)
suffixes(p, type, name)         == [parse_part("suffixes", p, type) EXCEPT !.name = name]
parameter_declarator(p, type)   == parse_part("parameter_declarator", p, type)
init_declarator(p, type)        == parse_part("init_declarator", p, type)
init_declarators(p, type)       == parse_part("init_declarators", p, type)

RECURSIVE parse_type_qualifier_list_opt(_), parse_pointer_opt(_, _), parse_parameter_list(_, _),
          specifiers(_, _, _, _, _), parse_member_declaration_list(_, _),
          parse_member_declarator_list(_, _, _), parse_enum_members(_, _, _),
          parse_init_declarator_list(_, _, _), parse_braced_initializer(_, _), innermost(_, _)
----------------------------------------------------------------------------
(* Declarators.                                                            *)
parse_type_qualifier_list_opt(p) ==
  IF peek_token(p) \in TypeQualifiers THEN parse_type_qualifier_list_opt(next_token(p)) ELSE p

parse_pointer_opt(p, type) ==
  IF peek_token(p) # "*" THEN Result(p, type, "")
  ELSE LET new == type_new_ptr(next_token(p), type)
       IN  parse_pointer_opt(parse_type_qualifier_list_opt(new.p), new.type)

(* eval() of a number or of an enumerator declared before.                 *)
EnumWidth == 1000
find_enum_member(p, name) ==
  LET i == SelectInSeq(p.tags.enum, LAMBDA e : find(e.members, name) # 0)
  IN  IF i = 0 THEN -1 ELSE (i - 1) * EnumWidth + find(p.tags.enum[i].members, name) - 1
enum_member_value(p, packed) ==
  p.tags.enum[packed \div EnumWidth + 1].members[(packed % EnumWidth) + 1].value
constant(p) ==
  LET t == peek_token(p)  member == find_enum_member(p, t)
  IN  IF IsNumber(t) THEN ValueOf(t) ELSE IF member # -1 THEN enum_member_value(p, member) ELSE 0
parse_constant_expr(p) ==
  IF IsNumber(peek_token(p)) \/ find_enum_member(p, peek_token(p)) # -1 THEN next_token(p) ELSE fatal_error(p)

parse_array_declarator_suffix(p, type) ==
  LET inner == next_token(p)
      size  == IF peek_token(inner) = "]" THEN -1 ELSE constant(inner)
      after == IF peek_token(inner) = "]" THEN inner ELSE parse_constant_expr(inner)
  IN  type_new_array(expect(after, "]"), type, size)

(* A single void, and nothing else, stands for no parameters.              *)
parse_parameter_type_list(p) ==
  LET list == parse_parameter_list(p, <<>>)
      void == \E i \in DOMAIN list.params : list.p.heap[list.params[i].type].kind = "void"
  IN  IF ~void THEN list
      ELSE IF Len(list.params) # 1 THEN [p |-> fatal_error(list.p), params |-> <<>>]
      ELSE [p |-> list.p, params |-> <<>>]

parse_function_declarator_suffix(p, type) ==
  LET inner == next_token(p)
      list  == IF peek_token(inner) = ")" THEN [p |-> inner, params |-> <<>>] ELSE parse_parameter_type_list(inner)
  IN  type_new_func(expect(list.p, ")"), type, list.params)

parse_suffixes(p, type) ==
  LET more(r) == suffixes(r.p, r.type, "")
  IN  CASE peek_token(p) = "[" -> more(parse_array_declarator_suffix(p, type))
        [] peek_token(p) = "(" -> more(parse_function_declarator_suffix(p, type))
        [] OTHER -> Result(p, type, "")

read_once(p, type) == parameter_declarator(p, type)

(* What is in parentheses is read twice: to find the suffixes behind it,   *)
(* which bind less tightly, and then with the type they make.              *)
parse_direct_declarator(p, type) ==
  CASE peek_token(p) \in Names -> suffixes(next_token(p), type, peek_token(p))
    [] peek_token(p) = "(" /\ ~is_type_token(p, peek_token2(p)) ->
         LET dummy  == type_new(next_token(p), "void")
             first  == expect(declarator(dummy.p, dummy.type).p, ")")
             outer  == suffixes(first, type, "")
             second == declarator([outer.p EXCEPT !.pos = p.pos + 1], outer.type)
         IN  Result([expect(second.p, ")") EXCEPT !.pos = outer.p.pos], second.type, second.name)
    [] OTHER -> suffixes(p, type, "")

parse_declarator(p, type) ==
  LET pointer == parse_pointer_opt(p, type) IN parse_direct_declarator(pointer.p, pointer.type)

(* A parameter's parentheses are read once.                                *)
parse_parameter_declarator(p, type) ==
  LET pointer == parse_pointer_opt(p, type)
      t == peek_token(pointer.p)
      inner == parameter_declarator(next_token(pointer.p), pointer.type)
  IN  CASE t \in Names -> suffixes(next_token(pointer.p), pointer.type, t)
        [] t = "(" /\ ~is_type_token(p, peek_token2(pointer.p)) ->
             IF peek_token2(pointer.p) = ")" THEN Result(fatal_error(pointer.p), pointer.type, "")
             ELSE suffixes(expect(inner.p, ")"), inner.type, inner.name)
        [] OTHER -> suffixes(pointer.p, pointer.type, "")

parse_parameter_list(p, params) ==
  LET base == declaration_specifiers(p)
      decl == parameter_declarator(base.p, base.type)
      all  == Append(params, [name |-> decl.name, type |-> decl.type])
  IN  IF base.p.fatal THEN [p |-> base.p, params |-> params]
      ELSE IF peek_token(decl.p) = "," THEN parse_parameter_list(next_token(decl.p), all)
      ELSE [p |-> decl.p, params |-> all]
----------------------------------------------------------------------------
(* Declaration specifiers: every word adds its bit to a mask, which then   *)
(* says the type.  The bit above that of long is for the second long.      *)
Bit == [t \in TypeWords \cup {"struct", "union", "enum", "typedef_name"} |->
  CASE t = "void" -> 1 [] t = "char" -> 2 [] t = "short" -> 4 [] t = "int" -> 8 [] t = "long" -> 16
    [] t = "float" -> 64 [] t = "double" -> 128 [] t = "signed" -> 256 [] t = "unsigned" -> 512
    [] t = "bool" -> 2048 [] t = "struct" -> 2^17 [] t = "union" -> 2^18 [] t = "enum" -> 2^19
    [] t = "typedef_name" -> 2^22]
HasBit(mask, bit) == (mask \div bit) % 2 = 1
duplicate_word(mask, t) == HasBit(mask, Bit[t])
duplicate(mask, t) == HasBit(mask, IF t = "long" THEN 2 * Bit["long"] ELSE Bit[t])

distinguish_type_from_type_specifiers(mask) ==
  LET S == Bit["signed"]  U == Bit["unsigned"]  C == Bit["char"]  H == Bit["short"]
      I == Bit["int"]  L == Bit["long"]
  IN  CASE mask = Bit["void"] -> "void"
        [] mask = C -> "char" [] mask = S + C -> "schar" [] mask = U + C -> "uchar"
        [] mask \in {H, S + H, H + I, S + H + I} -> "short"
        [] mask \in {U + H, U + H + I} -> "ushort"
        [] mask \in {I, S, S + I} -> "int"
        [] mask \in {U, U + I} -> "uint"
        [] mask \in {L, S + L, L + I, S + L + I} -> "long"
        [] mask \in {U + L, U + L + I} -> "ulong"
        [] mask \in {L + L, S + L + L, L + L + I, S + L + L + I} -> "llong"
        [] mask \in {U + L + L, U + L + L + I} -> "ullong"
        [] mask = Bit["float"] -> "float" [] mask = Bit["double"] -> "double"
        [] mask = L + Bit["double"] -> "ldouble" [] mask = Bit["bool"] -> "bool"
        [] mask \in {0, Bit["struct"], Bit["union"], Bit["enum"], Bit["typedef_name"]} -> "none"
        [] OTHER -> "unimplemented"

(* The end of the list: the storage class goes on the type object.         *)
specified(p, kind, type, storage) ==
  LET new  == IF kind \in {"none", "unimplemented"} THEN Result(p, type, "") ELSE type_new(p, kind)
  IN  IF p.fatal \/ kind = "unimplemented" \/ new.type = 0 THEN Result(fatal_error(p), 0, "")
      ELSE Result([new.p EXCEPT !.heap[new.type].storage = storage], new.type, "")

(* parse_declaration_specifiers, or the list of a member's specifiers,     *)
(* which takes no storage class.                                           *)
specifiers(p, mask, type, storage, declaration) ==
  LET t == peek_token(p)
      next(q, bit, ty) == specifiers(q, mask + bit, ty, storage, declaration)
  IN  CASE t \in Storages /\ declaration -> specifiers(next_token(p), mask, type, t, declaration)
        [] t \in TypeWords \cup {"struct", "union", "enum"} /\ duplicate(mask, t) ->
             Result(fatal_error(p), 0, "")
        [] t \in TypeWords /\ ~duplicate(mask, t) -> next(next_token(p), Bit[t], type)
        [] t \in {"struct", "union", "enum"} /\ ~duplicate(mask, t) ->
             LET tag == tag_specifier(next_token(p), t) IN next(tag.p, Bit[t], tag.type)
        [] is_typedef_name(p, t) /\ ~duplicate(mask, "typedef_name") ->
             LET copy == type_dup(p, p.typedefs[find(p.typedefs, t)].type)
             IN  next(next_token(copy.p), Bit["typedef_name"], copy.type)
        [] is_typedef_name(p, t) /\ duplicate(mask, "typedef_name") -> Result(fatal_error(p), 0, "")
        [] t = "restrict" /\ ~declaration -> Result(fatal_error(p), 0, "")
        [] t \in {"const", "volatile"} -> next(next_token(p), 0, type)
        [] t \in {"restrict", "inline", "_Noreturn"} /\ declaration -> next(next_token(p), 0, type)
        [] OTHER -> specified(p, distinguish_type_from_type_specifiers(mask), type, IF declaration THEN storage ELSE "unspecified")
----------------------------------------------------------------------------
(* Structures, unions and enumerations.  A tag that is only named gets a   *)
(* definition without members, which its body completes.                   *)
reference(p, kind, index) == Made(p, kind, LAMBDA o : [o EXCEPT !.index = index])

find_complete_tag(p, kind, name) == SelectInSeq(p.tags[kind], LAMBDA x : x.name = name /\ x.complete)
find_tag(p, kind, name) == find(p.tags[kind], name)

parse_tag_specifier(p, kind) ==
  LET anonymous == peek_token(p) = "{"
      name  == IF anonymous THEN generate_anonymous_name(p.anonymous_user_type_counter) ELSE peek_token(p)
      named == IF anonymous THEN [p EXCEPT !.anonymous_user_type_counter = @ + 1]
               ELSE IF name \in Names THEN next_token(p) ELSE fatal_error(p)
      found == find_tag(named, kind, name)
      known == IF found # 0 THEN named
               ELSE [named EXCEPT !.tags[kind] = Append(@, [name |-> name, complete |-> FALSE, members |-> <<>>])]
      index == IF found # 0 THEN found ELSE Len(known.tags[kind])
      list  == IF kind = "enum"
               THEN [p |-> enum_members([next_token(known) EXCEPT !.tags[kind][index].complete = TRUE], index),
                     members |-> <<>>]
               ELSE member_declarations(next_token(known))
      done  == expect(list.p, "}")
  IN  IF named.fatal THEN Result(named, 0, "")
      ELSE IF peek_token(named) # "{" THEN reference(known, kind, index)
      ELSE IF found # 0 /\ named.tags[kind][found].complete THEN Result(fatal_error(named), 0, "")
      ELSE IF kind = "enum" THEN reference(done, kind, index)
      ELSE reference([done EXCEPT !.tags[kind][index].members = list.members,
                                  !.tags[kind][index].complete = TRUE], kind, index)

parse_enum_members(p, index, next_value) ==
  LET name  == peek_token(p)
      after == IF name \in Names THEN next_token(p) ELSE fatal_error(p)
      given == peek_token(after) = "="
      value == IF given THEN constant(next_token(after)) ELSE next_value
      end   == IF given THEN parse_constant_expr(next_token(after)) ELSE after
      added == [end EXCEPT !.tags.enum[index].members = Append(@, [name |-> name, value |-> value])]
  IN  IF peek_token(p) \in {"}", "fatal"} THEN p
      ELSE IF peek_token(added) = "," THEN parse_enum_members(next_token(added), index, value + 1)
      ELSE added

parse_member_declaration_list(p, members) ==
  LET base == member_specifiers(p)
      only == peek_token(base.p) = ";"
      anonymous == [name |-> generate_anonymous_name(base.p.anonymous_user_type_counter),
                    type |-> base.type, width |-> -1]
      list == IF only THEN [p |-> [base.p EXCEPT !.anonymous_user_type_counter = @ + 1], members |-> <<anonymous>>]
              ELSE parse_member_declarator_list(base.p, base.type, <<>>)
  IN  IF peek_token(p) \in {"}", "fatal"} THEN [p |-> p, members |-> members]
      ELSE IF base.p.fatal THEN [p |-> base.p, members |-> members]
      ELSE parse_member_declaration_list(expect(list.p, ";"), members \o list.members)

(* A bit-field's width must be a number of bytes.                          *)
parse_member_declarator_list(p, type, members) ==
  LET decl   == declarator(p, type)
      field  == peek_token(decl.p) = ":"
      width  == IF field THEN constant(next_token(decl.p)) ELSE -1
      after  == IF ~field THEN decl.p
                ELSE IF width % 8 # 0 THEN fatal_error(decl.p) ELSE parse_constant_expr(next_token(decl.p))
      all    == Append(members, [name |-> decl.name, type |-> decl.type, width |-> width])
  IN  IF peek_token(after) = "," THEN parse_member_declarator_list(next_token(after), type, all)
      ELSE [p |-> after, members |-> all]
----------------------------------------------------------------------------
(* Declarations.  The last type along the bases of a type; a function is   *)
(* an end, its result is no base.                                          *)
innermost(heap, type) == IF heap[type].base = 0 THEN type ELSE innermost(heap, heap[type].base)

(* The storage class moves from where the specifiers left it to the type   *)
(* that the name is declared with.                                         *)
moved_storage(heap, from, to) ==
  IF from = to THEN heap
  ELSE [heap EXCEPT ![to].storage = heap[from].storage, ![from].storage = "unspecified"]

register_func(p, decl) == [p EXCEPT !.funcs = Append(@, [name |-> decl.name, type |-> decl.type])]

process_declarations(p, decl) ==
  LET type == decl.type
      base == innermost(p.heap, type)
      heap == moved_storage(p.heap, base, type)
      sized == IF heap[type].kind = "array" /\ heap[type].size = -1 /\ decl.init > 1
               THEN [heap EXCEPT ![type].size = decl.init] ELSE heap
      entry == [name |-> decl.name, type |-> type]
  IN  CASE p.fatal -> p
        [] ~p.fatal /\ p.heap[type].kind = "func" ->
             register_func([p EXCEPT !.heap = moved_storage(@, p.heap[type].result, type)], decl)
        [] ~p.fatal /\ p.heap[type].kind = "void" -> fatal_error(p)
        [] OTHER -> [p EXCEPT !.heap = sized, !.gvars = Append(@, entry),
                              !.vars = IF sized[type].storage = "extern" THEN @ ELSE Append(@, entry)]

(* init is the number of the initializers, one without braces.             *)
parse_braced_initializer(p, n) ==
  IF peek_token(p) = "}" THEN [p |-> next_token(p), init |-> n]
  ELSE LET after == parse_constant_expr(p)
       IN  IF peek_token(after) = "," THEN parse_braced_initializer(next_token(after), n + 1)
           ELSE [p |-> expect(after, "}"), init |-> n + 1]
parse_init_declarator(p, type) ==
  LET decl == declarator(p, type)
      behind == next_token(decl.p)
      list == IF peek_token(decl.p) # "=" THEN [p |-> decl.p, init |-> 0]
              ELSE IF peek_token(behind) = "{" THEN parse_braced_initializer(next_token(behind), 0)
              ELSE [p |-> parse_constant_expr(behind), init |-> 1]
  IN  [p |-> list.p, decl |-> [name |-> decl.name, type |-> decl.type, init |-> list.init]]

(* Every declarator but the last is declared at once, so that the next may *)
(* refer to it; not those of a typedef.                                    *)
parse_init_declarator_list(p, type, decls) ==
  LET one == init_declarator(p, type)
      all == Append(decls, one.decl)
  IN  IF peek_token(one.p) # "," THEN [p |-> one.p, decls |-> all]
      ELSE parse_init_declarator_list(
             IF one.p.heap[type].storage = "typedef" THEN next_token(one.p)
             ELSE process_declarations(next_token(one.p), one.decl), type, all)

parse_function_definition(p, decls) ==
  LET decl == decls[1]
      base == innermost(p.heap, p.heap[decl.type].result)
      made == [p EXCEPT !.heap = moved_storage(@, base, decl.type)]
      body == expect(expect(register_func(made, decl), "{"), "}")
  IN  IF Len(decls) # 1 \/ p.heap[decl.type].kind # "func" THEN fatal_error(p)
      ELSE [body EXCEPT !.defs = Append(@, [name |-> decl.name, type |-> decl.type])]

process_typedefs(p, decls) ==
  [p EXCEPT !.typedefs = @ \o [i \in DOMAIN decls |-> [name |-> decls[i].name, type |-> decls[i].type]]]

parse_external_declaration(p) ==
  LET base == declaration_specifiers(p)
      list == init_declarators(base.p, base.type)
      end  == expect(list.p, ";")
  IN  CASE base.p.fatal -> base.p
        [] ~base.p.fatal /\ peek_token(base.p) = ";" -> next_token(base.p)
        [] OTHER -> IF peek_token(list.p) = "{" THEN parse_function_definition(list.p, list.decls)
                    ELSE IF end.fatal THEN end
                    ELSE IF end.heap[base.type].storage = "typedef"
                    THEN process_typedefs(end, list.decls)
                    ELSE process_declarations(end, Last(list.decls))
parse_part(f, p, x) ==
  CASE f = "external_declaration"   -> parse_external_declaration(p)
    [] f = "declaration_specifiers" -> specifiers(p, 0, 0, "unspecified", TRUE)
    [] f = "member_specifiers"      -> specifiers(p, 0, 0, "unspecified", FALSE)
    [] f = "tag_specifier"          -> parse_tag_specifier(p, x)
    [] f = "enum_members"           -> parse_enum_members(p, x, 0)
    [] f = "member_declarations"    -> parse_member_declaration_list(p, <<>>)
    [] f = "declarator"             -> parse_declarator(p, x)
    [] f = "suffixes"               -> parse_suffixes(p, x)
    [] f = "parameter_declarator"   -> parse_parameter_declarator(p, x)
    [] f = "init_declarator"        -> parse_init_declarator(p, x)
    [] f = "init_declarators"       -> parse_init_declarator_list(p, x, <<>>)
----------------------------------------------------------------------------
parser_new == [tokens |-> <<>>, pos |-> 1, fatal |-> FALSE, heap |-> <<>>,
               tags |-> [struct |-> <<>>, union |-> <<>>, enum |-> <<>>], typedefs |-> <<>>,
               gvars |-> <<>>, funcs |-> <<>>, vars |-> <<>>, defs |-> <<>>,
               anonymous_user_type_counter |-> 0]

Init == parser = parser_new /\ written = <<>>

(* parse(): the next external declaration of the translation unit.         *)
External(d, storageFirst) ==
  /\ ~parser.fatal
  /\ parser' = parse_part("external_declaration", [parser EXCEPT !.tokens = Spelled(d, storageFirst), !.pos = 1], 0)
  /\ written' = Append(written, d)

Next == \E I \in Inputs, storageFirst \in BOOLEAN :
          /\ Range(written) \subseteq I.of /\ Len(written) < I.max
          /\ \E d \in I.of : Admissible(Append(written, d)) /\ External(d, storageFirst)

Spec == Init /\ [][Next]_vars
----------------------------------------------------------------------------
(* The type a heap object denotes now.                                     *)
RECURSIVE denoted(_, _)
denoted_members(p, members) ==
  [i \in DOMAIN members |-> [name |-> IF members[i].name \in Names THEN members[i].name ELSE "",
                             type |-> denoted(p, members[i].type), width |-> members[i].width]]
denoted(p, t) ==
  LET o == p.heap[t]
  IN  CASE o.kind = "ptr"   -> [kind |-> "ptr", base |-> denoted(p, o.base)]
        [] o.kind = "array" -> [kind |-> "array", base |-> denoted(p, o.base), size |-> o.size]
        [] o.kind = "func"  -> [kind |-> "func", result |-> denoted(p, o.result),
                                params |-> [i \in DOMAIN o.params |-> denoted(p, o.params[i].type)]]
        [] o.kind \in {"struct", "union", "enum"} ->
             LET def == p.tags[o.kind][o.index]
             IN  IF def.name \in Names THEN [kind |-> o.kind, tag |-> def.name]
                 ELSE [kind |-> o.kind,
                       members |-> IF o.kind = "enum" THEN <<>> ELSE denoted_members(p, def.members)]
        [] OTHER -> Plain(o.kind)

(* Every type object refers to objects made before it, so no type contains *)
(* itself but through a tag, and every tag's index is in the table.        *)
TypeOK ==
  /\ \E I \in Inputs : Range(written) \subseteq I.of /\ Len(written) <= I.max
  /\ ~parser.fatal =>
       /\ \A t \in DOMAIN parser.heap :
            LET o == parser.heap[t]
            IN  /\ o.base \in 0..(t - 1) /\ o.result \in 0..(t - 1)
                /\ o.kind \in {"struct", "union", "enum"} => o.index \in DOMAIN parser.tags[o.kind]
                /\ o.storage \in Storages \cup {"unspecified"}
       /\ \A e \in Range(parser.gvars \o parser.funcs \o parser.typedefs) :
            e.name \in Names /\ e.type \in DOMAIN parser.heap

(* A program is rejected exactly if it has something that C forbids: words *)
(* that make no type, a tag with two bodies, an object of type void, a     *)
(* body after several declarators.                                         *)
RejectsInvalid == parser.fatal <=> Invalid(written)

(* The table the name is looked up in by expressions and by declarations.  *)
table(p, d, meaning) ==
  IF d.storage = "typedef" THEN p.typedefs ELSE IF meaning.kind = "func" THEN p.funcs ELSE p.gvars

(* Whatever has been declared since, the name still has the type that its  *)
(* declaration gives it.                                                   *)
TypesAsWritten ==
  ~parser.fatal =>
    \A i \in DOMAIN written : \A x \in Range(written[i].declarators) :
      LET meaning == Meaning(x.path, written[i].base, TypedefsOf(SubSeq(written, 1, i - 1)))
          sized == IF meaning.kind = "array" /\ meaning.size = -1 /\ x.init > 1
                   THEN [meaning EXCEPT !.size = x.init] ELSE meaning
          list == table(parser, written[i], meaning)
      IN  /\ find(list, x.name) # 0
          /\ denoted(parser, list[find(list, x.name)].type) = sized

(* What codegen.c makes of the tables: one definition for each function    *)
(* with a body and each object that is not only declared, with .globl      *)
(* unless its own declaration says static.                                 *)
LinkageAsWritten ==
  LET out == parser.vars \o parser.defs
      symbol(e) == [name |-> e.name, global |-> parser.heap[e.type].storage # "static"]
  IN  ~parser.fatal =>
        /\ Symbols(written) = {symbol(e) : e \in Range(out)}
        /\ Cardinality(Symbols(written)) = Len(out)

(* A tag is one entry of its table however often it is named, complete     *)
(* once it has had a body, with the members of that body; an enumerator    *)
(* has its value whatever enumerations precede or follow its own.          *)
TagsAsWritten ==
  ~parser.fatal =>
  /\ \A b \in Range(AllBodies(written)) :
      LET same == {n \in DOMAIN parser.tags[b.kind] : parser.tags[b.kind][n].name = b.tag}
      IN  b.tag # NoTag =>
            /\ Cardinality(same) = 1
            /\ \A n \in same :
                 /\ parser.tags[b.kind][n].complete
                 /\ b.kind # "enum" => denoted_members(parser, parser.tags[b.kind][n].members)
                                        = TagMembers(written, b.kind, b.tag)
  /\ \A n \in DOMAIN Enumerators(written) :
      LET packed == find_enum_member(parser, n)
      IN  packed # -1 /\ enum_member_value(parser, packed) = Enumerators(written)[n]
=============================================================================
