# A formal model of ducc

ducc is a C compiler written in C: one process that reads a file, preprocesses
it, parses it into a tree, prints x86-64 assembly and leaves the rest to gcc.
This directory holds TLA+ models of the parts of it that are hard to get right
by testing, the TLC configurations that check them, and proofs, checked by
TLAPS, of what holds for every instance. Paths below are relative to the
repository (`src/cc1/parse.c` and so on); line numbers are those of the commit
modelled.

## 1. Inventory

### How the parts interact

    cli.c, main.c ──► io.c ──► tokenize.c ──► preprocess.c ──► tokenize.c ──► parse.c ──► codegen.c ──► gcc
      arguments      characters  pp-tokens    pp-tokens,        tokens        Program:     assembly
                                              files included                  AST, strings

The phases are plain calls, one after the other, on structures that are handed
on and never freed; there are no threads, no signals, no retries, and nothing
survives a run except the files written. Any error is `fatal_error`: a message
and exit. What is hard in such a program is not concurrency but *state that
several mutually recursive functions share and must leave as they found it*
(scopes, label stacks, token positions, the machine stack of the generated code)
and *two places that compute the same layout independently and must agree*
(parser and code generator, caller and callee, the walk that collects labels
and the walk that emits them). The generated code has state of its own - stack,
registers - and is the most delicate part of all: a mistake there shows only in
programs that nest the right things in the right order.

### The components

| component | state | operations | hard behaviours | correct when |
|---|---|---|---|---|
| frames and local scopes (`parse.c` 5-73, 214-266, 336-354, 438-473, 1356-1462; `codegen.c` 41-76) | `Parser.lvars`, `Parser.scope`; counters of `register_params`; rsp in the prologue | enter/leave scope and function, register a parameter, declare, make a temporary, size the frame, push parameters | parameters on both sides of rbp; slots never reused; the frame's size read off one slot | slots are disjoint, aligned and inside the frame; parameters are where the registers were pushed; a name in scope stands for a slot of the function |
| calls and temporaries (`codegen.c` 104-121, 194-566) | machine stack, six argument registers, rax, rbp | evaluate, push, pop, pad, call, prologue, epilogue | calls within operands and arguments of calls; a pad chosen at run time; scalars, structures and arrays with different sizes on the way in and out | the stack is aligned at calls and balanced behind them; nothing evaluated later disturbs an operand, an argument or a frame |
| statements (`codegen.c` 631-862) | `next_label`, `loop_labels`, `switch_label`, `current_func` | one generator per statement kind | loops in switches in loops; labels deep in a switch; nested context restored by hand | labels unique and defined; context restored; the code evaluates what the statements mean |
| reader (`io.c`) | buffer, position, line | peek, peek two, next, consume | splices and three forms of line ends under every peek; a peek that moves the position | lines counted once; the logical characters are delivered |
| tokenizer (`tokenize.c` 1-418) | `at_bol`, `expect_header_name`, tokens | one branch per kind of token | the longest token across splices; flags that must be reset; a `#` that is a directive or not | the tokens are those of the logical text |
| passes over tokens (`preprocess.c` 1502-1528, `tokenize.c` 420-593) | the array of tokens, positions | join string literals, convert | joining in place over removed tokens | adjacent literals joined, everything else in order |
| conditional inclusion and macro table (`preprocess.c` 369-387, 986-1144, 1209-1270, 1324-1442) | `Preprocessor.pos`, macros, recursion of sections | one parse function per directive, `skip_group_opt` | skipping by counting; only the first true group; macros change the later conditions | exactly the live lines survive; a file is rejected exactly when it is not balanced |
| macro expansion (`preprocess.c` 389-398, 459-978) | token array and position, names being expanded, arguments, counts of tokens still to scan | expand, collect arguments, substitute, `#`, `##`, rescan, splice | recursion of macros through their arguments; tokens moved under a position | ends; a scan stays in its own tokens; the result is that of the C rules |
| file inclusion (`preprocess.c` 414-507, 1146-1203, 1468-1500) | depth, include paths, included files, the shared macro table | resolve, `#include`, `#include_next`, splice | self-inclusion, guards, the depth limit, one list for all files | the text is in its place; each dependency once; ends |
| declarations (`parse.c` 481-623, 1072-2272, 2759-2812) | tokens, heap of types, typedefs, tags, enumerators, globals, functions, definitions | recursive descent over specifiers, declarators, tags, initialisers | declarators read twice; type objects shared and changed; masks of specifiers | types, values of enumerators and symbols are those written; the invalid is rejected |
| types and layout (`ast.c` 85-194, 664-787) | walks over members | size, alignment, offset | five walks that must agree; nesting of structures, unions, arrays | members apart, aligned, inside, packed |
| expressions (`parse.c` 574-1068, `ast.c` 333-509, `codegen.c` 78-629) | tokens, temporaries; then stack, registers, memory | one function per level of precedence; one generator per node | evaluation once, scaling, swapped operands, widths of loads and stores | the code computes what the expression means |
| statements of the parser (`parse.c` 2412-2730) | - | recursive descent | - | a tree of the program read |
| constants and data (`parse.c` 2814-3018, `codegen.c` 864-895) | - | evaluate, emit data | division by zero in a dead operand, width | the value C gives |
| growable arrays, string builder (`lib/common.c`) | len, capacity | reserve, push, pop | full arrays, a terminator that may not exist, a capacity of zero | no access beyond the capacity |
| driver (`cli.c`, `main.c`) | options, files | phases | partial output after a failure | the outputs asked for |
| tokens' names, JSON dumps, WebAssembly back end, bundled headers | - | - | - | - |

`PROJECT.json` lists each with its status, and the hazards with the line where
each bites and the properties that would notice.

## 2. The modules

| module | what it is |
|---|---|
| `Abi` | `to_aligned` and the register rule that parser and code generator both use |
| `Frame` | component: the frame of a function definition, from its parameters to its prologue |
| `FrameInv` | the inductive invariant of `Frame` |
| `CallProtocol` | component: the generated code of nested expressions and calls, at run time |
| `Statements` | abstract specification: what statements mean |
| `StatementCode` | component: the code generated for statements, and its execution; implements `Statements` |
| `Reader` | component: the characters of a file |
| `TokenReference` | reference definition: the tokens of a text |
| `Tokenizer` | component: `do_tokenize_all`, on `Reader` |
| `TokenPipeline` | composition: tokenizer, joining of literals and conversion, in the order of `main` |
| `CondReference` | reference definition: which lines of a file are part of the program |
| `Conditionals` | component: conditional inclusion and the macro table |
| `MacroTokens` | the tokens of both |
| `MacroReference` | reference definition: the expansion of a text, by the C rules |
| `MacroExpansion` | component: `expand_macro` on arrays of tokens |
| `MacroMeaning` | the component compared with the reference |
| `Inclusion` | component: files that include each other, with their macros and dependencies |
| `DeclReference` | reference definition: declarations, how they are spelled and what they mean |
| `Declarations` | component: the parser of declarations, from tokens to tables |
| `Layout` | component: the walks over the members of types |
| `Values` | types, sizes and numbers of the machine of expressions |
| `ExprReference` | reference definition: expressions, how they are spelled and what they do to values, memory and calls |
| `ExprParser` | component: the parser of expressions, from tokens to typed trees |
| `ExprCode` | composition: parser, code generator, and the machine that runs the code |
| `AbiLemmas`, `Frame_proofs`, `CallProtocol_proofs`, `Conditionals_proofs`, `Layout_proofs`, `Inclusion_proofs`, `MacroExpansion_proofs`, `Tokenizer_proofs` | the proofs |
| `MC...` | instances for TLC |

What composes what: `TokenPipeline` extends `Tokenizer` extends `Reader`;
`ExprCode` extends `ExprParser` extends `Values`, so that the code that is run is that
of the tree the parser makes; `StatementCode` and `Statements` are related by a
refinement. `Frame`, `CallProtocol`, `Layout` and `Values` share `Abi`. The rest are
phases, which only hand data on.

A reference definition says what the result is without the code's way of
computing it: the tokens as the longest prefixes that are tokens, the live lines
by sections, the meaning of a declaration along the path from its name to its
base, the value of an expression by its structure. The component computes it as
the code does, with positions, counters, flags and objects that are changed in
place, and the properties say that the two agree. Where TLA+ cannot read
characters, inputs are built from the reference's terms and *spelled* (`Spelled`,
`Tokens`), so that parentheses and precedence are the parser's to find.

Operators whose comments call them mutants are variants of the definition next
to them, each with a mistake that code like this has; no specification uses
them. Putting one in the place of its original makes the property listed with
it in `PROJECT.json` fail: that is how we know that the property can see the
code.

### Frame

`lvars` and `scopes` are `Parser.lvars` and the chain `Parser.scope`; `gpRegs`,
`regOffset`, `stackOffset` are the locals `gp_regs`, `pass_by_reg_offset`,
`pass_by_stack_offset` of `register_params`, one turn of whose loop is
`RegisterParam`. `Declare`/`Redeclare` are `process_declarations` in a
function, `Temporary` is `generate_temporary_lvar` (used by `switch`, and by
`e++`, `e--`), `EnterBlock`/`LeaveBlock` a nested compound statement or the header of
a `for`, `LeaveFunc` the end of `parse_function_definition` with the frame's
size, `PushParam` a turn of the loop of `codegen_func_prologue`, `ReserveFrame`
its last instruction. The code generates prologues when the whole file has been
parsed; a definition does not change in between, so the model runs the prologue at once.
A type is its size and alignment. Three things the code does not have are added: the
register in which the caller puts a parameter (`reg`), to say what
`ParamsHoldRegisters` says; the history `block`, which tells of each slot how deep the block is
that declares it, and whether that block is over, to say what `NamesResolve` says without the
chain of scopes; and bounds. Types of size 0 (structures without members) are
left out: two of them may share an address.

### CallProtocol

The machine state is a stack of words, the registers, rax and rbp; `ctl` is the
code being executed, which is the nesting of expressions: a step is a run of
instructions between two evaluations. The program is not fixed: every step
chooses what is evaluated next, up to `MaxExprs` compound expressions, so that the
runs cover every nesting of that many. A word is a symbol that says which part of which value it is, so a
property can ask whether the right word is in the right place without giving
values to anything. Memory other than the stack is left out; expressions that
only change rax are `Leaf`. Callees are internal (prologue, body that evaluates
anything, epilogue) or external (any change to the caller-saved registers).

`Plan` is what the first loop of `codegen_func_call` finds for an argument list: the registers
`given` to each argument and the words it takes. A call in progress keeps its plan, the
arguments still `todo`, and `base`, the height of the stack when it began, from which the pad is
computed. `Pushed` is what `codegen_args` puts on the stack for one argument, and
`Before(words, S, i)` adds up the words of those arguments of `S` that come before argument `i`:
the offset at which its callee looks for it.

### Statements and StatementCode

A statement is a record with its kind and its kids. `Statements` defines which
expression is evaluated next after each, by structure: no labels, no jumps.
`StatementCode` has one operator for each generator function of `codegen.c`,
with the `CodeGen` record passed through; `Init` generates the code of a
program, and `Execute` runs it. The refinement mapping sends a program counter
to the first expression at or behind it, through jumps and labels;
`ImplementsStatements` says that every execution of the code is then an
execution of the statements. `while` and `for` statements are one kind, as in
the code; a `switch` evaluates its operand into a temporary first, which is the
one evaluation the model has. Prologue, epilogue and the calls inside expressions
belong to the other two modules.

### Conditionals and CondReference

The file is read a line per step, and a line is any line: so all files of
`MaxLines` lines are covered. `sections` is the C recursion of
`preprocess_if_section`, `preprocess_group_opt` and `skip_group_opt`: a record
per section with its delimiter kind, whether its group is included, the
nesting counter of the skip and `did_include`. Conditions ask whether a macro is
defined or not, as `#ifdef`, `#ifndef`, `#elifdef`, `#elifndef` and
`defined` do; a condition of a group that is passed over is recorded but not used.
`CondReference` defines on the file as a whole which lines are live, and which
macros are defined behind them.

### Reader, Tokenizer, TokenPipeline

A file is `[buf, pos, line]`. A peek moves the position over splices, as
`infile_peek_char` does, so the operators that read return the file too; behind
the text the buffer reads zero, and a backslash in front of the zero is fatal when it is
looked at. A step of `Tokenizer` is a turn of the loop of `do_tokenize_all`, with
one action for each of its branches; a loop within a branch (a literal, a comment, an
identifier) is `While`, a function of the number of its turns. A turn passes a character, so
`Turns`, one more than the characters of the text, are enough. `at_bol` and `expect_header_name` are the
lexer's fields. Characters that behave alike are one character, and the words
`include`, `define`, `int` are one letter each, which leaves the comparison of
words out. `TokenPipeline` runs the two passes that `main` makes over the result, one
token per step; `last` is `last_nonempty_token_pos`. Texts with directives
stop before the passes, since those belong to the preprocessor.

### MacroExpansion

`frames` is the C recursion of `expand_macro` and `expand_macro_arg`, `arrays`
the token arrays: the one of the file, and one for each argument that is being
expanded (which the code gives a `Preprocessor` of its own). A rescan keeps
`count`, the tokens it has to process, and `processed`; `Returned` adds what a
call of `expand_macro` returns. `already_expanded` is the context's stack of names,
which an argument's preprocessor shares. A token is its kind and the words it was
made of, so that `##` makes a sequence and `#` wraps one. A directive is one token,
which the text frame takes out at the beginning of a line. `rest`, how many tokens stand behind
what an expansion may take, is a history: the code has counts only, and the properties say that
the counts are right. The `##` operators are done in turns (`paste_next`), each of which leaves
the place at which the next begins.

### Inclusion

`stack` is the recursion of `do_preprocess`: a frame for each file being
preprocessed, with its path as it was spelled, position, depth and the text it has
so far; `macros` and `included_files` are shared by all. A text line is known by the trail of
`#include` lines that leads to it, which says what `TextInPlace` needs and which copy of
a header a line is from. Whether a path can be read is the file system's (external),
by the place it leads to. `opened` is a history. Macros are only their names, and sections
only `#ifndef`: that is what guards are made of, and `Conditionals` has the rest.
Fairness: `WF_vars(Next)`. The preprocessor is a single sequential process that
does nothing but its next step, so it never stops while there is one;
`Terminates` then says that there is not one for ever.

### Declarations and DeclReference

The parser is a record with the tokens, the position, the heap of type objects and
the tables; every parse function takes it and returns it with what it made, so that its
operators are named and ordered as the functions. Those that call each other do so through
`parse_part`, the one recursive operator that all of the descent goes through (TLC
unfolds calls when it counts what a run covers, and stops at a repeated one). A type is an index into the heap, because the
code changes types after it made them and declarators of a list share one: the storage class
moves over the heap in `moved_storage`. A step is an external declaration. A program is a
sequence of declarations from one of the families of `MCDeclarations`; each is
spelled into tokens, with its storage class on either side of its base, and what
the tables hold at the end is compared with its meaning.

### Layout

`known` are the types there are; a walk adds a member of any known type, an array
of one, or a bit-field, with the arithmetic of `type_sizeof_struct`,
`type_sizeof_union`, `type_alignof_*` and `type_offsetof` side by side
(`next_offset`, `struct_align`, `type_align`, `Placed`), and `Finish` makes a type of
it, of which the next walk may have members. A type keeps its *leaves*: where the scalars in it are, which the
code never computes as such, and which is what its loads and stores use. `plain`
excludes types with bit-fields of an aligned type, whose size and alignment the code
computes by different rules.

### Values, ExprReference, ExprParser, ExprCode

`ExprReference` has the meaning of an expression in a memory of variables:
value, memory, calls with their arguments, and whether the language defines one. It
also tracks where ducc is known to keep less than the exact value (`keeps`: an `&&` or
`||` whose right operand is not 0 or 1 is only as true as it should be; a narrowed
assignment's value is lost), and the property asks for
what is left. `ExprParser` reads the expression's spelling and builds the typed
tree of `ast.c`, with a `parse_part` as in `Declarations`; `ExprCode` generates instructions for it and runs them, one per
step, on registers, a stack and memory of bytes. The function's frame is reserved as the code
does it: up to the last slot, and the size of that slot once more (`stack_size`, as `frame_size` of `Frame`),
then rounded up to 8, so that `rsp % 16` at the first instruction depends on the
locals and temporaries, and both branches of the alignment test are taken. The machine is scaled down: a byte has
`Radix` = 8 values (3 bits), so that TLC's numbers hold a register of eight bytes; the sizes
of types are the real ones. Instructions that are always written together are one.
The called functions are external: they record their arguments and change every register
that the callee may.

## 3. The runs

`CHECK_DEADLOCK FALSE` is set in all of them because the systems do stop: at the
end of a program, of a file, or at a bound. Fairness is assumed in `Inclusion` only
(section 2); all the other properties are about safety, and their specifications may stop at
any point.

| run | bounds | shows |
|---|---|---|
| `frame` (`MCFrame`) | one name, `int` and a 20-byte structure as parameter types, `char` and a pointer as local types, 7 parameters, 3 locals, 3 scopes, 2 functions | slots and frame are right; a name means its innermost visible declaration |
| `call` (`MCCall`) | argument lists without arguments, of 2 and of 8 scalars, with a pair that finds one register left, with a triple, an array and a scalar; callees by name or pointer; 3 compound expressions; 0 or 1 word of locals | alignment, balance, arguments, operands and frames under any nesting |
| `conditionals` (`MCConditionals`) | 7 lines, one macro, no redefinition | the right lines and macros survive; balanced files and only those are accepted |
| `statements` (`MCStatements`) | all functions of 5 statements of loops, of 5 with goto, `while` around a switch with a body of 4, pairs of functions of 3 of all kinds; two case values and another | labels, context, and the refinement |
| `tokens` (`MCTokenizer`) | all texts of up to 3, 4, 5 or 6 characters over eleven families of 2 to 6 characters | lines, tokens of every kind, literals joined |
| `macros` (`MCMacros`) | a table of five macros that refer downwards and one of four that refer to each other and themselves; invocations nested to three levels, in text, over lines and in conditions, and in pairs; 12 frames | the expansion is that of the C rules; scans stay in their tokens; splices change nothing else; recursion ends |
| `inclusion` (`MCInclusion`) | a source, two headers of up to two lines with and without guards, a header in two directories of which the first may wrap the other, a path with `..`, a missing file; depth limit 4 for the code's 32 | text in its place, dependencies, termination |
| `declarations` (`MCDeclarations`) | every list of up to two specifiers and the sensible ones of three and four; every declarator with up to five derivations; programs of up to four declarations from seven families, each spelled in two ways | types, symbols, tags, enumerators; what is rejected |
| `layout` (`MCLayout`) | scalars of 1, 4 and 8 bytes, arrays of one and three, bit-fields of 1 and 2 bytes, 3 members in a type, 4 in all | members apart and packed, leaves aligned and inside |
| `expressions` (`MCExpressions`) | some 1500 expressions: every pair of binary operators grouped both ways, updates of every kind of place, pointers, structures, casts, conditions, calls; two memories | value, memory and calls are those of C; labels; stack |
| `statements_inner_case` (`MCInnerCase`) | as `statements`, with case labels within other statements | violation of `LabelsHandled` |
| `macro_line_end` (`MCMacroLineEnd`) | two texts: a macro's name, a line end, a directive | violation of `DirectivesSeen` |

Why the bounds are enough.

- *frame*: seven parameters use up the six registers and put one on the stack for
  want of a register, with structures before, between and after them; three locals give
  a small one between two that need padding and one in a scope that is gone; two
  functions show what one leaves to the next. The proofs lift the bounds.
- *call*: two nested levels are needed for a call to disturb its caller's arguments and
  a third for a pad inside a pad; the lists have even and odd numbers of words on the
  stack, which is all the alignment depends on.
- *conditionals*: seven lines hold a section inside a skipped group with a branch and both
  `#endif`s, and a macro that changes a later condition.
- *statements*: five statements hold a break or continue behind an inner loop or switch
  that is done, and a label below a list below a label.
- *tokens*: no punctuator is longer than three characters, and five hold one with a
  splice in it, or two literals with a space between them, or a comment over a
  spliced line; six hold three literals in a row. Families keep characters together that can meet in a token.
  The proofs lift the bound for the lines, the last backslash and the joining of literals.
- *macros*: three levels of nesting put an invocation into an argument of one in an argument;
  two invocations in a row show what a wrong count of the first does to the second; rings of two and
  three names, through objects and through arguments, are all the ways there are to come back to a name.
  The proofs lift the bounds for scans and splices; what an expansion means stays with TLC.
- *inclusion*: two headers can include each other, themselves, and reach one another twice; a limit
  of 4 is passed by rings of one, two and three files. `MaxFrames` is beyond the limit, so that
  a missing test of it would be seen as `overflow`. The proofs lift the bounds for
  dependencies and depth, and for the text of guarded files.
- *declarations*: five derivations hold two nested pairs of parentheses; three declarations
  are a tag that is named, defined and used.
- *layout*: three members are needed for padding between two and behind the last; four give a type in a
  type. The proofs lift the bounds.
- *expressions*: two operators are what precedence and associativity are about; a
  temporary inside an argument inside an operand is the deepest use of the stack that
  differs from the next.

### Inputs that are known to fail

The passing runs leave out inputs for which the code does not do what it should.
They are listed here with the place, because a change of the code should move them
into the instances. Those with a name in parentheses can be tried: put it into the
`.cfg` instead of the constant's value.

- *Calls.* An array as an argument on the stack is pushed as a copy of all its bytes
  while 8 bytes are popped (`ArgLists <- TextOnStack`, `StackRestored` fails; `codegen.c` 387-404,
  565). A structure of 9 to 16 bytes in registers arrives with its words swapped and its second
  register is not pushed (`ArgLists <- PairInRegs`, `FramesIntact`; `codegen.c` 413, `parse.c` 463).
  A callee that is not a name is evaluated behind the pops into registers (`ArgLists <- OneScalar`
  and `Callees <- Computed`, `ArgsAtCall`; `codegen.c` 547).
- *Conditionals.* `#undef` removes one of two definitions (`Redefinitions = TRUE`, `MacrosAsWritten`; `preprocess.c` 384). A skipped
  `#else` group swallows further `#else` and `#elif` lines, up to its `#endif` (1406); `RejectsUnbalanced`
  asks about sections, not about their groups.
- *Statements.* `break` in a loop in a switch leaves the switch (`codegen.c` 694). Case labels within
  other statements of the switch: run `statements_inner_case`.
- *Tokens.* A literal, header name or comment that is not closed is read on past the terminator (status `overrun`; `tokenize.c` 101);
  a splice at the end of the file lets the terminator become a token (`io.c` 58). A source of no or one token never ends: the array of
  tokens starts with capacity zero and is doubled (`tokenize.c` 423, `token.c` 352). `"\\e"`, a
  backslash and an e, becomes a backslash and ESC (`tokenize.c` 466); `literal` follows the code.
- *Macros.* The line end behind a function-like macro's name: run `macro_line_end`. The same count of tokens not given back makes a rescan of
  `m m m` with `m` defined as a name of a function-like macro run past its tokens, as it does an argument
  with an invocation that begins in an expansion and ends behind it; these are what `InvocationsWithin` excludes. A name
  that was not expanded because its macro was being expanded is expanded when it is scanned again in an
  outer argument; parameters next to `#` or `##` are unexpanded in all their places; an invocation that
  is not closed runs past the file; the number of arguments is not checked; white space within an argument of `#` is dropped;
  `##` in object-like macros is not handled.
- *Inclusion.* `#include_next` passes over the file itself only, so that a header wrapped in three directories
  includes the first two in turn up to the depth limit (`preprocess.c` 442). `"x"` is not looked up in
  the include paths; a path in two spellings is two dependencies; `#include_next` lists its
  file by its form, not by the options (1177). `#include` of a macro is not supported.
- *Declarations.* `int a[2][3]` is an array of three arrays of two. A list that mixes derived types with a storage class
  (`static int x, *p`) gives the class to the wrong ones, a typedef'd pointer or array with `static`
  loses it, as does `static int (*fp)(int)` (1404). Parenthesised parameter declarators, a typedef
  repeated, a tentative definition twice (its label is emitted twice), `extern int a[]; int a[3];`, a
  prototype's `static`, `struct { x; }` are not handled.
- *Layout.* A structure without members divides by zero (`to_aligned(0, 0)`); bit-fields of less than a byte take none;
  the size of a type with a bit-field of an aligned type is not a multiple of its alignment; an array of
  unknown length as last member counts as -1 elements.
- *Expressions.* `&&` and `||` give the right operand's value, not 0 or 1 (`codegen.c` 170); an assignment's value is not
  converted to its object's type; all arithmetic of integers has type `int`, so that `sizeof(l + l)` is 4 for longs;
  unsigned objects are loaded with their sign and compared as signed; `(s = t).m`, `i[p]`, and a
  conditional whose second branch has the wider type.

Also barred are programs that C forbids and ducc does not reject: duplicate labels,
`break` outside of loops, expressions whose operands change what another reads.

### Findings

| run | property | what it shows |
|---|---|---|
| `statements_inner_case` | `LabelsHandled` | a case label in an `if` or loop of the switch reaches `unreachable()` |
| `macro_line_end` | `DirectivesSeen` | the line end behind a function-like macro's name is consumed, and a directive on the next line is taken for text |

## 4. The proofs

`Frame_proofs` proves, for all types of parameters and locals with positive
sizes and the alignments 1, 2, 4, 8, all names and all bounds
(`FrameAssumption`):

| theorem | statement | condition on the parameters |
|---|---|---|
| `TypesCorrect` | `[](TypeOK /\ Symbols)` | none |
| `SlotsAlignedCorrect` | `[]SlotsAligned` | none |
| `NamesResolveCorrect` | `[]NamesResolve` | none |
| `Invariance` | `[]IInv` | `OneRegisterParams` |
| `SlotsDisjointCorrect` | `[]SlotsDisjoint` | `OneRegisterParams` |
| `FrameCoversSlotsCorrect` | `[]FrameCoversSlots` | `OneRegisterParams` |
| `ParamsHoldRegistersCorrect` | `[]ParamsHoldRegisters` | `OneRegisterParams` |

`OneRegisterParams` says that no parameter type is 9 to 16 bytes long. It is not
a convenience: `register_params` hands out the offset of a parameter in
registers *before* it adds the parameter's size, so a 16-byte structure gets a
slot that overlaps the parameter before it or, as the first, the saved rbp; and
the prologue pushes one register for it. With such a type in `ParamTypes`,
TLC finds `SlotsDisjoint`, `FrameCoversSlots` and `ParamsHoldRegisters` violated
within two parameters, and `FramesIntact` at a call (`PairInRegs`).

The argument. The properties speak of slots; none is inductive. `IInv` adds

- `Layout`: offsets of slots below rbp grow from slot to slot by at least the
  later one's size, those above rbp shrink by the earlier one's; each slot is aligned and on one
  side of the saved rbp and the return address. Disjointness follows by
  arithmetic (`LayoutImpliesDisjoint`), and `calc_lvar_stack_offset` keeps it because the
  last slot below rbp is then the lowest one (`LastOffsetIsLargest`, `NewOffset`);
- `ParamCounters`, `ParamRegs`: what `register_params` has handed out - the next
  register offset is 8 times the next register, the next stack offset is above all
  of them, registers are given in order and without gaps;
- `Prologue`: after `cursor` parameters rsp has room for exactly the registers of
  those parameters, and `stackSize` covers the slots of the body;
- `Symbols`: symbols of open scopes name slots of this function.

`NamesResolve` has an invariant of its own, `Blocks`: the symbols of a scope are, in the order of
their slots, those declared in it whose block is not over, and all of them (`AddKeepsBlocks`,
`EnterKeepsBlocks`, `LeaveKeepsBlocks`). So the search through one scope finds its first slot of
that name (`FoundInScope`), and the search through the scopes the innermost that has one.

`NextKeepsIInv` has a step for each action. Alignment, types and symbols need
less, and are proved from `OffsetsAligned`, `TypeOK` and `Symbols` for parameters of any type.
`AbiLemmas` holds what is cited from outside: `to_aligned` rounds up to a multiple, a
multiple of the word is one of every alignment, and a non-empty set of
positions has a first and a last element (what the scans of the code stop at).
`FrameInv`'s `IInv` can be checked with `MCFrame.cfg` as one more invariant.

`Layout_proofs` proves, for any scalars with sizes among the alignments, any
lengths of arrays, widths of bit-fields, numbers of members and of types
(`LayoutAssumption`):

| theorem | statement |
|---|---|
| `LayoutTypes` | `[]TypeOK` |
| `LayoutMembersApart` | `[]MembersApart` |
| `LayoutLeavesAligned` | `[]LeavesAligned` |
| `LayoutLeavesWithin` | `[]LeavesWithin` |
| `LayoutNoWaste` | `[]NoWaste` |

The inductive invariant `IInv` adds `Walk`: the leaves of the members passed are aligned *where
the walk has put them*, and the alignment the walk has come to is no less than
theirs. A type is good if its size is a multiple of its alignment, and its leaves are
aligned to no more than that and inside. Three facts carry the induction over
nesting, which is one over steps here, since a type is made of types that were made before: a scalar is good
(`ScalarGood`); an array of a good type is good (`ArrayGood`), because a multiple of an alignment
is one of every smaller one (`Divides`) and multiples add up and multiply (`SumMultiple`, `ProductMultiple`);
and what `Finish` makes of good members is good (`FinishedGood`). `StructStep` and
`UnionStep` show that a turn of each walk keeps `Walk`; for the structure this needs that the next
member's place is behind all others' (`NextPlace`). `NoWaste` is inductive with `Tight`: the walk over a
structure stands at the end of its last member, or at 0 (`TightMember`).

`Inclusion_proofs` proves, for any files, command lines, include paths and depth limit:

| theorem | statement |
|---|---|
| `InclusionListedOnce` | `[]ListedOnce` |
| `InclusionDependencies` | `[]DependenciesComplete` |
| `InclusionDepthBounded` | `[]DepthBounded`: no more than `DepthLimit` files are open at once |

`DependenciesComplete` speaks of the end; `DepsInv` says the same of every state
in which nothing has failed, which is what an `#include` keeps: it adds a path to the
list and an entry to the history, or neither, unless the path is listed already, and then it is
among the paths of the history. `DepthInv` says that the depth of each `Preprocessor` is the number of those below
it, from which the code's test of its own depth bounds the stack.

It also proves, for any command lines, include paths and depth limit:

| theorem | statement | condition |
|---|---|---|
| `InclusionTextInPlace` | `[]TextInPlace` | `WellFormed` |

`WellFormed` says that the files are sequences of lines, that the main file can be read, and that
sections are used as guards only (`GuardsOnly`): a section begins by defining the macro whose
absence it asks for, which nothing else defines; there is no section in it; no file is
included in front of it. The last is needed: with an `#include` in front of the guard the file
can be reached again before its macro is defined, and its guarded text is then that of the inner
inclusion and not of the first. The files of `MCInclusion` satisfy it, which TLC checks as an assumption
(`FilesWellFormed`).

The code inserts the text of a file at the place of the `#include` when that file is through,
so that a text that is there has its final place only at the end. The inductive invariant, `TextInv`,
says for each file in progress what its array holds so far:

- `Frames`, `History`: every file in progress but the innermost is at an `#include`; each file opened
  has a trail, the lines that lead to it;
- `Chain`: each file opened has a trail of its own; each file in progress is one of them; none was
  opened at a line that is still to come;
- `Sections`: a file in progress is inside its guard only if it is the first to be opened of its path;
- `Defined`: the macro of a guard is defined if and only if a file with the guard has been opened and
  the first of these is past the `#define`;
- `Texts`: the array of a file in progress holds what is asked for at and below the lines it has
  passed, each by the rest of its trail from this file on;
- `Ordered`: in the order of these trails.

A line that stays in its file is one lemma, `WholeMoves`, made of one per part (`MovedFrames` to
`MovedOrdered`), from which there is one for each kind of line: `PassText`, `PassDefine`,
`PassEndif`, `EnterSection`, and `SkipSection` with `BehindSection`, which says where the code lands
behind a group that it passes over. `OpenFile` adds a file with an empty text. `CloseFile` puts the
text of a file into that of the file below: the trails get the line of the `#include` in front
(`RestNext`), and stay in order since all that was there comes before it (`OrderInsert`). At the end
the only file is the main one, its rests are the whole trails, and what is asked for below the lines
passed is all that is asked for (`TextAtEnd`).

`Conditionals_proofs` proves, for any set of names and files of any length:

| theorem | statement | condition |
|---|---|---|
| `Invariance` | `[]IInv` | none |
| `TypesCorrect` | `[]TypeOK` | none |
| `KeptIsLiveCorrect` | `[]KeptIsLive` | none |
| `RejectsUnbalancedCorrect` | `[]RejectsUnbalanced` | none |
| `MacrosAsWrittenCorrect` | `[]MacrosAsWritten` | `Redefinitions = FALSE` |

The properties compare the recursion over the lines with `CondReference`, which looks at the
file as a whole and counts. The two meet in `IInv`:

- `Shape`: every section but the innermost is in a group that is included, and only a group
  that is passed over counts the sections in it;
- `Depths`, and the depth of the next line: it is the number of sections in progress plus the
  count of the innermost. This is where the recursion and the nesting counter are one thing;
- a witness `open`: the line that opened each section in progress. That line is live, its
  section is not over (`Opens`), and `did_include`, `include` and the delimiter are what the
  reference says of the groups between that line and the next (`Knows`);
- `NoStray`: no `#elif`, `#else` or `#endif` outside of a section was accepted.

The reference asks about lines before a place only, so that a line more changes none of its
answers about the lines that are there (`OfAppend` to `LiveAppend`), and each answer about the
next line follows from those before it (`DepthStep`, `ClosedStep`, `BranchesStep`). With these,
`LiveHere` says that the next line is live if and only if the code keeps it, and `SameSections`,
`OneMoreSection` and `OneLessSection` carry the witness over a line, with `KnowsElif` and
`KnowsElse` for a line that begins another group. The condition on the macros is the code's:
`#undef` marks the first entry of a name only, so a name that is defined twice stays defined.
Without redefinitions each name has at most one entry that is not removed, `OneEntry`, from
which `MacrosStep` follows.

`CallProtocol_proofs` proves, for any argument lists and callees, any nesting of calls and
operations, and any number of them:

| theorem | statement | conditions |
|---|---|---|
| `Invariance` | `[]IInv` | `SmallOnStack` |
| `TypesCorrect` | `[]TypeOK` | `SmallOnStack` |
| `Aligned` | `[]AlignedAtCall` | `SmallOnStack` |
| `OperandsAreKept` | `[]OperandsSurvive` | `SmallOnStack` |
| `StackIsRestored` | `StackRestored` | `SmallOnStack` |
| `ArgsArePassed` | `[]ArgsAtCall` | `SmallOnStack`, `Plain` |
| `FramesAreIntact` | `[]FramesIntact` | `SmallOnStack`, `Plain` |

The conditions are what the code needs, and `MCCall.cfg` satisfies them; where they fail, TLC
finds the properties violated (`TextOnStack`, `PairInRegs`, `Computed` in `MCCall`):

- `SmallOnStack`: an array that is passed on the stack has at most 8 bytes. `codegen_args`
  pushes a copy as long as the array's size says, `codegen_func_call` pops the 8 bytes of an
  address.
- `Plain`: no argument takes two registers (the prologue pushes one per parameter, and the two
  words arrive swapped), none has 3, 5, 6 or 7 bytes (such a value is not loaded), and the callee
  is a name or a pointer (the code of any other callee overwrites rdi, which has been loaded).

The argument. The stack is made of one part for each code in progress, one behind the other
(`InOrder`), and each part is what its own code has put there as if it ran alone (`Parts`):

- `CallPart`: the pad and the arguments that have been evaluated, each where the call will want
  it; the height of the part follows from the plan and what is still to do, and is even with the
  pad;
- `BinaryPart`: the left operand, if it is pushed;
- `FuncPart`: return address, saved rbp, the registers of the call below, the locals.

Added are what the codes wait for (`Waiting`), that rbp is the frame of the innermost function,
and what the innermost code finds in rax and the registers (`Innermost`). A step changes the last
part, or adds or removes one, and leaves the others as they are (`PartsBelow`, `PartsWithout`);
`CodeBegins`, `CodeGoesOn` and `CodeEnds` do this once for all actions, and for each action
there is a lemma whose name ends in `Keeps`.

Where an argument is, is a sum over the arguments before it. `MapThenSumSet` folds with a CHOOSE,
so the sums come first: `TotalStep` takes one element out, `TotalWithout` and `TotalPart` follow.
`PlanTotals` and `RegsFit` say that the registers handed out are at most six, which is why the
pushes and the pops agree (`PushedIs`, `ArgumentPushed`, `RegistersPopped`), and
`FunctionBegins` that the prologue pushes them where `register_params` has put the parameters.
`IInv` holds also without `Plain`, which guards its parts about contents: alignment and balance
do not depend on what is passed.

`Tokenizer_proofs` proves, for any files of any length of the characters of the model
(`FilesAssumption`) and without other conditions:

| theorem | statement |
|---|---|
| `TypesCorrect` | `Spec => []TypeOK` |
| `LinesCorrect` | `Spec => []LinesCounted` |
| `PipelineTypes` | `PipelineSpec => []PipelineTypeOK` |
| `PipelineLines` | `PipelineSpec => []LinesCounted` |
| `LastBackslashRejected`, `PipelineRejects` | `Spec => []RejectsLastBackslash`, `PipelineSpec => []RejectsLastBackslash` |
| `LiteralsJoined` | `PipelineSpec => []AdjacentLiteralsJoined` |

*Lines.* `LinesCounted` is not inductive: a reader that stood between a CR and its LF would count
one line end twice, and would do so only with its next step. `TInv` says of the reader that it has
`Counted` - its line is one more than the line ends in front of it - and that it is not within a
line end (`Split`). `SpliceCounts` and `CharacterCounts` are the two ways it moves, a splice
and a character. Each loop is a function of the number of its turns: `TurnsExist` shows that
there is such a function (TLA+ defines it by a CHOOSE), `TurnsStay` that what each turn keeps
holds behind the last; `SplicedStays` to `QuotedStays` do this for each loop of the code, with how
far behind the text it may get, and `NextKeeps` has one step for each branch of the tokenizer.

*The last backslash.* What the status says (`fatal` only of a text that ends in a backslash, `done`
and `overrun` of none) needs to know where the reader can be: `Held`, a part of `Counted`, says that it
never is behind such a backslash. It is one more fact that each loop keeps, and the reason is the same in
all: no splice begins there, and a character is not taken there.

*Literals.* The pass joins in place: the text of a literal is complete only at the next token that
is neither a literal nor white space, which may be any number of tokens away. So the invariant
`JInv` splits the tokens at `pos` and names the one the pass is behind, `last`: the places before
`pos` have what the parser will get of them (`Settled`), but for `last`, whose text is what
it will have once what follows `pos` is added (`Behind`); and the last token that is not
white space is a literal exactly if `last` is, which is why the test of the code, of one
token, is enough. `PassesBlank`, `JoinsLiteral` and `StartsAnew` are its three cases, `PassEnds` its
end; `Given` counts the tokens of the second pass, one for each start, with `GivenStep`.

`MacroExpansion_proofs` proves, for any tables of macros and any texts whose last line is
complete (`ProgramsAssumption`):

| theorem | statement | condition |
|---|---|---|
| `PlacedAlways` | `[](Placed /\ NamesApart)` | none |
| `TypesCorrect` | `[]TypeOK` | none |
| `NotWithinItself` | `[]NoMacroWithinItself` | none |
| `ExpansionsBounded` | no more expansions in progress than macros | none |
| `FrontIsKept` | `[][InFrontKept]_vars` | none |
| `ScansEndWhereWritten` | `[]ScansOwnTokens` | `[]InvocationsWithin` |
| `SplicesKeepTheRest` | `SplicesInPlace` | `[]InvocationsWithin` |
| `ObjectLikeMacrosEnd` | `[](RecursionEnds /\ ScansOwnTokens)` | `ObjectLike`, `RoomForAll` |

The condition `InvocationsWithin` is about the macros and the text, not about the counts: when an
expansion reaches the name of a function-like macro, the parenthesis and the invocation end within
it. C lets an invocation go on behind the expansion; `expand_macro` then returns the
count of the name that it replaced first, so that a scan that waits for it, of an argument or an expansion,
has counted too few, and `StopsAtOwnEnd` fails. `ScansOwnTokens` contains the condition, so that the run
shows that its instances meet it; with object-like macros only, it always holds (`SimpleInvoked`).

The inductive invariants, from the one the others rest on:

- `Placed`: every position is in its array, the frames are in order, each argument has the array of
  its depth (`ArrayOf`), an invocation in progress begins at the position of its array and ends behind
  a closing parenthesis in it (`CallsOK`), and the text's own array has a complete last line
  (`TailOK`). `CallsOK` must be known of invocations that wait, since it is used when their
  arguments are through, any number of splices later; it holds because those happen in arrays further in;
- `NamesApart`: the names in progress are macros, and different from each other. An invocation
  whose arguments are being expanded is not yet among the code's `already_expanded`, so that
  `Apart` says of an invocation only that its name is not that of an expansion further out.
  `NoMacroWithinItself` follows, and that there are no more expansions than macros
  (`RescansBounded`);
- `Balanced`: for each scan in progress, what it has still to count. The innermost has as many tokens
  in front of what stands behind it as it has left; one that waits for an expansion has
  the tokens of the invocation (`before`) among those it has left, and as many behind (`rest`) as will be
  left then; one that waits for an invocation ends behind it. This is why `EndRescan` must return the
  number of tokens there were and not of those there are: `rest` does not change when the expansion
  does.

Every action is one of six changes to arrays and frames: a move forward (`MoveIs`), an
invocation (`InvokeIs`), an argument begun (`ExpandArgIs`) or done (`EndArgIs`, `KeepArgIs`), a splice
(`SubstituteIs`, `ExpandObjectIs`, which share `Splice`), and a return. Each invariant has a lemma for
each change (`Moved...`, `Push...`, `Pop...`, `Spliced...`, `Returned...`). `ReplaceFacts` says what
`replace_pp_tokens` leaves where it was, from both ends; `ArgumentsAre`, `SubstitutedIs`, `PastedIs` and
`WithoutPlacemarkersIs` that arguments and replacements are tokens, `PastedIs` with the recursive
function over the turns (`TurnsExist` and `TurnsStay` of `AbiLemmas`, which hold of any such function).

Only model-checked: the properties of `StatementCode`, `Declarations` and `ExprCode`,
`TokensOfLogical` of `Tokenizer`, and `ExpandsAsDefined` of `MacroExpansion`,
with `RecursionEnds` for tables with function-like macros, whose depth depends on how the arguments in the
text nest. `TokensOfLogical` compares a
step that reads one token with a reference that reads the whole text behind it, so that its proof
is an induction over the text. `Statements`, `StatementCode`, `MacroReference`, `MacroMeaning`,
`DeclReference`, `Declarations`, `Values`, `ExprReference`, `ExprParser` and `ExprCode` have RECURSIVE
operators and are outside TLAPS: what a recursive definition computes for every input cannot be
proved with the provers at hand, since that is an induction over data. `Terminates` is liveness
under fairness, which the prover does not do; its safety part is `InclusionDepthBounded`.

The type invariants of `Frame`, `Layout`, `Conditionals`, `CallProtocol`, `Tokenizer`,
`TokenPipeline` and `MacroExpansion` are theorems. Those
of the other modules say what the variables hold; they hold with the same `.cfg` files as one more
invariant, but the runs leave them out in favour of properties that say more.

## 5. Not modelled, and why

- Token names and printing, JSON dumps, bundled headers: data and formatting.
- The WebAssembly back end: an experiment that handles a few statement kinds.
- gcc, the assembler, the file system: outside; the models use what the code
  expects of them (labels unique and defined, calling convention, files that can be read or not).
- Characters: words are compared as a whole, and numbers are digits only where a token's
  kind depends on them; the values of literals are the reference's.
- Attributes and `static_assert`: parsed and ignored. Floating types: the code generator has no code for them.
- The parser of statements: one node per statement; the programs of `Statements` are the
  trees it builds.
- The constant evaluator, data of initialisers, `va_start` and `va_arg`, growable arrays
  and the driver are planned.

## 6. Plan

In this order, each with an instance, properties aimed at its hazards, and
proofs where marked (P):

1. `GrowableArray` (`lib/common.c`, and its copies in `token.c`, `parse.c`): no access beyond the
   capacity (P); the missing terminator of the string table; the capacity of zero.
2. `VaArgs` (`codegen.c` 433-500), composed with the frame of the caller.
3. `ConstantEvaluator` (`parse.c` 2814-2896, 32-bit integers) and the data of initialisers.
4. The parser of statements on the pattern of `ExprParser`, so that `StatementCode` gets its trees from
   their spelling.
5. The driver as the composition of the phases.
