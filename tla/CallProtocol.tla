---------------------------- MODULE CallProtocol ----------------------------
(***************************************************************************)
(* The machine code of an expression, as codegen.c generates it: operands  *)
(* and arguments live on the stack while the next one is evaluated, a call *)
(* pops its arguments into registers, and the callee's prologue pushes the *)
(* registers into the slots that parse.c gave its parameters.              *)
(*                                                                         *)
(* The program is what it evaluates: expressions nested in any way, up to  *)
(* MaxExprs of them.  `ctl` is the code being executed, innermost last.    *)
(*   func   a function's body is running;                                  *)
(*   binary a binary expression or an assignment: one operand is pushed    *)
(*          while the other is evaluated;                                  *)
(*   call   a call is evaluating its arguments, or waits for the callee.   *)
(* The stack is a sequence of words and grows to the right: rsp points to  *)
(* its last word, and the word at address rbp - 8k is stack[rbp + k].      *)
(***************************************************************************)
EXTENDS Abi, Sequences, SequencesExt, FiniteSetsExt

CONSTANTS
  ArgLists,    \* argument lists: sequences of [size, array]
  Callees,     \* how calls name the callee: by its name, by a pointer that
               \*   needs only rax to be read, or by any other expression
  MaxLocals,   \* bound: words that a prologue reserves below the parameters
  MaxExprs     \* bound: calls and binary expressions of a run

ASSUME CallAssumption ==
  /\ ArgLists \subseteq Seq([size : Nat \ {0}, array : BOOLEAN])
  /\ Callees \subseteq {"named", "pointer", "computed"}
  /\ MaxLocals \in Nat /\ MaxExprs \in Nat

VARIABLES stack, regs, rax, rbp, ctl, mode, exprs
vars == <<stack, regs, rax, rbp, ctl, mode, exprs>>

(* A word is part k of the value of the expression that place `pos` of the *)
(* code at depth `at` of ctl asked for: 1 is its first word, 0 its address *)
(* when the value is an array or does not fit in a register.               *)
Cell(at, pos, part) == [at |-> at, pos |-> pos, part |-> part]
Junk          == Cell(0, 0, 0)
ReturnAddress == Cell(0, 0, 1)
SavedRbp(i)   == Cell(0, i, 2)
Part(v, k)    == [v EXCEPT !.part = k]
Cells         == [at : Nat, pos : Nat, part : Nat]

----------------------------------------------------------------------------
(* Registers of arguments (codegen_args, codegen_func_call) and of         *)
(* parameters (register_params): one pass from the left, as in Abi.  The   *)
(* plan says for each how many registers it has been given, and the words  *)
(* it takes in memory.                                                     *)
SizePassed(arg) == IF arg.array THEN Word ELSE arg.size
WordsOf(size) == to_aligned(size, Word) \div Word

(* The registers left behind the first i arguments.                        *)
Free(args) ==
  LET free[i \in 0..Len(args)] ==
        IF i = 0 THEN GpRegs ELSE free[i - 1] - RegsGiven(SizePassed(args[i]), free[i - 1])
  IN  free

Plan(args) ==
  [given |-> [i \in DOMAIN args |-> RegsGiven(SizePassed(args[i]), Free(args)[i - 1])],
   words |-> [i \in DOMAIN args |-> WordsOf(SizePassed(args[i]))]]

OnStack(plan) == {i \in DOMAIN plan.given : plan.given[i] = 0}
InRegs(plan)  == {i \in DOMAIN plan.given : plan.given[i] # 0}

(* What the places of S have of w together, and those in front of i.       *)
Total(w, S)     == MapThenSumSet(LAMBDA i : w[i], S)
Before(w, S, i) == Total(w, {j \in S : j < i})

(* -pass_by_stack_offset - 16 of codegen_func_call.  Mutant: a word for    *)
(* each argument on the stack, whatever its size.                          *)
StackWords(plan) == Word * Cardinality(OnStack(plan))
StackBytes(plan) == Word * Total(plan.words, OnStack(plan))

(* stack_offset of parameter i.  An array argument is a pointer there.     *)
(* Mutant: the parameters on the stack begin at the return address.        *)
stack_offset_low(plan, i) ==
  IF i \in OnStack(plan) THEN -Word - Word * Before(plan.words, OnStack(plan), i)
  ELSE Word + Word * Before(plan.words, InRegs(plan), i)
stack_offset(plan, i) ==
  IF i \in OnStack(plan) THEN -(2 * Word) - Word * Before(plan.words, OnStack(plan), i)
  ELSE Word + Word * Before(plan.words, InRegs(plan), i)

(* codegen_lval2rval leaves an address in rax unless it can load a value   *)
(* of that size.                                                           *)
PartLoaded(arg) == IF arg.array \/ arg.size \notin {1, 2, 4, 8} THEN 0 ELSE 1

(* The words a callee must find for a value: an array passes its address.  *)
Words(arg, v) ==
  IF arg.array THEN <<Part(v, 0)>>
  ELSE [k \in 1..WordsOf(arg.size) |-> Part(v, k)]
----------------------------------------------------------------------------
Top == ctl[Len(ctl)]
SetTop(c, x) == [c EXCEPT ![Len(c)] = x]

(* codegen_args goes from right to left, first over the arguments that are *)
(* passed on the stack.  Mutant: from left to right.                       *)
NextArgFromLeft(call) ==
  LET onStack == call.todo \cap OnStack(call.plan)
  IN  IF onStack # {} THEN Min(onStack) ELSE Min(call.todo)
NextArg(call) ==
  LET onStack == call.todo \cap OnStack(call.plan)
  IN  IF onStack # {} THEN Max(onStack) ELSE Max(call.todo)

(* What the innermost code of c asks for, as it arrives in rax.            *)
Value(c) ==
  LET top == c[Len(c)] IN
  IF top.kind = "call" /\ top.stage = "args"
  THEN Cell(Len(c), NextArg(top), PartLoaded(top.args[NextArg(top)]))
  ELSE IF top.kind = "binary" THEN Cell(Len(c), IF top.pushed THEN 2 ELSE 1, 1)
  ELSE Cell(Len(c), 0, 1)

(* The value of a whole expression is dropped at the end of its statement. *)
Answer(c) ==
  /\ rax' = Value(c)
  /\ mode' = IF c[Len(c)].kind = "func" THEN "eval" ELSE "done"

(* Expressions may nest where one is asked for, the bound permitting.      *)
Compound ==
  /\ mode = "eval" /\ exprs < MaxExprs
  /\ ~(Top.kind = "call" /\ Top.stage = "call" /\ Top.callee = "pointer")

Drop(n) == SubSeq(stack, 1, Len(stack) - n)

(* rdi, and what a division (rdx) or a shift (rcx) overwrites.             *)
Clobber(R) == regs' = [r \in 1..GpRegs |-> IF r \in R THEN Junk ELSE regs[r]]
----------------------------------------------------------------------------
(* main has been called with an aligned stack and has run its prologue.    *)
Init ==
  /\ \E n \in 0..MaxLocals :
       stack = <<ReturnAddress, SavedRbp(0)>> \o [k \in 1..n |-> Junk]
  /\ rbp = 2
  /\ regs = [r \in 1..GpRegs |-> Junk] /\ rax = Junk
  /\ ctl = <<[kind |-> "func", rbp |-> 2]>>
  /\ mode = "eval" /\ exprs = 0

(* A constant, a variable, a string: only rax changes.                     *)
Leaf ==
  /\ mode = "eval" /\ Top.kind # "func"
  /\ Answer(ctl)
  /\ UNCHANGED <<stack, regs, rbp, ctl, exprs>>

BeginBinary ==
  /\ Compound
  /\ ctl' = Append(ctl, [kind |-> "binary", pushed |-> FALSE, lhs |-> Junk, base |-> Len(stack)])
  /\ exprs' = exprs + 1
  /\ UNCHANGED <<stack, regs, rax, rbp, mode>>

(* codegen_binary_expr: push rax, and the right-hand side.                 *)
PushLhs ==
  /\ mode = "done" /\ Top.kind = "binary" /\ ~Top.pushed
  /\ stack' = Append(stack, rax)
  /\ ctl' = SetTop(ctl, [Top EXCEPT !.lhs = rax, !.pushed = TRUE])
  /\ mode' = "eval"
  /\ UNCHANGED <<regs, rax, rbp, exprs>>

(* mov rdi, rax; pop rax; and the operation.                               *)
Operate ==
  /\ mode = "done" /\ Top.kind = "binary" /\ Top.pushed
  /\ stack' = Drop(1)
  /\ \E R \in {{1}, {1, 3}, {1, 4}} : Clobber(R)
  /\ ctl' = Front(ctl)
  /\ Answer(ctl')
  /\ UNCHANGED <<rbp, exprs>>

(* The test of the alignment that rsp will have at the call instruction,   *)
(* made at run time, and the words of the pad.  Mutant: the arguments on   *)
(* the stack are not reckoned with.                                        *)
pad_before_args(plan) == IF (Word * Len(stack)) % (2 * Word) = 0 THEN 0 ELSE 1
pad_words(plan) ==
  LET odd == StackBytes(plan) % (2 * Word) # 0
  IN  IF (Word * Len(stack) + (IF odd THEN Word ELSE 0)) % (2 * Word) = 0 THEN 0 ELSE 1

(* codegen_func_call up to the arguments.                                  *)
BeginCall(args, callee) ==
  LET plan == Plan(args)
      pad  == pad_words(plan)
  IN
  /\ Compound
  /\ stack' = stack \o [k \in 1..pad |-> Junk]
  /\ ctl' = Append(ctl, [kind |-> "call", args |-> args, plan |-> plan, callee |-> callee, pad |-> pad,
                         todo |-> DOMAIN args, vals |-> [i \in DOMAIN args |-> Junk],
                         stage |-> "args", base |-> Len(stack)])
  /\ mode' = IF args = <<>> THEN "done" ELSE "eval"
  /\ exprs' = exprs + 1
  /\ UNCHANGED <<regs, rax, rbp>>

(* What codegen_args pushes for an argument.                               *)
Pushed(arg, given, v) ==
  IF given = 2 THEN <<Part(v, 1), Part(v, 2)>>
  ELSE IF given = 1 \/ arg.size <= Word THEN <<v>>
  ELSE Reverse([k \in 1..WordsOf(arg.size) |-> Part(v, k)])

(* One argument has been evaluated: codegen_args pushes it.                *)
PushArg ==
  LET call == Top
      i    == NextArg(call)
  IN
  /\ mode = "done" /\ call.kind = "call" /\ call.stage = "args" /\ call.todo # {}
  /\ stack' = stack \o Pushed(call.args[i], call.plan.given[i], rax)
  /\ ctl' = SetTop(ctl, [call EXCEPT !.todo = @ \ {i}, !.vals = [@ EXCEPT ![i] = rax]])
  /\ mode' = IF call.todo = {i} THEN "done" ELSE "eval"
  /\ UNCHANGED <<regs, rax, rbp, exprs>>

(* The pops at the end of codegen_args, and mov rax, 0.  A callee that is  *)
(* not a function's name is evaluated after them.                          *)
PopRegs ==
  LET n == Total(Top.plan.given, InRegs(Top.plan)) IN
  /\ mode = "done" /\ Top.kind = "call" /\ Top.stage = "args" /\ Top.todo = {}
  /\ regs' = [r \in 1..GpRegs |-> IF r <= n THEN stack[Len(stack) - r + 1] ELSE regs[r]]
  /\ stack' = Drop(n)
  /\ rax' = Junk
  /\ ctl' = SetTop(ctl, [Top EXCEPT !.stage = "call"])
  /\ mode' = IF Top.callee = "named" THEN "done" ELSE "eval"
  /\ UNCHANGED <<rbp, exprs>>

AtCall == mode = "done" /\ Top.kind = "call" /\ Top.stage = "call"

(* The callee is a function of another compiler.                           *)
CallExternal ==
  /\ AtCall
  /\ Clobber(1..GpRegs)
  /\ ctl' = SetTop(ctl, [Top EXCEPT !.stage = "back"])
  /\ rax' = Value(Front(ctl))
  /\ UNCHANGED <<stack, rbp, mode, exprs>>

(* call, and the prologue of the callee: a push for each parameter in      *)
(* registers, whatever its size.                                           *)
CallInternal(locals) ==
  /\ AtCall
  /\ stack' = stack \o <<ReturnAddress, SavedRbp(rbp)>>
                    \o [r \in 1..Cardinality(InRegs(Top.plan)) |-> regs[r]]
                    \o [k \in 1..locals |-> Junk]
  /\ rbp' = Len(stack) + 2
  /\ ctl' = Append(ctl, [kind |-> "func", rbp |-> rbp'])
  /\ mode' = "eval"
  /\ UNCHANGED <<regs, rax, exprs>>

(* pop rbp of codegen_func_epilogue.                                       *)
popped_rbp == stack[rbp].pos

(* codegen_func_epilogue.  main's own return ends the program.             *)
Return ==
  /\ mode = "eval" /\ Top.kind = "func" /\ Len(ctl) > 1
  /\ stack' = SubSeq(stack, 1, rbp - 2)
  /\ rbp' = popped_rbp
  /\ Clobber(1..GpRegs)
  /\ ctl' = SetTop(Front(ctl), [Last(Front(ctl)) EXCEPT !.stage = "back"])
  /\ rax' = Value(Front(Front(ctl)))
  /\ mode' = "done"
  /\ UNCHANGED exprs

(* Words popped behind the call: the pad and the arguments on the stack.   *)
(* Mutant: the pad stays.                                                  *)
popped_args(call) == StackBytes(call.plan) \div Word
popped_words(call) == call.pad + StackBytes(call.plan) \div Word

AfterCall ==
  /\ mode = "done" /\ Top.kind = "call" /\ Top.stage = "back"
  /\ stack' = Drop(popped_words(Top))
  /\ ctl' = Front(ctl)
  /\ mode' = IF ctl'[Len(ctl')].kind = "func" THEN "eval" ELSE "done"
  /\ UNCHANGED <<regs, rax, rbp, exprs>>

Next ==
  \/ Leaf \/ BeginBinary \/ PushLhs \/ Operate
  \/ \E args \in ArgLists, callee \in Callees : BeginCall(args, callee)
  \/ PushArg \/ PopRegs \/ CallExternal
  \/ \E n \in 0..MaxLocals : CallInternal(n)
  \/ Return \/ AfterCall

Spec == Init /\ [][Next]_vars
----------------------------------------------------------------------------
FuncCode   == [kind : {"func"}, rbp : Nat]
BinaryCode == [kind : {"binary"}, pushed : BOOLEAN, lhs : Cells, base : Nat]
CallCode   ==
  [kind : {"call"}, args : ArgLists, plan : {Plan(args) : args \in ArgLists}, callee : Callees,
   pad : {0, 1}, todo : SUBSET Nat, vals : Seq(Cells), stage : {"args", "call", "back"}, base : Nat]
Codes == FuncCode \cup BinaryCode \cup CallCode

TypeOK ==
  /\ stack \in Seq(Cells) /\ rax \in Cells
  /\ regs \in [1..GpRegs -> Cells]
  /\ rbp \in DOMAIN stack
  /\ mode \in {"eval", "done"} /\ exprs \in 0..MaxExprs
  /\ ctl \in Seq(Codes) /\ ctl # <<>>
----------------------------------------------------------------------------
(* At every call instruction rsp is a multiple of 16, however many         *)
(* operands and arguments of enclosing expressions are on the stack.       *)
AlignedAtCall == AtCall => (Word * Len(stack)) % (2 * Word) = 0

(* At every call instruction the arguments are where the System V calling  *)
(* convention has them: in rdi, rsi, ... in order, the others word by word *)
(* from rsp upwards.  Nothing evaluated in between has disturbed one.      *)
ArgsAtCall ==
  AtCall =>
    LET plan == Top.plan IN
    \A i \in DOMAIN Top.args :
      LET words == Words(Top.args[i], Top.vals[i]) IN
      \A k \in DOMAIN words :
        words[k] = IF i \in InRegs(plan)
                   THEN regs[Before(plan.given, InRegs(plan), i) + k]
                   ELSE stack[Len(stack) - Before(plan.words, OnStack(plan), i) - (k - 1)]

(* rbp of the innermost function among the first k of c.                   *)
FrameOf(c, k) == Max({c[d].rbp : d \in {d \in 1..k : c[d].kind = "func"}})

(* As long as a function runs, each of its parameters holds, at the offset *)
(* parse.c has given it, the value its caller computed for the argument;   *)
(* and the saved rbp and the return address below them are intact.         *)
FramesIntact ==
  \A c \in 2..Len(ctl) : ctl[c].kind = "func" =>
    LET fp   == ctl[c].rbp
        call == ctl[c - 1]
    IN
    /\ stack[fp - 1] = ReturnAddress
    /\ stack[fp] = SavedRbp(FrameOf(ctl, c - 1))
    /\ \A i \in DOMAIN call.args :
         LET words == Words(call.args[i], call.vals[i])
             slot  == stack_offset(call.plan, i) \div Word
         IN  \A k \in DOMAIN words : stack[fp + slot - (k - 1)] = words[k]

(* An expression leaves rsp where it found it: what follows it in the      *)
(* enclosing expression finds its own operands.                            *)
StackRestored ==
  [][Len(ctl') < Len(ctl) /\ Top.kind # "func" => Len(stack') = Top.base]_vars

(* The operand that a binary expression pops is the one it pushed, after   *)
(* any evaluation of the other operand.                                    *)
OperandsSurvive ==
  mode = "done" /\ Top.kind = "binary" /\ Top.pushed =>
    Last(stack) = Top.lhs
=============================================================================
