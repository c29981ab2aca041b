------------------------------ MODULE ExprCode ------------------------------
(***************************************************************************)
(* The machine code that codegen.c generates for an expression, and the    *)
(* machine that runs it.  An expression leaves its value in rax, or, when  *)
(* it is generated as an lvalue, its address; operands wait on the stack.  *)
(* Instructions that codegen.c always writes together are one instruction  *)
(* here.  The processor, and the functions that are called, are external.  *)
(***************************************************************************)
EXTENDS ExprParser

CONSTANTS
  Programs,    \* the expressions
  Objects,     \* what the variables may hold at the beginning
  StackTop,    \* what rbp points to
  Junk         \* what is in memory and registers that nobody has set

ASSUME CodeAssumption ==
  /\ Radix = 8 /\ StackTop % 16 = 0
  /\ DOMAIN Variables = {v.name : v \in Range(Locals) \cup Range(Globals)} \cup {Text}

VARIABLES
  program,     \* the expression, and the objects it starts with
  code,        \* its instructions
  frame,       \* the size of the function's frame
  pc, regs, memory,
  called,      \* the calls made, with their arguments
  status       \* source, rejected, running, trap
vars == <<program, code, frame, pc, regs, memory, called, status>>
----------------------------------------------------------------------------
(* Instructions.  rdi is the right operand and rax the left one.           *)
Imm(v)        == [op |-> "mov", v |-> v]
LeaFrame(n)   == [op |-> "lea", below |-> n, name |-> ""]
LeaName(name) == [op |-> "lea", below |-> 0, name |-> name]
LoadBytes(n)  == [op |-> "load", n |-> n]
Extend(n)     == [op |-> "movsx", n |-> n]
Push          == [op |-> "push"]
Pop(reg)      == [op |-> "pop", reg |-> reg]
RaxToRdi      == [op |-> "mov rdi, rax"]
LoadTop       == [op |-> "mov rax, [rsp]"]
Alu(what)     == [op |-> "alu", what |-> what]
Store_(n)     == [op |-> "store", n |-> n]
CopyByte(k)   == [op |-> "copy", k |-> k]
JumpZero(l)   == [op |-> "je", to |-> l]
JumpAligned(l) == [op |-> "jaligned", to |-> l]
Jump(l)       == [op |-> "jmp", to |-> l]
Label(l)      == [op |-> "label", to |-> l]
AddRsp(n)     == [op |-> "rsp", n |-> n]
CallName(f)   == [op |-> "call", name |-> f]
CallRax       == [op |-> "call rax"]

(* g is the code so far with the next label.  Mutant: a label is reused.   *)
Emit(g, instrs) == [g EXCEPT !.code = @ \o instrs]
codegen_same_label(g) == g
codegen_new_label(g) == [g EXCEPT !.next = @ + 1]
Else(g) == <<"else", g.next>>
End(g)  == <<"end", g.next>>
Aligned(g) == <<"aligned", g.next>>
----------------------------------------------------------------------------
(* Arrays and functions stay addresses, and so does what is not 1, 2, 4 or *)
(* 8 bytes.                                                                *)
codegen_lval2rval(ty) ==
  IF ty.kind \notin {"array", "func"} /\ type_sizeof(ty) \in {1, 2, 4, 8}
  THEN <<LoadBytes(type_sizeof(ty))>> ELSE <<>>

codegen_variable(g, lea, ty, mode) ==
  Emit(g, <<lea>> \o (IF mode = "rval" THEN codegen_lval2rval(ty) ELSE <<>>))

(* Only the smaller of the two sizes is of interest.                       *)
codegen_cast(from, to) ==
  LET src == type_sizeof(from)  dst == type_sizeof(to)
  IN  IF src = dst THEN <<>>
      ELSE IF dst < src THEN <<Extend(dst)>> ELSE <<Extend(src)>>

(* The operation of a binary operator or a compound assignment; `ty` is    *)
(* the type of the left operand.                                           *)
operation(op, ty) ==
  LET sign == IF type_is_unsigned(ty) THEN "u" ELSE "s"
  IN  CASE op \in {"/", "%"} -> <<Alu(op \o sign)>>
        [] op = ">>" -> <<Alu(op \o sign)>>
        [] OTHER -> <<Alu(op)>>

(* Stores of 1, 2, 4, 8 bytes; other values are copied byte by byte.       *)
store(n) == IF n \in {1, 2, 4, 8} THEN <<Store_(n)>> ELSE [k \in 1..n |-> CopyByte(k - 1)]

RECURSIVE codegen_expr(_, _, _), codegen_args(_, _, _)

codegen_logical(g0, e) ==
  LET g == codegen_new_label(g0)
      l == Emit(codegen_expr(g, e.lhs, "rval"), <<JumpZero(Else(g))>>)
      skip == <<Jump(End(g)), Label(Else(g))>>
  IN  IF e.op = "&&"
      THEN Emit(codegen_expr(l, e.rhs, "rval"), skip \o <<Imm(0), Label(End(g))>>)
      ELSE Emit(codegen_expr(Emit(l, <<Imm(1)>> \o skip), e.rhs, "rval"), <<Label(End(g))>>)

codegen_binary(g, e, mode) ==
  LET l == Emit(codegen_expr(g, e.lhs, mode), <<Push>>)
      r == Emit(codegen_expr(l, e.rhs, mode), <<RaxToRdi, Pop("rax")>>)
  IN  Emit(r, operation(e.op, e.lhs.ty))

codegen_cond(g0, e, mode) ==
  LET g == codegen_new_label(g0)
      c == Emit(codegen_expr(g, e.cond, "rval"), <<JumpZero(Else(g))>>)
      t == Emit(codegen_expr(c, e.then, mode), <<Jump(End(g)), Label(Else(g))>>)
  IN  Emit(codegen_expr(t, e.else_, mode), <<Label(End(g))>>)

(* The address waits on the stack while the right-hand side is evaluated.  *)
codegen_assign(g, e) ==
  LET l == Emit(codegen_expr(g, e.lhs, "lval"), <<Push>>)
      r == codegen_expr(l, e.rhs, "rval")
      updated == IF e.op = "=" THEN <<>>
                 ELSE <<RaxToRdi, LoadTop>> \o codegen_lval2rval(e.lhs.ty)
                      \o operation(SubSeq(e.op, 1, Len(e.op) - 1), e.lhs.ty)
  IN  Emit(r, updated \o <<Pop("rdi")>> \o store(type_sizeof(e.lhs.ty)))

(* Arguments in registers, from the last to the first.                     *)
ParamRegs == <<"rdi", "rsi", "rdx">>
codegen_args(g, args, i) ==
  IF i = 0 THEN Emit(g, [j \in DOMAIN args |-> Pop(ParamRegs[j])])
  ELSE codegen_args(Emit(codegen_expr(g, args[i], "rval"), <<Push>>), args, i - 1)

(* The arguments are generated twice, behind a pad and without one.        *)
(* Mutant: the pad stays.                                                  *)
call_once(g, e) ==
  LET args == codegen_args(g, e.args, Len(e.args))
  IN  IF e.func.kind = "func" THEN Emit(args, <<Imm(0), CallName(e.func.name)>>)
      ELSE Emit(codegen_expr(Emit(args, <<Imm(0)>>), e.func, "rval"), <<CallRax>>)
func_call_padded(g0, e) ==
  LET g == codegen_new_label(g0)
      padded == call_once(Emit(g, <<JumpAligned(Aligned(g)), AddRsp(-8)>>), e)
  IN  Emit(call_once(Emit(padded, <<Jump(End(g)), Label(Aligned(g))>>), e), <<Label(End(g))>>)
codegen_func_call(g0, e) ==
  LET g == codegen_new_label(g0)
      padded == call_once(Emit(g, <<JumpAligned(Aligned(g)), AddRsp(-8)>>), e)
  IN  Emit(call_once(Emit(padded, <<AddRsp(8), Jump(End(g)), Label(Aligned(g))>>), e), <<Label(End(g))>>)

codegen_expr(g, e, mode) ==
  CASE e.kind = "int" -> Emit(g, <<Imm(e.value)>>)
    [] e.kind = "str" -> Emit(g, <<LeaName(Text)>>)
    [] e.kind = "func" -> Emit(g, <<LeaName(e.name)>>)
    [] e.kind = "lvar" -> codegen_variable(g, LeaFrame(e.stack_offset), e.ty, mode)
    [] e.kind = "gvar" -> codegen_variable(g, LeaName(e.name), e.ty, mode)
    [] e.kind = "unary" -> Emit(codegen_expr(g, e.of, "rval"), <<Alu(e.op)>>)
    [] e.kind = "ref" -> codegen_expr(g, e.of, "lval")
    [] e.kind = "deref" -> Emit(codegen_expr(g, e.of, "rval"),
                                IF mode = "rval" THEN codegen_lval2rval(e.of.ty.base) ELSE <<>>)
    [] e.kind = "cast" -> Emit(codegen_expr(g, e.of, "rval"), codegen_cast(e.of.ty, e.ty))
    [] e.kind = "binary" -> codegen_binary(g, e, mode)
    [] e.kind = "logical" -> codegen_logical(g, e)
    [] e.kind = "cond" -> codegen_cond(g, e, mode)
    [] e.kind = "assign" -> codegen_assign(g, e)
    [] e.kind = "call" -> codegen_func_call(g, e)
    [] e.kind = "list" -> FoldLeft(LAMBDA acc, item : codegen_expr(acc, item, "rval"), g, e.items)
----------------------------------------------------------------------------
(* The machine.  Where things are: functions, variables of the file and    *)
(* the string at low addresses, the frame below StackTop.                  *)
Placed == Append(Globals, [name |-> Text, ty |-> Array(Scalar("char"), 2)])
GlobalAddresses ==
  [i \in DOMAIN Placed |->
    to_aligned(FoldLeft(LAMBDA at, v : to_aligned(at, 8) + type_sizeof(v.ty), 8, SubSeq(Placed, 1, i - 1)), 8)]
FunctionList == SetToSeq(DOMAIN Functions_)
AddressOf(name) ==
  IF name \in DOMAIN Functions_ THEN SelectInSeq(FunctionList, LAMBDA f : f = name)
  ELSE GlobalAddresses[SelectInSeq(Placed, LAMBDA v : v.name = name)]

(* The address of an object of the language.                               *)
RECURSIVE Within(_, _)
Within(ty, path) ==
  IF path = <<>> THEN 0
  ELSE IF ty.kind = "array" THEN type_sizeof(ty.base) * path[1] + Within(ty.base, Tail(path))
  ELSE type_offsetof(ty, path[1]) + Within(type_member_typeof(ty, path[1]), Tail(path))
ObjectAddress(name) ==
  LET l == SelectLastInSeq(Locals, LAMBDA v : v.name = name)
  IN  IF l # 0 THEN StackTop - LocalOffsets[l] ELSE AddressOf(name)
Address_(path) ==
  IF path[1] \in DOMAIN Functions_ THEN AddressOf(path[1])
  ELSE ObjectAddress(path[1]) + Within(Variables[path[1]], Tail(path))
CellAddress == [path \in Paths(AllCells) |-> Address_(path)]
Address(path) == IF path \in DOMAIN CellAddress THEN CellAddress[path] ELSE Address_(path)

Bits(v, ty) == IF ty.kind = "ptr" THEN Address(v) ELSE Signed(v, type_sizeof(ty))

Bytes(at, n)   == [k \in 1..n |-> memory[at + k - 1]]
Written(m, at, v, n) ==
  LET bytes == Encoded(v, n)
  IN  FoldLeft(LAMBDA acc, k : [acc EXCEPT ![at + k - 1] = bytes[k]], m, [k \in 1..n |-> k])
Extent(c) == Address(c.path)..(Address(c.path) + type_sizeof(c.ty) - 1)
InScope   == UNION {Extent(c) : c \in AllCells}
Owner     == [a \in InScope |-> CHOOSE c \in AllCells : a \in Extent(c)]
Before ==
  [a \in 8..(StackTop - 1) |->
    IF a \notin InScope THEN Junk
    ELSE LET c == Owner[a]
         IN  Encoded(Bits(program.objects[c.path], c.ty), type_sizeof(c.ty))[a - Address(c.path) + 1]]

Init ==
  /\ \E e \in Programs, mem \in Objects : program = [e |-> e, objects |-> mem]
  /\ code = <<>> /\ frame = 0 /\ pc = 1 /\ called = <<>>
  /\ regs = [r \in {"rax", "rdi", "rsi", "rdx", "rcx", "rsp"} |-> Junk]
  /\ memory = <<>> /\ status = "source"

(* The statement is compiled, and run within its function.                 *)
Generated(r) ==
  IF r.ok
  THEN /\ code' = codegen_expr([code |-> <<>>, next |-> 1], r.e, "rval").code
       /\ frame' = to_aligned(stack_size(r), 8)
       /\ regs' = [regs EXCEPT !["rsp"] = StackTop - frame']
       /\ memory' = Before /\ status' = "running"
  ELSE status' = "rejected" /\ UNCHANGED <<code, frame, regs, memory>>
Compile ==
  /\ status = "source"
  /\ Generated(Parse(Spelled(program.e, 1)))
  /\ UNCHANGED <<program, pc, called>>

Running(op) == status = "running" /\ pc \in DOMAIN code /\ code[pc].op = op
I == code[pc]
Advance == pc' = pc + 1 /\ UNCHANGED <<program, code, frame, status>>
Set(reg, v) == regs' = [regs EXCEPT ![reg] = v] /\ UNCHANGED <<memory, called>>
PcOf(l) == SelectInSeq(code, LAMBDA i : i.op = "label" /\ i.to = l)
Goto(l) == pc' = PcOf(l) /\ UNCHANGED <<program, code, frame, status, regs, memory, called>>

Move == /\ Running("mov") /\ Set("rax", I.v) /\ Advance
Lea  == /\ Running("lea")
        /\ Set("rax", IF I.name = "" THEN StackTop - I.below ELSE AddressOf(I.name)) /\ Advance
ToRdi == Running("mov rdi, rax") /\ Set("rdi", regs["rax"]) /\ Advance
Sign == Running("movsx") /\ Set("rax", Signed(regs["rax"], I.n)) /\ Advance

(* An access to memory that is not there is a fault.                       *)
Mapped(at, n) == at \in DOMAIN memory /\ at + n - 1 \in DOMAIN memory
Fault == status' = "trap" /\ UNCHANGED <<program, code, frame, pc, regs, memory, called>>
Read == /\ Running("load")
        /\ IF Mapped(regs["rax"], I.n)
           THEN Set("rax", Decoded(Bytes(regs["rax"], I.n))) /\ Advance ELSE Fault
ReadTop == /\ Running("mov rax, [rsp]")
           /\ Set("rax", Decoded(Bytes(regs["rsp"], Word))) /\ Advance
Write == /\ Running("store")
         /\ IF Mapped(regs["rdi"], I.n)
            THEN /\ memory' = Written(memory, regs["rdi"], regs["rax"], I.n)
                 /\ UNCHANGED <<regs, called>> /\ Advance
            ELSE Fault
Copy == /\ Running("copy")
        /\ IF Mapped(regs["rax"] + I.k, 1) /\ Mapped(regs["rdi"] + I.k, 1)
           THEN /\ memory' = [memory EXCEPT ![regs["rdi"] + I.k] = memory[regs["rax"] + I.k]]
                /\ UNCHANGED <<regs, called>> /\ Advance
           ELSE Fault
PushRax == /\ Running("push")
           /\ memory' = Written(memory, regs["rsp"] - Word, regs["rax"], Word)
           /\ regs' = [regs EXCEPT !["rsp"] = @ - Word]
           /\ UNCHANGED called /\ Advance
PopReg == /\ Running("pop")
          /\ regs' = [regs EXCEPT !["rsp"] = @ + Word, ![I.reg] = Decoded(Bytes(regs["rsp"], Word))]
          /\ UNCHANGED <<memory, called>> /\ Advance
MoveRsp == Running("rsp") /\ Set("rsp", regs["rsp"] + I.n) /\ Advance

(* The arithmetic of registers.                                            *)
ShiftCount(v) == v % 16
Computed(what, a, b) ==
  CASE what = "+" -> Signed(a + b, Word)
    [] what = "-" -> Signed(a - b, Word)
    [] what = "*" -> Product(a, b)
    [] what = "/s" -> Quotient(a, b)  [] what = "%s" -> Remainder(a, b)
    [] what = "/u" -> Signed(Unsigned(a) \div Unsigned(b), Word)
    [] what = "%u" -> Signed(Unsigned(a) % Unsigned(b), Word)
    [] what = "&" -> BitsOf("and", a, b) [] what = "|" -> BitsOf("or", a, b) [] what = "^" -> BitsOf("xor", a, b)
    [] what = "<<" -> Product(a, 2 ^ ShiftCount(b))
    [] what = ">>s" -> a \div 2 ^ ShiftCount(b)
    [] what = ">>u" -> Signed(Unsigned(a) \div 2 ^ ShiftCount(b), Word)
    [] what = "==" -> Bit(a = b) [] what = "!=" -> Bit(a # b)
    [] what = "<" -> Bit(a < b)  [] what = "<=" -> Bit(a <= b)
    [] what = "!" -> Bit(a = 0)  [] what = "~" -> -a - 1
Compute == /\ Running("alu")
           /\ IF I.what \in {"/s", "%s", "/u", "%u"} /\ regs["rdi"] = 0 THEN Fault
              ELSE Set("rax", Computed(I.what, regs["rax"], regs["rdi"])) /\ Advance

Skip == Running("label") /\ UNCHANGED <<regs, memory, called>> /\ Advance
Branch == /\ status = "running" /\ pc \in DOMAIN code
          /\ \/ I.op = "jmp"
             \/ I.op = "je" /\ regs["rax"] = 0
             \/ I.op = "jaligned" /\ regs["rsp"] % 16 = 0
          /\ Goto(I.to)
FallThrough == /\ status = "running" /\ pc \in DOMAIN code
               /\ \/ I.op = "je" /\ regs["rax"] # 0
                  \/ I.op = "jaligned" /\ regs["rsp"] % 16 # 0
               /\ UNCHANGED <<regs, memory, called>> /\ Advance

(* A call uses the stack and the argument registers as it likes.           *)
Enter(f) ==
  LET args == [i \in 1..Functions_[f] |-> Signed(regs[ParamRegs[i]], 4)]
  IN  /\ called' = Append(called, <<f, args>>)
      /\ regs' = [r \in DOMAIN regs |-> IF r = "rsp" THEN regs[r] ELSE IF r = "rax" THEN Returned(args) ELSE Junk]
      /\ memory' = [a \in DOMAIN memory |-> IF a \in (regs["rsp"] - 2 * Word)..(regs["rsp"] - 1)
                                            THEN Junk ELSE memory[a]]
      /\ Advance
CallFunction == Running("call") /\ Enter(I.name)
CallPointer == /\ Running("call rax")
               /\ IF regs["rax"] \in DOMAIN FunctionList THEN Enter(FunctionList[regs["rax"]]) ELSE Fault

Next ==
  \/ Compile \/ Move \/ Lea \/ ToRdi \/ Sign \/ Read \/ ReadTop \/ Write \/ Copy
  \/ PushRax \/ PopReg \/ MoveRsp \/ Compute \/ Skip \/ Branch \/ FallThrough
  \/ CallFunction \/ CallPointer

Spec == Init /\ [][Next]_vars
----------------------------------------------------------------------------
Ended == status = "running" /\ pc \notin DOMAIN code

(* An expression that the language gives a meaning to is compiled, and     *)
(* computes it: the value is in rax, every variable holds what it should,  *)
(* and the calls that were to be made have been made, once each, with      *)
(* their arguments.                                                        *)
Occurrences(x, s) == Cardinality({i \in DOMAIN s : s[i] = x})
ComputesAsWritten ==
  status \in {"rejected", "trap"} \/ Ended =>
    \A m \in {Eval(program.e, program.objects)}, ty \in {Decayed(TypeOf(program.e))} :
      m.ok =>
        /\ Ended
        /\ m.keeps = "exact" /\ ty.kind # "struct" => regs["rax"] = Bits(m.v, ty)
        /\ \A c \in AllCells : Decoded(Bytes(Address(c.path), type_sizeof(c.ty))) = Bits(m.mem[c.path], c.ty)
        /\ Len(called) = Len(m.called)
        /\ \A x \in Range(called) : Occurrences(x, called) = Occurrences(x, m.called)

(* Every jump of the code has one label to go to: the code of arguments,   *)
(* which is there twice, has its own labels each time.                     *)
JumpsLand ==
  pc = 1 => \A i \in DOMAIN code : code[i].op \in {"je", "jaligned", "jmp"} =>
              Cardinality({j \in DOMAIN code : code[j] = Label(code[i].to)}) = 1

(* Operands and temporaries never meet the variables: rsp stays below the  *)
(* frame, is back there at the end, and the only bytes of the frame and of *)
(* the file's variables that have changed belong to a variable in scope or *)
(* to a temporary, whose slots lie below those of the variables.           *)
StackKept ==
  status = "running" =>
    /\ regs["rsp"] <= StackTop - frame
    /\ Ended => /\ regs["rsp"] = StackTop - frame
                /\ \A a \in DOMAIN memory \ InScope : memory[a] # Junk => a < StackTop - LocalsSize
=============================================================================
