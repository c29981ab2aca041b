------------------------------- MODULE Frame -------------------------------
(***************************************************************************)
(* The stack frame of a function, as parse.c lays it out while it parses   *)
(* the definition and as the prologue of codegen.c sets it up.             *)
(*                                                                         *)
(* A local variable at stack_offset o lives at the addresses rbp-o ..      *)
(* rbp-o+size-1 (codegen_lvar); rbp+0 .. rbp+7 holds the caller's rbp and  *)
(* rbp+8 .. rbp+15 the return address.  Parameters passed on the stack     *)
(* have negative offsets.  A slot is never reused in the function: leaving *)
(* a scope hides its names and keeps its slots.                            *)
(***************************************************************************)
EXTENDS Abi, Sequences

CONSTANTS
  Names,        \* identifiers of the program
  NoName,       \* the name of a compiler temporary (NULL in the code)
  ParamTypes,   \* types of parameters:   records [size, align]
  LocalTypes,   \* types of locals and temporaries
  MaxParams,    \* bound: parameters of one function
  MaxLocals,    \* bound: locals and temporaries of one function
  MaxScopes,    \* bound: nested scopes
  MaxFuncs      \* bound: function definitions of the program

Types == ParamTypes \cup LocalTypes

ASSUME FrameAssumption ==
  /\ NoName \notin Names
  /\ Types \subseteq [size : Nat \ {0}, align : Alignments]
  /\ MaxParams \in Nat /\ MaxLocals \in Nat
  /\ MaxScopes \in Nat /\ MaxFuncs \in Nat

VARIABLES
  phase,         \* where the definition of a function is
  lvars,         \* Parser.lvars: the slots, in order of declaration
  scopes,        \* Parser.scope: sequences of symbols, innermost scope last
  gpRegs,        \* locals of register_params(): registers left, and the
  regOffset,     \*   next offsets of a parameter in a register
  stackOffset,   \*   and of one on the stack
  nParams,       \* the first nParams slots are the parameters
  stackSize,     \* FuncDefNode.stack_size
  cursor,        \* parameters the prologue has been through
  rsp,           \* bytes below rbp that the prologue has reserved
  nFuncs,        \* functions parsed so far
  block          \* history: for each slot, how many scopes were open when it
                 \* was declared, 0 once the innermost of them is left

paramVars == <<gpRegs, regOffset, stackOffset>>
frameVars == <<stackSize, cursor, rsp>>
vars == <<phase, lvars, scopes, paramVars, nParams, frameVars, nFuncs, block>>

(* reg is not a field of the code's LocalVar: it is the first register     *)
(* (1 is rdi) that the caller puts the value in, 0 for any other slot.     *)
Lvar == [name : Names \cup {NoName}, size : Nat \ {0}, align : Alignments,
         offset : Int, reg : 0..GpRegs]
Symbol == [name : Names \cup {NoName}, index : Nat \ {0}]

TypeOK ==
  /\ phase \in {"file", "params", "body", "prologue", "running", "fatal"}
  /\ lvars \in Seq(Lvar)
  /\ scopes \in Seq(Seq(Symbol))
  /\ gpRegs \in 0..GpRegs
  /\ regOffset \in Int /\ stackOffset \in Int
  /\ nParams \in 0..Len(lvars)
  /\ stackSize \in Nat /\ cursor \in Nat /\ rsp \in Nat /\ nFuncs \in Nat
  /\ block \in Seq(Nat)
----------------------------------------------------------------------------
(* find_lvar_in_scope: the index of the first symbol of that name, or 0.   *)
find_lvar_in_scope(syms, n) ==
  LET hits == {i \in DOMAIN syms : syms[i].name = n}
  IN  IF hits = {} THEN 0
      ELSE syms[CHOOSE i \in hits : \A j \in hits : i <= j].index

(* Mutant: the outermost.                                                  *)
find_outermost(n) ==
  LET hits == {s \in DOMAIN scopes : find_lvar_in_scope(scopes[s], n) # 0}
  IN  IF hits = {} THEN 0
      ELSE find_lvar_in_scope(scopes[CHOOSE s \in hits : \A r \in hits : s <= r], n)

(* find_lvar: the innermost scope that knows the name wins.                *)
find_lvar(n) ==
  LET hits == {s \in DOMAIN scopes : find_lvar_in_scope(scopes[s], n) # 0}
  IN  IF hits = {} THEN 0
      ELSE find_lvar_in_scope(scopes[CHOOSE s \in hits : \A r \in hits : r <= s], n)

(* The last slot that is not a parameter passed on the stack.              *)
LastOffset ==
  LET below == {i \in DOMAIN lvars : lvars[i].offset > 0}
  IN  IF below = {} THEN 0
      ELSE lvars[CHOOSE i \in below : \A j \in below : j <= i].offset

(* Mutants: no alignment; the last slot of all instead of the last below.   *)
calc_unaligned(ty) == LastOffset + ty.size
calc_from_last(ty) ==
  to_aligned((IF lvars = <<>> THEN 0 ELSE lvars[Len(lvars)].offset) + ty.size, ty.align)

(* calc_lvar_stack_offset: below that slot.                                *)
calc_lvar_stack_offset(ty) == to_aligned(LastOffset + ty.size, ty.align)

(* add_lvar: a slot, and a symbol for it in the innermost scope.           *)
add_lvar(n, ty, offset, reg) ==
  /\ lvars' = Append(lvars, [name |-> n, size |-> ty.size, align |-> ty.align,
                             offset |-> offset, reg |-> reg])
  /\ scopes' = [scopes EXCEPT ![Len(scopes)] =
                   Append(@, [name |-> n, index |-> Len(lvars) + 1])]
  /\ block' = Append(block, Len(scopes))

enter_scope == scopes' = Append(scopes, <<>>)
leave_scopes(k) == scopes' = SubSeq(scopes, 1, Len(scopes) - k)

(* The history of the k innermost scopes ends.                             *)
Hidden(k) == block' = [i \in DOMAIN block |-> IF block[i] > Len(scopes) - k THEN 0 ELSE block[i]]
----------------------------------------------------------------------------
Init ==
  /\ phase = "file"
  /\ lvars = <<>> /\ scopes = <<>>
  /\ gpRegs = GpRegs /\ regOffset = Word /\ stackOffset = -(2 * Word)
  /\ nParams = 0 /\ stackSize = 0 /\ cursor = 0 /\ rsp = 0 /\ nFuncs = 0
  /\ block = <<>>

(* parse_function_definition up to register_params.                        *)
EnterFunc ==
  /\ phase \in {"file", "running"} /\ nFuncs < MaxFuncs
  /\ phase' = "params"
  /\ lvars' = <<>> /\ block' = <<>> /\ nParams' = 0
  /\ enter_scope
  /\ gpRegs' = GpRegs /\ regOffset' = Word /\ stackOffset' = -(2 * Word)
  /\ stackSize' = 0 /\ cursor' = 0 /\ rsp' = 0
  /\ UNCHANGED nFuncs

(* The bytes that a parameter takes.  Mutant: not rounded up to words.     *)
area_exact(ty) == ty.size
param_area(ty) == to_aligned(ty.size, Word)

(* One turn of the loop of register_params.                                *)
RegisterParam(n, ty) ==
  LET regs == RegsGiven(ty.size, gpRegs)
      area == param_area(ty)
  IN
  /\ phase = "params" /\ Len(lvars) < MaxParams
  /\ gpRegs' = gpRegs - regs
  /\ \/ /\ regs = 0
        /\ add_lvar(n, ty, stackOffset, 0)
        /\ stackOffset' = stackOffset - area
        /\ UNCHANGED regOffset
     \/ /\ regs # 0
        /\ add_lvar(n, ty, regOffset, GpRegs - gpRegs + 1)
        /\ regOffset' = regOffset + area
        /\ UNCHANGED stackOffset
  /\ nParams' = nParams + 1
  /\ UNCHANGED <<phase, frameVars, nFuncs>>

(* parse_compound_stmt on the body: a scope inside the parameters' scope.  *)
EnterBody ==
  /\ phase = "params"
  /\ phase' = "body"
  /\ enter_scope
  /\ UNCHANGED <<lvars, paramVars, nParams, frameVars, nFuncs, block>>

(* A nested compound statement, or the header of a for statement.          *)
EnterBlock ==
  /\ phase = "body" /\ Len(scopes) < MaxScopes
  /\ enter_scope
  /\ UNCHANGED <<phase, lvars, paramVars, nParams, frameVars, nFuncs, block>>

LeaveBlock ==
  /\ phase = "body" /\ Len(scopes) > 2
  /\ leave_scopes(1) /\ Hidden(1)
  /\ UNCHANGED <<phase, lvars, paramVars, nParams, frameVars, nFuncs>>

(* process_declarations in a function: a name new to the innermost scope   *)
(* gets a slot, a name that scope has is fatal ("redeclared").             *)
Declare(n, ty) ==
  /\ phase = "body" /\ Len(lvars) - nParams < MaxLocals
  /\ find_lvar_in_scope(scopes[Len(scopes)], n) = 0
  /\ add_lvar(n, ty, calc_lvar_stack_offset(ty), 0)
  /\ UNCHANGED <<phase, paramVars, nParams, frameVars, nFuncs>>

Redeclare(n) ==
  /\ phase = "body"
  /\ find_lvar_in_scope(scopes[Len(scopes)], n) # 0
  /\ phase' = "fatal"
  /\ UNCHANGED <<lvars, scopes, paramVars, nParams, frameVars, nFuncs, block>>

(* generate_temporary_lvar: the operand of a switch, and e++ and e--.      *)
Temporary(ty) ==
  /\ phase = "body" /\ Len(lvars) - nParams < MaxLocals
  /\ add_lvar(NoName, ty, calc_lvar_stack_offset(ty), 0)
  /\ UNCHANGED <<phase, paramVars, nParams, frameVars, nFuncs>>

(* FuncDefNode.stack_size: read off the last slot; none if that is on the  *)
(* caller's side.  Mutant: off the first slot.                             *)
size_of_first == IF lvars = <<>> THEN 0 ELSE IF lvars[1].offset < 0 THEN 0 ELSE lvars[1].offset
frame_size ==
  LET size == IF lvars = <<>> THEN 0 ELSE lvars[Len(lvars)].offset + lvars[Len(lvars)].size
  IN  IF size < 0 THEN 0 ELSE size

(* The end of parse_function_definition: the scopes of the body and of the *)
(* parameters are left and the frame's size is known.  Mutant of the first *)
(* part: the parameters' scope stays open.                                 *)
leave_body_only == leave_scopes(1)
leave_function == leave_scopes(2)
LeaveFunc ==
  /\ phase = "body" /\ Len(scopes) = 2
  /\ phase' = "prologue"
  /\ leave_function /\ Hidden(2)
  /\ stackSize' = frame_size
  /\ cursor' = 0 /\ rsp' = 0
  /\ nFuncs' = nFuncs + 1
  /\ UNCHANGED <<lvars, paramVars, nParams>>

(* codegen_func_prologue.  The code generates it when the whole program is *)
(* parsed, from a definition that no longer changes.  A turn of its loop   *)
(* pushes the next argument register for a parameter not on the stack.     *)
PushParam ==
  /\ phase = "prologue" /\ cursor < nParams
  /\ cursor' = cursor + 1
  /\ rsp' = IF lvars[cursor + 1].offset >= 0 THEN rsp + Word ELSE rsp
  /\ UNCHANGED <<phase, lvars, scopes, paramVars, nParams, stackSize, nFuncs, block>>

ReserveFrame ==
  /\ phase = "prologue" /\ cursor = nParams
  /\ phase' = "running"
  /\ rsp' = rsp + to_aligned(stackSize, Word)
  /\ UNCHANGED <<lvars, scopes, paramVars, nParams, stackSize, cursor, nFuncs, block>>

Next ==
  \/ EnterFunc \/ EnterBody \/ EnterBlock \/ LeaveBlock \/ LeaveFunc
  \/ \E n \in Names, ty \in ParamTypes : RegisterParam(n, ty)
  \/ \E n \in Names, ty \in LocalTypes : Declare(n, ty)
  \/ \E n \in Names : Redeclare(n)
  \/ \E ty \in LocalTypes : Temporary(ty)
  \/ PushParam \/ ReserveFrame

Spec == Init /\ [][Next]_vars
----------------------------------------------------------------------------
(* Byte k of slot i is at rbp - Slot(i).offset + k.                        *)
Start(i) == -lvars[i].offset
End(i)   == Start(i) + lvars[i].size

(* No two variables of a function share a byte, whatever the scopes they   *)
(* were declared in and the order of declarations, parameters and          *)
(* temporaries: calc_lvar_stack_offset and register_params never hand out  *)
(* an address twice.                                                       *)
SlotsDisjoint ==
  \A i, j \in DOMAIN lvars : i < j => End(i) <= Start(j) \/ End(j) <= Start(i)

(* Every slot is at a multiple of its type's alignment.                    *)
SlotsAligned ==
  \A i \in DOMAIN lvars : lvars[i].offset % lvars[i].align = 0

(* When the body runs, all its variables lie in the bytes the prologue has *)
(* reserved below rbp, or above the return address: stack_size, read off   *)
(* the last slot only, is enough for all of them, and none of them covers  *)
(* the saved rbp or the return address.                                    *)
FrameCoversSlots ==
  phase = "running" =>
    \A i \in DOMAIN lvars :
      \/ -rsp <= Start(i) /\ End(i) <= 0
      \/ 2 * Word <= Start(i)

(* The r-th push of the prologue leaves argument register r at rbp-8r.     *)
(* Every parameter passed in registers has the whole of its value there:   *)
(* its slot is where the prologue pushed the registers the caller used.    *)
ParamsHoldRegisters ==
  phase = "running" =>
    \A i \in 1..nParams :
      LET reg == lvars[i].reg IN
      reg # 0 => \A k \in 0..(RegsWanted(lvars[i].size) - 1) :
                   /\ Start(i) + Word * k = -(Word * (reg + k))
                   /\ Word * (reg + k) + to_aligned(stackSize, Word) <= rsp

(* A name means the declaration of it that is visible and innermost, also *)
(* where blocks that are over have declared it, before or since, further   *)
(* in or further out; of parameters of one name it means the first.  A     *)
(* name that no visible declaration declares means no local variable: no   *)
(* symbol outlives its block or its function.                              *)
Visible(n) == {i \in DOMAIN lvars : lvars[i].name = n /\ block[i] # 0}
Hides(i, j) == block[j] < block[i] \/ (block[j] = block[i] /\ i <= j)
NamesResolve ==
  \A n \in Names :
    IF Visible(n) = {} THEN find_lvar(n) = 0
    ELSE find_lvar(n) \in Visible(n) /\ \A j \in Visible(n) : Hides(find_lvar(n), j)
=============================================================================
