------------------------------ MODULE FrameInv ------------------------------
(***************************************************************************)
(* The inductive invariant of Frame.  The properties of Frame only speak   *)
(* of the slots; what makes them inductive is how the counters of          *)
(* register_params, the offsets already handed out and the pushes of the   *)
(* prologue keep pace with each other.                                     *)
(***************************************************************************)
EXTENDS Frame

(***************************************************************************)
(* No parameter type takes two registers.  The prologue pushes one         *)
(* register for each parameter, so only then do slots and pushes agree.    *)
(***************************************************************************)
OneRegisterParams == \A ty \in ParamTypes : RegsWanted(ty.size) # 2

UsedRegs == GpRegs - gpRegs

(* Offsets grow downwards for slots below rbp, upwards above it.           *)
Layout ==
  \A i \in DOMAIN lvars :
    /\ lvars[i].offset % lvars[i].align = 0
    /\ lvars[i].offset >= lvars[i].size \/ lvars[i].offset <= -(2 * Word)
    /\ \A j \in DOMAIN lvars : i < j =>
         /\ lvars[i].offset > 0 /\ lvars[j].offset > 0 =>
              lvars[j].offset >= lvars[i].offset + lvars[j].size
         /\ lvars[i].offset < 0 /\ lvars[j].offset < 0 =>
              lvars[j].offset <= lvars[i].offset - lvars[i].size

(* What register_params has handed out so far.                             *)
ParamCounters ==
  /\ regOffset = Word * (UsedRegs + 1)
  /\ stackOffset <= -(2 * Word) /\ stackOffset % Word = 0
  /\ \A i \in DOMAIN lvars :
       lvars[i].offset < 0 => stackOffset <= lvars[i].offset - lvars[i].size
  /\ phase = "params" => nParams = Len(lvars)

(* Parameters in registers, and only they, have a register; the registers  *)
(* are 1, 2, 3, ... in the order of the parameters.                        *)
ParamRegs ==
  /\ \A i \in DOMAIN lvars :
       /\ lvars[i].reg # 0 =>
            /\ i <= nParams /\ lvars[i].size <= Word
            /\ lvars[i].reg <= UsedRegs /\ lvars[i].offset = Word * lvars[i].reg
       /\ i <= nParams => (lvars[i].reg # 0 <=> lvars[i].offset > 0)
       /\ i > nParams => lvars[i].offset > 0
       /\ \A j \in DOMAIN lvars :
            i < j /\ lvars[i].reg # 0 /\ lvars[j].reg # 0 => lvars[i].reg < lvars[j].reg
  /\ \A r \in 1..UsedRegs : \E i \in DOMAIN lvars : lvars[i].reg = r

(* The prologue: the pushes made so far are those of the first parameters, *)
(* and the size of the frame covers the slots of the body.                 *)
Prologue ==
  /\ phase \in {"prologue", "running"} =>
       \A i \in DOMAIN lvars : i > nParams => lvars[i].offset <= stackSize
  /\ phase = "prologue" =>
       /\ cursor <= nParams /\ rsp % Word = 0
       /\ \A i \in DOMAIN lvars : lvars[i].reg # 0 =>
            (i <= cursor <=> Word * lvars[i].reg <= rsp)
  /\ phase = "running" =>
       /\ \A i \in DOMAIN lvars : lvars[i].reg # 0 =>
            Word * lvars[i].reg + to_aligned(stackSize, Word) <= rsp
       /\ to_aligned(stackSize, Word) <= rsp

(* Symbols of open scopes name slots of this function.                     *)
Symbols ==
  /\ phase \in {"file", "prologue", "running"} => scopes = <<>>
  /\ phase = "params" => Len(scopes) = 1
  /\ phase \in {"body", "fatal"} => Len(scopes) >= 2
  /\ \A s \in DOMAIN scopes : \A k \in DOMAIN scopes[s] :
       LET sym == scopes[s][k] IN
       sym.index \in DOMAIN lvars /\ lvars[sym.index].name = sym.name

(* The symbols of a scope are, in order, the slots declared in it that are *)
(* not hidden, and all of them.                                            *)
Blocks ==
  /\ DOMAIN block = DOMAIN lvars
  /\ \A s \in DOMAIN scopes : \A k \in DOMAIN scopes[s] :
       /\ block[scopes[s][k].index] = s
       /\ \A m \in DOMAIN scopes[s] : k < m => scopes[s][k].index < scopes[s][m].index
  /\ \A i \in DOMAIN lvars : block[i] # 0 =>
       block[i] \in DOMAIN scopes /\ \E k \in DOMAIN scopes[block[i]] : scopes[block[i]][k].index = i

(* What keeps slots aligned, for parameters of any type.                   *)
OffsetsAligned ==
  /\ SlotsAligned
  /\ regOffset % Word = 0 /\ stackOffset % Word = 0

IInv ==
  /\ TypeOK
  /\ Layout
  /\ ParamCounters
  /\ ParamRegs
  /\ Prologue
  /\ Symbols
=============================================================================
