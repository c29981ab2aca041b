---------------------------- MODULE Frame_proofs ----------------------------
(***************************************************************************)
(* Proofs about Frame, for every set of names and types and any bounds.    *)
(***************************************************************************)
EXTENDS FrameInv, AbiLemmas, SequenceTheorems

LEMMA TypesAreTypes ==
  ASSUME NEW ty \in Types
  PROVE  ty.size \in Nat \ {0} /\ ty.align \in Alignments
BY FrameAssumption DEF FrameAssumption, Types

(* Alignments are positive, and a slot is as long as its type says.        *)
LEMMA LvarFields ==
  ASSUME TypeOK, NEW i \in DOMAIN lvars
  PROVE  /\ lvars[i] \in Lvar
         /\ lvars[i].name \in Names \cup {NoName}
         /\ lvars[i].size \in Nat \ {0} /\ lvars[i].align \in Alignments
         /\ lvars[i].offset \in Int /\ lvars[i].reg \in 0..GpRegs
<1>1. lvars[i] \in Lvar  BY DEF TypeOK
<1> QED  BY <1>1 DEF Lvar

(* What appending one slot and its symbol does to the two structures.      *)
LEMMA AddLvar ==
  ASSUME TypeOK, NEW n \in Names \cup {NoName}, NEW ty \in Types,
         NEW off \in Int, NEW reg \in 0..GpRegs,
         Len(scopes) >= 1, add_lvar(n, ty, off, reg)
  PROVE  LET lv == [name |-> n, size |-> ty.size, align |-> ty.align,
                    offset |-> off, reg |-> reg]
         IN  /\ lvars' \in Seq(Lvar)
             /\ Len(lvars') = Len(lvars) + 1
             /\ DOMAIN lvars' = 1..(Len(lvars) + 1)
             /\ DOMAIN lvars = 1..Len(lvars)
             /\ \A i \in DOMAIN lvars : lvars'[i] = lvars[i]
             /\ lvars'[Len(lvars) + 1] = lv
             /\ scopes' \in Seq(Seq(Symbol))
             /\ Len(scopes') = Len(scopes)
<1> DEFINE lv == [name |-> n, size |-> ty.size, align |-> ty.align,
                  offset |-> off, reg |-> reg]
           top == scopes[Len(scopes)]
           sym == [name |-> n, index |-> Len(lvars) + 1]
<1>1. lv \in Lvar
  BY TypesAreTypes DEF Lvar
<1>2. lvars \in Seq(Lvar) /\ Len(lvars) \in Nat /\ lvars' = Append(lvars, lv)
  BY DEF TypeOK, add_lvar
<1>3. /\ lvars' \in Seq(Lvar) /\ Len(lvars') = Len(lvars) + 1
      /\ DOMAIN lvars' = 1..(Len(lvars) + 1) /\ DOMAIN lvars = 1..Len(lvars)
      /\ \A i \in DOMAIN lvars : lvars'[i] = lvars[i]
      /\ lvars'[Len(lvars) + 1] = lv
  BY <1>1, <1>2
<1>4. scopes \in Seq(Seq(Symbol)) /\ Len(scopes) \in 1..Len(scopes)
  BY DEF TypeOK
<1>5. Append(top, sym) \in Seq(Symbol)
  BY <1>2, <1>4 DEF Symbol
<1>6. scopes' = [scopes EXCEPT ![Len(scopes)] = Append(top, sym)]
  BY DEF add_lvar
<1>7. scopes' \in Seq(Seq(Symbol)) /\ Len(scopes') = Len(scopes)
  BY <1>4, <1>5, <1>6, ExceptSeq
<1> QED  BY <1>3, <1>7

(* The scan of calc_lvar_stack_offset from the back finds the largest      *)
(* offset: offsets below rbp grow from slot to slot.                       *)
LEMMA LastOffsetIsLargest ==
  ASSUME TypeOK, Layout
  PROVE  /\ LastOffset \in Nat
         /\ \A i \in DOMAIN lvars : lvars[i].offset <= LastOffset
<1> DEFINE below == {i \in DOMAIN lvars : lvars[i].offset > 0}
<1>1. Len(lvars) \in Nat /\ DOMAIN lvars = 1..Len(lvars)
  BY DEF TypeOK
<1>2. \A i \in DOMAIN lvars : lvars[i].offset \in Int /\ lvars[i].size \in Nat
  BY LvarFields
<1>3. CASE below = {}
  <2>1. LastOffset = 0  BY <1>3 DEF LastOffset
  <2> QED  BY <1>2, <1>3, <2>1
<1>4. CASE below # {}
  <2> DEFINE last == CHOOSE i \in below : \A j \in below : j <= i
  <2>1. below \subseteq 0..Len(lvars)  BY <1>1
  <2>2. \E i \in below : \A j \in below : j <= i
    BY <1>1, <1>4, <2>1, LastExists
  <2>3. last \in below /\ \A j \in below : j <= last
    BY <2>2
  <2>4. LastOffset = lvars[last].offset
    BY <1>4 DEF LastOffset
  <2>5. ASSUME NEW i \in below, i # last
        PROVE  lvars[i].offset <= lvars[last].offset
    <3>1. i < last  BY <1>1, <2>3, <2>5
    <3>2. lvars[last].offset >= lvars[i].offset + lvars[last].size
      BY <2>3, <2>5, <3>1 DEF Layout
    <3> QED  BY <1>2, <2>3, <2>5, <3>2
  <2> HIDE DEF last
  <2> QED  BY <1>2, <2>3, <2>4, <2>5
<1> QED  BY <1>3, <1>4

(* The offset of a new local: aligned, and below every slot there is by at *)
(* least its own size.                                                     *)
LEMMA NewOffset ==
  ASSUME TypeOK, Layout, NEW ty \in Types
  PROVE  LET off == calc_lvar_stack_offset(ty)
         IN  /\ off \in Int /\ off % ty.align = 0 /\ off >= ty.size
             /\ \A i \in DOMAIN lvars : lvars[i].offset + ty.size <= off
<1>1. ty.size \in Nat \ {0} /\ ty.align \in Alignments
  BY TypesAreTypes
<1>2. /\ LastOffset \in Nat
      /\ \A i \in DOMAIN lvars : lvars[i].offset <= LastOffset
  BY LastOffsetIsLargest
<1>3. \A i \in DOMAIN lvars : lvars[i].offset \in Int
  BY LvarFields
<1> DEFINE n == LastOffset + ty.size
<1>4. n \in Int  BY <1>1, <1>2
<1>5. /\ to_aligned(n, ty.align) \in Int /\ n <= to_aligned(n, ty.align)
      /\ to_aligned(n, ty.align) % ty.align = 0
  BY <1>1, <1>4, ToAligned
<1> QED  BY <1>1, <1>2, <1>3, <1>5 DEF calc_lvar_stack_offset

(* A symbol added with its slot keeps the symbols in step with the slots.  *)
LEMMA AddSymbol ==
  ASSUME TypeOK, Symbols, NEW n \in Names \cup {NoName}, NEW ty \in Types,
         NEW off \in Int, NEW reg \in 0..GpRegs,
         Len(scopes) >= 1, add_lvar(n, ty, off, reg)
  PROVE  \A s \in DOMAIN scopes' : \A k \in DOMAIN scopes'[s] :
           /\ scopes'[s][k].index \in DOMAIN lvars'
           /\ lvars'[scopes'[s][k].index].name = scopes'[s][k].name
<1> DEFINE top == scopes[Len(scopes)]
           sym == [name |-> n, index |-> Len(lvars) + 1]
<1>1. /\ DOMAIN lvars' = 1..(Len(lvars) + 1) /\ DOMAIN lvars = 1..Len(lvars)
      /\ Len(lvars) \in Nat
      /\ \A i \in DOMAIN lvars : lvars'[i] = lvars[i]
      /\ lvars'[Len(lvars) + 1].name = n
  <2>1. Len(lvars) \in Nat  BY DEF TypeOK
  <2>2. /\ DOMAIN lvars' = 1..(Len(lvars) + 1) /\ DOMAIN lvars = 1..Len(lvars)
        /\ \A i \in DOMAIN lvars : lvars'[i] = lvars[i]
        /\ lvars'[Len(lvars) + 1] = [name |-> n, size |-> ty.size, align |-> ty.align,
                                     offset |-> off, reg |-> reg]
    BY AddLvar
  <2> QED  BY <2>1, <2>2
<1>2. /\ scopes \in Seq(Seq(Symbol)) /\ Len(scopes) \in 1..Len(scopes)
      /\ DOMAIN scopes = 1..Len(scopes)
  BY DEF TypeOK
<1>3. sym \in Symbol /\ top \in Seq(Symbol)
  BY <1>1, <1>2 DEF Symbol
<1>4. scopes' = [scopes EXCEPT ![Len(scopes)] = Append(top, sym)]
  BY DEF add_lvar
<1> SUFFICES ASSUME NEW s \in DOMAIN scopes', NEW k \in DOMAIN scopes'[s]
             PROVE  /\ scopes'[s][k].index \in DOMAIN lvars'
                    /\ lvars'[scopes'[s][k].index].name = scopes'[s][k].name
  OBVIOUS
<1>5. s \in DOMAIN scopes  BY <1>4
<1>6. ASSUME s \in DOMAIN scopes, k \in DOMAIN scopes[s], scopes'[s][k] = scopes[s][k]
      PROVE  /\ scopes'[s][k].index \in DOMAIN lvars'
             /\ lvars'[scopes'[s][k].index].name = scopes'[s][k].name
  <2>1. /\ scopes[s][k].index \in DOMAIN lvars
        /\ lvars[scopes[s][k].index].name = scopes[s][k].name
    BY <1>6 DEF Symbols
  <2> QED  BY <1>1, <1>6, <2>1
<1>7. CASE s # Len(scopes)
  <2>1. scopes'[s] = scopes[s]  BY <1>2, <1>4, <1>5, <1>7
  <2> QED  BY <1>5, <1>6, <2>1
<1>8. CASE s = Len(scopes)
  <2>1. scopes'[s] = Append(top, sym)  BY <1>2, <1>4, <1>5, <1>8
  <2>2. CASE k = Len(top) + 1
    <3>1. scopes'[s][k] = sym  BY <1>3, <2>1, <2>2
    <3> QED  BY <1>1, <3>1
  <2>3. CASE k # Len(top) + 1
    <3>1. k \in DOMAIN top /\ scopes'[s][k] = top[k]  BY <1>3, <2>1, <2>3
    <3> QED  BY <1>5, <1>6, <1>8, <3>1
  <2> QED  BY <2>2, <2>3
<1> QED  BY <1>7, <1>8
----------------------------------------------------------------------------
(* The types and the scopes, for parameters of any type.                   *)
LEMMA NewOffsetAligned ==
  ASSUME TypeOK, NEW ty \in Types
  PROVE  /\ calc_lvar_stack_offset(ty) \in Int
         /\ calc_lvar_stack_offset(ty) % ty.align = 0
<1> DEFINE below == {i \in DOMAIN lvars : lvars[i].offset > 0}
           last == CHOOSE i \in below : \A j \in below : j <= i
<1>1. Len(lvars) \in Nat /\ DOMAIN lvars = 1..Len(lvars)
  BY DEF TypeOK
<1>2. LastOffset \in Int
  <2>1. CASE below = {}
    <3>1. LastOffset = 0  BY <2>1 DEF LastOffset
    <3> QED  BY <3>1
  <2>2. CASE below # {}
    <3>1. below \subseteq 0..Len(lvars)  BY <1>1
    <3>2. \E i \in below : \A j \in below : j <= i
      BY <1>1, <2>2, <3>1, LastExists
    <3>3. last \in below  BY <3>2
    <3>4. LastOffset = lvars[last].offset  BY <2>2 DEF LastOffset
    <3> QED  BY <3>3, <3>4, LvarFields
  <2> QED  BY <2>1, <2>2
<1>3. ty.size \in Nat /\ ty.align \in Alignments
  BY TypesAreTypes
<1>4. LastOffset + ty.size \in Int  BY <1>2, <1>3
<1> QED  BY <1>3, <1>4, ToAligned DEF calc_lvar_stack_offset

LEMMA RegisterParamArgs ==
  ASSUME TypeOK, NEW n \in Names, NEW ty \in ParamTypes, RegisterParam(n, ty)
  PROVE  /\ gpRegs' \in 0..GpRegs
         /\ regOffset' \in Int /\ stackOffset' \in Int
         /\ \E off \in Int, reg \in 0..GpRegs : add_lvar(n, ty, off, reg)
<1> DEFINE regs == RegsGiven(ty.size, gpRegs)
           area == to_aligned(ty.size, Word)
<1>1. ty.size \in Nat \ {0}
  BY TypesAreTypes DEF Types
<1>2. gpRegs \in 0..GpRegs /\ regOffset \in Int /\ stackOffset \in Int
  BY DEF TypeOK
<1>3. area \in Int
  <2>1. Word \in Alignments /\ ty.size \in Int  BY <1>1 DEF Word, Alignments
  <2> QED  BY <2>1, ToAligned
<1>4. regs \in 0..2 /\ regs <= gpRegs
  BY <1>1, <1>2 DEF RegsGiven, RegsWanted, Word, GpRegs
<1>5. gpRegs' = gpRegs - regs
  BY DEF RegisterParam, param_area
<1>6. CASE /\ regs = 0 /\ add_lvar(n, ty, stackOffset, 0)
           /\ stackOffset' = stackOffset - area /\ regOffset' = regOffset
  BY <1>2, <1>3, <1>4, <1>5, <1>6 DEF GpRegs
<1>7. CASE /\ regs # 0 /\ add_lvar(n, ty, regOffset, GpRegs - gpRegs + 1)
           /\ regOffset' = regOffset + area /\ stackOffset' = stackOffset
  <2>1. GpRegs - gpRegs + 1 \in 0..GpRegs  BY <1>2, <1>4, <1>7 DEF GpRegs
  <2> QED  BY <1>2, <1>3, <1>4, <1>5, <1>7, <2>1 DEF GpRegs
<1> QED  BY <1>6, <1>7 DEF RegisterParam, param_area

LEMMA AddLvarKeepsTypes ==
  ASSUME TypeOK, Symbols, NEW n \in Names \cup {NoName}, NEW ty \in Types,
         NEW off \in Int, NEW reg \in 0..GpRegs, add_lvar(n, ty, off, reg),
         phase \in {"params", "body"}, phase' = phase,
         gpRegs' \in 0..GpRegs, regOffset' \in Int, stackOffset' \in Int,
         nParams' \in {nParams, nParams + 1},
         UNCHANGED <<frameVars, nFuncs>>
  PROVE  TypeOK' /\ Symbols'
<1>1. Len(scopes) >= 1 /\ Len(lvars) \in Nat /\ nParams \in 0..Len(lvars)
  <2>1. Len(scopes) \in Nat /\ Len(lvars) \in Nat /\ nParams \in 0..Len(lvars)
    BY DEF TypeOK
  <2>2. CASE phase = "params"
    <3>1. Len(scopes) = 1  BY <2>2 DEF Symbols
    <3> QED  BY <2>1, <3>1
  <2>3. CASE phase = "body"
    <3>1. Len(scopes) >= 2  BY <2>3 DEF Symbols
    <3>2. Len(scopes) >= 1  BY <2>1, <3>1
    <3> QED  BY <2>1, <3>2
  <2> QED  BY <2>2, <2>3
<1>2. /\ lvars' \in Seq(Lvar) /\ Len(lvars') = Len(lvars) + 1
      /\ scopes' \in Seq(Seq(Symbol)) /\ Len(scopes') = Len(scopes)
  BY <1>1, AddLvar
<1>2a. block' \in Seq(Nat)
  BY <1>1 DEF add_lvar, TypeOK
<1>3. TypeOK'
  BY <1>1, <1>2, <1>2a DEF TypeOK, frameVars
<1>4. \A s \in DOMAIN scopes' : \A k \in DOMAIN scopes'[s] :
        /\ scopes'[s][k].index \in DOMAIN lvars'
        /\ lvars'[scopes'[s][k].index].name = scopes'[s][k].name
  BY <1>1, AddSymbol
<1> QED  BY <1>2, <1>3, <1>4 DEF Symbols

(* The history of a scope that is left.                                    *)
LEMMA HiddenIs ==
  ASSUME TypeOK, NEW k \in 0..Len(scopes), Hidden(k)
  PROVE  /\ block' \in Seq(Nat) /\ DOMAIN block' = DOMAIN block
         /\ \A i \in DOMAIN block :
              block'[i] = IF block[i] > Len(scopes) - k THEN 0 ELSE block[i]
<1>1. block \in Seq(Nat) /\ DOMAIN block = 1..Len(block) /\ Len(block) \in Nat
  BY DEF TypeOK
<1>2. \A i \in 1..Len(block) : (IF block[i] > Len(scopes) - k THEN 0 ELSE block[i]) \in Nat
  BY <1>1
<1>3. block' = [i \in 1..Len(block) |-> IF block[i] > Len(scopes) - k THEN 0 ELSE block[i]]
  BY <1>1 DEF Hidden
<1>4. block' \in Seq(Nat)
  BY <1>1, <1>2, <1>3, IsASeq
<1> QED  BY <1>1, <1>3, <1>4

(* Leaving or entering scopes, with the slots as they are.                 *)
LEMMA ScopeStep ==
  ASSUME TypeOK, Symbols,
         NEW k \in 0..Len(scopes), enter_scope \/ leave_scopes(k)
  PROVE  /\ scopes' \in Seq(Seq(Symbol))
         /\ enter_scope => Len(scopes') = Len(scopes) + 1
         /\ leave_scopes(k) => Len(scopes') = Len(scopes) - k
         /\ \A s \in DOMAIN scopes' : \A m \in DOMAIN scopes'[s] :
              /\ scopes'[s][m].index \in DOMAIN lvars
              /\ lvars[scopes'[s][m].index].name = scopes'[s][m].name
<1>1. scopes \in Seq(Seq(Symbol)) /\ Len(scopes) \in Nat
  BY DEF TypeOK
<1>2. CASE enter_scope
  <2>1. <<>> \in Seq(Symbol) /\ scopes' = Append(scopes, <<>>)
    BY <1>2 DEF enter_scope
  <2>2. ASSUME NEW s \in DOMAIN scopes', NEW m \in DOMAIN scopes'[s]
        PROVE  s \in DOMAIN scopes /\ scopes'[s] = scopes[s]
    BY <1>1, <2>1, <2>2
  <2>3. ~leave_scopes(k)
    <3>1. ASSUME leave_scopes(k)  PROVE FALSE
      <4>1. Len(scopes') = Len(scopes) - k  BY <1>1, <3>1 DEF leave_scopes
      <4>2. Len(scopes') = Len(scopes) + 1  BY <1>1, <2>1
      <4> QED  BY <1>1, <4>1, <4>2
    <3> QED  BY <3>1
  <2> QED  BY <1>1, <2>1, <2>2, <2>3 DEF Symbols
<1>3. CASE leave_scopes(k)
  <2>1. scopes' = SubSeq(scopes, 1, Len(scopes) - k)
    BY <1>3 DEF leave_scopes
  <2>2. /\ Len(scopes') = Len(scopes) - k /\ scopes' \in Seq(Seq(Symbol))
        /\ \A s \in 1..(Len(scopes) - k) : s \in DOMAIN scopes /\ scopes'[s] = scopes[s]
    BY <1>1, <2>1
  <2>3. ~enter_scope
    <3>1. ASSUME enter_scope  PROVE FALSE
      <4>1. Len(scopes') = Len(scopes) + 1  BY <1>1, <3>1 DEF enter_scope
      <4> QED  BY <1>1, <2>2, <4>1
    <3> QED  BY <3>1
  <2>4. DOMAIN scopes' = 1..(Len(scopes) - k)
    BY <1>1, <2>2
  <2>5. ASSUME NEW s \in DOMAIN scopes', NEW m \in DOMAIN scopes'[s]
        PROVE  /\ scopes'[s][m].index \in DOMAIN lvars
               /\ lvars[scopes'[s][m].index].name = scopes'[s][m].name
    <3>1. s \in DOMAIN scopes /\ scopes'[s] = scopes[s]  BY <2>2, <2>4
    <3> QED  BY <3>1 DEF Symbols
  <2> QED  BY <2>2, <2>3, <2>5
<1> QED  BY <1>2, <1>3

LEMMA NextKeepsTypes ==
  ASSUME TypeOK, Symbols, [Next]_vars
  PROVE  TypeOK' /\ Symbols'
<1>1. /\ Len(scopes) \in Nat /\ Len(lvars) \in Nat /\ nParams \in 0..Len(lvars)
      /\ gpRegs \in 0..GpRegs /\ regOffset \in Int /\ stackOffset \in Int
  BY DEF TypeOK
<1>2. CASE EnterFunc
  <2>1. scopes = <<>> /\ scopes' = <<<<>>>> /\ lvars' = <<>>
    <3>1. scopes = <<>>  BY <1>2 DEF EnterFunc, Symbols
    <3> QED  BY <1>2, <3>1 DEF EnterFunc, enter_scope
  <2>2. Len(scopes') = 1 /\ scopes' \in Seq(Seq(Symbol))
    BY <2>1
  <2>3. \A s \in DOMAIN scopes' : DOMAIN scopes'[s] = {}
    BY <2>1
  <2>4. TypeOK'
    BY <1>1, <1>2, <2>1, <2>2 DEF EnterFunc, TypeOK, Word, GpRegs
  <2> QED  BY <1>2, <2>2, <2>3, <2>4 DEF EnterFunc, Symbols
<1>3. ASSUME NEW n \in Names, NEW ty \in ParamTypes, RegisterParam(n, ty)
      PROVE  TypeOK' /\ Symbols'
  <2>1. PICK off \in Int, reg \in 0..GpRegs : add_lvar(n, ty, off, reg)
    BY <1>3, RegisterParamArgs
  <2>2. gpRegs' \in 0..GpRegs /\ regOffset' \in Int /\ stackOffset' \in Int
    BY <1>3, RegisterParamArgs
  <2>3. phase = "params" /\ phase' = phase /\ nParams' = nParams + 1
        /\ UNCHANGED <<frameVars, nFuncs>>
    BY <1>3 DEF RegisterParam, param_area
  <2> QED  BY <2>1, <2>2, <2>3, AddLvarKeepsTypes DEF Types
<1>4. CASE EnterBody
  <2>1. Len(scopes) = 1 /\ enter_scope /\ lvars' = lvars
    BY <1>4 DEF EnterBody, Symbols
  <2>2. 0 \in 0..Len(scopes)  BY <1>1
  <2>5. /\ scopes' \in Seq(Seq(Symbol)) /\ Len(scopes') = Len(scopes) + 1
        /\ \A s \in DOMAIN scopes' : \A m \in DOMAIN scopes'[s] :
             /\ scopes'[s][m].index \in DOMAIN lvars
             /\ lvars[scopes'[s][m].index].name = scopes'[s][m].name
    BY <1>1, <2>1, <2>2, ScopeStep
  <2>6. TypeOK'
    BY <1>4, <2>1, <2>5 DEF EnterBody, TypeOK, paramVars, frameVars
  <2>7. Len(scopes') >= 2 /\ phase' = "body"
    BY <1>1, <1>4, <2>1, <2>5 DEF EnterBody
  <2> QED  BY <2>1, <2>5, <2>6, <2>7 DEF Symbols
<1>5. CASE EnterBlock
  <2>1. Len(scopes) >= 2 /\ enter_scope /\ lvars' = lvars
    BY <1>5 DEF EnterBlock, Symbols
  <2>2. 0 \in 0..Len(scopes)  BY <1>1
  <2>5. /\ scopes' \in Seq(Seq(Symbol)) /\ Len(scopes') = Len(scopes) + 1
        /\ \A s \in DOMAIN scopes' : \A m \in DOMAIN scopes'[s] :
             /\ scopes'[s][m].index \in DOMAIN lvars
             /\ lvars[scopes'[s][m].index].name = scopes'[s][m].name
    BY <1>1, <2>1, <2>2, ScopeStep
  <2>6. TypeOK'
    BY <1>5, <2>1, <2>5 DEF EnterBlock, TypeOK, paramVars, frameVars
  <2>7. Len(scopes') >= 2 /\ phase' = "body"
    BY <1>1, <1>5, <2>1, <2>5 DEF EnterBlock
  <2> QED  BY <2>1, <2>5, <2>6, <2>7 DEF Symbols
<1>6. CASE LeaveBlock
  <2>1. Len(scopes) > 2 /\ leave_scopes(1) /\ lvars' = lvars
    BY <1>6 DEF LeaveBlock
  <2>2. 1 \in 0..Len(scopes)  BY <1>1, <2>1
  <2>5. /\ scopes' \in Seq(Seq(Symbol)) /\ Len(scopes') = Len(scopes) - 1
        /\ \A s \in DOMAIN scopes' : \A m \in DOMAIN scopes'[s] :
             /\ scopes'[s][m].index \in DOMAIN lvars
             /\ lvars[scopes'[s][m].index].name = scopes'[s][m].name
    BY <1>1, <2>1, <2>2, ScopeStep
  <2>6a. block' \in Seq(Nat)
    BY <1>6, <2>2, HiddenIs DEF LeaveBlock
  <2>6. TypeOK'
    BY <1>6, <2>1, <2>5, <2>6a DEF LeaveBlock, TypeOK, paramVars, frameVars
  <2>7. Len(scopes') >= 2 /\ phase' = "body"
    BY <1>1, <1>6, <2>1, <2>5 DEF LeaveBlock
  <2> QED  BY <2>1, <2>5, <2>6, <2>7 DEF Symbols
<1>7. ASSUME NEW n \in Names \cup {NoName}, NEW ty \in LocalTypes,
             phase = "body", add_lvar(n, ty, calc_lvar_stack_offset(ty), 0),
             UNCHANGED <<phase, paramVars, nParams, frameVars, nFuncs>>
      PROVE  TypeOK' /\ Symbols'
  <2>1. ty \in Types /\ 0 \in 0..GpRegs  BY DEF Types, GpRegs
  <2>2. calc_lvar_stack_offset(ty) \in Int  BY <2>1, NewOffsetAligned
  <2>3. gpRegs' \in 0..GpRegs /\ regOffset' \in Int /\ stackOffset' \in Int
    BY <1>1, <1>7 DEF paramVars
  <2> QED  BY <1>7, <2>1, <2>2, <2>3, AddLvarKeepsTypes
<1>8. ASSUME NEW n \in Names, NEW ty \in LocalTypes, Declare(n, ty)
      PROVE  TypeOK' /\ Symbols'
  BY <1>7, <1>8 DEF Declare
<1>9. ASSUME NEW n \in Names, Redeclare(n)
      PROVE  TypeOK' /\ Symbols'
  BY <1>9 DEF Redeclare, TypeOK, Symbols, paramVars, frameVars
<1>10. ASSUME NEW ty \in LocalTypes, Temporary(ty)
       PROVE  TypeOK' /\ Symbols'
  BY <1>7, <1>10 DEF Temporary
<1>11. CASE LeaveFunc
  <2> DEFINE last == lvars[Len(lvars)]
             size == IF lvars = <<>> THEN 0 ELSE last.offset + last.size
  <2>1. size \in Int
    <3>1. CASE lvars = <<>>  BY <3>1
    <3>2. CASE lvars # <<>>
      <4>1. Len(lvars) \in DOMAIN lvars  BY <3>2 DEF TypeOK
      <4>2. last.offset \in Int /\ last.size \in Int  BY <4>1, LvarFields
      <4> QED  BY <3>2, <4>2
    <3> QED  BY <3>1, <3>2
  <2>2. stackSize' = IF size < 0 THEN 0 ELSE size
    BY <1>11 DEF LeaveFunc, leave_function, frame_size
  <2>3. stackSize' \in Nat  BY <2>1, <2>2
  <2>4. Len(scopes) = 2 /\ leave_scopes(2) /\ 2 \in 0..Len(scopes) /\ lvars' = lvars
    BY <1>11 DEF LeaveFunc, leave_function, frame_size
  <2>5. scopes' \in Seq(Seq(Symbol)) /\ scopes' = <<>>
    <3>1. scopes' \in Seq(Seq(Symbol)) /\ Len(scopes') = 2 - 2
      BY <2>4, ScopeStep
    <3> QED  BY <3>1
  <2>6a. block' \in Seq(Nat)
    BY <1>11, <2>4, HiddenIs DEF LeaveFunc
  <2>6. TypeOK'
    BY <1>1, <1>11, <2>3, <2>4, <2>5, <2>6a DEF LeaveFunc, leave_function, frame_size, TypeOK, paramVars
  <2> QED  BY <1>11, <2>5, <2>6 DEF LeaveFunc, leave_function, frame_size, Symbols
<1>12. CASE PushParam
  <2>1. rsp' \in Nat /\ cursor' \in Nat
    BY <1>12 DEF PushParam, TypeOK, Word
  <2> QED  BY <1>12, <2>1 DEF PushParam, TypeOK, Symbols, paramVars
<1>13. CASE ReserveFrame
  <2>1. Word \in Alignments /\ stackSize \in Int /\ stackSize \in Nat
    BY DEF Word, Alignments, TypeOK
  <2>2. to_aligned(stackSize, Word) \in Int /\ stackSize <= to_aligned(stackSize, Word)
    BY <2>1, ToAligned
  <2>3. rsp' \in Nat
    BY <1>13, <2>1, <2>2 DEF ReserveFrame, TypeOK
  <2> QED  BY <1>13, <2>3 DEF ReserveFrame, TypeOK, Symbols, paramVars
<1>14. CASE UNCHANGED vars
  BY <1>14 DEF vars, paramVars, frameVars, TypeOK, Symbols
<1> QED
  BY <1>2, <1>3, <1>4, <1>5, <1>6, <1>8, <1>9, <1>10, <1>11, <1>12, <1>13, <1>14 DEF Next
----------------------------------------------------------------------------
(* A slot below all that are below rbp, or above all that are above it,    *)
(* may be added.                                                           *)
LEMMA LayoutExtends ==
  ASSUME TypeOK, Layout, NEW L, L = Len(lvars) + 1,
         DOMAIN lvars' = 1..L, \A i \in DOMAIN lvars : lvars'[i] = lvars[i],
         NEW lv, lvars'[L] = lv, lv.size \in Nat, lv.offset \in Int,
         lv.offset % lv.align = 0,
         lv.offset >= lv.size \/ lv.offset <= -(2 * Word),
         \A i \in DOMAIN lvars :
           /\ lvars[i].offset > 0 /\ lv.offset > 0 =>
                lv.offset >= lvars[i].offset + lv.size
           /\ lvars[i].offset < 0 /\ lv.offset < 0 =>
                lv.offset <= lvars[i].offset - lvars[i].size
  PROVE  Layout'
<1>1. Len(lvars) \in Nat /\ DOMAIN lvars = 1..Len(lvars)
  BY DEF TypeOK
<1> SUFFICES ASSUME NEW i \in 1..L
             PROVE  /\ lvars'[i].offset % lvars'[i].align = 0
                    /\ lvars'[i].offset >= lvars'[i].size \/ lvars'[i].offset <= -(2 * Word)
                    /\ \A j \in 1..L : i < j =>
                         /\ lvars'[i].offset > 0 /\ lvars'[j].offset > 0 =>
                              lvars'[j].offset >= lvars'[i].offset + lvars'[j].size
                         /\ lvars'[i].offset < 0 /\ lvars'[j].offset < 0 =>
                              lvars'[j].offset <= lvars'[i].offset - lvars'[i].size
  BY DEF Layout
<1>2. CASE i = L
  <2>1. \A j \in 1..L : ~ (i < j)  BY <1>1, <1>2
  <2> QED  BY <1>2, <2>1
<1>3. CASE i # L
  <2>1. i \in DOMAIN lvars /\ lvars'[i] = lvars[i]  BY <1>1, <1>3
  <2>2. ASSUME NEW j \in 1..L, i < j
        PROVE  /\ lvars'[i].offset > 0 /\ lvars'[j].offset > 0 =>
                    lvars'[j].offset >= lvars'[i].offset + lvars'[j].size
               /\ lvars'[i].offset < 0 /\ lvars'[j].offset < 0 =>
                    lvars'[j].offset <= lvars'[i].offset - lvars'[i].size
    <3>1. CASE j = L  BY <3>1, <2>1
    <3>2. CASE j # L
      <4>1. j \in DOMAIN lvars /\ lvars'[j] = lvars[j]  BY <1>1, <3>2
      <4> QED  BY <4>1, <2>1, <2>2 DEF Layout
    <3> QED  BY <3>1, <3>2
  <2> QED  BY <2>1, <2>2 DEF Layout
<1> QED  BY <1>2, <1>3

(* A local or a temporary gets its slot: what Declare and Temporary do.    *)
LEMMA AddLocalKeepsIInv ==
  ASSUME IInv, phase = "body", NEW n \in Names \cup {NoName}, NEW ty \in LocalTypes,
         add_lvar(n, ty, calc_lvar_stack_offset(ty), 0),
         UNCHANGED <<phase, paramVars, nParams, frameVars, nFuncs>>,
         TypeOK', Symbols'
  PROVE  IInv'
<1> DEFINE off == calc_lvar_stack_offset(ty)
           L == Len(lvars) + 1
           lv == [name |-> n, size |-> ty.size, align |-> ty.align,
                  offset |-> off, reg |-> 0]
<1> USE DEF IInv
<1>1. ty \in Types  BY DEF Types
<1>2. ty.size \in Nat \ {0} /\ ty.align \in Alignments
  BY <1>1, TypesAreTypes
<1>3. /\ off \in Int /\ off % ty.align = 0 /\ off >= ty.size
      /\ \A i \in DOMAIN lvars : lvars[i].offset + ty.size <= off
  BY <1>1, NewOffset
<1>4. Len(scopes) >= 2  BY DEF Symbols
<1>4a. Len(scopes) >= 1  BY <1>4 DEF TypeOK
<1>5. /\ lvars' \in Seq(Lvar) /\ Len(lvars') = L
      /\ DOMAIN lvars' = 1..L /\ DOMAIN lvars = 1..Len(lvars)
      /\ \A i \in DOMAIN lvars : lvars'[i] = lvars[i]
      /\ lvars'[L] = lv
      /\ scopes' \in Seq(Seq(Symbol)) /\ Len(scopes') = Len(scopes)
  <2>1. 0 \in 0..GpRegs  BY DEF GpRegs
  <2> QED  BY <1>1, <1>3, <1>4a, <2>1, AddLvar
<1>6. /\ Len(lvars) \in Nat /\ nParams \in 0..Len(lvars)
      /\ phase' = phase /\ gpRegs' = gpRegs /\ regOffset' = regOffset
      /\ stackOffset' = stackOffset /\ nParams' = nParams
      /\ stackSize' = stackSize /\ cursor' = cursor /\ rsp' = rsp /\ nFuncs' = nFuncs
  BY DEF TypeOK, paramVars, frameVars
<1>7. \A i \in DOMAIN lvars : /\ lvars[i].offset \in Int /\ lvars[i].size \in Nat \ {0}
                              /\ lvars[i].reg \in 0..GpRegs
  BY LvarFields
<1>8. /\ lv.name = n /\ lv.size = ty.size /\ lv.align = ty.align
      /\ lv.offset = off /\ lv.reg = 0
  OBVIOUS
<1> HIDE DEF off, lv
<1>11. Layout'
  BY <1>2, <1>3, <1>5, <1>7, <1>8, LayoutExtends
<1>12. ParamCounters'
  <2>1. ASSUME NEW i \in 1..L, lvars'[i].offset < 0
        PROVE  stackOffset <= lvars'[i].offset - lvars'[i].size
    <3>1. i # L  BY <2>1, <1>2, <1>3, <1>5, <1>8
    <3>2. i \in DOMAIN lvars /\ lvars'[i] = lvars[i]  BY <3>1, <1>5, <1>6
    <3> QED  BY <2>1, <3>2 DEF ParamCounters
  <2> QED  BY <1>5, <1>6, <2>1 DEF ParamCounters, UsedRegs
<1>13. ParamRegs'
  <2>1. \A i \in 1..L : i # L => i \in DOMAIN lvars /\ lvars'[i] = lvars[i]
    BY <1>5, <1>6
  <2>2. lvars'[L].reg = 0 /\ lvars'[L].offset > 0 /\ L > nParams
    BY <1>2, <1>3, <1>5, <1>6, <1>8
  <2>3. ASSUME NEW r \in 1..UsedRegs  PROVE \E i \in 1..L : lvars'[i].reg = r
    <3>1. PICK i \in DOMAIN lvars : lvars[i].reg = r  BY DEF ParamRegs
    <3>2. i \in 1..L /\ lvars'[i] = lvars[i]  BY <1>5, <1>6
    <3> QED  BY <3>1, <3>2
  <2>4. ASSUME NEW i \in 1..L
        PROVE  /\ lvars'[i].reg # 0 =>
                    /\ i <= nParams /\ lvars'[i].size <= Word
                    /\ lvars'[i].reg <= UsedRegs /\ lvars'[i].offset = Word * lvars'[i].reg
               /\ i <= nParams => (lvars'[i].reg # 0 <=> lvars'[i].offset > 0)
               /\ i > nParams => lvars'[i].offset > 0
               /\ \A j \in 1..L : i < j /\ lvars'[i].reg # 0 /\ lvars'[j].reg # 0
                                    => lvars'[i].reg < lvars'[j].reg
    <3>1. CASE i = L
      BY <3>1, <2>2, <1>6
    <3>2. CASE i # L
      <4>1. i \in DOMAIN lvars /\ lvars'[i] = lvars[i]  BY <3>2, <2>1
      <4>2. ASSUME NEW j \in 1..L, i < j, lvars'[i].reg # 0, lvars'[j].reg # 0
            PROVE  lvars'[i].reg < lvars'[j].reg
        <5>1. j \in DOMAIN lvars /\ lvars'[j] = lvars[j]  BY <4>2, <2>1, <2>2
        <5> QED  BY <4>1, <4>2, <5>1 DEF ParamRegs
      <4> QED  BY <4>1, <4>2 DEF ParamRegs
    <3> QED  BY <3>1, <3>2
  <2> QED  BY <1>5, <1>6, <2>3, <2>4 DEF ParamRegs, UsedRegs
<1>14. Prologue'
  BY <1>6 DEF Prologue
<1> QED  BY <1>11, <1>12, <1>13, <1>14

(* register_params gives a parameter its slot.                             *)
LEMMA RegisterParamKeepsIInv ==
  ASSUME IInv, OneRegisterParams, NEW n \in Names, NEW ty \in ParamTypes,
         RegisterParam(n, ty), TypeOK', Symbols'
  PROVE  IInv'
<1> DEFINE regs == RegsGiven(ty.size, gpRegs)
           area == to_aligned(ty.size, Word)
           L == Len(lvars) + 1
           off == IF regs = 0 THEN stackOffset ELSE regOffset
           reg == IF regs = 0 THEN 0 ELSE UsedRegs + 1
           lv == [name |-> n, size |-> ty.size, align |-> ty.align,
                  offset |-> off, reg |-> reg]
<1> USE DEF IInv
<1>1. ty \in Types /\ n \in Names \cup {NoName}  BY DEF Types
<1>2. ty.size \in Nat \ {0} /\ ty.align \in Alignments
  BY <1>1, TypesAreTypes
<1>3. /\ gpRegs \in 0..GpRegs /\ regOffset \in Int /\ stackOffset \in Int
      /\ Len(lvars) \in Nat /\ nParams = Len(lvars) /\ phase = "params"
      /\ regOffset = Word * (UsedRegs + 1)
      /\ stackOffset <= -(2 * Word) /\ stackOffset % Word = 0
  BY DEF TypeOK, RegisterParam, param_area, ParamCounters
<1>4. area \in Int /\ ty.size <= area /\ area < ty.size + Word /\ area % Word = 0
  <2>1. Word \in Alignments  BY DEF Word, Alignments
  <2> QED  BY <1>2, <2>1, ToAligned
<1>5. regs = 0 \/ (regs = 1 /\ ty.size <= Word /\ gpRegs >= 1)
  BY <1>2, <1>3 DEF RegsGiven, RegsWanted, OneRegisterParams, Word, GpRegs
<1>6. regs # 0 => area = Word
  BY <1>2, <1>4, <1>5 DEF Word
<1>7. reg \in 0..GpRegs /\ off \in Int
  BY <1>3, <1>5 DEF UsedRegs, GpRegs
<1>8. /\ gpRegs' = gpRegs - regs /\ nParams' = nParams + 1
      /\ add_lvar(n, ty, off, reg)
      /\ stackOffset' = (IF regs = 0 THEN stackOffset - area ELSE stackOffset)
      /\ regOffset' = (IF regs = 0 THEN regOffset ELSE regOffset + area)
      /\ phase' = phase /\ stackSize' = stackSize /\ cursor' = cursor
      /\ rsp' = rsp /\ nFuncs' = nFuncs
  BY DEF RegisterParam, param_area, frameVars, UsedRegs
<1>9. Len(scopes) = 1  BY <1>3 DEF Symbols
<1>10. Len(scopes) >= 1  BY <1>9
<1>11. /\ lvars' \in Seq(Lvar) /\ Len(lvars') = L
       /\ DOMAIN lvars' = 1..L /\ DOMAIN lvars = 1..Len(lvars)
       /\ \A i \in DOMAIN lvars : lvars'[i] = lvars[i]
       /\ lvars'[L] = lv
       /\ scopes' \in Seq(Seq(Symbol)) /\ Len(scopes') = Len(scopes)
  BY <1>1, <1>7, <1>8, <1>10, AddLvar
<1>12. \A i \in DOMAIN lvars : /\ lvars[i].offset \in Int /\ lvars[i].size \in Nat \ {0}
                               /\ lvars[i].reg \in 0..GpRegs
  BY LvarFields
<1>13. lv.size = ty.size /\ lv.align = ty.align /\ lv.offset = off /\ lv.reg = reg
  OBVIOUS
<1>14. /\ regs = 0 => off = stackOffset /\ reg = 0
       /\ regs # 0 => off = regOffset /\ reg = UsedRegs + 1
  OBVIOUS
<1>15. UsedRegs' = UsedRegs + regs /\ UsedRegs \in 0..GpRegs
  BY <1>3, <1>5, <1>8 DEF UsedRegs, GpRegs
<1> HIDE DEF off, lv, reg, area, regs
<1>16. \A i \in 1..L : i # L => i \in DOMAIN lvars /\ lvars'[i] = lvars[i]
  <2>1. Len(lvars) \in Nat  BY <1>3
  <2> QED  BY <2>1, <1>11
<1>21. Layout'
  <2>1. off % Word = 0  BY <1>3, <1>14, <1>15 DEF Word
  <2>2. off % ty.align = 0  BY <1>2, <1>7, <2>1, WordMultiple
  <2>3. off >= ty.size \/ off <= -(2 * Word)
    BY <1>2, <1>3, <1>5, <1>14, <1>15 DEF Word
  <2>4. ASSUME NEW i \in DOMAIN lvars
        PROVE  /\ lvars[i].offset > 0 /\ off > 0 => off >= lvars[i].offset + ty.size
               /\ lvars[i].offset < 0 /\ off < 0 => off <= lvars[i].offset - lvars[i].size
    <3>1. ASSUME lvars[i].offset > 0, off > 0
          PROVE  off >= lvars[i].offset + ty.size
      <4>1. regs # 0  BY <1>3, <1>14, <3>1 DEF Word
      <4>2. i <= nParams  BY <1>3, <1>11
      <4>3. lvars[i].offset <= Word * UsedRegs
        BY <3>1, <4>2, <1>12, <1>15 DEF ParamRegs, Word
      <4> QED  BY <1>2, <1>3, <1>5, <1>12, <1>14, <1>15, <4>1, <4>3 DEF Word
    <3>2. ASSUME lvars[i].offset < 0, off < 0
          PROVE  off <= lvars[i].offset - lvars[i].size
      <4>1. off = stackOffset  BY <1>3, <1>14, <1>15, <3>2 DEF Word
      <4> QED  BY <3>2, <4>1 DEF ParamCounters
    <3> QED  BY <3>1, <3>2
  <2> QED  BY <1>2, <1>7, <1>11, <1>13, <2>2, <2>3, <2>4, LayoutExtends
<1>22. ParamCounters'
  <2>1. regOffset' = Word * (UsedRegs' + 1)
    BY <1>3, <1>5, <1>6, <1>8, <1>15 DEF Word
  <2>2. stackOffset' <= -(2 * Word) /\ stackOffset' % Word = 0
    BY <1>2, <1>3, <1>4, <1>8 DEF Word
  <2>3. ASSUME NEW i \in 1..L, lvars'[i].offset < 0
        PROVE  stackOffset' <= lvars'[i].offset - lvars'[i].size
    <3>1. CASE i = L
      <4>1. regs = 0  BY <2>3, <3>1, <1>3, <1>11, <1>13, <1>14, <1>15 DEF Word
      <4> QED  BY <3>1, <4>1, <1>2, <1>3, <1>4, <1>8, <1>11, <1>13, <1>14
    <3>2. CASE i # L
      <4>1. i \in DOMAIN lvars /\ lvars'[i] = lvars[i]  BY <3>2, <1>16
      <4>2. stackOffset <= lvars[i].offset - lvars[i].size
        BY <2>3, <4>1 DEF ParamCounters
      <4> QED  BY <4>1, <4>2, <1>2, <1>3, <1>4, <1>8, <1>12
    <3> QED  BY <3>1, <3>2
  <2>4. nParams' = Len(lvars')  BY <1>3, <1>8, <1>11
  <2> QED  BY <1>11, <2>1, <2>2, <2>3, <2>4 DEF ParamCounters
<1>23. ParamRegs'
  <2>1. nParams' = L  BY <1>3, <1>8
  <2>2. /\ lvars'[L].reg = reg /\ lvars'[L].offset = off /\ lvars'[L].size = ty.size
    BY <1>11, <1>13
  <2>3. /\ reg # 0 => ty.size <= Word /\ reg = UsedRegs' /\ off = Word * reg
        /\ reg # 0 <=> off > 0
    BY <1>3, <1>5, <1>14, <1>15 DEF Word
  <2>4. ASSUME NEW r \in 1..UsedRegs'  PROVE \E i \in 1..L : lvars'[i].reg = r
    <3>1. CASE r \in 1..UsedRegs
      <4>1. PICK i \in DOMAIN lvars : lvars[i].reg = r  BY <3>1 DEF ParamRegs
      <4> QED  BY <4>1, <1>3, <1>11
    <3>2. CASE r \notin 1..UsedRegs
      <4>1. r = UsedRegs' /\ regs = 1  BY <3>2, <1>5, <1>15
      <4>2. reg = r  BY <4>1, <1>14, <1>15
      <4>3. L \in 1..L  BY <1>3
      <4> QED  BY <2>2, <4>2, <4>3
    <3> QED  BY <3>1, <3>2
  <2>5. ASSUME NEW i \in 1..L
        PROVE  /\ lvars'[i].reg # 0 =>
                    /\ i <= L /\ lvars'[i].size <= Word
                    /\ lvars'[i].reg <= UsedRegs' /\ lvars'[i].offset = Word * lvars'[i].reg
               /\ lvars'[i].reg # 0 <=> lvars'[i].offset > 0
               /\ \A j \in 1..L : i < j /\ lvars'[i].reg # 0 /\ lvars'[j].reg # 0
                                    => lvars'[i].reg < lvars'[j].reg
    <3>1. CASE i = L
      <4>1. \A j \in 1..L : ~ (i < j)  BY <1>3, <3>1
      <4>2. UsedRegs' \in Int  BY <1>5, <1>15
      <4> QED  BY <3>1, <4>1, <4>2, <2>2, <2>3, <1>3
    <3>2. CASE i # L
      <4>1. i \in DOMAIN lvars /\ lvars'[i] = lvars[i]  BY <3>2, <1>16
      <4>2. i <= nParams  BY <4>1, <1>3, <1>11
      <4>3. lvars[i].reg # 0 => lvars[i].reg <= UsedRegs  BY <4>1 DEF ParamRegs
      <4>4. ASSUME NEW j \in 1..L, i < j, lvars'[i].reg # 0, lvars'[j].reg # 0
            PROVE  lvars'[i].reg < lvars'[j].reg
        <5>1. CASE j = L
          <6>1. regs # 0  BY <4>4, <5>1, <1>14, <2>2
          <6>2. lvars'[j].reg = UsedRegs + 1  BY <5>1, <6>1, <1>14, <2>2
          <6> QED  BY <4>1, <4>3, <4>4, <6>2, <1>12, <1>15
        <5>2. CASE j # L
          <6>1. j \in DOMAIN lvars /\ lvars'[j] = lvars[j]  BY <5>2, <1>16
          <6> QED  BY <4>1, <4>4, <6>1 DEF ParamRegs
        <5> QED  BY <5>1, <5>2
      <4>5. UsedRegs <= UsedRegs' /\ UsedRegs' \in Int  BY <1>5, <1>15
      <4>6. lvars[i].reg # 0 => lvars[i].reg <= UsedRegs'
        BY <4>1, <4>3, <4>5, <1>12, <1>15
      <4> QED  BY <4>1, <4>2, <4>4, <4>6 DEF ParamRegs
    <3> QED  BY <3>1, <3>2
  <2>6. \A i \in 1..L : ~ (i > L)  BY <1>3
  <2> QED  BY <1>11, <2>1, <2>4, <2>5, <2>6 DEF ParamRegs
<1>24. Prologue'
  BY <1>3, <1>8 DEF Prologue
<1> QED  BY <1>21, <1>22, <1>23, <1>24

(* The slots stay as they are when nothing about them changes.             *)
LEMMA SameSlots ==
  ASSUME Layout, ParamCounters, ParamRegs,
         lvars' = lvars, paramVars' = paramVars, nParams' = nParams,
         phase' # "params"
  PROVE  Layout' /\ ParamCounters' /\ ParamRegs'
<1>1. gpRegs' = gpRegs /\ regOffset' = regOffset /\ stackOffset' = stackOffset
  BY DEF paramVars
<1>2. UsedRegs' = UsedRegs
  BY <1>1 DEF UsedRegs
<1>3. Layout'  BY DEF Layout
<1>4. ParamCounters'  BY <1>1, <1>2 DEF ParamCounters
<1>5. ParamRegs'  BY <1>2 DEF ParamRegs
<1> QED  BY <1>3, <1>4, <1>5

(* stack_size, read off the last slot, covers every slot of the body: if   *)
(* there is one, the last slot is below rbp and no slot is further below.  *)
LEMMA LastSlotCovers ==
  ASSUME IInv, LeaveFunc
  PROVE  \A i \in DOMAIN lvars : i > nParams => lvars[i].offset <= stackSize'
<1> DEFINE L == Len(lvars)
           size == lvars[L].offset + lvars[L].size
<1> USE DEF IInv
<1> SUFFICES ASSUME NEW i \in DOMAIN lvars, i > nParams
             PROVE  lvars[i].offset <= stackSize'
  OBVIOUS
<1>1. L \in Nat /\ i \in 1..L /\ L \in DOMAIN lvars /\ lvars # <<>> /\ nParams \in Nat
  BY DEF TypeOK
<1>2. /\ lvars[i].offset \in Int /\ lvars[L].offset \in Int
      /\ lvars[L].size \in Nat /\ lvars[i].size \in Nat
  BY <1>1, LvarFields
<1>3. L > nParams  BY <1>1
<1>4. lvars[L].offset > 0 /\ lvars[i].offset > 0
  BY <1>1, <1>3 DEF ParamRegs
<1>5. lvars[i].offset <= lvars[L].offset
  <2>1. CASE i = L  BY <2>1, <1>2
  <2>2. CASE i # L
    <3>1. i < L  BY <1>1, <2>2
    <3>2. lvars[L].offset >= lvars[i].offset + lvars[L].size
      BY <1>1, <1>4, <3>1 DEF Layout
    <3> QED  BY <1>2, <3>2
  <2> QED  BY <2>1, <2>2
<1>6. stackSize' = IF size < 0 THEN 0 ELSE size
  BY <1>1 DEF LeaveFunc, leave_function, frame_size
<1> HIDE DEF L
<1> QED  BY <1>2, <1>4, <1>5, <1>6

(* One push of the prologue: the parameter at the cursor, if it is in a    *)
(* register, is in the register that is pushed, because the registers are  *)
(* handed out in order and without gaps.                                   *)
LEMMA PushParamKeepsPrologue ==
  ASSUME IInv, PushParam
  PROVE  Prologue'
<1> DEFINE p == cursor + 1
<1> USE DEF IInv
<1>1. /\ phase = "prologue" /\ phase' = "prologue" /\ lvars' = lvars
      /\ nParams' = nParams /\ stackSize' = stackSize /\ cursor' = p
      /\ cursor < nParams
      /\ rsp' = IF lvars[p].offset >= 0 THEN rsp + Word ELSE rsp
  BY DEF PushParam
<1>2. /\ cursor \in Nat /\ rsp \in Nat /\ nParams \in 0..Len(lvars)
      /\ Len(lvars) \in Nat /\ DOMAIN lvars = 1..Len(lvars)
  BY DEF TypeOK
<1>3. p \in DOMAIN lvars /\ p <= nParams  BY <1>1, <1>2
<1>4. \A i \in DOMAIN lvars : /\ lvars[i].reg \in 0..GpRegs /\ lvars[i].offset \in Int
                              /\ lvars[i].size \in Nat \ {0}
  BY LvarFields
<1>5. /\ rsp % Word = 0
      /\ \A i \in DOMAIN lvars : lvars[i].reg # 0 =>
           (i <= cursor <=> Word * lvars[i].reg <= rsp)
      /\ \A i \in DOMAIN lvars : i > nParams => lvars[i].offset <= stackSize
  BY <1>1 DEF Prologue
<1>6. lvars[p].offset >= 0 <=> lvars[p].reg # 0
  <2>1. lvars[p].reg # 0 <=> lvars[p].offset > 0  BY <1>3 DEF ParamRegs
  <2>2. lvars[p].offset >= lvars[p].size \/ lvars[p].offset <= -16
    BY <1>3 DEF Layout, Word
  <2> QED  BY <1>3, <1>4, <2>1, <2>2
<1> HIDE DEF p
<1>7. p \in Int /\ \A i \in DOMAIN lvars : i <= p <=> (i <= cursor \/ i = p)
  BY <1>2 DEF p
<1>8. ASSUME NEW i \in DOMAIN lvars, lvars[i].reg # 0
      PROVE  i <= p <=> Word * lvars[i].reg <= rsp'
  <2>1. CASE lvars[p].reg = 0
    <3>1. rsp' = rsp /\ i # p  BY <1>1, <1>6, <1>8, <2>1
    <3> QED  BY <1>5, <1>7, <1>8, <3>1
  <2>2. CASE lvars[p].reg # 0
    <3>1. rsp' = rsp + 8  BY <1>1, <1>6, <2>2 DEF Word
    <3>2. ~(8 * lvars[p].reg <= rsp)
      <4>1. ~(p <= cursor)  BY <1>2 DEF p
      <4> QED  BY <1>3, <1>5, <2>2, <4>1 DEF Word
    <3>3. 8 * lvars[p].reg <= rsp + 8
      <4>1. CASE lvars[p].reg = 1  BY <1>2, <4>1
      <4>2. CASE lvars[p].reg # 1
        <5>1. lvars[p].reg - 1 \in 1..UsedRegs
          <6>1. lvars[p].reg \in Nat /\ lvars[p].reg >= 2
            BY <1>3, <1>4, <2>2, <4>2 DEF GpRegs
          <6>2. lvars[p].reg <= UsedRegs  BY <1>3, <2>2 DEF ParamRegs
          <6>3. UsedRegs \in Int  BY DEF UsedRegs, GpRegs, TypeOK
          <6> QED  BY <6>1, <6>2, <6>3
        <5>2. PICK q \in DOMAIN lvars : lvars[q].reg = lvars[p].reg - 1
          BY <5>1 DEF ParamRegs
        <5>3. q # p /\ lvars[q].reg # 0 /\ ~(lvars[p].reg < lvars[q].reg)
          BY <1>3, <1>4, <5>1, <5>2 DEF GpRegs
        <5>4. ~(p < q)  BY <1>3, <2>2, <5>3 DEF ParamRegs
        <5>5. q <= cursor  BY <1>2, <5>3, <5>4 DEF p
        <5>6. 8 * lvars[q].reg <= rsp  BY <1>5, <5>3, <5>5 DEF Word
        <5>7. lvars[p].reg \in Int /\ lvars[q].reg \in Int /\ rsp \in Int
          BY <1>2, <1>3, <1>4 DEF GpRegs
        <5> QED  BY <5>2, <5>6, <5>7
      <4> QED  BY <4>1, <4>2
    <3>4. CASE i = p
      BY <1>7, <3>1, <3>3, <3>4 DEF Word
    <3>5. CASE i < p
      <4>1. i <= cursor  BY <1>2, <3>5 DEF p
      <4>2. 8 * lvars[i].reg <= rsp  BY <1>5, <1>8, <4>1 DEF Word
      <4> QED  BY <1>2, <1>4, <1>7, <3>1, <3>5, <4>1, <4>2 DEF Word, GpRegs
    <3>6. CASE p < i
      <4>1. lvars[p].reg < lvars[i].reg  BY <1>3, <1>8, <2>2, <3>6 DEF ParamRegs
      <4>2. lvars[p].reg \in Int /\ lvars[i].reg \in Int /\ rsp \in Int /\ rsp % 8 = 0
        BY <1>2, <1>3, <1>4, <1>5 DEF GpRegs, Word
      <4>3. ~(8 * lvars[i].reg <= rsp + 8)
        <5>1. 8 * lvars[p].reg >= rsp + 8  BY <3>2, <4>2
        <5> QED  BY <4>1, <4>2, <5>1
      <4>4. ~(i <= p)  BY <1>2, <1>7, <3>6
      <4> QED  BY <3>1, <4>3, <4>4 DEF Word
    <3> QED  BY <1>2, <1>7, <3>4, <3>5, <3>6
  <2> QED  BY <2>1, <2>2
<1>9. rsp' % Word = 0
  BY <1>1, <1>2, <1>5 DEF Word
<1>10. p <= nParams  BY <1>3
<1> QED  BY <1>1, <1>3, <1>5, <1>8, <1>9 DEF Prologue
----------------------------------------------------------------------------
LEMMA InitIInv == Init => IInv
<1> SUFFICES ASSUME Init  PROVE IInv
  OBVIOUS
<1>1. UsedRegs = 0
  BY DEF Init, UsedRegs, GpRegs
<1>2. TypeOK  BY DEF Init, TypeOK, GpRegs, Word
<1>3. Layout  BY DEF Init, Layout
<1>4. ParamCounters  BY <1>1 DEF Init, ParamCounters, Word
<1>5. ParamRegs  BY <1>1 DEF Init, ParamRegs
<1>6. Prologue  BY DEF Init, Prologue
<1>7. Symbols  BY DEF Init, Symbols
<1> QED  BY <1>2, <1>3, <1>4, <1>5, <1>6, <1>7 DEF IInv

(* With parameters of one register, or of none, every step keeps IInv.     *)
LEMMA NextKeepsIInv ==
  ASSUME OneRegisterParams, IInv, [Next]_vars
  PROVE  IInv'
<1> USE DEF IInv
<1>1. TypeOK' /\ Symbols'
  BY NextKeepsTypes
<1>2. CASE EnterFunc
  <2>1. /\ lvars' = <<>> /\ nParams' = 0 /\ gpRegs' = GpRegs /\ regOffset' = Word
        /\ stackOffset' = -(2 * Word) /\ phase' = "params"
    BY <1>2 DEF EnterFunc
  <2>2. UsedRegs' = 0  BY <2>1 DEF UsedRegs, GpRegs
  <2>3. Layout'  BY <2>1 DEF Layout
  <2>4. ParamCounters'  BY <2>1, <2>2 DEF ParamCounters, Word
  <2>5. ParamRegs'  BY <2>1, <2>2 DEF ParamRegs
  <2>6. Prologue'  BY <2>1 DEF Prologue
  <2> QED  BY <1>1, <2>3, <2>4, <2>5, <2>6
<1>3. ASSUME NEW n \in Names, NEW ty \in ParamTypes, RegisterParam(n, ty)
      PROVE  IInv'
  BY <1>1, <1>3, RegisterParamKeepsIInv
<1>4. ASSUME lvars' = lvars, paramVars' = paramVars, nParams' = nParams,
             phase' \in {"body", "fatal"}
      PROVE  IInv'
  <2>1. Layout' /\ ParamCounters' /\ ParamRegs'  BY <1>4, SameSlots
  <2>2. Prologue'  BY <1>4 DEF Prologue
  <2> QED  BY <1>1, <2>1, <2>2
<1>5. CASE EnterBody \/ EnterBlock \/ LeaveBlock \/ \E n \in Names : Redeclare(n)
  BY <1>4, <1>5 DEF EnterBody, EnterBlock, LeaveBlock, Redeclare
<1>6. ASSUME NEW n \in Names, NEW ty \in LocalTypes, Declare(n, ty)
      PROVE  IInv'
  BY <1>1, <1>6, AddLocalKeepsIInv DEF Declare
<1>7. ASSUME NEW ty \in LocalTypes, Temporary(ty)
      PROVE  IInv'
  BY <1>1, <1>7, AddLocalKeepsIInv DEF Temporary
<1>8. CASE LeaveFunc
  <2>1. /\ lvars' = lvars /\ paramVars' = paramVars /\ nParams' = nParams
        /\ phase' = "prologue" /\ cursor' = 0 /\ rsp' = 0
    BY <1>8 DEF LeaveFunc, leave_function, frame_size
  <2>2. Layout' /\ ParamCounters' /\ ParamRegs'  BY <2>1, SameSlots
  <2>3. \A i \in DOMAIN lvars : i > nParams => lvars[i].offset <= stackSize'
    BY <1>8, LastSlotCovers
  <2>4. \A i \in DOMAIN lvars : lvars[i].reg # 0 => (i <= 0 <=> Word * lvars[i].reg <= 0)
    <3>1. DOMAIN lvars = 1..Len(lvars) /\ Len(lvars) \in Nat  BY DEF TypeOK
    <3>2. \A i \in DOMAIN lvars : lvars[i].reg \in 0..GpRegs  BY LvarFields
    <3> QED  BY <3>1, <3>2 DEF Word, GpRegs
  <2>5. nParams \in Nat  BY DEF TypeOK
  <2>6. 0 <= nParams /\ 0 % Word = 0  BY <2>5 DEF Word
  <2>7. Prologue'  BY <2>1, <2>3, <2>4, <2>6 DEF Prologue
  <2> QED  BY <1>1, <2>2, <2>7
<1>9. CASE PushParam
  <2>1. Layout' /\ ParamCounters' /\ ParamRegs'
    BY <1>9, SameSlots DEF PushParam
  <2>2. Prologue'  BY <1>9, PushParamKeepsPrologue
  <2> QED  BY <1>1, <2>1, <2>2
<1>10. CASE ReserveFrame
  <2> DEFINE area == to_aligned(stackSize, Word)
  <2>1. /\ lvars' = lvars /\ paramVars' = paramVars /\ nParams' = nParams
        /\ phase = "prologue" /\ phase' = "running" /\ cursor = nParams
        /\ rsp' = rsp + area /\ stackSize' = stackSize
    BY <1>10 DEF ReserveFrame
  <2>2. Layout' /\ ParamCounters' /\ ParamRegs'
    BY <2>1, SameSlots
  <2>3. area \in Int
    <3>1. Word \in Alignments /\ stackSize \in Int  BY DEF Word, Alignments, TypeOK
    <3> QED  BY <3>1, ToAligned
  <2>4. rsp \in Nat /\ DOMAIN lvars = 1..Len(lvars)  BY DEF TypeOK
  <2> HIDE DEF area
  <2>5. ASSUME NEW i \in DOMAIN lvars, lvars[i].reg # 0
        PROVE  Word * lvars[i].reg + area <= rsp'
    <3>1. i <= cursor  BY <2>1, <2>5 DEF ParamRegs
    <3>2. Word * lvars[i].reg <= rsp  BY <2>1, <2>5, <3>1 DEF Prologue
    <3>3. lvars[i].reg \in Int  BY <2>5, LvarFields DEF GpRegs
    <3> QED  BY <2>1, <2>3, <2>4, <3>2, <3>3 DEF Word
  <2>6. area <= rsp'  BY <2>1, <2>3, <2>4
  <2>7. \A i \in DOMAIN lvars : i > nParams => lvars[i].offset <= stackSize
    BY <2>1 DEF Prologue
  <2>8. Prologue'  BY <2>1, <2>5, <2>6, <2>7 DEF Prologue, area
  <2> QED  BY <1>1, <2>2, <2>8
<1>11. CASE UNCHANGED vars
  BY <1>1, <1>11 DEF vars, paramVars, frameVars, Layout, ParamCounters, ParamRegs,
                     Prologue, UsedRegs
<1> QED
  BY <1>2, <1>3, <1>5, <1>6, <1>7, <1>8, <1>9, <1>10, <1>11 DEF Next

(* The variables of Frame keep their types and every symbol of an open     *)
(* scope names a slot of the function, whatever the types of parameters.   *)
THEOREM TypesCorrect == Spec => [](TypeOK /\ Symbols)
<1>1. Init => TypeOK /\ Symbols
  BY InitIInv DEF IInv
<1>2. TypeOK /\ Symbols /\ [Next]_vars => (TypeOK /\ Symbols)'
  BY NextKeepsTypes
<1> QED  BY <1>1, <1>2, PTL DEF Spec

(* IInv is an inductive invariant of every program whose parameters take   *)
(* at most one register.                                                   *)
THEOREM Invariance == OneRegisterParams => (Spec => []IInv)
<1> SUFFICES ASSUME OneRegisterParams  PROVE Spec => []IInv
  OBVIOUS
<1>1. IInv /\ [Next]_vars => IInv'
  BY NextKeepsIInv
<1> QED  BY <1>1, InitIInv, PTL DEF Spec
----------------------------------------------------------------------------
LEMMA LayoutImpliesDisjoint ==
  ASSUME TypeOK, Layout
  PROVE  SlotsDisjoint
<1> SUFFICES ASSUME NEW i \in DOMAIN lvars, NEW j \in DOMAIN lvars, i < j
             PROVE  End(i) <= Start(j) \/ End(j) <= Start(i)
  BY DEF SlotsDisjoint
<1>1. /\ lvars[i].offset \in Int /\ lvars[j].offset \in Int
      /\ lvars[i].size \in Nat \ {0} /\ lvars[j].size \in Nat \ {0}
  BY LvarFields
<1>2. /\ lvars[i].offset > 0 /\ lvars[j].offset > 0 =>
           lvars[j].offset >= lvars[i].offset + lvars[j].size
      /\ lvars[i].offset < 0 /\ lvars[j].offset < 0 =>
           lvars[j].offset <= lvars[i].offset - lvars[i].size
      /\ lvars[i].offset >= lvars[i].size \/ lvars[i].offset <= -16
      /\ lvars[j].offset >= lvars[j].size \/ lvars[j].offset <= -16
  BY DEF Layout, Word
<1> QED  BY <1>1, <1>2 DEF Start, End

(* No two variables of a function share a byte, for functions of any size, *)
(* any types of locals and any parameters of at most one register.         *)
THEOREM SlotsDisjointCorrect == OneRegisterParams => (Spec => []SlotsDisjoint)
<1> SUFFICES ASSUME OneRegisterParams  PROVE Spec => []SlotsDisjoint
  OBVIOUS
<1>1. IInv => SlotsDisjoint  BY LayoutImpliesDisjoint DEF IInv
<1>2. Spec => []IInv  BY Invariance
<1> QED  BY <1>1, <1>2, PTL

(* A slot at an aligned offset is added to slots at aligned offsets.       *)
LEMMA AddAligned ==
  ASSUME TypeOK, SlotsAligned, NEW n \in Names \cup {NoName}, NEW ty \in Types,
         NEW off \in Int, NEW reg \in 0..GpRegs,
         Len(scopes) >= 1, add_lvar(n, ty, off, reg), off % ty.align = 0
  PROVE  SlotsAligned'
<1> DEFINE lv == [name |-> n, size |-> ty.size, align |-> ty.align,
                  offset |-> off, reg |-> reg]
<1>1. /\ DOMAIN lvars' = 1..(Len(lvars) + 1) /\ DOMAIN lvars = 1..Len(lvars)
      /\ \A i \in DOMAIN lvars : lvars'[i] = lvars[i]
      /\ lvars'[Len(lvars) + 1] = lv
  BY AddLvar
<1>2. Len(lvars) \in Nat  BY DEF TypeOK
<1>3. lv.offset = off /\ lv.align = ty.align  OBVIOUS
<1> HIDE DEF lv
<1>4. ASSUME NEW i \in DOMAIN lvars'  PROVE lvars'[i].offset % lvars'[i].align = 0
  <2>1. CASE i = Len(lvars) + 1  BY <1>1, <1>3, <2>1
  <2>2. CASE i \in DOMAIN lvars  BY <1>1, <2>2 DEF SlotsAligned
  <2> QED  BY <1>1, <1>2, <2>1, <2>2
<1> QED  BY <1>4 DEF SlotsAligned

(* The offsets of parameters are multiples of the word, which every        *)
(* alignment divides; those of locals and temporaries are rounded up.      *)
LEMMA NextKeepsAligned ==
  ASSUME TypeOK, Symbols, OffsetsAligned, [Next]_vars
  PROVE  OffsetsAligned'
<1> USE DEF OffsetsAligned
<1>1. /\ gpRegs \in 0..GpRegs /\ regOffset \in Int /\ stackOffset \in Int
      /\ Len(scopes) \in Nat
  BY DEF TypeOK
<1>2. CASE EnterFunc
  BY <1>2 DEF EnterFunc, SlotsAligned, Word
<1>3. ASSUME NEW n \in Names, NEW ty \in ParamTypes, RegisterParam(n, ty)
      PROVE  OffsetsAligned'
  <2> DEFINE regs == RegsGiven(ty.size, gpRegs)
             area == to_aligned(ty.size, Word)
  <2>1. ty \in Types /\ n \in Names \cup {NoName} /\ ty.size \in Nat \ {0}
        /\ ty.align \in Alignments
    BY TypesAreTypes DEF Types
  <2>2. area \in Int /\ area % Word = 0
    <3>1. Word \in Alignments  BY DEF Word, Alignments
    <3> QED  BY <2>1, <3>1, ToAligned
  <2>3. regs \in 0..2 /\ regs <= gpRegs
    BY <1>1, <2>1 DEF RegsGiven, RegsWanted, Word, GpRegs
  <2>4. Len(scopes) >= 1
    <3>1. phase = "params"  BY <1>3 DEF RegisterParam
    <3>2. Len(scopes) = 1  BY <3>1 DEF Symbols
    <3> QED  BY <3>2
  <2> HIDE DEF regs, area
  <2>5. CASE /\ regs = 0 /\ add_lvar(n, ty, stackOffset, 0)
             /\ stackOffset' = stackOffset - area /\ regOffset' = regOffset
    <3>1. stackOffset % ty.align = 0  BY <1>1, <2>1, WordMultiple
    <3>2. 0 \in 0..GpRegs  BY DEF GpRegs
    <3>3. SlotsAligned'  BY <1>1, <2>1, <2>4, <2>5, <3>1, <3>2, AddAligned
    <3>4. stackOffset' % Word = 0  BY <1>1, <2>2, <2>5 DEF Word
    <3> QED  BY <2>5, <3>3, <3>4
  <2>6. CASE /\ regs # 0 /\ add_lvar(n, ty, regOffset, GpRegs - gpRegs + 1)
             /\ regOffset' = regOffset + area /\ stackOffset' = stackOffset
    <3>1. regOffset % ty.align = 0  BY <1>1, <2>1, WordMultiple
    <3>2. GpRegs - gpRegs + 1 \in 0..GpRegs  BY <1>1, <2>3, <2>6 DEF GpRegs
    <3>3. SlotsAligned'  BY <1>1, <2>1, <2>4, <2>6, <3>1, <3>2, AddAligned
    <3>4. regOffset' % Word = 0  BY <1>1, <2>2, <2>6 DEF Word
    <3> QED  BY <2>6, <3>3, <3>4
  <2> QED  BY <1>3, <2>5, <2>6 DEF RegisterParam, param_area, regs, area
<1>4. ASSUME NEW n \in Names \cup {NoName}, NEW ty \in LocalTypes, phase = "body",
             add_lvar(n, ty, calc_lvar_stack_offset(ty), 0), paramVars' = paramVars
      PROVE  OffsetsAligned'
  <2> DEFINE off == calc_lvar_stack_offset(ty)
  <2>1. ty \in Types /\ ty.size \in Nat \ {0} /\ ty.align \in Alignments
    BY TypesAreTypes DEF Types
  <2>2. off \in Int /\ off % ty.align = 0  BY <2>1, NewOffsetAligned
  <2>3. Len(scopes) >= 1 /\ 0 \in 0..GpRegs  BY <1>1, <1>4 DEF Symbols, GpRegs
  <2> HIDE DEF off
  <2>4. add_lvar(n, ty, off, 0)  BY <1>4 DEF off
  <2>5. SlotsAligned'  BY <2>1, <2>2, <2>3, <2>4, AddAligned
  <2> QED  BY <1>4, <2>5 DEF paramVars
<1>5. ASSUME lvars' = lvars, paramVars' = paramVars  PROVE OffsetsAligned'
  BY <1>5 DEF paramVars, SlotsAligned
<1>6. ASSUME NEW n \in Names, NEW ty \in LocalTypes, Declare(n, ty)  PROVE OffsetsAligned'
  BY <1>4, <1>6 DEF Declare
<1>7. ASSUME NEW ty \in LocalTypes, Temporary(ty)  PROVE OffsetsAligned'
  BY <1>4, <1>7 DEF Temporary
<1>8. CASE \/ EnterBody \/ EnterBlock \/ LeaveBlock \/ LeaveFunc \/ PushParam
           \/ ReserveFrame \/ \E n \in Names : Redeclare(n)
  BY <1>5, <1>8 DEF EnterBody, EnterBlock, LeaveBlock, LeaveFunc, PushParam,
                    ReserveFrame, Redeclare
<1>9. CASE UNCHANGED vars
  BY <1>5, <1>9 DEF vars
<1> QED
  BY <1>2, <1>3, <1>6, <1>7, <1>8, <1>9 DEF Next

(* Every slot is aligned for its type (calc_lvar_stack_offset,             *)
(* register_params), whatever the types of parameters.                     *)
THEOREM SlotsAlignedCorrect == Spec => []SlotsAligned
<1> DEFINE Inv == TypeOK /\ Symbols /\ OffsetsAligned
<1>1. Init => Inv
  <2>1. Init => TypeOK /\ Symbols  BY InitIInv DEF IInv
  <2>2. Init => OffsetsAligned  BY DEF Init, OffsetsAligned, SlotsAligned, Word
  <2> QED  BY <2>1, <2>2
<1>2. Inv /\ [Next]_vars => Inv'
  BY NextKeepsTypes, NextKeepsAligned
<1>3. Inv => SlotsAligned  BY DEF OffsetsAligned
<1> QED  BY <1>1, <1>2, <1>3, PTL DEF Spec

(* The frame that the prologue reserves from the last slot covers all the  *)
(* slots, and none reaches the saved rbp or the return address.            *)
THEOREM FrameCoversSlotsCorrect == OneRegisterParams => (Spec => []FrameCoversSlots)
<1> SUFFICES ASSUME OneRegisterParams  PROVE Spec => []FrameCoversSlots
  OBVIOUS
<1>1. ASSUME IInv  PROVE FrameCoversSlots
  <2> USE <1>1 DEF IInv
  <2> SUFFICES ASSUME phase = "running", NEW i \in DOMAIN lvars
               PROVE  \/ -rsp <= Start(i) /\ End(i) <= 0
                      \/ 2 * Word <= Start(i)
    BY DEF FrameCoversSlots
  <2> DEFINE area == to_aligned(stackSize, Word)
  <2>1. /\ lvars[i].offset \in Int /\ lvars[i].size \in Nat
        /\ lvars[i].reg \in 0..GpRegs
    BY LvarFields
  <2>2. lvars[i].offset >= lvars[i].size \/ lvars[i].offset <= -(2 * Word)
    BY DEF Layout
  <2>3. rsp \in Nat /\ stackSize \in Nat /\ stackSize <= area /\ area \in Int
    <3>1. Word \in Alignments /\ stackSize \in Int  BY DEF Word, Alignments, TypeOK
    <3>2. stackSize <= area /\ area \in Int  BY <3>1, ToAligned
    <3> QED  BY <3>2 DEF TypeOK
  <2> HIDE DEF area
  <2>4. lvars[i].offset > 0 => lvars[i].offset <= rsp
    <3> SUFFICES ASSUME lvars[i].offset > 0  PROVE lvars[i].offset <= rsp
      OBVIOUS
    <3>1. CASE lvars[i].reg # 0
      <4>1. lvars[i].offset = Word * lvars[i].reg  BY <3>1 DEF ParamRegs
      <4>2. Word * lvars[i].reg + area <= rsp  BY <3>1 DEF Prologue, area
      <4> QED  BY <2>1, <2>3, <4>1, <4>2
    <3>2. CASE lvars[i].reg = 0
      <4>1. ~(i <= nParams)  BY <3>2 DEF ParamRegs
      <4>2. i > nParams  BY <4>1 DEF TypeOK
      <4>3. lvars[i].offset <= stackSize  BY <4>2 DEF Prologue
      <4>4. area <= rsp  BY DEF Prologue, area
      <4> QED  BY <2>1, <2>3, <4>3, <4>4
    <3> QED  BY <3>1, <3>2
  <2> QED  BY <2>1, <2>2, <2>3, <2>4 DEF Start, End, Word
<1>2. Spec => []IInv  BY Invariance
<1>3. IInv => FrameCoversSlots  BY <1>1
<1> QED  BY <1>2, <1>3, PTL

(* Every parameter in a register has its slot where the prologue pushed    *)
(* that register, above the bytes reserved for the locals.                 *)
THEOREM ParamsHoldRegistersCorrect ==
  OneRegisterParams => (Spec => []ParamsHoldRegisters)
<1> SUFFICES ASSUME OneRegisterParams  PROVE Spec => []ParamsHoldRegisters
  OBVIOUS
<1>1. ASSUME IInv  PROVE ParamsHoldRegisters
  <2> USE <1>1 DEF IInv
  <2> DEFINE area == to_aligned(stackSize, Word)
  <2> SUFFICES ASSUME phase = "running", NEW i \in 1..nParams, lvars[i].reg # 0,
                      NEW k \in 0..(RegsWanted(lvars[i].size) - 1)
               PROVE  /\ Start(i) + Word * k = -(Word * (lvars[i].reg + k))
                      /\ Word * (lvars[i].reg + k) + area <= rsp
    BY DEF ParamsHoldRegisters
  <2>1. i \in DOMAIN lvars  BY DEF TypeOK
  <2>2. /\ lvars[i].offset \in Int /\ lvars[i].size \in Nat
        /\ lvars[i].reg \in 0..GpRegs
    BY <2>1, LvarFields
  <2>3. /\ lvars[i].size <= Word /\ lvars[i].offset = Word * lvars[i].reg
    BY <2>1 DEF ParamRegs
  <2>4. k = 0  BY <2>2, <2>3 DEF RegsWanted
  <2>5. Word * lvars[i].reg + area <= rsp  BY <2>1 DEF Prologue
  <2> HIDE DEF area
  <2>6. Start(i) + Word * k = -(Word * (lvars[i].reg + k))
    BY <2>2, <2>3, <2>4 DEF Start, Word, GpRegs
  <2>7. lvars[i].reg + k = lvars[i].reg  BY <2>2, <2>4 DEF GpRegs
  <2> QED  BY <2>5, <2>6, <2>7
<1>2. Spec => []IInv  BY Invariance
<1>3. IInv => ParamsHoldRegisters  BY <1>1
<1> QED  BY <1>2, <1>3, PTL

(* A declaration adds its slot and its symbol to the innermost scope.      *)
LEMMA AddKeepsBlocks ==
  ASSUME TypeOK, Symbols, Blocks, NEW n \in Names \cup {NoName}, NEW ty \in Types,
         NEW off \in Int, NEW reg \in 0..GpRegs,
         Len(scopes) >= 1, add_lvar(n, ty, off, reg)
  PROVE  Blocks'
<1> DEFINE d == Len(scopes)
           new == Len(lvars) + 1
           top == scopes[d]
           sym == [name |-> n, index |-> new]
<1>1. /\ scopes \in Seq(Seq(Symbol)) /\ d \in DOMAIN scopes /\ DOMAIN scopes = 1..d /\ d \in Nat
      /\ block \in Seq(Nat) /\ Len(lvars) \in Nat /\ DOMAIN lvars = 1..Len(lvars)
  BY DEF TypeOK
<1>2. /\ DOMAIN lvars' = 1..new /\ DOMAIN scopes' = DOMAIN scopes
  <2>1. scopes' \in Seq(Seq(Symbol)) /\ Len(scopes') = Len(scopes) /\ DOMAIN lvars' = 1..new
    BY AddLvar
  <2> QED  BY <1>1, <2>1
<1>3. /\ DOMAIN block' = 1..new /\ block'[new] = d
      /\ \A i \in DOMAIN lvars : block'[i] = block[i]
  <2>1. Len(block) = Len(lvars)  BY <1>1 DEF Blocks
  <2>2. block' = Append(block, d)  BY DEF add_lvar
  <2> QED  BY <1>1, <2>1, <2>2
<1>4. top \in Seq(Symbol) /\ Len(top) \in Nat /\ DOMAIN top = 1..Len(top)
  BY <1>1
<1>5. scopes' = [scopes EXCEPT ![d] = Append(top, sym)]
  BY DEF add_lvar
<1>6. /\ \A s \in DOMAIN scopes : s # d => scopes'[s] = scopes[s]
      /\ DOMAIN scopes'[d] = 1..(Len(top) + 1)
      /\ \A k \in DOMAIN top : scopes'[d][k] = top[k]
      /\ scopes'[d][Len(top) + 1] = sym
  BY <1>1, <1>4, <1>5
<1>7. \A s \in DOMAIN scopes : \A k \in DOMAIN scopes[s] :
        scopes[s][k].index \in 1..Len(lvars) /\ block[scopes[s][k].index] = s
  BY <1>1 DEF Symbols, Blocks
<1>8. \A k \in DOMAIN scopes'[d] : k \in DOMAIN top \/ k = Len(top) + 1
  BY <1>4, <1>6
<1>9. ASSUME NEW s \in DOMAIN scopes', NEW k \in DOMAIN scopes'[s]
      PROVE  /\ block'[scopes'[s][k].index] = s
             /\ \A m \in DOMAIN scopes'[s] : k < m => scopes'[s][k].index < scopes'[s][m].index
  <2>1. CASE s # d
    BY <1>1, <1>2, <1>3, <1>6, <1>7, <2>1 DEF Blocks
  <2>2. CASE s = d /\ k = Len(top) + 1
    <3>1. scopes'[s][k].index = new  BY <1>6, <2>2
    <3>2. ASSUME NEW m \in DOMAIN scopes'[s], k < m  PROVE FALSE
      BY <1>4, <1>6, <2>2, <3>2
    <3> QED  BY <1>3, <2>2, <3>1, <3>2
  <2>3. CASE s = d /\ k \in DOMAIN top
    <3>1. scopes'[s][k] = top[k] /\ top[k].index \in 1..Len(lvars) /\ block[top[k].index] = d
      BY <1>1, <1>6, <1>7, <2>3
    <3>2. block'[scopes'[s][k].index] = s
      BY <1>1, <1>3, <2>3, <3>1
    <3>3. ASSUME NEW m \in DOMAIN scopes'[s], k < m
          PROVE  scopes'[s][k].index < scopes'[s][m].index
      <4>1. CASE m \in DOMAIN top
        <5>1. scopes'[s][m] = top[m]  BY <1>6, <2>3, <4>1
        <5>2. top[k].index < top[m].index
          BY <1>1, <2>3, <3>3, <4>1 DEF Blocks
        <5> QED  BY <3>1, <5>1, <5>2
      <4>2. CASE m = Len(top) + 1
        <5>1. scopes'[s][m].index = new  BY <1>6, <2>3, <4>2
        <5>2. top[k].index \in Nat /\ top[k].index < new  BY <1>1, <3>1
        <5> QED  BY <3>1, <5>1, <5>2
      <4> QED  BY <1>8, <2>3, <4>1, <4>2
    <3> QED  BY <3>2, <3>3
  <2> QED  BY <1>2, <1>8, <2>1, <2>2, <2>3
<1>10. ASSUME NEW i \in DOMAIN lvars', block'[i] # 0
       PROVE  block'[i] \in DOMAIN scopes' /\ \E k \in DOMAIN scopes'[block'[i]] : scopes'[block'[i]][k].index = i
  <2>1. CASE i = new
    <3>1. Len(top) + 1 \in DOMAIN scopes'[d] /\ scopes'[d][Len(top) + 1].index = new
      BY <1>4, <1>6
    <3> QED  BY <1>1, <1>2, <1>3, <2>1, <3>1
  <2>2. CASE i \in DOMAIN lvars
    <3>1. block'[i] = block[i]  BY <1>3, <2>2
    <3>2. block[i] \in DOMAIN scopes /\ \E k \in DOMAIN scopes[block[i]] : scopes[block[i]][k].index = i
      BY <1>10, <2>2, <3>1 DEF Blocks
    <3>3. PICK k \in DOMAIN scopes[block[i]] : scopes[block[i]][k].index = i
      BY <3>2
    <3>4. k \in DOMAIN scopes'[block[i]] /\ scopes'[block[i]][k] = scopes[block[i]][k]
      <4>1. CASE block[i] = d
        <5>1. k \in DOMAIN top  BY <3>3, <4>1
        <5>2. k \in 1..(Len(top) + 1)  BY <1>4, <5>1
        <5> QED  BY <1>6, <4>1, <5>1, <5>2
      <4>2. CASE block[i] # d
        BY <1>6, <3>2, <3>3, <4>2
      <4> QED  BY <4>1, <4>2
    <3>5. block[i] \in DOMAIN scopes'  BY <1>2, <3>2
    <3>6. \E m \in DOMAIN scopes'[block[i]] : scopes'[block[i]][m].index = i
      BY <3>3, <3>4
    <3> QED  BY <3>1, <3>5, <3>6
  <2> QED  BY <1>1, <1>2, <2>1, <2>2
<1>11. DOMAIN block' = DOMAIN lvars'
  BY <1>2, <1>3
<1> QED  BY <1>9, <1>10, <1>11 DEF Blocks

(* A new scope has no symbols.                                             *)
LEMMA EnterKeepsBlocks ==
  ASSUME TypeOK, Blocks, enter_scope, lvars' = lvars, block' = block
  PROVE  Blocks'
<1> DEFINE d == Len(scopes)
<1>1. scopes \in Seq(Seq(Symbol)) /\ DOMAIN scopes = 1..d /\ d \in Nat
  BY DEF TypeOK
<1>2. scopes' = Append(scopes, <<>>)
  BY DEF enter_scope
<1>3. /\ DOMAIN scopes' = 1..(d + 1) /\ DOMAIN scopes'[d + 1] = {}
      /\ \A s \in DOMAIN scopes : s \in DOMAIN scopes' /\ scopes'[s] = scopes[s]
  BY <1>1, <1>2
<1>4. ASSUME NEW s \in DOMAIN scopes', NEW k \in DOMAIN scopes'[s]
      PROVE  s \in DOMAIN scopes /\ scopes'[s] = scopes[s]
  <2>1. s # d + 1  BY <1>3, <1>4
  <2> QED  BY <1>1, <1>3, <2>1
<1> QED  BY <1>3, <1>4 DEF Blocks

(* The symbols of the scopes that are left are those of the slots that are *)
(* hidden.                                                                 *)
LEMMA LeaveKeepsBlocks ==
  ASSUME TypeOK, Symbols, Blocks, NEW j \in 0..Len(scopes),
         leave_scopes(j), Hidden(j), lvars' = lvars
  PROVE  Blocks'
<1> DEFINE d == Len(scopes)
<1>1. scopes \in Seq(Seq(Symbol)) /\ DOMAIN scopes = 1..d /\ d \in Nat
  BY DEF TypeOK
<1>2. scopes' = SubSeq(scopes, 1, d - j)
  BY DEF leave_scopes
<1>3. /\ DOMAIN scopes' = 1..(d - j)
      /\ \A s \in 1..(d - j) : s \in DOMAIN scopes /\ scopes'[s] = scopes[s]
  BY <1>1, <1>2
<1>4. /\ DOMAIN block' = DOMAIN lvars'
      /\ \A i \in DOMAIN lvars : block'[i] = IF block[i] > d - j THEN 0 ELSE block[i]
  BY HiddenIs DEF Blocks
<1>5. \A s \in DOMAIN scopes : \A k \in DOMAIN scopes[s] :
        scopes[s][k].index \in DOMAIN lvars /\ block[scopes[s][k].index] = s
  BY DEF Symbols, Blocks
<1>6. ASSUME NEW s \in DOMAIN scopes', NEW k \in DOMAIN scopes'[s]
      PROVE  /\ block'[scopes'[s][k].index] = s
             /\ \A m \in DOMAIN scopes'[s] : k < m => scopes'[s][k].index < scopes'[s][m].index
  <2>1. s \in 1..(d - j) /\ s \in DOMAIN scopes /\ scopes'[s] = scopes[s]
    BY <1>3
  <2>2. block'[scopes'[s][k].index] = s
    BY <1>1, <1>4, <1>5, <2>1
  <2> QED  BY <2>1, <2>2 DEF Blocks
<1>7. ASSUME NEW i \in DOMAIN lvars', block'[i] # 0
      PROVE  block'[i] \in DOMAIN scopes' /\ \E k \in DOMAIN scopes'[block'[i]] : scopes'[block'[i]][k].index = i
  <2>1. block'[i] = block[i] /\ ~(block[i] > d - j)
    BY <1>4, <1>7
  <2>2. block[i] \in DOMAIN scopes /\ \E k \in DOMAIN scopes[block[i]] : scopes[block[i]][k].index = i
    BY <1>7, <2>1 DEF Blocks
  <2>3. block[i] \in 1..(d - j)
    BY <1>1, <2>1, <2>2
  <2> QED  BY <1>3, <2>1, <2>2, <2>3
<1> QED  BY <1>4, <1>6, <1>7 DEF Blocks

LEMMA NextKeepsBlocks ==
  ASSUME TypeOK, Symbols, Blocks, [Next]_vars
  PROVE  Blocks'
<1>1. Len(scopes) \in Nat
  BY DEF TypeOK
<1>2. CASE EnterFunc
  <2>1. scopes' = <<<<>>>> /\ lvars' = <<>> /\ block' = <<>>
    <3>1. scopes = <<>>  BY <1>2 DEF EnterFunc, Symbols
    <3> QED  BY <1>2, <3>1 DEF EnterFunc, enter_scope
  <2>2. \A s \in DOMAIN scopes' : DOMAIN scopes'[s] = {}
    BY <2>1
  <2> QED  BY <2>1, <2>2 DEF Blocks
<1>3. ASSUME NEW n \in Names, NEW ty \in ParamTypes, RegisterParam(n, ty)
      PROVE  Blocks'
  <2>1. PICK off \in Int, reg \in 0..GpRegs : add_lvar(n, ty, off, reg)
    BY <1>3, RegisterParamArgs
  <2>2. Len(scopes) >= 1
    <3>1. Len(scopes) = 1  BY <1>3 DEF RegisterParam, Symbols
    <3> QED  BY <3>1
  <2> QED  BY <2>1, <2>2, AddKeepsBlocks DEF Types
<1>4. CASE EnterBody
  BY <1>4, EnterKeepsBlocks DEF EnterBody
<1>5. CASE EnterBlock
  BY <1>5, EnterKeepsBlocks DEF EnterBlock
<1>6. CASE LeaveBlock
  <2>1. 1 \in 0..Len(scopes)  BY <1>1, <1>6 DEF LeaveBlock
  <2> QED  BY <1>6, <2>1, LeaveKeepsBlocks DEF LeaveBlock
<1>7. ASSUME NEW n \in Names \cup {NoName}, NEW ty \in LocalTypes,
             phase = "body", add_lvar(n, ty, calc_lvar_stack_offset(ty), 0)
      PROVE  Blocks'
  <2>1. ty \in Types /\ 0 \in 0..GpRegs  BY DEF Types, GpRegs
  <2>2. calc_lvar_stack_offset(ty) \in Int  BY <2>1, NewOffsetAligned
  <2>3. Len(scopes) >= 1
    <3>1. Len(scopes) >= 2  BY <1>7 DEF Symbols
    <3> QED  BY <1>1, <3>1
  <2> QED  BY <1>7, <2>1, <2>2, <2>3, AddKeepsBlocks
<1>8. ASSUME NEW n \in Names, NEW ty \in LocalTypes, Declare(n, ty)  PROVE Blocks'
  BY <1>7, <1>8 DEF Declare
<1>9. ASSUME NEW n \in Names, Redeclare(n)  PROVE Blocks'
  BY <1>9 DEF Redeclare, Blocks
<1>10. ASSUME NEW ty \in LocalTypes, Temporary(ty)  PROVE Blocks'
  BY <1>7, <1>10 DEF Temporary
<1>11. CASE LeaveFunc
  <2>1. 2 \in 0..Len(scopes) /\ leave_scopes(2)
    BY <1>1, <1>11 DEF LeaveFunc, leave_function
  <2> QED  BY <1>11, <2>1, LeaveKeepsBlocks DEF LeaveFunc
<1>12. CASE PushParam
  BY <1>12 DEF PushParam, Blocks
<1>13. CASE ReserveFrame
  BY <1>13 DEF ReserveFrame, Blocks
<1>14. CASE UNCHANGED vars
  BY <1>14 DEF vars, Blocks
<1> QED
  BY <1>2, <1>3, <1>4, <1>5, <1>6, <1>8, <1>9, <1>10, <1>11, <1>12, <1>13, <1>14 DEF Next

(* In a scope that has the name, find_lvar_in_scope finds the first of the *)
(* slots declared in it under that name.                                   *)
LEMMA FoundInScope ==
  ASSUME TypeOK, Symbols, Blocks, NEW s \in DOMAIN scopes, NEW n
  PROVE  LET i == find_lvar_in_scope(scopes[s], n)
         IN  /\ i # 0 => i \in Visible(n) /\ block[i] = s
             /\ \A j \in Visible(n) : block[j] = s => i # 0 /\ i <= j
<1> DEFINE syms == scopes[s]
           hits == {k \in DOMAIN syms : syms[k].name = n}
           first == CHOOSE k \in hits : \A m \in hits : k <= m
<1>1. scopes \in Seq(Seq(Symbol)) /\ DOMAIN scopes = 1..Len(scopes) /\ Len(scopes) \in Nat
  BY DEF TypeOK
<1>2. syms \in Seq(Symbol) /\ DOMAIN syms \subseteq Nat
  BY <1>1
<1>3. \A k \in DOMAIN syms : /\ syms[k].index \in Nat \ {0} /\ syms[k].index \in DOMAIN lvars
                             /\ lvars[syms[k].index].name = syms[k].name
                             /\ block[syms[k].index] = s
  <2>1. \A k \in DOMAIN syms : syms[k] \in Symbol  BY <1>2
  <2>2. \A k \in DOMAIN syms : syms[k].index \in Nat \ {0}  BY <2>1 DEF Symbol
  <2> QED  BY <2>2 DEF Symbols, Blocks
<1>4. CASE hits = {}
  <2>1. find_lvar_in_scope(syms, n) = 0
    BY <1>4 DEF find_lvar_in_scope
  <2>2. ASSUME NEW j \in Visible(n), block[j] = s  PROVE FALSE
    <3>1. j \in DOMAIN lvars /\ block[j] # 0 /\ lvars[j].name = n
      BY DEF Visible
    <3>2. PICK k \in DOMAIN syms : syms[k].index = j
      BY <2>2, <3>1 DEF Blocks
    <3>3. k \in hits  BY <1>3, <3>1, <3>2
    <3> QED  BY <1>4, <3>3
  <2> QED  BY <2>1, <2>2
<1>5. CASE hits # {}
  <2>1. \E k \in hits : \A m \in hits : k <= m
    <3>1. hits \subseteq Nat  BY <1>2
    <3> QED  BY <1>5, <3>1, FirstExists
  <2>2. first \in hits /\ \A m \in hits : first <= m
    BY <2>1
  <2>3. find_lvar_in_scope(syms, n) = syms[first].index
    BY <1>5 DEF find_lvar_in_scope
  <2> HIDE DEF first
  <2>4. syms[first].index # 0 /\ syms[first].index \in Visible(n) /\ block[syms[first].index] = s
    <3>1. first \in DOMAIN syms /\ syms[first].name = n  BY <2>2
    <3>2. s # 0  BY <1>1
    <3> QED  BY <1>3, <3>1, <3>2 DEF Visible
  <2>5. ASSUME NEW j \in Visible(n), block[j] = s  PROVE syms[first].index <= j
    <3>1. j \in DOMAIN lvars /\ block[j] # 0 /\ lvars[j].name = n
      BY DEF Visible
    <3>2. PICK k \in DOMAIN syms : syms[k].index = j
      BY <2>5, <3>1 DEF Blocks
    <3>3. k \in hits /\ first \in DOMAIN syms /\ k \in Nat /\ first \in Nat
      BY <1>2, <1>3, <2>2, <3>1, <3>2
    <3>4. first <= k  BY <2>2, <3>3
    <3>5. CASE first = k  BY <1>3, <3>2, <3>3, <3>5
    <3>6. CASE first < k
      <4>1. syms[first].index < syms[k].index  BY <3>3, <3>6 DEF Blocks
      <4> QED  BY <1>3, <3>2, <3>3, <4>1
    <3> QED  BY <3>3, <3>4, <3>5, <3>6
  <2> QED  BY <2>3, <2>4, <2>5
<1> QED  BY <1>4, <1>5

(* A name means its innermost visible declaration, and none if it has no   *)
(* visible one, for any nesting and order of blocks and declarations.      *)
THEOREM NamesResolveCorrect == Spec => []NamesResolve
<1>1. ASSUME TypeOK, Symbols, Blocks  PROVE NamesResolve
  <2> USE <1>1
  <2> SUFFICES ASSUME NEW n \in Names
               PROVE  IF Visible(n) = {} THEN find_lvar(n) = 0
                      ELSE find_lvar(n) \in Visible(n) /\ \A j \in Visible(n) : Hides(find_lvar(n), j)
    BY DEF NamesResolve
  <2> DEFINE hits == {s \in DOMAIN scopes : find_lvar_in_scope(scopes[s], n) # 0}
             s0 == CHOOSE s \in hits : \A r \in hits : r <= s
  <2>1. DOMAIN scopes = 1..Len(scopes) /\ Len(scopes) \in Nat
    BY DEF TypeOK
  <2>2. ASSUME NEW j \in Visible(n)  PROVE block[j] \in hits
    <3>1. block[j] \in DOMAIN scopes  BY DEF Visible, Blocks
    <3> QED  BY <3>1, FoundInScope
  <2>3. CASE hits = {}
    <3>1. find_lvar(n) = 0  BY <2>3 DEF find_lvar
    <3>2. Visible(n) = {}  BY <2>2, <2>3
    <3> QED  BY <3>1, <3>2
  <2>4. CASE hits # {}
    <3>1. \E s \in hits : \A r \in hits : r <= s
      <4>1. hits \subseteq 0..Len(scopes)  BY <2>1
      <4> QED  BY <2>1, <2>4, <4>1, LastExists
    <3>2. s0 \in hits /\ \A r \in hits : r <= s0
      BY <3>1
    <3>3. find_lvar(n) = find_lvar_in_scope(scopes[s0], n)
      BY <2>4 DEF find_lvar
    <3> HIDE DEF s0
    <3>4. /\ find_lvar(n) \in Visible(n) /\ block[find_lvar(n)] = s0
          /\ \A j \in Visible(n) : block[j] = s0 => find_lvar(n) <= j
      BY <3>2, <3>3, FoundInScope
    <3>5. ASSUME NEW j \in Visible(n)  PROVE Hides(find_lvar(n), j)
      <4>1. block[j] \in hits /\ block[j] <= s0  BY <2>2, <3>2
      <4>2. block[j] \in Nat /\ s0 \in Nat  BY <2>1, <3>2, <4>1
      <4> QED  BY <3>4, <4>1, <4>2 DEF Hides
    <3> QED  BY <3>4, <3>5
  <2> QED  BY <2>3, <2>4
<1>2. Init => Blocks
  BY DEF Init, Blocks
<1>3. TypeOK /\ Symbols /\ Blocks /\ [Next]_vars => Blocks'
  BY NextKeepsBlocks
<1>4. TypeOK /\ Symbols /\ Blocks => NamesResolve
  BY <1>1
<1> QED  BY <1>2, <1>3, <1>4, TypesCorrect, PTL DEF Spec
=============================================================================
