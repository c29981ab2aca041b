CONSTANTS
  x = x
  NoName = NoName
  Names <- OneName
  ParamTypes <- ManyParams
  LocalTypes <- FewLocals
  MaxParams = 7
  MaxLocals = 3
  MaxScopes = 3
  MaxFuncs = 2
SPECIFICATION Spec
INVARIANTS SlotsDisjoint SlotsAligned FrameCoversSlots ParamsHoldRegisters NamesResolve
CHECK_DEADLOCK FALSE
