SPECIFICATION MachineSpec
CONSTANTS
  WordBits = 3
  LowBits = 1
  InitialCapacity = 1
  Ids <- MCIds
  Environments <- MCEnvironments
  Garbage <- MCGarbage
  Addresses <- MCAddresses
  IrFunctions <- MCFunctions
INVARIANTS AlignedAtCalls StackBalanced SlotsStayReserved
PROPERTIES ImplementsIr
