SPECIFICATION Spec
CONSTANTS
  InitialCapacity = 1
  Ids <- MCIds
  IrFunctions <- MCFunctions
INVARIANTS TypeOK SlotsDisjoint CallsBalanced AllEncodable
PROPERTIES SlotsNeverMove
