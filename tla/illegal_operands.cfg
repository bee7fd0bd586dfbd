SPECIFICATION Spec
CONSTANTS
  InitialCapacity = 1
  Ids <- MCIds
  IrFunctions <- UnsupportedOperands
INVARIANTS AllEncodable
