SPECIFICATION Spec
CONSTANTS
  WordBits = 3
  LowBits = 1
  Ids = {}
  Functions = {}
  MaxRounds = 12
  MaxCalls = 4
  Arguments = {0, 2}
  CallResults = {0, 1}
  Programs <- CompoundValues
INVARIANTS MeaningPreserved

