SPECIFICATION Spec
CONSTANTS
  WordBits = 3
  LowBits = 1
  Ids = {}
  Functions = {}
  MaxRounds = 12
  MaxCalls = 5
  Arguments = {0, 2}
  CallResults = {0, 1}
  Programs <- MeaningPrograms
INVARIANTS TypeOK MeaningPreserved LoweringKeepsTheRules
PROPERTIES ExecutionEnds
