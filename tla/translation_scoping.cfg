SPECIFICATION Spec
CONSTANTS
  WordBits = 3
  LowBits = 1
  Ids = {}
  Functions = {}
  MaxRounds = 12
  MaxCalls = 2
  Arguments = {1}
  CallResults = {0, 1}
  Programs <- ScopingPrograms
INVARIANTS AcceptsExactlyTheValid DistinctIdentities JumpsLandOnce

