SPECIFICATION Spec
CONSTANTS
  p1 = p1
  p2 = p2
  Procs = {p1, p2}
  Arguments <- MCArguments
  Paths <- MCPaths
  TextsAt <- MCTextsAt
  Fate <- MCFate
  MaxRuns = 2
  MaxEdits = 1
INVARIANTS EverythingReleased
PROPERTIES ExitZeroDelivers FailureLeavesNoTrace EveryRunEnds
