SPECIFICATION Spec
CONSTANTS
  WordBits = 8
  LowBits = 1
  Written = {}
  Texts <- MalformedTexts
INVARIANTS MalformedIsDiagnosed
