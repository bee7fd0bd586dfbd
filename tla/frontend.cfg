SPECIFICATION Spec
CONSTANTS
  WordBits = 8
  LowBits = 1
  Written <- MCWritten
  Texts <- MCTexts
INVARIANTS LongestMatch RoundTrip NothingElseAccepted
PROPERTIES EveryTextIsDecided
