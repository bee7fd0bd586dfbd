SPECIFICATION Spec
CONSTANTS
  Names <- MCNames
  GlobalsRoom = 1
  PrototypeRoom = 1
  MaxDepth = 4
  MaxEntries = 5
  MaxVariables = 3
INVARIANTS EntriesFit
PROPERTIES ImplementsLexicalScopes
