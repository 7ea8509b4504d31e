SPECIFICATION Spec
CONSTANTS
  Inputs <- Tables
  NoSchema = NoSchema
  Underscore = 0
  MaxBundle = 3
  MaxDepth = 2
  MaxInputs = 4
INVARIANTS OrderIrrelevant  RefsResolve
