SPECIFICATION Spec
CONSTANTS
  U64Max = 3
  MaxTime = 3
  MaxAdvance = 5
  Rules <- MCRules
INVARIANTS TypeOK WindowBound PromiseKept RefillIsExact
