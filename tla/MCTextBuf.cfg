CONSTANTS
  Loads <- MCLoads
  Inserts <- MCInserts
  MaxLen = 3
  MaxTyped = 2
  MaxSteps = 2
SPECIFICATION TextSpec
INVARIANTS TextStaysWhole
PROPERTIES KeepsHistory
CHECK_DEADLOCK FALSE
