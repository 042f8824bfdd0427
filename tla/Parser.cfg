SPECIFICATION FairSpec
CONSTANTS
  Inputs <- MCInputs
  MaxIndex = 4
  IntMod = 64
INVARIANTS NothingDropped ParsesGrammar
CHECK_DEADLOCK FALSE
