CONSTANTS
  MaxXID = 4
  UID <- MCUID
  Rows <- TwoRows
  Levels <- BothLevels
  Plans <- MCPlans
SPECIFICATION TableFairSpec
INVARIANTS RowsSurvive MultipliedOnlyByRaces ReadsItsSnapshot
PROPERTY StatementsReturn
CHECK_DEADLOCK FALSE
