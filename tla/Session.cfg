CONSTANTS
  Scripts <- MCScripts
  MaxLines = 3
  MaxConns = 3
  MaxXID = 4
  MaxFaults = 2
SPECIFICATION FairSpec
INVARIANTS LinesAccounted CommitIsWhole
PROPERTIES OrphansEnd PromptReturns
CHECK_DEADLOCK FALSE
