CONSTANTS
  MaxXID = 3
  RecLen = 12
  MaxRecords = 3
  MaxCrashes = 3
SPECIFICATION DurabilitySpec
INVARIANTS OutcomeIsDurable LogIsSound CommitIsDurable LosersAreEnded
PROPERTY XidsAreFresh
CHECK_DEADLOCK FALSE
