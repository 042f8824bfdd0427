CONSTANTS
  MaxXID = 4
  UID <- MCRows
  Rows <- OneRow
  Levels <- BothLevels
SPECIFICATION Spec
INVARIANT RunningDeleterOwnsRow
PROPERTIES SnapshotStable OverwriteOnlyInWindow LockProtocol
CHECK_DEADLOCK FALSE
