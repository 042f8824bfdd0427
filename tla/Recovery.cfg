SPECIFICATION Spec
CONSTANTS
  MaxXID = 2
  Pages = 2
  Slots = 2
  MaxLog = 4
  MaxStops = 2
  TornFSO = {0, 1, 4, 5}
INVARIANTS CommittedSurvives LosersAreUndone LoggedBeforeWritten SlotsGivenOnce
CHECK_DEADLOCK FALSE
