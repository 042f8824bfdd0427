SPECIFICATION MCSpec
CONSTANTS
  Proc = {p1, p2}
  MaxKey = 8
  Row <- MCRow
  Balance = 2
  Loads <- MCLoads
  Loader = p1
  Ranges <- MCRanges
INVARIANT WellFormed
PROPERTIES ImplementsIndex CallsReturn
