CONSTANTS
  MaxXID = 2
  Session = {s1, s2}
  Tables = {1, 2, 3}
  Targets = {1, 2}
  Made = {1, 3}
  MaxEntries = 10
SPECIFICATION Spec
SYMMETRY Sessions
INVARIANTS CatalogAgrees PanicsOnlyAfterDrop
PROPERTY CrashIsAtomic
CHECK_DEADLOCK FALSE
