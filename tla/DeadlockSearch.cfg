SPECIFICATION SearchSpec
CONSTANTS
  XID = {x1, x2, x3, x4}
  UID = {u1, u2, u3, u4}
  NoXID = NoXID
  NoUID = NoUID
SYMMETRY Symmetry
INVARIANTS WaitMapsAgree NoRegisteredDeadlock
PROPERTY ImplementsLockTable
CHECK_DEADLOCK FALSE
