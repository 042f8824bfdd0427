SPECIFICATION Spec
CONSTANTS
    p1 = p1
    p2 = p2
    Proc = {p1, p2}
    PAGE_SIZE = 14
    NO_INTERVAL = 4
    PX_OF_DATA = 2
    Size = {3, 10}
    Tries = 3
    MaxPages = 4
SYMMETRY Inserters
INVARIANTS OnePlace RoomForItem
