\* Requests of any size, and other users of memory between two expansions.
CONSTANTS
    NULL = NULL
    Junk = Junk
    PageUnits = 8
    FirstPages = 1
    Pages = 3
    Gaps = {0, 1}
    Sizes = {1, 2, 4}
    ElementSizes = {1}
    MaxHeld = 4
    SizeMod = 1000
SPECIFICATION Spec
INVARIANT BlocksApart
CHECK_DEADLOCK FALSE
