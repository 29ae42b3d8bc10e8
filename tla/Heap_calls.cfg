\* Elements that fit and that do not, expansions behind the heap and behind the pages of
\* others; no step from a damaged heap, of which the properties say nothing.
CONSTANTS
    NULL = NULL
    Junk = Junk
    PageUnits = 6
    FirstPages = 1
    Pages = 3
    Gaps = {0, 1}
    Sizes = {1, 4}
    ElementSizes = {1, 2}
    MaxHeld = 2
    SizeMod = 1000
SPECIFICATION Spec
INVARIANTS TypeOK NodesInOrder UsedNodesAreHeld ElementsStayLinked
PROPERTY ExpandsOnlyWhenFull
CONSTRAINT BeforeDamage
CHECK_DEADLOCK FALSE
