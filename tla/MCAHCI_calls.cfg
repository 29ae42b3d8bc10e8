\* Every kind of machine, two slots, three calls.
CONSTANTS
    Machines <- Computers
    Ports = {0, 1}
    Slots = {0, 1}
    Sectors = {s1, s2}
    Buffers = {b1, b2}
    Values = {v1, v2}
    MaxCalls = 3
SPECIFICATION FairSpec
INVARIANTS TypeOK CommandsReachDrives
PROPERTIES IsDiskService IssuedTablesAreLeft EveryCallReturns BootEnds
CHECK_DEADLOCK FALSE
