\* Three user tasks are created and killed under a tick at every step.
CONSTANTS
    Kernel = kernel
    Dummy = dummy
    NULL = NULL
    Users = {u1, u2, u3}
    Killable = {u1, u2, u3}
SPECIFICATION FairSpec
INVARIANTS TypeOK SpacesStayApart MachineAgreesWithTask DummyNeverRuns
PROPERTIES EveryReadyTaskRuns OnlyTheDeadLeave DeadStayDead KilledLeaves
CHECK_DEADLOCK FALSE
