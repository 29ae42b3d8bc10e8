CONSTANTS
    Kernel = kernel
    Dummy = dummy
    NULL = NULL
    Users = {u1, u2, u3}
    Killable = {u1, u2, u3}
SPECIFICATION Spec
INVARIANT HandledByTheScheduler
CHECK_DEADLOCK FALSE
