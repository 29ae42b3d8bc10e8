CONSTANTS
    Kernel = kernel
    Dummy = dummy
    NULL = NULL
    Users = {u1, u2, u3}
    Killable = {}
SPECIFICATION Spec
INVARIANT HalfBuiltNeverRuns
CHECK_DEADLOCK FALSE
