\* One task allocates and frees: no concurrency.
CONSTANTS
    t1 = t1
    irq = irq
    Tasks = {t1}
    Irq = irq
    Freers = {t1}
    Sizes = {1, 2, 3}
    MemMap <- MapOf14
    LowPages = 2
    WordSize = 64
SPECIFICATION Spec
INVARIANTS TypeOK HintSoundWhenQuiet CountersAgreeWhenQuiet GivesUpOnlyWhenFull
CHECK_DEADLOCK FALSE
