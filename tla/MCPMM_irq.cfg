\* Two tasks allocate while the interrupt handler frees.
CONSTANTS
    t1 = t1
    t2 = t2
    irq = irq
    Tasks = {t1, t2}
    Irq = irq
    Freers = {irq}
    Sizes = {1, 2}
    MemMap <- MapOf15
    LowPages = 2
    WordSize = 1
SPECIFICATION FairSpec
PROPERTIES ImplementsPageAllocator  LockReleased
CHECK_DEADLOCK FALSE
