\* One task allocates, and the bitmap has a bit that the boot never sets.
CONSTANTS
    t1 = t1
    irq = irq
    Tasks = {t1}
    Irq = irq
    Freers = {irq}
    Sizes = {1, 2}
    MemMap <- MapOf14
    LowPages = 2
    WordSize = 1
SPECIFICATION Spec
PROPERTY ImplementsPageAllocator
CHECK_DEADLOCK FALSE
