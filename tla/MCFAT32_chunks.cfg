\* Sectors are read, as the shell does, where a cluster has two.
CONSTANTS
    Images <- Disks
    Paths <- LookedUp
    SectorsPerCluster = 2
    FatEntries = 4
    PieceLength = 2
    FAT32_LFN_MAXCHARS = 5
    FAT32_LFN_MAX_INDEX = 2
    SectorSize = 2
    ReadSizes = {2}
    SeekOffsets = {0, 2, 3, 8, 10}
    WholeClusters = FALSE
SPECIFICATION Spec
INVARIANT ChunksAreTheFile
CHECK_DEADLOCK FALSE
