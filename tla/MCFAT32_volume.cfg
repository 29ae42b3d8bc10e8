\* Reads end where a cluster or the file ends.
CONSTANTS
    Images <- Disks
    Paths <- LookedUp
    SectorsPerCluster = 2
    FatEntries = 4
    PieceLength = 2
    FAT32_LFN_MAXCHARS = 5
    FAT32_LFN_MAX_INDEX = 2
    SectorSize = 2
    ReadSizes = {1, 2, 4, 6, 8}
    SeekOffsets = {0, 2, 3, 8, 10}
    WholeClusters = TRUE
SPECIFICATION FairSpec
INVARIANTS TypeOK FindsTheName  ReadsToTheEnd
PROPERTIES IsByteStream CallsEnd
CHECK_DEADLOCK FALSE
