------------------------------- MODULE FAT32 -------------------------------
(***************************************************************************)
(* A FAT32 file handle (fat32.c): FAT32_Open after a lookup, FAT32_Read,   *)
(* FAT32_Seek and FAT32_Close.  A byte of the disk is its LBA and its place*)
(* in the sector.  Every diskRead can fail, and each is a step.            *)
(***************************************************************************)
EXTENDS FAT32Directory

CONSTANTS
    SectorSize,     \* SECTOR_SIZE
    ReadSizes,      \* the sizes FAT32_Read is called with (a bound)
    SeekOffsets,    \* the offsets FAT32_Seek is called with (a bound)
    WholeClusters   \* whether callers read up to the end of a cluster or of the file

clusterSize == SectorsPerCluster * SectorSize

DirEntries(i) == UNION {ToSet(i.entries[lba]) : lba \in DOMAIN i.entries}

\* The FAT leads from each cluster of the chain to the next one, and ends it.
Follows(i, chain) ==
    /\ chain # <<>> /\ chain \in Seq(0 .. (EndOfChain - 1))
    /\ \A k \in DOMAIN chain :
         LET lba == i.partitionOffset + i.boot.reserved + chain[k] \div FatEntries
         IN  /\ lba \in DOMAIN i.fat
             /\ LET next == i.fat[lba][chain[k] % FatEntries]
                IN  IF k = Len(chain) THEN next >= EndOfChain ELSE next = chain[k + 1]

Linked(i, chain) ==
    /\ Follows(i, chain)
    /\ chain \in Seq(2 .. (EndOfChain - 1))
    /\ \A j, k \in DOMAIN chain : chain[j] = chain[k] => j = k

\* What a formatter and those who wrote the files leave: an entry is that of a file of
\* the tree, whose chain is long enough.
WellStored(i, e) ==
    /\ e.cluster \in Nat /\ e.size \in Nat
    /\ \E c \in DOMAIN i.tree : \E f \in ToSet(i.tree[c]) : f.entry = e
    /\ e.attr # "dir" /\ e.size > 0 =>
         /\ e.cluster \in DOMAIN i.chains
         /\ LET chain == i.chains[e.cluster]
            IN  Linked(i, chain) /\ chain[1] = e.cluster /\ Len(chain) * clusterSize >= e.size

\* An entry of a file or a directory.
IsFile(e) == e.kind = "entry" /\ e.attr # "other"

\* The entries at `places`, the final piece first, are the count pieces of a name, which
\* ends with a NUL unless the pieces are full.
PiecesAt(raw, name, places, count, at) ==
    /\ count * PieceLength <= FAT32_LFN_MAXCHARS
    /\ Len(name) <= count * PieceLength /\ (name = <<>> <=> count = 0)
    /\ \A q, r \in 1 .. count : q < r => at[q] < at[r]
    /\ \A p \in places : \E q \in 1 .. count : at[q] = p
    /\ \A q \in 1 .. count :
         LET piece == raw[at[q]]
         IN  /\ piece.index = count - q /\ piece.final = (q = 1)
             /\ \A t \in 1 .. PieceLength :
                  LET u == (count - q) * PieceLength + t
                  IN  /\ u <= Len(name) => piece.chars[t] = name[u]
                      /\ u = Len(name) + 1 => piece.chars[t] = NUL

\* Between two entries of files, those of a long name are just its pieces.
HasPieces(raw, from, to, name) ==
    LET places == {p \in (from + 1) .. (to - 1) : raw[p].kind = "lfn"}
    IN  \E count \in 0 .. (FAT32_LFN_MAX_INDEX + 1) :
            \E at \in [1 .. count -> places] : PiecesAt(raw, name, places, count, at)

\* The entries of a directory are its files in order, the n-th at ends[n].
InOrder(raw, files, ends) ==
    /\ \A m, n \in DOMAIN files : m < n => ends[m] < ends[n]
    /\ \A p \in DOMAIN raw : IsFile(raw[p]) => \E n \in DOMAIN files : ends[n] = p
    /\ \A n \in DOMAIN files :
         /\ raw[ends[n]] = files[n].entry
         /\ files[n].long \in Seq(Nat \ {NUL})
         /\ HasPieces(raw, IF n = 1 THEN 0 ELSE ends[n - 1], ends[n], files[n].long)

Encodes(raw, files) ==
    \E ends \in [DOMAIN files -> {p \in DOMAIN raw : IsFile(raw[p])}] : InOrder(raw, files, ends)

SectorEntries(i, lba) == IF lba \in DOMAIN i.entries THEN i.entries[lba] ELSE <<>>

\* raw is what the sectors of the chain hold, `width` entries each.
InSectors(i, chain, raw, width) ==
    /\ Len(raw) = Len(chain) * SectorsPerCluster * width
    /\ \A k \in DOMAIN chain, sector \in 0 .. (SectorsPerCluster - 1) :
         LET lba == i.firstLba + (chain[k] - 2) * SectorsPerCluster + sector
             base == ((k - 1) * SectorsPerCluster + sector) * width
         IN  /\ Len(SectorEntries(i, lba)) = width
             /\ \A j \in 1 .. width : SectorEntries(i, lba)[j] = raw[base + j]

\* The files of the directory that begins with cluster c, and its entries one after
\* the other: a file that is no directory has none.
FilesIn(i, c) == IF c \in DOMAIN i.tree THEN i.tree[c] ELSE <<>>
RawIn(i, c) == IF c \in DOMAIN i.raw THEN i.raw[c] ELSE <<>>

LaidOut(i, c) ==
    /\ c \in DOMAIN i.chains
    /\ Follows(i, i.chains[c]) /\ i.chains[c][1] = c
    /\ FilesIn(i, c) \in Seq(ToSet(FilesIn(i, c))) /\ RawIn(i, c) \in Seq(DirEntries(i))
    /\ Encodes(RawIn(i, c), FilesIn(i, c))
    /\ \E width \in {Len(i.entries[lba]) : lba \in DOMAIN i.entries} \cup {0} :
            InSectors(i, i.chains[c], RawIn(i, c), width)

\* Whatever an entry says begins in a cluster is laid out from there.
ASSUME DirectoriesAssumption ==
    \A i \in Images :
        /\ i.boot.rootCluster \in DOMAIN i.tree /\ LaidOut(i, i.boot.rootCluster)
        /\ \A e \in DirEntries(i) :
             IsFile(e) => LaidOut(i, e.cluster) /\ (e.attr = "dir" => e.cluster \in DOMAIN i.tree)

ASSUME VolumeAssumption ==
    \A i \in Images :
        /\ i.boot.rootCluster \in Nat
        /\ i.firstLba \in Nat
        /\ i.firstLba = i.partitionOffset
                           + (i.boot.reserved + i.boot.sectorsPerFat * i.boot.fatCount)
        /\ \A lba \in DOMAIN i.fat : i.fat[lba] \in [0 .. (FatEntries - 1) -> Nat]
        /\ \A lba \in DOMAIN i.entries : i.entries[lba] \in Seq(DirEntries(i))
        /\ \A e \in DirEntries(i) :
             /\ e.kind = "lfn" => e.index \in Int
             /\ e.kind = "entry" /\ e.attr # "other" => WellStored(i, e)

ASSUME CallersAssumption ==
    /\ SectorSize \in Nat \ {0}
    /\ ReadSizes \subseteq Nat /\ SeekOffsets \subseteq Nat
    /\ WholeClusters \in BOOLEAN
    /\ Paths \subseteq Seq(Seq(Nat))

\* The code compares a name with a part of it (fat32.c:376): in no directory may it
\* take a file for another one.
MayMatch(f, name) ==
    IF f.long # <<>> THEN IsPrefix(f.long, name)
    ELSE IsShortName(f.entry.short) /\ ShortNameMatches(f.entry.short, name, TRUE)

Unambiguous ==
    \A i \in Images, path \in Paths : \A c \in DOMAIN i.tree, k \in DOMAIN path :
        /\ path[k] # <<>>
        /\ \A f, g \in ToSet(i.tree[c]) :
             MayMatch(f, path[k]) => HasName(f, path[k]) /\ (MayMatch(g, path[k]) => f = g)

VARIABLES
    handle,     \* the FAT32_FileHandle
    io,         \* the FAT32_Read or FAT32_Seek under way
    given,      \* the bytes the last FAT32_Read put into the caller's buffer
    lost        \* a read failed since the last FAT32_Open or moving FAT32_Seek (auxiliary)

fileVars == <<handle, io, given, lost>>
vars == <<dirVars, fileVars>>

NoHandle == [open |-> FALSE, isDirectory |-> FALSE, size |-> 0, firstCluster |-> 0,
             currentCluster |-> 0, currentOffset |-> 0]

NoIo == [op |-> "none", bytesCount |-> 0, remaining |-> 0, skipped |-> 0, cluster |-> 0,
         sector |-> 0, offset |-> 0, left |-> 0]

Init ==
    /\ DirInit
    /\ handle = NoHandle
    /\ io = NoIo
    /\ given = <<>>
    /\ lost = FALSE

-----------------------------------------------------------------------------
\* FAT32_Open, when the path was found.
Open ==
    \E e \in answer.found :
        /\ answer.goal = "open"
        /\ handle' = [open |-> TRUE, isDirectory |-> e.attr = "dir", size |-> e.size,
                      firstCluster |-> e.cluster, currentCluster |-> e.cluster,
                      currentOffset |-> 0]
        /\ answer' = NoAnswer
        /\ given' = <<>>
        /\ lost' = FALSE
        /\ UNCHANGED <<image, fatData, search, outcome, io>>

\* The caller has a handle and is not in a call.
Ready == handle.open /\ io.op = "none"

Close ==
    /\ Ready
    /\ handle' = NoHandle
    /\ io' = NoIo
    /\ given' = <<>>
    /\ lost' = FALSE
    /\ UNCHANGED dirVars

-----------------------------------------------------------------------------
(* FAT32_Read *)

SkippedNone(offset) == 0        \* mutant: a read always starts at a cluster

Skipped(offset) == offset % clusterSize

StartRead(bytesCount) ==
    LET remaining == IF handle.isDirectory THEN 0
                     ELSE Min({bytesCount, handle.size - handle.currentOffset})
    IN  /\ Ready
        /\ given' = <<>>
        /\ io' = IF remaining = 0 \/ handle.currentCluster >= EndOfChain
                 THEN [NoIo EXCEPT !.bytesCount = bytesCount]
                 ELSE [NoIo EXCEPT !.op = "read", !.bytesCount = bytesCount, !.remaining = remaining,
                                   !.skipped = Skipped(handle.currentOffset),
                                   !.cluster = handle.currentCluster]
        /\ UNCHANGED <<dirVars, handle, lost>>

Return == [NoIo EXCEPT !.bytesCount = io.bytesCount]

\* The next sector of the cluster: it is skipped, or copied from where the last
\* read stopped.  A failed read ends the call.
CopySector(ok) ==
    LET lba == ClusterToLba(io.cluster) + io.sector
        toCopy == Min({SectorSize - io.skipped, io.remaining})
    IN  /\ io.op = "read"
        /\ io.remaining > 0
        /\ io.sector < SectorsPerCluster
        /\ IF ~ok
           THEN /\ io' = Return
                /\ lost' = TRUE
                /\ UNCHANGED <<handle, given>>
           ELSE IF io.skipped >= SectorSize
           THEN /\ io' = [io EXCEPT !.skipped = @ - SectorSize, !.sector = @ + 1]
                /\ UNCHANGED <<handle, given, lost>>
           ELSE /\ given' = given \o [i \in 1 .. toCopy |-> <<lba, io.skipped + i - 1>>]
                /\ handle' = [handle EXCEPT !.currentOffset = @ + toCopy]
                /\ io' = [io EXCEPT !.remaining = @ - toCopy, !.skipped = 0, !.sector = @ + 1]
                /\ UNCHANGED lost
        /\ UNCHANGED dirVars

\* After the cluster the handle moves on, also when the read ended inside it.
LeaveCluster(ok) ==
    LET next == NextCluster(io.cluster, ok)
    IN  /\ io.op = "read"
        /\ io.remaining = 0 \/ io.sector = SectorsPerCluster
        /\ handle' = [handle EXCEPT !.currentCluster = next]
        /\ io' = IF next >= EndOfChain \/ io.remaining = 0 THEN Return
                 ELSE [io EXCEPT !.cluster = next, !.sector = 0]
        /\ lost' = (lost \/ ~ok)
        /\ UNCHANGED <<dirVars, given>>

-----------------------------------------------------------------------------
(* FAT32_Seek *)

InsideAny(offset) == TRUE       \* mutant

Inside(offset) == offset <= handle.size

StartSeek(offset) ==
    /\ Ready
    /\ Inside(offset)
    /\ offset # handle.currentOffset
    /\ io' = [NoIo EXCEPT !.op = "seek", !.offset = offset, !.cluster = handle.firstCluster,
                          !.left = offset \div clusterSize]
    /\ given' = <<>>
    /\ UNCHANGED <<dirVars, handle, lost>>

\* A chain that ends, or cannot be read, before the offset leaves the handle alone.
SeekCluster(ok) ==
    LET next == NextCluster(io.cluster, ok)
    IN  /\ io.op = "seek"
        /\ io.left > 0
        /\ io' = IF next >= EndOfChain THEN NoIo
                 ELSE [io EXCEPT !.cluster = next, !.left = @ - 1]
        /\ UNCHANGED <<dirVars, handle, given, lost>>

MovedOffsetOnly(offset) == [handle EXCEPT !.currentOffset = offset]    \* mutant

Moved(offset) == [handle EXCEPT !.currentOffset = offset, !.currentCluster = io.cluster]

EndSeek ==
    /\ io.op = "seek"
    /\ io.left = 0
    /\ handle' = Moved(io.offset)
    /\ io' = NoIo
    /\ lost' = FALSE
    /\ UNCHANGED <<dirVars, given>>

-----------------------------------------------------------------------------
IoStep ==
    \/ \E ok \in BOOLEAN : CopySector(ok) \/ LeaveCluster(ok) \/ SeekCluster(ok)
    \/ EndSeek

\* As the shell does when a cluster is a sector: it reads SECTOR_SIZE at a time.
EndsWell(bytesCount) ==
    LET stop == handle.currentOffset + bytesCount
    IN  stop % clusterSize = 0 \/ stop >= handle.size

\* One file is open at a time, and nothing else is looked up meanwhile (a bound).
LookUp == ~handle.open /\ answer.found = {} /\ DirNext /\ UNCHANGED fileVars

Use ==
    \/ \E n \in ReadSizes : (WholeClusters => EndsWell(n)) /\ StartRead(n)
    \/ \E offset \in SeekOffsets : StartSeek(offset)
    \/ Close

Next == LookUp \/ Open \/ Use \/ IoStep

Spec == Init /\ [][Next]_vars

\* The kernel task goes on with a call it has begun.
FairSpec == Spec /\ WF_vars(WalkStep /\ UNCHANGED fileVars) /\ WF_vars(IoStep)

-----------------------------------------------------------------------------
(* Properties *)

TypeOK ==
    /\ DirTypeOK
    /\ handle.currentOffset \in 0 .. handle.size
    /\ handle.currentCluster \in Nat
    /\ io.op \in {"none", "read", "seek"}
    /\ io.remaining \in 0 .. io.bytesCount
    /\ io.skipped \in 0 .. (clusterSize - 1)
    /\ Len(given) + io.remaining <= io.bytesCount
    /\ lost \in BOOLEAN

\* The place of a byte of the disk in the open file.
PlaceInFile(byte) ==
    LET chain == image.chains[handle.firstCluster]
        lbaOf(k) == image.firstLba + (chain[k] - 2) * SectorsPerCluster
        on == {q \in (1 .. Len(chain)) \X (0 .. (SectorsPerCluster - 1)) :
                    lbaOf(q[1]) + q[2] = byte[1]}
        places == {(q[1] - 1) * clusterSize + q[2] * SectorSize + byte[2] : q \in on}
    IN  IF places = {} THEN -1 ELSE CHOOSE p \in places : TRUE

NoFile == [first |-> 0, size |-> 0]

\* The files and directories of every disk, the entry made up for "/" included.
Files ==
    UNION {{[first |-> f.entry.cluster, size |-> f.entry.size] :
              f \in UNION {ToSet(i.tree[c]) : c \in DOMAIN i.tree}}
           \cup {[first |-> i.boot.rootCluster * 65536, size |-> 0]} : i \in Images}

Stream == INSTANCE ByteStream WITH
    None <- NoFile,
    file <- [first |-> handle.firstCluster, size |-> handle.size],
    pos <- handle.currentOffset,
    given <- [i \in DOMAIN given |-> PlaceInFile(given[i])]

\* What FAT32_Read delivers is always the file's next bytes, wherever its clusters
\* lie, through seeks and failed reads of the disk, if no read ends inside a cluster.
IsByteStream == Stream!Spec

\* A read that delivers nothing is at the end of the file, unless a read of the
\* disk failed since the handle was last placed.
ReadsToTheEnd ==
    Ready /\ io.bytesCount > 0 /\ given = <<>> =>
        handle.isDirectory \/ handle.currentOffset = handle.size \/ lost

\* On finite chains every lookup, listing, read and seek returns.
CallsEnd ==
    /\ search.mode # "idle" ~> search.mode = "idle" \/ outcome # "ok"
    /\ io.op # "none" ~> io.op = "none"

\* shell.c:135, "We read file data in chunks instead of a whole block at once":
\* the chunks are the file, each the bytes just before the position it leaves.
ChunksAreTheFile ==
    \A i \in DOMAIN given :
        PlaceInFile(given[i]) = handle.currentOffset - Len(given) + i - 1
=============================================================================
