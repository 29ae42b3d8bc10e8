--------------------------- MODULE FAT32Directory ---------------------------
(***************************************************************************)
(* FAT32 directories (fat32.c): a path is looked up, and a directory       *)
(* listed, by walking cluster chains a sector at a time.  Every diskRead   *)
(* can fail, and each is a step.                                           *)
(*                                                                         *)
(* A name is a sequence of characters.  A directory entry is a record whose*)
(* kind is "free", "skipped" (deleted or the volume label), "lfn" (a piece *)
(* of a long name: its index, whether it is final, its characters) or      *)
(* "entry" (attributes, 8.3 name, first cluster and size).  A sector that  *)
(* holds no directory reads as one without entries.                        *)
(***************************************************************************)
EXTENDS Integers, Sequences, SequencesExt, FiniteSets, FiniteSetsExt

CONSTANTS
    Images,             \* the disks there may be (a bound)
    Paths,              \* the paths that are looked up (a bound)
    SectorsPerCluster,
    FatEntries,         \* the FAT entries of a sector: SECTOR_SIZE / 4
    PieceLength,        \* the characters of an LFN entry: 13
    FAT32_LFN_MAXCHARS,
    FAT32_LFN_MAX_INDEX

ASSUME GeometryAssumption ==
    /\ SectorsPerCluster \in Nat \ {0}
    /\ FatEntries \in Nat \ {0}
    /\ PieceLength \in Nat \ {0}
    /\ FAT32_LFN_MAX_INDEX \in Nat /\ FAT32_LFN_MAXCHARS \in Nat

EndOfChain == 268435448     \* 0x0FFFFFF8

\* Characters: a letter is 1 .. 26, its capital 30 more.
NUL == 0
Dot == 99
Letters == 1 .. 26
isupper(c) == c - 30 \in Letters
toupper(c) == IF c \in Letters THEN c + 30 ELSE c

VARIABLES
    image,      \* the disk: its boot sector, FAT sectors and directory sectors by LBA
    fatData,    \* g_FatData, NULL before FAT32_Initialize
    search,     \* the walk under way
    answer,     \* what the last one returned
    outcome     \* "ok" until a walk reads or writes outside its buffers

dirVars == <<image, fatData, search, answer, outcome>>

NoData == [fatStartLba |-> 0, clusterStartLba |-> 0, rootCluster |-> 0, mounted |-> FALSE]

lfnEmpty == [i \in 0 .. (FAT32_LFN_MAXCHARS - 1) |-> NUL]

Idle == [mode |-> "idle", goal |-> "none", path |-> <<>>, rest |-> <<>>, cluster |-> 0, sector |-> 0,
         buffer |-> <<>>, filled |-> FALSE, lfn |-> lfnEmpty, last |-> -1, names |-> <<>>,
         failed |-> FALSE]

NoAnswer == [goal |-> "none", path |-> <<>>, found |-> {}, names |-> <<>>, ok |-> FALSE,
             failed |-> FALSE]

DirInit ==
    /\ image \in Images
    /\ fatData = NoData
    /\ search = Idle
    /\ answer = NoAnswer
    /\ outcome = "ok"

-----------------------------------------------------------------------------
(* The volume *)

ClusterStartOneFat(boot) == boot.reserved + boot.sectorsPerFat      \* mutant: one FAT

ClusterStart(boot) == boot.reserved + boot.sectorsPerFat * boot.fatCount

\* FAT32_Initialize, on the first partition MBR_DetectPartition found.
Initialize ==
    /\ ~fatData.mounted
    /\ fatData' = [fatStartLba |-> image.partitionOffset + image.boot.reserved,
                   clusterStartLba |-> image.partitionOffset + ClusterStart(image.boot),
                   rootCluster |-> image.boot.rootCluster, mounted |-> TRUE]
    /\ UNCHANGED <<image, search, answer, outcome>>

ClusterToLba(cluster) == fatData.clusterStartLba + (cluster - 2) * SectorsPerCluster

NextClusterStays(cluster, ok) == cluster        \* mutant

\* FAT32_NextCluster.  A failed read ends the chain like its end does.
NextCluster(cluster, ok) ==
    LET lba == fatData.fatStartLba + cluster \div FatEntries
    IN  IF ~ok THEN EndOfChain + 1
        ELSE IF lba \in DOMAIN image.fat THEN image.fat[lba][cluster % FatEntries] ELSE 0

Entries(lba) == IF lba \in DOMAIN image.entries THEN image.entries[lba] ELSE <<>>

-----------------------------------------------------------------------------
(* Names *)

Length(lfn) ==
    LET ends == {i \in DOMAIN lfn : lfn[i] = NUL}
    IN  IF ends = {} THEN FAT32_LFN_MAXCHARS ELSE Min(ends)

\* lfnName as a string.
Text(lfn) == [i \in 1 .. Length(lfn) |-> lfn[i - 1]]

\* memcmp(lfnName, name, lfnLen): the length is the entry's, not the name's.
LongNameMatches(lfn, name) == IsPrefix(Text(lfn), name)

\* An 8.3 name without padding is its two parts.
ShortNameToName(short) ==
    IF short.ext = <<>> THEN short.base ELSE short.base \o <<Dot>> \o short.ext

IsShortName(short) ==
    \A c \in ToSet(short.base) \cup ToSet(short.ext) : isupper(c)

\* The capitals of the first 8 bytes of the name, the size of a pointer, against
\* 11 bytes of the 8.3 name.  What follows either name is memory nobody wrote:
\* unless the names differ before, chance decides.
ShortNameMatches(short, name, chance) ==
    LET cmpName == [i \in 1 .. Len(name) |-> toupper(name[i])] \o <<NUL>>
        fileName == ShortNameToName(short) \o <<NUL>>
        n == Min({8, Len(cmpName), Len(fileName)})
    IN  chance /\ SubSeq(cmpName, 1, n) = SubSeq(fileName, 1, n)

\* FAT32_LFNCopy.
Copy(lfn, entry) ==
    [i \in DOMAIN lfn |->
        LET k == i - entry.index * PieceLength
        IN  IF k \in 0 .. (PieceLength - 1) THEN entry.chars[k + 1] ELSE lfn[i]]

Overflows(index) == index < 0 \/ (index + 1) * PieceLength > FAT32_LFN_MAXCHARS

ClearedNot(lfn) == lfn      \* mutant: the pieces of one entry stay for the next

Cleared(lfn) == lfnEmpty

-----------------------------------------------------------------------------
(* One sector of entries *)

\* A piece of a long name.
ScanPiece(s, e) ==
    IF e.index > FAT32_LFN_MAX_INDEX THEN [s EXCEPT !.result = "invalid"]
    ELSE IF Overflows(e.index) THEN [s EXCEPT !.result = "overflow"]
    ELSE [s EXCEPT !.lfn = Copy(s.lfn, e), !.last = IF e.final THEN e.index ELSE @]

\* A file or a directory: FAT32_FindEntry compares, FAT32_ListDirectoryEntry prints.
ScanEntry(s, e, chance) ==
    LET long == s.last >= 0
        after == [s EXCEPT !.last = -1, !.lfn = Cleared(s.lfn)]
        matches == IF long THEN LongNameMatches(s.lfn, Head(search.rest))
                   ELSE IsShortName(e.short) /\ ShortNameMatches(e.short, Head(search.rest), chance)
        printed == IF long THEN <<Text(s.lfn)>>
                   ELSE IF IsShortName(e.short) THEN <<ShortNameToName(e.short)>> ELSE <<>>
    IN  IF search.mode = "list" THEN [after EXCEPT !.names = @ \o printed]
        ELSE IF matches THEN [after EXCEPT !.result = "found", !.found = {e}]
        ELSE after

ScanNext(s, e, chance) ==
    CASE s.result # "none" -> s
      [] s.result = "none" /\ e.kind = "lfn" -> ScanPiece(s, e)
      [] s.result = "none" /\ e.kind = "entry" /\ e.attr # "other" -> ScanEntry(s, e, chance)
      [] OTHER -> s

ScanStart == [lfn |-> search.lfn, last |-> search.last, names |-> search.names,
              result |-> "none", found |-> {}]

Scan(entries, lucky) ==
    LET scanned[j \in 0 .. Len(entries)] ==
            IF j = 0 THEN ScanStart ELSE ScanNext(scanned[j - 1], entries[j], j \in lucky)
    IN  scanned[Len(entries)]

-----------------------------------------------------------------------------
(* The walk *)

StartAt(cluster, mode, walk) ==
    [walk EXCEPT !.mode = mode, !.cluster = cluster, !.sector = 0, !.buffer = <<>>,
                 !.filled = FALSE, !.lfn = lfnEmpty, !.last = -1]

Answer(walk, found, ok) ==
    /\ answer' = [goal |-> walk.goal, path |-> walk.path, found |-> found, names |-> walk.names,
                  ok |-> ok, failed |-> walk.failed]
    /\ search' = Idle

\* The entry made up for the root has the halves of its cluster swapped.
RootEntry ==
    [kind |-> "entry", attr |-> "dir", short |-> [base |-> <<>>, ext |-> <<>>],
     cluster |-> fatData.rootCluster * 65536, size |-> 0]

\* FAT32_TraversePath, and FAT32_ListDirectory with goal "list".  The path "/"
\* has no names.
Traverse(goal, path) ==
    LET walk == [Idle EXCEPT !.goal = goal, !.path = path, !.rest = path]
    IN  /\ fatData.mounted
        /\ outcome = "ok"
        /\ search.mode = "idle"
        /\ IF goal = "open" /\ path = <<>>
           THEN /\ answer' = [NoAnswer EXCEPT !.goal = goal, !.found = {RootEntry}, !.ok = TRUE]
                /\ UNCHANGED search
           ELSE /\ search' = StartAt(fatData.rootCluster,
                                     IF path = <<>> THEN "list" ELSE "find", walk)
                /\ UNCHANGED answer
        /\ UNCHANGED <<image, fatData, outcome>>

\* The empty path: FAT32_TraversePath returns the entry nobody wrote.
TraverseEmptyPath ==
    /\ fatData.mounted
    /\ outcome = "ok"
    /\ search.mode = "idle"
    /\ outcome' = "wild"
    /\ UNCHANGED <<image, fatData, search, answer>>

\* What follows an entry that was found: the next name of the path, or the end.
Descend(walk, e) ==
    LET next == [walk EXCEPT !.rest = Tail(walk.rest)]
    IN  IF next.rest # <<>>
        THEN search' = StartAt(e.cluster, "find", next) /\ UNCHANGED answer
        ELSE IF walk.goal = "open" THEN Answer(walk, {e}, TRUE)
        ELSE IF e.attr = "dir"
        THEN search' = StartAt(e.cluster, "list", next) /\ UNCHANGED answer
        ELSE Answer(walk, {}, FALSE)

SectorDone(entries, ok, s) ==
    [search EXCEPT !.sector = @ + 1, !.buffer = entries, !.filled = TRUE, !.lfn = s.lfn,
                   !.last = s.last, !.names = s.names, !.failed = @ \/ ~ok]

\* The walk goes on, with what it has seen, or ends.
Scanned(s, walk) ==
    \/ s.result = "none" /\ search' = walk /\ UNCHANGED <<answer, outcome>>
    \/ s.result = "found" /\ (\E e \in s.found : Descend(walk, e)) /\ UNCHANGED outcome
    \/ s.result = "invalid" /\ Answer(walk, {}, FALSE) /\ UNCHANGED outcome
    \/ s.result = "overflow" /\ outcome' = "wild" /\ UNCHANGED <<search, answer>>

InChain == search.cluster < EndOfChain

ScanSector(entries, ok) ==
    \E lucky \in SUBSET {j \in DOMAIN entries : entries[j].kind = "entry"} :
        LET s == Scan(entries, lucky) IN Scanned(s, SectorDone(entries, ok, s))

\* A sector is read and scanned.  When the read fails, listing gives up;
\* FAT32_FindEntry scans what the buffer held before.
ReadSector(ok) ==
    /\ outcome = "ok"
    /\ search.mode # "idle"
    /\ InChain
    /\ search.sector < SectorsPerCluster
    /\ UNCHANGED <<image, fatData>>
    /\ \/ ok /\ ScanSector(Entries(ClusterToLba(search.cluster) + search.sector), ok)
       \/ ~ok /\ search.mode = "find" /\ search.filled /\ ScanSector(search.buffer, ok)
       \/ ~ok /\ search.mode = "find" /\ ~search.filled /\ outcome' = "wild" /\ UNCHANGED <<search, answer>>
       \/ ~ok /\ search.mode = "list" /\ Answer(search, {}, FALSE) /\ UNCHANGED outcome

FollowChain(ok) ==
    /\ search.mode # "idle"
    /\ InChain
    /\ search.sector = SectorsPerCluster
    /\ search' = [search EXCEPT !.cluster = NextCluster(@, ok), !.sector = 0, !.failed = @ \/ ~ok]
    /\ UNCHANGED <<image, fatData, answer, outcome>>

EndOfDirectory ==
    /\ search.mode # "idle"
    /\ ~InChain
    /\ Answer(search, {}, search.mode = "list")
    /\ UNCHANGED <<image, fatData, outcome>>

WalkStep ==
    \/ \E ok \in BOOLEAN : ReadSector(ok) \/ FollowChain(ok)
    \/ EndOfDirectory

DirNext ==
    \/ Initialize
    \/ \E goal \in {"open", "list"}, path \in Paths : Traverse(goal, path)
    \/ TraverseEmptyPath
    \/ WalkStep

-----------------------------------------------------------------------------
(* Properties.  image.tree says what was put on the disk: for each directory, *)
(* by its first cluster, its files in order, each with its long name (<<>> if *)
(* it has none) and its entry.                                                *)

NameOf(f) == IF f.long # <<>> THEN f.long ELSE ShortNameToName(f.entry.short)

Capitals(name) == [i \in DOMAIN name |-> toupper(name[i])]

HasLongName(f, name) == f.long = name

HasName(f, name) == HasLongName(f, name) \/ (f.long = <<>> /\ NameOf(f) = Capitals(name))

Children(cluster) == IF cluster \in DOMAIN image.tree THEN ToSet(image.tree[cluster]) ELSE {}

\* What a listing of these files prints.
IsShown(f) == f.long # <<>> \/ IsShortName(f.entry.short)

NamesOf(files) ==
    LET names[n \in 0 .. Len(files)] ==
            IF n = 0 THEN <<>>
            ELSE IF IsShown(files[n]) THEN Append(names[n - 1], NameOf(files[n]))
            ELSE names[n - 1]
    IN  names[Len(files)]

\* The clusters and the entries a path leads to.
Reached(path, Has(_, _)) ==
    LET files[k \in 0 .. Len(path)] ==
            IF k = 0 THEN {}
            ELSE LET from == IF k = 1 THEN {image.boot.rootCluster}
                             ELSE {f.entry.cluster : f \in files[k - 1]}
                 IN  {f \in UNION {Children(c) : c \in from} : Has(f, path[k])}
    IN  {f.entry : f \in files[Len(path)]}

DirTypeOK ==
    /\ image \in Images
    /\ search.mode \in {"idle", "find", "list"}
    /\ search.goal \in {"none", "open", "list"}
    /\ search.cluster \in Nat
    /\ search.sector \in 0 .. SectorsPerCluster
    /\ search.last \in -1 .. FAT32_LFN_MAX_INDEX
    /\ DOMAIN search.lfn = DOMAIN lfnEmpty
    /\ search.mode = "find" => search.rest # <<>>
    /\ Cardinality(answer.found) <= 1
    /\ outcome \in {"ok", "wild"}

\* Whatever lies between the pieces of a long name and wherever a sector or a
\* cluster ends, looking a path up finds what was stored under it, if no read
\* fails: no entry of another name, and always one whose long names were asked for.
FindsTheName ==
    answer.goal = "open" /\ answer.path # <<>> /\ ~answer.failed =>
        /\ answer.found \subseteq Reached(answer.path, HasName)
        /\ answer.found = {} => Reached(answer.path, HasLongName) = {}

\* A directory that was listed without a failed read was printed name by name,
\* in order, none left out but the 8.3 names that are no short names (a digit).
ListsTheNames ==
    answer.goal = "list" /\ answer.ok /\ ~answer.failed =>
        \E c \in IF answer.path = <<>> THEN {image.boot.rootCluster}
                 ELSE {e.cluster : e \in Reached(answer.path, HasName)} :
            answer.names = NamesOf(image.tree[c])
=============================================================================
