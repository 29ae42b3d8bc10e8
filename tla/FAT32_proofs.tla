----------------------------- MODULE FAT32_proofs -----------------------------
(***************************************************************************)
(* Theorems about FAT32 for any well-formed volume, geometry and calls: a  *)
(* handle is a byte stream, and its reads end at the end of the file only, *)
(* as long as callers read up to the end of a cluster or of the file.  And *)
(* lookups and listings give the names that are there, as long as no name  *)
(* can be taken for another.                                               *)
(***************************************************************************)
EXTENDS FAT32, Induction, FiniteSetTheorems, SequenceTheorems

-----------------------------------------------------------------------------
(* The directory. *)

\* What FAT32_Initialize has computed from the boot sector.
Mounted(i) ==
    [fatStartLba |-> i.partitionOffset + i.boot.reserved, clusterStartLba |-> i.firstLba,
     rootCluster |-> i.boot.rootCluster, mounted |-> TRUE]

IsEntry(i, e) == e \in DirEntries(i) /\ e.kind = "entry" /\ e.attr # "other"

LfnOK(w) == DOMAIN w.lfn = DOMAIN lfnEmpty /\ w.last \in -1 .. FAT32_LFN_MAX_INDEX

\* A walk reads entries of the disk, and finds one of them or the root.
WalkInv(w) ==
    /\ DOMAIN w = DOMAIN Idle
    /\ w.mode \in {"idle", "find", "list"} /\ w.goal \in {"none", "open", "list"}
    /\ w.cluster \in Nat /\ w.sector \in 0 .. SectorsPerCluster
    /\ w.buffer \in Seq(DirEntries(image))
    /\ LfnOK(w)
    /\ w.mode = "find" => w.rest # <<>>
    /\ w.mode # "idle" => fatData.mounted

AnswerInv ==
    /\ DOMAIN answer = DOMAIN NoAnswer
    /\ \/ answer.found = {}
       \/ /\ fatData.mounted
          /\ \E e \in DirEntries(image) \cup {RootEntry} : answer.found = {e} /\ (e = RootEntry \/ IsEntry(image, e))

DirInv ==
    /\ image \in Images
    /\ fatData = IF fatData.mounted THEN Mounted(image) ELSE NoData
    /\ fatData.mounted \in BOOLEAN
    /\ WalkInv(search)
    /\ AnswerInv
    /\ outcome \in {"ok", "wild"}

-----------------------------------------------------------------------------
(* The handle. *)

Byte == Nat \X Nat

HandleType ==
    [open : BOOLEAN, isDirectory : BOOLEAN, size : Nat, firstCluster : Nat,
     currentCluster : Nat, currentOffset : Nat]

IoType ==
    [op : {"none", "read", "seek"}, bytesCount : Nat, remaining : Nat, skipped : Nat,
     cluster : Nat, sector : Nat, offset : Nat, left : Nat]

FileTypes == handle \in HandleType /\ io \in IoType /\ given \in Seq(Byte) /\ lost \in BOOLEAN

chain == image.chains[handle.firstCluster]

HasChain == ~handle.isDirectory /\ handle.size > 0

\* The file that was looked up, and its clusters if it has any.
FileInv ==
    /\ answer.found = {}
    /\ [first |-> handle.firstCluster, size |-> handle.size] \in Files
    /\ fatData.mounted
    /\ HasChain => Linked(image, chain) /\ Len(chain) * clusterSize >= handle.size
                   /\ chain[1] = handle.firstCluster

\* The offset lies in the k-th cluster.
InCluster(offset, k) == (k - 1) * clusterSize <= offset /\ offset < k * clusterSize

\* The offset of a byte of the k-th cluster.
Place(k, sector, skipped) == (k - 1) * clusterSize + sector * SectorSize + skipped

\* Between reads, the current cluster is that of the offset, unless the offset is at
\* the end or the chain has ended for the handle.
PlacedInv ==
    /\ handle.currentOffset <= handle.size
    /\ io.op # "read" /\ HasChain /\ handle.currentOffset < handle.size =>
         \/ /\ handle.currentCluster < EndOfChain
            /\ \E k \in DOMAIN chain :
                 handle.currentCluster = chain[k] /\ InCluster(handle.currentOffset, k)
         \/ handle.currentCluster >= EndOfChain /\ lost

\* In a read, the place where the next byte comes from is the offset's, and the read
\* stops at the end of a cluster or of the file.
ReadInv ==
    io.op = "read" =>
        /\ HasChain
        /\ io.sector <= SectorsPerCluster
        /\ io.sector = SectorsPerCluster => io.skipped = 0
        /\ io.sector < SectorsPerCluster => io.sector * SectorSize + io.skipped < clusterSize
        /\ handle.currentOffset + io.remaining <= handle.size
        /\ Len(given) + io.remaining <= io.bytesCount
        /\ io.remaining = 0 => given # <<>>
        /\ \E k \in DOMAIN chain :
             /\ io.cluster = chain[k] /\ handle.currentCluster = chain[k]
             /\ io.remaining > 0 =>
                  /\ handle.currentOffset = Place(k, io.sector, io.skipped)
                  /\ \/ handle.currentOffset + io.remaining = handle.size
                     \/ \E m \in Nat : handle.currentOffset + io.remaining = m * clusterSize
             /\ io.remaining = 0 =>
                  handle.currentOffset = handle.size \/ handle.currentOffset = k * clusterSize

\* A seek that is left so many clusters to go ends in that of its offset.
SeekInv ==
    io.op = "seek" =>
        /\ io.offset <= handle.size
        /\ HasChain /\ io.offset < handle.size =>
             \E k \in DOMAIN chain : io.cluster = chain[k] /\ InCluster(io.offset, k + io.left)

\* Only a file with bytes has given any, and a read that gave none was at the end.
GivenInv ==
    /\ given # <<>> => HasChain
    /\ io.op = "none" => Len(given) <= io.bytesCount /\ io.remaining = 0
    /\ io.skipped < clusterSize
    /\ io.op = "seek" => io.bytesCount = 0 /\ given = <<>> /\ io.remaining = 0
    /\ io.op = "none" /\ io.bytesCount > 0 /\ given = <<>> =>
         handle.isDirectory \/ handle.currentOffset = handle.size \/ lost

OpenInv == FileInv /\ PlacedInv /\ ReadInv /\ SeekInv /\ GivenInv

IInv ==
    /\ DirInv
    /\ FileTypes
    /\ IF handle.open THEN OpenInv ELSE handle = NoHandle /\ io = NoIo /\ given = <<>> /\ ~lost

-----------------------------------------------------------------------------
(* The walk over a directory. *)

\* The equation by which Scan defines a function has a solution.
Solves(f, entries, lucky, n) ==
    f = [j \in 0 .. n |-> IF j = 0 THEN ScanStart
                          ELSE ScanNext(f[j - 1], entries[j], j \in lucky)]

LEMMA ScanRecursion ==
    ASSUME NEW entries, NEW lucky, NEW n \in Nat
    PROVE  \E f : Solves(f, entries, lucky, n)
  <1> DEFINE Step(f, j) == IF j = 0 THEN ScanStart ELSE ScanNext(f[j - 1], entries[j], j \in lucky)
             Exists(k) == \E f : f = [j \in 0 .. k |-> Step(f, j)]
             Good == {k \in Nat : Exists(k)}
  <1>1. 0 \in Good
    <2>1. [j \in 0 .. 0 |-> ScanStart] = [j \in 0 .. 0 |-> Step([i \in 0 .. 0 |-> ScanStart], j)]
      OBVIOUS
    <2> QED
      BY <2>1
  <1>2. ASSUME NEW k \in Nat, k \in Good PROVE k + 1 \in Good
    <2>1. PICK f : f = [j \in 0 .. k |-> Step(f, j)]
      BY <1>2
    <2> DEFINE g == [j \in 0 .. k + 1 |-> IF j <= k THEN f[j] ELSE Step(f, j)]
    <2>2. ASSUME NEW j \in 0 .. k + 1 PROVE g[j] = Step(g, j)
      <3>1. CASE j = 0
        BY <2>1, <3>1
      <3>2. CASE j # 0
        <4>1. j - 1 \in 0 .. k /\ g[j - 1] = f[j - 1]
          BY <3>2
        <4>2. g[j] = Step(f, j)
          <5>1. CASE j <= k
            <6>1. j \in 0 .. k /\ g[j] = f[j]
              BY <5>1
            <6> QED
              BY <2>1, <6>1
          <5>2. CASE ~ (j <= k)
            BY <5>2
          <5> QED
            BY <5>1, <5>2
        <4> QED
          BY <4>1, <4>2
      <3> QED
        BY <3>1, <3>2
    <2>3. g = [j \in 0 .. k + 1 |-> g[j]]
      OBVIOUS
    <2>4. g = [j \in 0 .. k + 1 |-> Step(g, j)]
      BY <2>2, <2>3
    <2>5. Exists(k + 1)
      <3> HIDE DEF g
      <3> QED
        BY <2>4
    <2> HIDE DEF Exists
    <2> QED
      BY <2>5
  <1> HIDE DEF Good
  <1>3. n \in Good
    BY <1>1, <1>2, SetInduction
  <1> QED
    BY <1>3 DEF Good, Solves

\* A scan finds an entry of the sector or none, and keeps the bounds of the name.
ScanState(s) ==
    /\ DOMAIN s = {"lfn", "last", "names", "result", "found"}
    /\ LfnOK(s)
    /\ s.result \in {"none", "found", "invalid", "overflow"}
    /\ s.result = "found" => \E e \in DirEntries(image) : s.found = {e} /\ IsEntry(image, e)

LEMMA ScanNextOK ==
    ASSUME image \in Images, NEW s, ScanState(s), NEW e \in DirEntries(image), NEW chance
    PROVE  ScanState(ScanNext(s, e, chance))
  <1> DEFINE after == [s EXCEPT !.last = -1, !.lfn = Cleared(s.lfn)]
  <1>1. ScanState(after)
    BY GeometryAssumption DEF ScanState, LfnOK, Cleared
  <1>2. ASSUME e.kind = "lfn" PROVE ScanState(ScanPiece(s, e))
    <2>1. e.index \in Int
      BY <1>2, VolumeAssumption
    <2>2. CASE e.index > FAT32_LFN_MAX_INDEX
      BY <2>2 DEF ScanPiece, ScanState, LfnOK
    <2>3. CASE ~(e.index > FAT32_LFN_MAX_INDEX) /\ Overflows(e.index)
      BY <2>3 DEF ScanPiece, ScanState, LfnOK
    <2>4. CASE ~(e.index > FAT32_LFN_MAX_INDEX) /\ ~Overflows(e.index)
      <3> DEFINE r == [s EXCEPT !.lfn = Copy(s.lfn, e), !.last = IF e.final THEN e.index ELSE @]
      <3>1. ScanPiece(s, e) = r
        BY <2>4 DEF ScanPiece
      <3>2. DOMAIN Copy(s.lfn, e) = DOMAIN s.lfn
        BY DEF Copy
      <3>3. e.index \in 0 .. FAT32_LFN_MAX_INDEX
        BY <2>1, <2>4, GeometryAssumption DEF Overflows
      <3>4. /\ DOMAIN r = DOMAIN s /\ r.lfn = Copy(s.lfn, e) /\ r.result = s.result
            /\ r.found = s.found /\ r.last \in {s.last, e.index}
        BY DEF ScanState
      <3> HIDE DEF r
      <3> QED
        BY <3>1, <3>2, <3>3, <3>4, GeometryAssumption DEF ScanState, LfnOK
    <2> QED
      BY <2>2, <2>3, <2>4
  <1>3. ASSUME e.kind = "entry", e.attr # "other", s.result = "none"
        PROVE  ScanState(ScanEntry(s, e, chance))
    <2>1. IsEntry(image, e)
      BY <1>3 DEF IsEntry
    <2>2. \A x : ScanState([after EXCEPT !.names = x])
      BY <1>1 DEF ScanState, LfnOK
    <2>3. ScanState([after EXCEPT !.result = "found", !.found = {e}])
      <3> HIDE DEF after
      <3> QED
        BY <1>1, <2>1 DEF ScanState, LfnOK
    <2>4. \/ \E x : ScanEntry(s, e, chance) = [after EXCEPT !.names = x]
          \/ ScanEntry(s, e, chance) = [after EXCEPT !.result = "found", !.found = {e}]
          \/ ScanEntry(s, e, chance) = after
      BY DEF ScanEntry
    <2> HIDE DEF after
    <2> QED
      BY <1>1, <2>2, <2>3, <2>4
  <1> HIDE DEF after
  <1> QED
    BY <1>2, <1>3 DEF ScanNext

LEMMA ScanOK ==
    ASSUME image \in Images, WalkInv(search), NEW entries \in Seq(DirEntries(image)), NEW lucky
    PROVE  ScanState(Scan(entries, lucky))
  <1> DEFINE f == CHOOSE f : Solves(f, entries, lucky, Len(entries))
  <1>1. Solves(f, entries, lucky, Len(entries))
    BY ScanRecursion
  <1>2. Scan(entries, lucky) = f[Len(entries)]
    BY DEF Scan, Solves
  <1> HIDE DEF f
  <1>3. \A j \in 0 .. Len(entries) :
          f[j] = IF j = 0 THEN ScanStart ELSE ScanNext(f[j - 1], entries[j], j \in lucky)
    BY <1>1 DEF Solves
  <1> DEFINE Good == {j \in Nat : j <= Len(entries) => ScanState(f[j])}
  <1>4. 0 \in Good
    <2>1. ScanState(ScanStart)
      BY DEF ScanStart, ScanState, WalkInv, LfnOK
    <2> QED
      BY <1>3, <2>1
  <1>5. ASSUME NEW j \in Nat, j \in Good PROVE j + 1 \in Good
    <2> SUFFICES ASSUME j + 1 <= Len(entries) PROVE ScanState(f[j + 1])
      OBVIOUS
    <2>1. ScanState(f[j]) /\ entries[j + 1] \in DirEntries(image)
      BY <1>5
    <2>2. f[j + 1] = ScanNext(f[j], entries[j + 1], j + 1 \in lucky)
      BY <1>3
    <2> QED
      BY <2>1, <2>2, ScanNextOK
  <1> HIDE DEF Good
  <1>6. Len(entries) \in Good
    BY <1>4, <1>5, SetInduction
  <1> QED
    BY <1>2, <1>6 DEF Good

LEMMA NextClusterIsNat ==
    ASSUME image \in Images, NEW cluster \in Nat, NEW ok
    PROVE  NextCluster(cluster, ok) \in Nat
  <1> DEFINE lba == fatData.fatStartLba + cluster \div FatEntries
  <1>1. cluster % FatEntries \in 0 .. (FatEntries - 1)
    BY GeometryAssumption
  <1>2. lba \in DOMAIN image.fat => image.fat[lba] \in [0 .. (FatEntries - 1) -> Nat]
    BY VolumeAssumption
  <1>3. NextCluster(cluster, ok) = IF ~ok THEN EndOfChain + 1
          ELSE IF lba \in DOMAIN image.fat THEN image.fat[lba][cluster % FatEntries] ELSE 0
    BY DEF NextCluster
  <1> HIDE DEF lba
  <1>4. EndOfChain + 1 \in Nat /\ 0 \in Nat
    BY DEF EndOfChain
  <1>5. lba \in DOMAIN image.fat => image.fat[lba][cluster % FatEntries] \in Nat
    BY <1>1, <1>2
  <1> QED
    BY <1>3, <1>4, <1>5, Zenon

\* A walk that starts, answers or goes down keeps to the invariant.
LEMMA StartedWalk ==
    ASSUME WalkInv(search), NEW walk, DOMAIN walk = DOMAIN Idle, walk.goal \in {"none", "open", "list"},
           NEW cluster \in Nat, NEW mode \in {"find", "list"}, mode = "find" => walk.rest # <<>>,
           fatData.mounted
    PROVE  WalkInv(StartAt(cluster, mode, walk))
  BY GeometryAssumption DEF StartAt, WalkInv, LfnOK, Idle

LEMMA IdleWalk == WalkInv(Idle)
  BY GeometryAssumption DEF Idle, WalkInv, LfnOK, lfnEmpty

LEMMA Answered ==
    ASSUME NEW walk, NEW found, NEW ok, Answer(walk, found, ok), fatData.mounted,
           found = {} \/ \E e : found = {e} /\ (e = RootEntry \/ IsEntry(image, e)),
           UNCHANGED <<image, fatData>>
    PROVE  AnswerInv' /\ WalkInv(search)'
  <1>1. search' = Idle /\ DOMAIN answer' = DOMAIN NoAnswer /\ answer'.found = found
    BY DEF Answer, NoAnswer
  <1>2. RootEntry' = RootEntry
    BY DEF RootEntry
  <1>3. WalkInv(search)'
    BY <1>1, GeometryAssumption DEF Idle, WalkInv, LfnOK, lfnEmpty
  <1>4. AnswerInv'
    <2>1. CASE found = {}
      BY <1>1, <2>1 DEF AnswerInv
    <2>2. CASE found # {}
      <3>1. PICK e : found = {e} /\ (e = RootEntry \/ IsEntry(image, e))
        BY <2>2
      <3>2. e \in DirEntries(image)' \cup {RootEntry'} /\ (e = RootEntry' \/ IsEntry(image', e))
        BY <1>2, <3>1 DEF IsEntry
      <3> QED
        BY <1>1, <3>1, <3>2 DEF AnswerInv
    <2> QED
      BY <2>1, <2>2
  <1> QED
    BY <1>3, <1>4

LEMMA DescendStep ==
    ASSUME image \in Images, fatData.mounted, WalkInv(search), AnswerInv,
           NEW walk, WalkInv(walk), NEW e, IsEntry(image, e), Descend(walk, e),
           UNCHANGED <<image, fatData>>
    PROVE  AnswerInv' /\ WalkInv(search)'
  <1> DEFINE next == [walk EXCEPT !.rest = Tail(walk.rest)]
  <1>1. e.cluster \in Nat
    BY VolumeAssumption DEF IsEntry, WellStored
  <1>2. DOMAIN next = DOMAIN Idle /\ next.goal \in {"none", "open", "list"}
    BY DEF WalkInv, Idle
  <1>3. \/ next.rest # <<>> /\ search' = StartAt(e.cluster, "find", next) /\ UNCHANGED answer
        \/ search' = StartAt(e.cluster, "list", next) /\ UNCHANGED answer
        \/ Answer(walk, {e}, TRUE)
        \/ Answer(walk, {}, FALSE)
    BY DEF Descend
  <1> HIDE DEF next
  <1>4. ASSUME UNCHANGED answer, NEW mode \in {"find", "list"}, mode = "find" => next.rest # <<>>,
               search' = StartAt(e.cluster, mode, next)
        PROVE  AnswerInv' /\ WalkInv(search)'
    <2>1. WalkInv(StartAt(e.cluster, mode, next))
      BY <1>1, <1>2, <1>4, StartedWalk
    <2>2. WalkInv(search)'
      BY <1>4, <2>1 DEF WalkInv, LfnOK
    <2>3. AnswerInv'
      BY <1>4 DEF AnswerInv, IsEntry, RootEntry
    <2> QED
      BY <2>2, <2>3
  <1> QED
    BY <1>3, <1>4, Answered

LEMMA ReadSectorStep ==
    ASSUME DirInv, NEW ok \in BOOLEAN, ReadSector(ok)
    PROVE  DirInv'
  <1>1. /\ image \in Images /\ fatData.mounted /\ WalkInv(search) /\ AnswerInv
        /\ UNCHANGED <<image, fatData>> /\ search.sector < SectorsPerCluster
    BY DEF DirInv, ReadSector, WalkInv
  <1>2. outcome' \in {"ok", "wild"} /\ AnswerInv' /\ WalkInv(search)' => DirInv'
    BY <1>1 DEF DirInv, Mounted
  <1>3. UNCHANGED answer => AnswerInv'
    BY <1>1 DEF AnswerInv, IsEntry, RootEntry
  <1>4. UNCHANGED search => WalkInv(search)'
    BY <1>1 DEF WalkInv, LfnOK
  <1>5. CASE Answer(search, {}, FALSE) /\ UNCHANGED outcome
    BY <1>1, <1>2, <1>5, Answered DEF DirInv
  <1>6. CASE outcome' = "wild" /\ UNCHANGED <<search, answer>>
    BY <1>2, <1>3, <1>4, <1>6
  <1>7. ASSUME NEW entries \in Seq(DirEntries(image)), ScanSector(entries, ok) PROVE DirInv'
    <2>1. PICK lucky : Scanned(Scan(entries, lucky), SectorDone(entries, ok, Scan(entries, lucky)))
      BY <1>7 DEF ScanSector
    <2> DEFINE s == Scan(entries, lucky)
               walk == SectorDone(entries, ok, s)
    <2>2. ScanState(s)
      BY <1>1, ScanOK
    <2> HIDE DEF s
    <2>3. WalkInv(walk)
      <3>1. /\ DOMAIN walk = DOMAIN search
            /\ walk.mode = search.mode /\ walk.goal = search.goal /\ walk.cluster = search.cluster
            /\ walk.rest = search.rest /\ walk.sector = search.sector + 1
            /\ walk.buffer = entries /\ walk.lfn = s.lfn /\ walk.last = s.last
        BY <1>1 DEF WalkInv, Idle, SectorDone
      <3> HIDE DEF walk
      <3> QED
        BY <1>1, <2>2, <3>1, GeometryAssumption DEF WalkInv, ScanState, LfnOK
    <2>4. Scanned(s, walk)
      BY <2>1 DEF s
    <2> HIDE DEF walk
    <2>5. CASE search' = walk /\ UNCHANGED <<answer, outcome>>
      <3>1. WalkInv(search)'
        BY <1>1, <2>3, <2>5 DEF WalkInv, LfnOK
      <3> QED
        BY <1>2, <1>3, <2>5, <3>1 DEF DirInv
    <2>6. ASSUME s.result = "found", NEW e \in s.found, Descend(walk, e), UNCHANGED outcome
          PROVE  DirInv'
      <3>1. IsEntry(image, e)
        BY <2>2, <2>6 DEF ScanState
      <3> QED
        BY <1>1, <1>2, <2>3, <2>6, <3>1, DescendStep DEF DirInv
    <2>7. CASE Answer(walk, {}, FALSE) /\ UNCHANGED outcome
      BY <1>1, <1>2, <2>7, Answered DEF DirInv
    <2> QED
      BY <1>6, <2>4, <2>5, <2>6, <2>7 DEF Scanned
  <1>8. Entries(ClusterToLba(search.cluster) + search.sector) \in Seq(DirEntries(image))
    BY <1>1, VolumeAssumption DEF Entries
  <1>9. search.buffer \in Seq(DirEntries(image))
    BY <1>1 DEF WalkInv
  <1> QED
    BY <1>5, <1>6, <1>7, <1>8, <1>9, Zenon DEF ReadSector

LEMMA DirStep == DirInv /\ [DirNext]_dirVars => DirInv'
  <1> SUFFICES ASSUME DirInv, [DirNext]_dirVars PROVE DirInv'
    OBVIOUS
  <1>1. /\ image \in Images /\ WalkInv(search) /\ AnswerInv /\ outcome \in {"ok", "wild"}
        /\ fatData = IF fatData.mounted THEN Mounted(image) ELSE NoData
        /\ fatData.mounted \in BOOLEAN
    BY DEF DirInv
  <1>2. ASSUME UNCHANGED <<image, fatData>>, outcome' \in {"ok", "wild"}, AnswerInv', WalkInv(search)'
        PROVE  DirInv'
    BY <1>1, <1>2 DEF DirInv, Mounted
  <1>3. UNCHANGED <<image, fatData, answer>> => AnswerInv'
    BY <1>1 DEF AnswerInv, IsEntry, RootEntry
  <1>4. UNCHANGED <<image, fatData, search>> => WalkInv(search)'
    BY <1>1 DEF WalkInv, LfnOK
  <1>5. CASE UNCHANGED dirVars
    BY <1>1, <1>2, <1>3, <1>4, <1>5 DEF dirVars
  <1>6. CASE Initialize
    <2>1. /\ fatData' = Mounted(image)
          /\ UNCHANGED <<image, search, answer, outcome>> /\ ~fatData.mounted
      BY <1>1, <1>6, VolumeAssumption DEF Initialize, ClusterStart, Mounted
    <2>2. answer.found = {} /\ search.mode = "idle"
      BY <1>1, <2>1 DEF AnswerInv, WalkInv
    <2>3. AnswerInv' /\ WalkInv(search)'
      BY <1>1, <2>1, <2>2 DEF AnswerInv, WalkInv, LfnOK
    <2>4. fatData'.mounted = TRUE /\ fatData' = Mounted(image')
      BY <2>1 DEF Mounted
    <2> QED
      BY <1>1, <2>1, <2>3, <2>4 DEF DirInv
  <1>7. ASSUME NEW goal \in {"open", "list"}, NEW path \in Paths, Traverse(goal, path)
        PROVE  DirInv'
    <2> DEFINE walk == [Idle EXCEPT !.goal = goal, !.path = path, !.rest = path]
    <2>1. fatData.mounted /\ UNCHANGED <<image, fatData, outcome>>
      BY <1>7 DEF Traverse
    <2>2. DOMAIN walk = DOMAIN Idle /\ walk.goal = goal /\ walk.rest = path
      BY DEF Idle
    <2>3. fatData.rootCluster \in Nat
      BY <1>1, <2>1, VolumeAssumption DEF Mounted
    <2>4. CASE goal = "open" /\ path = <<>>
      <3>1. /\ answer' = [NoAnswer EXCEPT !.goal = goal, !.found = {RootEntry}, !.ok = TRUE]
            /\ UNCHANGED search
        BY <1>7, <2>4 DEF Traverse
      <3>2. DOMAIN answer' = DOMAIN NoAnswer /\ answer'.found = {RootEntry}
        BY <3>1 DEF NoAnswer
      <3>3. RootEntry' = RootEntry
        BY <2>1 DEF RootEntry
      <3>4. AnswerInv'
        BY <2>1, <3>2, <3>3 DEF AnswerInv
      <3> QED
        BY <1>1, <1>2, <1>4, <2>1, <3>1, <3>4
    <2>5. CASE ~(goal = "open" /\ path = <<>>)
      <3> DEFINE mode == IF path = <<>> THEN "list" ELSE "find"
      <3>1. search' = StartAt(fatData.rootCluster, mode, walk) /\ UNCHANGED answer
        BY <1>7, <2>5 DEF Traverse
      <3>2. mode \in {"find", "list"} /\ (mode = "find" => walk.rest # <<>>)
        BY <2>2
      <3> HIDE DEF walk, mode
      <3>3. WalkInv(StartAt(fatData.rootCluster, mode, walk))
        BY <1>1, <2>1, <2>2, <2>3, <3>2, StartedWalk
      <3>4. WalkInv(search)'
        BY <2>1, <3>1, <3>3 DEF WalkInv, LfnOK
      <3> QED
        BY <1>1, <1>2, <1>3, <2>1, <3>1, <3>4
    <2> QED
      BY <2>4, <2>5
  <1>8. CASE TraverseEmptyPath
    BY <1>1, <1>2, <1>3, <1>4, <1>8 DEF TraverseEmptyPath
  <1>9. ASSUME NEW ok \in BOOLEAN, FollowChain(ok) PROVE DirInv'
    <2>1. /\ search' = [search EXCEPT !.cluster = NextCluster(@, ok), !.sector = 0, !.failed = @ \/ ~ok]
          /\ UNCHANGED <<image, fatData, answer, outcome>>
      BY <1>9 DEF FollowChain
    <2>2. NextCluster(search.cluster, ok) \in Nat
      BY <1>1, NextClusterIsNat DEF WalkInv
    <2>3. WalkInv(search)'
      <3>1. /\ DOMAIN search' = DOMAIN search
            /\ search'.mode = search.mode /\ search'.goal = search.goal
            /\ search'.cluster = NextCluster(search.cluster, ok)
            /\ search'.rest = search.rest /\ search'.sector = 0
            /\ search'.buffer = search.buffer /\ search'.lfn = search.lfn /\ search'.last = search.last
        BY <1>1, <2>1 DEF WalkInv, Idle
      <3> QED
        BY <1>1, <2>1, <2>2, <3>1, GeometryAssumption DEF WalkInv, LfnOK
    <2> QED
      BY <1>1, <1>2, <1>3, <2>1, <2>3
  <1>10. CASE EndOfDirectory
    <2>1. /\ Answer(search, {}, search.mode = "list") /\ UNCHANGED <<image, fatData, outcome>>
          /\ fatData.mounted
      BY <1>1, <1>10 DEF EndOfDirectory, WalkInv
    <2> QED
      BY <1>1, <1>2, <2>1, Answered
  <1> QED
    BY <1>5, <1>6, <1>7, <1>8, <1>9, <1>10, ReadSectorStep DEF DirNext, WalkStep

-----------------------------------------------------------------------------
(* Clusters, sectors and offsets. *)

LEMMA Sizes ==
    /\ SectorSize \in Nat \ {0} /\ SectorsPerCluster \in Nat \ {0}
    /\ clusterSize \in Nat \ {0}
  BY GeometryAssumption, CallersAssumption DEF clusterSize

LEMMA MinOfTwo ==
    ASSUME NEW a \in Nat, NEW b \in Nat
    PROVE  Min({a, b}) = IF a <= b THEN a ELSE b
  BY MinIsLeast

\* The sectors of a cluster end where it ends.
LEMMA SectorsFit ==
    ASSUME NEW sector \in Nat, sector < SectorsPerCluster
    PROVE  /\ (sector + 1) * SectorSize = sector * SectorSize + SectorSize
           /\ sector * SectorSize \in Nat
           /\ sector * SectorSize + SectorSize <= clusterSize
           /\ sector + 1 < SectorsPerCluster => sector * SectorSize + SectorSize < clusterSize
           /\ sector + 1 = SectorsPerCluster => sector * SectorSize + SectorSize = clusterSize
  <1>1. (sector + 1) * SectorSize = sector * SectorSize + SectorSize /\ sector * SectorSize \in Nat
    BY Sizes
  <1>2. PICK d \in Nat : SectorsPerCluster = sector + 1 + d
    <2>1. SectorsPerCluster - sector - 1 \in Nat
      BY Sizes
    <2> QED
      BY <2>1, Sizes
  <1>3. clusterSize = (sector + 1) * SectorSize + d * SectorSize
    BY <1>2, Sizes DEF clusterSize
  <1>4. d * SectorSize >= 0 /\ (d > 0 => d * SectorSize > 0) /\ (d = 0 => d * SectorSize = 0)
    BY Sizes
  <1>5. d * SectorSize \in Int
    BY Sizes
  <1> QED
    BY <1>1, <1>2, <1>3, <1>4, <1>5, Sizes

LEMMA ClusterEnds ==
    ASSUME NEW k \in Int
    PROVE  /\ (k - 1) * clusterSize \in Int /\ k * clusterSize \in Int
           /\ k * clusterSize = (k - 1) * clusterSize + clusterSize
           /\ (k + 1) * clusterSize = k * clusterSize + clusterSize
           /\ k >= 1 => (k - 1) * clusterSize >= 0
  BY Sizes

\* Which cluster an offset is in.
LEMMA OneCluster ==
    ASSUME NEW offset \in Int, NEW k \in Int, NEW m \in Int, InCluster(offset, k), InCluster(offset, m)
    PROVE  k = m
  <1>1. ASSUME NEW a \in Int, NEW b \in Int, InCluster(offset, a), InCluster(offset, b), a < b
        PROVE  FALSE
    <2>1. PICK d \in Nat : b = a + 1 + d
      <3>1. b - a - 1 \in Nat
        BY <1>1
      <3> QED
        BY <1>1, <3>1
    <2>2. (b - 1) * clusterSize = a * clusterSize + d * clusterSize
      BY <1>1, <2>1, Sizes
    <2>3. d * clusterSize >= 0 /\ d * clusterSize \in Int
      BY <2>1, Sizes
    <2> QED
      BY <1>1, <2>2, <2>3, ClusterEnds DEF InCluster
  <1> QED
    BY <1>1

LEMMA Divided ==
    ASSUME NEW W \in Nat \ {0}, NEW y \in Nat
    PROVE  y \div W \in Nat /\ y % W \in 0 .. W - 1 /\ y = (y \div W) * W + (y % W)
  <1> DEFINE a == y \div W
             b == y % W
  <1>1. a \in Int /\ b \in 0 .. W - 1 /\ y = W * a + b
    OBVIOUS
  <1> HIDE DEF a, b
  <1>2. a <= -1 => W * a <= -W
    BY <1>1
  <1>3. W * a = a * W /\ W * a \in Int
    BY <1>1
  <1>4. a \in Nat /\ b \in 0 .. W - 1 /\ y = a * W + b
    BY <1>1, <1>2, <1>3
  <1> QED
    BY <1>4 DEF a, b

LEMMA OffsetDivided ==
    ASSUME NEW offset \in Nat
    PROVE  /\ offset \div clusterSize \in Nat
           /\ InCluster(offset, offset \div clusterSize + 1)
           /\ offset % clusterSize \in 0 .. (clusterSize - 1)
           /\ offset = (offset \div clusterSize) * clusterSize + (offset % clusterSize)
  <1> DEFINE q == offset \div clusterSize
             r == offset % clusterSize
  <1>1. q \in Nat /\ r \in 0 .. (clusterSize - 1) /\ offset = q * clusterSize + r
    BY Sizes, Divided
  <1> HIDE DEF q, r
  <1>2. /\ (q + 1 - 1) * clusterSize = q * clusterSize
        /\ (q + 1) * clusterSize = q * clusterSize + clusterSize /\ q * clusterSize \in Int
    BY <1>1, Sizes
  <1>3. InCluster(offset, q + 1)
    BY <1>1, <1>2, Sizes DEF InCluster
  <1>4. /\ q \in Nat /\ InCluster(offset, q + 1) /\ r \in 0 .. (clusterSize - 1)
        /\ offset = q * clusterSize + r
    BY <1>1, <1>3
  <1> QED
    BY <1>4 DEF q, r

\* Where in its cluster.
LEMMA OffsetInCluster ==
    ASSUME NEW offset \in Nat, NEW k \in Int, InCluster(offset, k)
    PROVE  offset = (k - 1) * clusterSize + (offset % clusterSize)
  <1>1. k = offset \div clusterSize + 1
    BY OffsetDivided, OneCluster
  <1>2. k - 1 = offset \div clusterSize
    BY <1>1, OffsetDivided
  <1> QED
    BY <1>2, OffsetDivided

\* A read that stops at the end of some cluster stops at the end of the one it is in.
LEMMA StopsAtItsEnd ==
    ASSUME NEW k \in Int, NEW m \in Int, (k - 1) * clusterSize < m * clusterSize,
           m * clusterSize <= k * clusterSize
    PROVE  m = k
  <1>1. m < k => m * clusterSize <= (k - 1) * clusterSize
    <2> SUFFICES ASSUME m < k PROVE m * clusterSize <= (k - 1) * clusterSize
      OBVIOUS
    <2>1. k - 1 - m \in Nat
      OBVIOUS
    <2>2. (k - 1) * clusterSize = m * clusterSize + (k - 1 - m) * clusterSize
      BY Sizes
    <2>3. (k - 1 - m) * clusterSize >= 0 /\ (k - 1 - m) * clusterSize \in Int /\ m * clusterSize \in Int
      BY <2>1, Sizes
    <2> QED
      BY <2>2, <2>3
  <1>2. m > k => m * clusterSize > k * clusterSize
    <2> SUFFICES ASSUME m > k PROVE m * clusterSize > k * clusterSize
      OBVIOUS
    <2>1. m - k \in Nat \ {0}
      OBVIOUS
    <2>2. m * clusterSize = k * clusterSize + (m - k) * clusterSize
      BY Sizes
    <2>3. (m - k) * clusterSize > 0 /\ (m - k) * clusterSize \in Int /\ k * clusterSize \in Int
      BY <2>1, Sizes
    <2> QED
      BY <2>2, <2>3
  <1>3. m * clusterSize \in Int /\ (k - 1) * clusterSize \in Int /\ k * clusterSize \in Int
    BY Sizes
  <1> QED
    BY <1>1, <1>2, <1>3

LEMMA PlaceIsInt ==
    ASSUME NEW k \in Int, NEW sector \in Nat, NEW skipped \in Nat
    PROVE  Place(k, sector, skipped) \in Int
  <1>1. (k - 1) * clusterSize \in Int /\ sector * SectorSize \in Int
    BY Sizes
  <1> QED
    BY <1>1 DEF Place

LEMMA PlaceInCluster ==
    ASSUME NEW k \in Int, NEW sector \in Nat, NEW skipped \in Nat,
           sector * SectorSize + skipped < clusterSize
    PROVE  InCluster(Place(k, sector, skipped), k)
  <1> DEFINE start == (k - 1) * clusterSize
             ss == sector * SectorSize
  <1>1. start \in Int /\ k * clusterSize = start + clusterSize
    BY ClusterEnds
  <1>2. ss \in Nat
    BY Sizes
  <1>3. ss + skipped < clusterSize
    OBVIOUS
  <1>4. Place(k, sector, skipped) = start + ss + skipped
    BY DEF Place
  <1>5. InCluster(Place(k, sector, skipped), k)
        <=> start <= Place(k, sector, skipped) /\ Place(k, sector, skipped) < k * clusterSize
    BY DEF InCluster
  <1> HIDE DEF start, ss
  <1> QED
    BY <1>1, <1>2, <1>3, <1>4, <1>5, Sizes

\* A skipped sector leaves the place where it is.
LEMMA SkippedPlace ==
    ASSUME NEW k \in Int, NEW sector \in Nat, NEW skipped \in Nat, sector < SectorsPerCluster,
           SectorSize <= skipped, sector * SectorSize + skipped < clusterSize
    PROVE  /\ sector + 1 < SectorsPerCluster /\ skipped - SectorSize \in Nat
           /\ (sector + 1) * SectorSize + (skipped - SectorSize) < clusterSize
           /\ Place(k, sector + 1, skipped - SectorSize) = Place(k, sector, skipped)
  <1> DEFINE start == (k - 1) * clusterSize
             ss == sector * SectorSize
             next == (sector + 1) * SectorSize
  <1>1. start \in Int /\ ss \in Nat /\ next = ss + SectorSize
        /\ (sector + 1 = SectorsPerCluster => ss + SectorSize = clusterSize)
    BY SectorsFit, ClusterEnds
  <1>2. ss + skipped < clusterSize
    OBVIOUS
  <1>3. Place(k, sector + 1, skipped - SectorSize) = start + next + (skipped - SectorSize)
        /\ Place(k, sector, skipped) = start + ss + skipped
    BY DEF Place
  <1> HIDE DEF start, ss
  <1>4. next \in Nat /\ next + (skipped - SectorSize) = ss + skipped
    <2> HIDE DEF next
    <2> QED
      BY <1>1, Sizes
  <1>5. sector + 1 # SectorsPerCluster
    BY <1>1, <1>2, Sizes
  <1>6. sector + 1 < SectorsPerCluster /\ skipped - SectorSize \in Nat
    BY <1>5, Sizes
  <1>7. next + (skipped - SectorSize) < clusterSize
    BY <1>2, <1>4
  <1>8. start + next + (skipped - SectorSize) = start + ss + skipped
    <2> HIDE DEF next
    <2> QED
      BY <1>1, <1>4, <1>6
  <1> QED
    BY <1>3, <1>6, <1>7, <1>8

\* How much of a sector is copied.
LEMMA CopiedBytes ==
    ASSUME NEW skipped \in Nat, NEW remaining \in Nat \ {0}, skipped < SectorSize,
           NEW toCopy, toCopy = Min({SectorSize - skipped, remaining})
    PROVE  /\ toCopy \in Nat \ {0} /\ toCopy <= remaining /\ toCopy <= SectorSize - skipped
           /\ toCopy < remaining => toCopy = SectorSize - skipped
  <1>1. SectorSize - skipped \in Nat \ {0}
    BY Sizes
  <1>2. toCopy = IF SectorSize - skipped <= remaining THEN SectorSize - skipped ELSE remaining
    BY <1>1, MinOfTwo
  <1> QED
    BY <1>1, <1>2

\* Copying moves the place to the next sector, ...
LEMMA CopiedPlace ==
    ASSUME NEW k \in Int, NEW sector \in Nat, NEW skipped \in Nat, sector < SectorsPerCluster,
           NEW place, place = Place(k, sector, skipped)
    PROVE  /\ place + (SectorSize - skipped) = Place(k, sector + 1, 0)
           /\ sector + 1 < SectorsPerCluster => (sector + 1) * SectorSize + 0 < clusterSize
  <1> DEFINE start == (k - 1) * clusterSize
             ss == sector * SectorSize
             next == (sector + 1) * SectorSize
  <1>1. /\ start \in Int /\ ss \in Nat /\ next = ss + SectorSize
        /\ (sector + 1 < SectorsPerCluster => ss + SectorSize < clusterSize)
    BY SectorsFit, ClusterEnds
  <1>2. place = start + ss + skipped /\ Place(k, sector + 1, 0) = start + next + 0
    BY DEF Place
  <1> HIDE DEF start, ss, next
  <1>3. place + (SectorSize - skipped) = Place(k, sector + 1, 0)
    BY <1>1, <1>2, Sizes
  <1>4. sector + 1 < SectorsPerCluster => next + 0 < clusterSize
    BY <1>1, Sizes
  <1> QED
    BY <1>3, <1>4 DEF next

\* ... or ends the read, at the end of no cluster but its own.
LEMMA LastPlace ==
    ASSUME NEW k \in Int, NEW sector \in Nat, NEW skipped \in Nat, NEW remaining \in Nat \ {0},
           sector < SectorsPerCluster, remaining <= SectorSize - skipped,
           NEW place, place = Place(k, sector, skipped),
           NEW m \in Int, place + remaining = m * clusterSize
    PROVE  m = k
  <1> DEFINE start == (k - 1) * clusterSize
             ss == sector * SectorSize
  <1>1. /\ start \in Int /\ ss \in Nat /\ ss + SectorSize <= clusterSize
        /\ k * clusterSize = start + clusterSize
    BY SectorsFit, ClusterEnds
  <1>2. place = start + ss + skipped
    BY DEF Place
  <1> HIDE DEF start, ss
  <1>3. place + remaining <= k * clusterSize /\ place + remaining > start
    BY <1>1, <1>2, Sizes
  <1>4. (k - 1) * clusterSize < m * clusterSize /\ m * clusterSize <= k * clusterSize
    BY <1>3 DEF start
  <1> QED
    BY <1>4, StopsAtItsEnd

\* Where a cluster ends the next one starts.
LEMMA NextClusterStarts ==
    ASSUME NEW k \in Int
    PROVE  /\ InCluster(k * clusterSize, k + 1)
           /\ Place(k + 1, 0, 0) = k * clusterSize
           /\ Place(k, SectorsPerCluster, 0) = k * clusterSize
  <1> DEFINE e == k * clusterSize
  <1>1. e \in Int /\ (k + 1) * clusterSize = e + clusterSize
    BY ClusterEnds
  <1>2. (k + 1 - 1) * clusterSize = e
    <2>1. k + 1 - 1 = k
      OBVIOUS
    <2> QED
      BY <2>1
  <1>3. (k - 1) * clusterSize + clusterSize = e /\ (k - 1) * clusterSize \in Int
    BY ClusterEnds
  <1>4. 0 * SectorSize = 0 /\ SectorsPerCluster * SectorSize = clusterSize
    BY Sizes DEF clusterSize
  <1>5. InCluster(e, k + 1) <=> (k + 1 - 1) * clusterSize <= e /\ e < (k + 1) * clusterSize
    BY DEF InCluster
  <1>6. /\ Place(k + 1, 0, 0) = (k + 1 - 1) * clusterSize + 0 * SectorSize + 0
        /\ Place(k, SectorsPerCluster, 0) = (k - 1) * clusterSize + SectorsPerCluster * SectorSize + 0
    BY DEF Place
  <1> HIDE DEF e
  <1>7. InCluster(e, k + 1)
    BY <1>1, <1>2, <1>5, Sizes
  <1>8. Place(k + 1, 0, 0) = e
    BY <1>1, <1>2, <1>4, <1>6
  <1>9. Place(k, SectorsPerCluster, 0) = e
    BY <1>1, <1>3, <1>4, <1>6, Sizes
  <1> QED
    BY <1>7, <1>8, <1>9 DEF e

-----------------------------------------------------------------------------
(* The chain. *)

LEMMA InSequence ==
    ASSUME NEW S, NEW s \in Seq(S), NEW k \in DOMAIN s
    PROVE  /\ k \in Nat \ {0} /\ Len(s) \in Nat /\ DOMAIN s = 1 .. Len(s) /\ s[k] \in S
           /\ k # Len(s) => k + 1 \in DOMAIN s
  OBVIOUS

\* The FAT leads along it.
LEMMA AlongTheChain ==
    ASSUME DirInv, FileInv, HasChain, NEW k \in DOMAIN chain
    PROVE  /\ k \in Nat \ {0} /\ Len(chain) \in Nat /\ DOMAIN chain = 1 .. Len(chain)
           /\ chain[k] \in Nat /\ chain[k] >= 2 /\ chain[k] < EndOfChain
           /\ k = Len(chain) => NextCluster(chain[k], TRUE) >= EndOfChain
           /\ k # Len(chain) => NextCluster(chain[k], TRUE) = chain[k + 1] /\ k + 1 \in DOMAIN chain
  <1>1. Linked(image, chain)
    BY DEF FileInv
  <1>2. fatData.fatStartLba = image.partitionOffset + image.boot.reserved
    BY DEF DirInv, FileInv, Mounted
  <1>3. chain \in Seq(2 .. (EndOfChain - 1))
    BY <1>1 DEF Linked, Follows
  <1>4. k \in Nat \ {0} /\ Len(chain) \in Nat /\ DOMAIN chain = 1 .. Len(chain)
        /\ chain[k] \in 2 .. (EndOfChain - 1) /\ (k # Len(chain) => k + 1 \in DOMAIN chain)
    BY <1>3, InSequence
  <1> DEFINE lba == image.partitionOffset + image.boot.reserved + chain[k] \div FatEntries
             next == image.fat[lba][chain[k] % FatEntries]
  <1>5. lba \in DOMAIN image.fat /\ IF k = Len(chain) THEN next >= EndOfChain ELSE next = chain[k + 1]
    BY <1>1 DEF Linked, Follows
  <1>6. NextCluster(chain[k], TRUE) = next
    BY <1>2, <1>5 DEF NextCluster
  <1> HIDE DEF next, lba
  <1>7. \A c \in 2 .. (EndOfChain - 1) : c \in Nat /\ c >= 2 /\ c < EndOfChain
    <2>1. EndOfChain \in Nat
      BY DEF EndOfChain
    <2> QED
      BY <2>1
  <1> QED
    BY <1>4, <1>5, <1>6, <1>7

\* What stays if the directory and the file do.
LEMMA SameFile ==
    ASSUME DirInv, FileInv, UNCHANGED dirVars, handle'.firstCluster = handle.firstCluster,
           handle'.size = handle.size, handle'.isDirectory = handle.isDirectory
    PROVE  /\ DirInv' /\ FileInv' /\ chain' = chain /\ HasChain' = HasChain
           /\ clusterSize' = clusterSize
  <1>1. UNCHANGED <<image, fatData, search, answer, outcome>>
    BY DEF dirVars
  <1>2. DirInv'
    BY <1>1, DirStep DEF dirVars
  <1>3. chain' = chain /\ HasChain' = HasChain
    BY <1>1 DEF chain, HasChain
  <1>4. FileInv'
    BY <1>1, <1>3 DEF FileInv, Linked, Follows
  <1> QED
    BY <1>2, <1>3, <1>4

\* What the types say of a handle that is open.
LEMMA Opened ==
    ASSUME IInv, handle.open
    PROVE  /\ DirInv /\ FileInv /\ PlacedInv /\ ReadInv /\ SeekInv /\ GivenInv
           /\ handle.size \in Nat /\ handle.firstCluster \in Nat /\ handle.currentCluster \in Nat
           /\ handle.currentOffset \in Nat /\ handle.isDirectory \in BOOLEAN
           /\ io.bytesCount \in Nat /\ io.remaining \in Nat /\ io.skipped \in Nat /\ io.cluster \in Nat
           /\ io.sector \in Nat /\ io.offset \in Nat /\ io.left \in Nat
           /\ given \in Seq(Byte) /\ Len(given) \in Nat
           /\ DOMAIN io = DOMAIN NoIo /\ DOMAIN handle = DOMAIN NoHandle
  <1>1. DirInv /\ OpenInv /\ FileTypes
    BY DEF IInv
  <1> QED
    BY <1>1 DEF OpenInv, FileTypes, HandleType, IoType, NoIo, NoHandle

-----------------------------------------------------------------------------
(* FAT32_Open and FAT32_Close. *)

LEMMA LookUpStep ==
    ASSUME IInv, LookUp
    PROVE  IInv'
  <1>1. ~handle.open /\ DirNext /\ UNCHANGED fileVars
    BY DEF LookUp
  <1>2. DirInv'
    BY <1>1, DirStep DEF IInv
  <1> QED
    BY <1>1, <1>2 DEF IInv, FileTypes, fileVars

\* The files there are.
LEMMA RootIsAFile ==
    ASSUME NEW i \in Images
    PROVE  [first |-> i.boot.rootCluster * 65536, size |-> 0] \in Files
  <1> DEFINE F(v) == {[first |-> f.entry.cluster, size |-> f.entry.size] :
                        f \in UNION {ToSet(v.tree[c]) : c \in DOMAIN v.tree}}
             G(v) == F(v) \cup {[first |-> v.boot.rootCluster * 65536, size |-> 0]}
  <1>1. Files = UNION {G(v) : v \in Images}
    BY DEF Files
  <1>2. [first |-> i.boot.rootCluster * 65536, size |-> 0] \in G(i)
    <2> HIDE DEF F
    <2> QED
      OBVIOUS
  <1> HIDE DEF G
  <1> QED
    BY <1>1, <1>2

LEMMA EntryIsAFile ==
    ASSUME NEW i \in Images, NEW e, \E c \in DOMAIN i.tree : \E f \in ToSet(i.tree[c]) : f.entry = e
    PROVE  [first |-> e.cluster, size |-> e.size] \in Files
  <1> DEFINE T(v) == UNION {ToSet(v.tree[c]) : c \in DOMAIN v.tree}
             F(v) == {[first |-> f.entry.cluster, size |-> f.entry.size] : f \in T(v)}
             G(v) == F(v) \cup {[first |-> v.boot.rootCluster * 65536, size |-> 0]}
  <1>1. Files = UNION {G(v) : v \in Images}
    BY DEF Files
  <1>2. PICK c \in DOMAIN i.tree : \E f \in ToSet(i.tree[c]) : f.entry = e
    OBVIOUS
  <1>3. PICK f \in ToSet(i.tree[c]) : f.entry = e
    BY <1>2
  <1>4. f \in T(i)
    BY <1>3
  <1> HIDE DEF T
  <1>5. [first |-> e.cluster, size |-> e.size] \in F(i)
    BY <1>3, <1>4
  <1> HIDE DEF F
  <1>6. [first |-> e.cluster, size |-> e.size] \in G(i)
    BY <1>5
  <1> HIDE DEF G
  <1> QED
    BY <1>1, <1>6

LEMMA OpenStep ==
    ASSUME IInv, Open
    PROVE  IInv'
  <1>0. ~handle.open
    BY DEF IInv, OpenInv, FileInv, Open
  <1>1. PICK e \in answer.found :
          /\ handle' = [open |-> TRUE, isDirectory |-> e.attr = "dir", size |-> e.size,
                        firstCluster |-> e.cluster, currentCluster |-> e.cluster,
                        currentOffset |-> 0]
          /\ answer' = NoAnswer
          /\ given' = <<>>
          /\ lost' = FALSE
          /\ UNCHANGED <<image, fatData, search, outcome, io>>
    BY DEF Open
  <1>2. /\ DirInv /\ FileTypes /\ io = NoIo /\ image \in Images /\ WalkInv(search) /\ AnswerInv
        /\ fatData = IF fatData.mounted THEN Mounted(image) ELSE NoData
    BY <1>0 DEF IInv, DirInv
  <1>3. fatData.mounted /\ (e = RootEntry \/ IsEntry(image, e))
    BY <1>1, <1>2 DEF AnswerInv
  <1>4. DirInv'
    <2>1. AnswerInv'
      BY <1>1 DEF AnswerInv, NoAnswer
    <2>2. WalkInv(search)'
      BY <1>1, <1>2 DEF WalkInv, LfnOK
    <2> QED
      BY <1>1, <1>2, <2>1, <2>2 DEF DirInv, Mounted
  <1>5. /\ e.size \in Nat /\ e.cluster \in Nat
        /\ [first |-> e.cluster, size |-> e.size] \in Files
        /\ e.attr # "dir" /\ e.size > 0 =>
             /\ Linked(image, image.chains[e.cluster])
             /\ image.chains[e.cluster][1] = e.cluster
             /\ Len(image.chains[e.cluster]) * clusterSize >= e.size
    <2>1. CASE e = RootEntry
      <3>1. e.size = 0 /\ e.cluster = image.boot.rootCluster * 65536 /\ e.cluster \in Nat
        BY <1>2, <1>3, <2>1, VolumeAssumption DEF RootEntry, Mounted
      <3>2. [first |-> image.boot.rootCluster * 65536, size |-> 0] \in Files
        BY <1>2, RootIsAFile
      <3> QED
        BY <3>1, <3>2
    <2>2. CASE IsEntry(image, e)
      <3>1. WellStored(image, e)
        BY <1>2, <2>2, VolumeAssumption DEF IsEntry
      <3>2. [first |-> e.cluster, size |-> e.size] \in Files
        BY <1>2, <3>1, EntryIsAFile DEF WellStored
      <3> QED
        BY <3>1, <3>2 DEF WellStored
    <2> QED
      BY <1>3, <2>1, <2>2
  <1>6. /\ handle'.open = TRUE /\ handle'.isDirectory = (e.attr = "dir") /\ handle'.size = e.size
        /\ handle'.firstCluster = e.cluster /\ handle'.currentCluster = e.cluster
        /\ handle'.currentOffset = 0
    BY <1>1
  <1>7. FileTypes'
    <2>1. (e.attr = "dir") \in BOOLEAN
      OBVIOUS
    <2> DEFINE dir == e.attr = "dir"
    <2>2. handle' = [open |-> TRUE, isDirectory |-> dir, size |-> e.size,
                     firstCluster |-> e.cluster, currentCluster |-> e.cluster,
                     currentOffset |-> 0]
      BY <1>1
    <2>3. dir \in BOOLEAN
      BY <2>1
    <2> HIDE DEF dir
    <2>4. handle' \in HandleType
      BY <1>5, <2>2, <2>3 DEF HandleType
    <2>5. <<>> \in Seq(Byte) /\ given' = <<>> /\ lost' = FALSE /\ io' = io
      BY <1>1
    <2>6. given' \in Seq(Byte) /\ lost' \in BOOLEAN
      BY <2>5
    <2> QED
      BY <1>2, <2>4, <2>5, <2>6 DEF FileTypes
  <1>8. (HasChain' <=> e.attr # "dir" /\ e.size > 0) /\ chain' = image.chains[e.cluster]
    BY <1>1, <1>6 DEF HasChain, chain
  <1>9. FileInv'
    <2>1. answer'.found = {} /\ image' = image /\ fatData'.mounted
      BY <1>1, <1>3 DEF NoAnswer
    <2>2. HasChain' => Linked(image, chain') /\ Len(chain') * clusterSize >= e.size
                       /\ chain'[1] = e.cluster
      BY <1>5, <1>8
    <2> QED
      BY <1>5, <1>6, <2>1, <2>2 DEF FileInv
  <1>10. PlacedInv'
    <2> SUFFICES ASSUME HasChain' PROVE PlacedInv'
      BY <1>1, <1>2, <1>5, <1>6 DEF PlacedInv
    <2>1. 1 \in DOMAIN chain' /\ chain'[1] = e.cluster /\ e.cluster < EndOfChain
      <3>1. chain' \in Seq(2 .. (EndOfChain - 1)) /\ chain' # <<>> /\ chain'[1] = e.cluster
        BY <1>5, <1>8 DEF Linked, Follows
      <3>2. 1 \in DOMAIN chain'
        BY <3>1
      <3>3. chain'[1] \in 2 .. (EndOfChain - 1)
        BY <3>1, <3>2, InSequence
      <3> QED
        <4>1. EndOfChain \in Nat
          BY DEF EndOfChain
        <4>2. \A n \in 2 .. (EndOfChain - 1) : n < EndOfChain
          BY <4>1
        <4> QED
          BY <3>1, <3>2, <3>3, <4>2
    <2>2. InCluster(0, 1)
      BY Sizes DEF InCluster
    <2>3. InCluster(0, 1)'
      BY <2>2 DEF InCluster
    <2> QED
      BY <1>1, <1>2, <1>5, <1>6, <2>1, <2>3 DEF PlacedInv
  <1>11. ReadInv' /\ SeekInv' /\ GivenInv'
    BY <1>1, <1>2, Sizes DEF ReadInv, SeekInv, GivenInv, NoIo
  <1> QED
    BY <1>4, <1>6, <1>7, <1>9, <1>10, <1>11 DEF IInv, OpenInv

LEMMA CloseStep ==
    ASSUME IInv, Close
    PROVE  IInv'
  <1>1. /\ handle' = NoHandle /\ io' = NoIo /\ given' = <<>> /\ lost' = FALSE /\ UNCHANGED dirVars
    BY DEF Close
  <1>2. DirInv'
    BY <1>1, DirStep DEF IInv
  <1>3. NoHandle \in HandleType
    BY DEF NoHandle, HandleType
  <1>4. NoIo \in IoType
    BY DEF NoIo, IoType
  <1>5. <<>> \in Seq(Byte) /\ FALSE \in BOOLEAN /\ ~NoHandle.open
    BY DEF NoHandle
  <1>6. FileTypes' /\ ~handle'.open
    BY <1>1, <1>3, <1>4, <1>5 DEF FileTypes
  <1> QED
    BY <1>1, <1>2, <1>6 DEF IInv

-----------------------------------------------------------------------------
(* FAT32_Read. *)

\* What every step of a call leaves alone.
LEMMA StillOpen ==
    ASSUME IInv, handle.open, UNCHANGED dirVars, handle' \in HandleType, io' \in IoType,
           given' \in Seq(Byte), lost' \in BOOLEAN, handle'.open,
           handle'.firstCluster = handle.firstCluster, handle'.size = handle.size,
           handle'.isDirectory = handle.isDirectory, PlacedInv', ReadInv', SeekInv', GivenInv'
    PROVE  IInv'
  BY Opened, SameFile DEF IInv, OpenInv, FileTypes

LEMMA RestIo ==
    ASSUME NEW n \in Nat
    PROVE  LET r == [NoIo EXCEPT !.bytesCount = n]
           IN  /\ r \in IoType /\ r.op = "none" /\ r.bytesCount = n /\ r.remaining = 0
               /\ r.skipped = 0
  BY DEF NoIo, IoType

LEMMA StartReadStep ==
    ASSUME IInv, NEW n \in ReadSizes, EndsWell(n), StartRead(n)
    PROVE  IInv'
  <1> DEFINE remaining == IF handle.isDirectory THEN 0 ELSE Min({n, handle.size - handle.currentOffset})
             offset == handle.currentOffset
             size == handle.size
             rest == [NoIo EXCEPT !.bytesCount = n]
             start == [NoIo EXCEPT !.op = "read", !.bytesCount = n, !.remaining = remaining,
                                   !.skipped = Skipped(offset), !.cluster = handle.currentCluster]
  <1>1. /\ handle.open /\ io.op = "none" /\ given' = <<>>
        /\ io' = IF remaining = 0 \/ handle.currentCluster >= EndOfChain THEN rest ELSE start
        /\ UNCHANGED <<dirVars, handle, lost>>
    BY DEF StartRead, Ready
  <1>2. /\ DirInv /\ FileInv /\ PlacedInv /\ GivenInv /\ n \in Nat
        /\ size \in Nat /\ offset \in Nat /\ handle.isDirectory \in BOOLEAN /\ handle.currentCluster \in Nat
        /\ offset <= size
    BY <1>1, Opened, CallersAssumption DEF PlacedInv
  <1>3. IInv => FileTypes
    BY DEF IInv
  <1>4. /\ handle.isDirectory => remaining = 0
        /\ ~handle.isDirectory => remaining = IF n <= size - offset THEN n ELSE size - offset
    <2>1. size - offset \in Nat
      BY <1>2
    <2>2. ~handle.isDirectory => remaining = Min({n, size - offset})
      OBVIOUS
    <2>3. handle.isDirectory => remaining = 0
      OBVIOUS
    <2> HIDE DEF remaining
    <2> QED
      BY <1>2, <2>1, <2>2, <2>3, MinOfTwo
  <1> HIDE DEF remaining
  <1>5. remaining \in Nat /\ offset + remaining <= size /\ remaining <= n
    BY <1>2, <1>4
  <1>6. chain' = chain /\ HasChain' = HasChain /\ clusterSize' = clusterSize
    BY <1>1, <1>2, SameFile
  <1>7. io'.op # "read" => PlacedInv'
    BY <1>1, <1>2, <1>6 DEF PlacedInv, InCluster
  <1>8. CASE remaining = 0 \/ handle.currentCluster >= EndOfChain
    <2>1. io' \in IoType /\ io'.op = "none" /\ io'.bytesCount = n /\ io'.remaining = 0 /\ io'.skipped = 0
      BY <1>1, <1>2, <1>8, RestIo
    <2>2. n > 0 => handle.isDirectory \/ offset = size \/ lost
      <3>1. HasChain /\ offset < size /\ handle.currentCluster >= EndOfChain => lost
        BY <1>1, <1>2 DEF PlacedInv, EndOfChain
      <3>2. ~handle.isDirectory /\ offset # size => HasChain /\ offset < size
        BY <1>2 DEF HasChain
      <3>3. ~handle.isDirectory /\ offset # size /\ n > 0 => remaining # 0
        BY <1>2, <1>4
      <3> QED
        BY <1>8, <3>1, <3>2, <3>3
    <2>3. GivenInv'
      BY <1>1, <2>1, <2>2, Sizes, <1>2, <1>6 DEF GivenInv
    <2>4. ReadInv' /\ SeekInv' /\ PlacedInv'
      BY <1>7, <2>1 DEF ReadInv, SeekInv
    <2>5. given' \in Seq(Byte)
      BY <1>1
    <2> QED
      BY <1>1, <1>3, <2>1, <2>3, <2>4, <2>5, StillOpen DEF FileTypes
  <1>9. CASE remaining # 0 /\ handle.currentCluster < EndOfChain
    <2>1. io' = start
      BY <1>1, <1>2, <1>9 DEF EndOfChain
    <2>2. HasChain /\ offset < size
      BY <1>2, <1>4, <1>5, <1>9 DEF HasChain
    <2>3. PICK k \in DOMAIN chain : handle.currentCluster = chain[k] /\ InCluster(offset, k)
      BY <1>1, <1>2, <1>9, <2>2 DEF PlacedInv, EndOfChain
    <2> DEFINE skipped == offset % clusterSize
    <2>4. Skipped(offset) = skipped
      BY DEF Skipped
    <2>5. skipped \in Nat /\ skipped < clusterSize /\ offset = (k - 1) * clusterSize + skipped
      <3>1. k \in Int
        BY <1>2, <2>2, AlongTheChain
      <3>2. skipped \in 0 .. (clusterSize - 1)
        BY <1>2, OffsetDivided
      <3>3. offset = (k - 1) * clusterSize + skipped
        BY <1>2, <2>3, <3>1, OffsetInCluster
      <3> HIDE DEF skipped
      <3> QED
        BY <3>2, <3>3, Sizes
    <2>6. \/ offset + remaining = size
          \/ \E m \in Nat : offset + remaining = m * clusterSize
      <3>1. CASE n <= size - offset
        <4>1. remaining = n
          BY <1>4, <2>2, <3>1 DEF HasChain
        <4>2. offset + n \in Nat
          BY <1>2
        <4>3. (offset + n) % clusterSize = 0 \/ offset + n >= size
          BY DEF EndsWell
        <4>4. offset + n >= size => offset + n = size
          BY <1>2, <3>1
        <4>5. (offset + n) % clusterSize = 0 => offset + n = ((offset + n) \div clusterSize) * clusterSize
          <5> DEFINE q == (offset + n) \div clusterSize
          <5>1. offset + n = q * clusterSize + ((offset + n) % clusterSize) /\ q \in Nat
            BY <4>2, OffsetDivided
          <5> HIDE DEF q
          <5>2. (offset + n) % clusterSize = 0 => offset + n = q * clusterSize
            BY <5>1, Sizes
          <5> QED
            BY <5>2 DEF q
        <4>6. (offset + n) \div clusterSize \in Nat
          BY <4>2, OffsetDivided
        <4> QED
          BY <4>1, <4>3, <4>4, <4>5, <4>6
      <3>2. CASE ~(n <= size - offset)
        BY <1>2, <1>4, <2>2, <3>2 DEF HasChain
      <3> QED
        BY <3>1, <3>2
    <2> HIDE DEF skipped
    <2>7. /\ io' \in IoType /\ io'.op = "read" /\ io'.bytesCount = n /\ io'.remaining = remaining
          /\ io'.skipped = skipped /\ io'.cluster = handle.currentCluster /\ io'.sector = 0
      BY <1>2, <1>5, <2>1, <2>4, <2>5 DEF NoIo, IoType
    <2>8. Len(given') = 0 /\ given' \in Seq(Byte)
      BY <1>1
    <2>9. ReadInv'
      <3>1. io'.sector <= SectorsPerCluster /\ io'.sector # SectorsPerCluster
            /\ io'.sector * SectorSize = 0
        BY <2>7, Sizes
      <3>2. /\ handle'.currentOffset + io'.remaining <= handle'.size
            /\ Len(given') + io'.remaining <= io'.bytesCount
        BY <1>1, <1>2, <1>5, <2>7, <2>8
      <3>3. handle'.currentOffset = Place(k, io'.sector, io'.skipped)
        <4>1. k \in Int
          BY <1>2, <2>2, AlongTheChain
        <4>2. (k - 1) * clusterSize \in Int
          BY <4>1, ClusterEnds
        <4> QED
          BY <1>1, <2>5, <2>7, <3>1, <4>2 DEF Place
      <3>4. k \in DOMAIN chain' /\ io'.cluster = chain'[k] /\ handle'.currentCluster = chain'[k]
        BY <1>1, <1>6, <2>3, <2>7
      <3>5. \/ handle'.currentOffset + io'.remaining = handle'.size
            \/ \E m \in Nat : handle'.currentOffset + io'.remaining = m * clusterSize
        BY <1>1, <2>6, <2>7
      <3>6. io'.sector * SectorSize + io'.skipped < clusterSize
        BY <2>5, <2>7, <3>1, Sizes
      <3> QED
        BY <1>6, <1>9, <2>2, <2>7, <3>1, <3>2, <3>3, <3>4, <3>5, <3>6 DEF ReadInv
    <2>10. PlacedInv' /\ SeekInv' /\ GivenInv'
      BY <1>1, <1>2, <1>6, <2>5, <2>7 DEF PlacedInv, SeekInv, GivenInv
    <2> QED
      BY <1>1, <1>3, <2>7, <2>8, <2>9, <2>10, StillOpen DEF FileTypes
  <1> QED
    BY <1>2, <1>8, <1>9 DEF EndOfChain

\* What the steps of a read know.
LEMMA Reading ==
    ASSUME IInv, handle.open, io.op = "read", io.remaining > 0, io.sector < SectorsPerCluster
    PROVE  /\ HasChain /\ DirInv /\ FileInv /\ PlacedInv /\ ReadInv /\ SeekInv /\ GivenInv /\ FileTypes
           /\ io.sector * SectorSize + io.skipped < clusterSize
           /\ \E k \in DOMAIN chain :
                /\ k \in Nat \ {0} /\ io.cluster = chain[k] /\ handle.currentCluster = chain[k]
                /\ chain[k] \in Nat /\ chain[k] >= 2 /\ chain[k] < EndOfChain
                /\ handle.currentOffset = Place(k, io.sector, io.skipped)
                /\ \/ handle.currentOffset + io.remaining = handle.size
                   \/ \E m \in Nat : handle.currentOffset + io.remaining = m * clusterSize
  <1>1. /\ DirInv /\ FileInv /\ PlacedInv /\ ReadInv /\ SeekInv /\ GivenInv /\ FileTypes
        /\ io.sector \in Nat /\ io.remaining \in Nat
    BY Opened DEF IInv
  <1>2. HasChain
    BY <1>1 DEF ReadInv
  <1>3. io.sector * SectorSize + io.skipped < clusterSize
    BY <1>1 DEF ReadInv
  <1>4. PICK k \in DOMAIN chain :
          /\ io.cluster = chain[k] /\ handle.currentCluster = chain[k]
          /\ handle.currentOffset = Place(k, io.sector, io.skipped)
          /\ \/ handle.currentOffset + io.remaining = handle.size
             \/ \E m \in Nat : handle.currentOffset + io.remaining = m * clusterSize
    BY <1>1 DEF ReadInv
  <1>5. k \in Nat \ {0} /\ chain[k] \in Nat /\ chain[k] >= 2 /\ chain[k] < EndOfChain
    BY <1>1, <1>2, AlongTheChain
  <1> QED
    BY <1>1, <1>2, <1>3, <1>4, <1>5

LEMMA CopySectorFails ==
    ASSUME IInv, handle.open, CopySector(FALSE)
    PROVE  IInv'
  <1>1. /\ io.op = "read" /\ io.remaining > 0 /\ io.sector < SectorsPerCluster
        /\ io' = Return /\ lost' = TRUE /\ UNCHANGED <<dirVars, handle, given>>
    BY DEF CopySector
  <1>2. /\ HasChain /\ DirInv /\ FileInv /\ PlacedInv /\ ReadInv /\ GivenInv /\ FileTypes
        /\ handle.currentOffset \in Nat /\ io.bytesCount \in Nat /\ io.skipped \in Nat
        /\ io.sector \in Nat /\ io.remaining \in Nat /\ Len(given) \in Nat
        /\ io.sector * SectorSize + io.skipped < clusterSize
    BY <1>1, Opened, Reading
  <1>3. /\ io' \in IoType /\ io'.op = "none" /\ io'.bytesCount = io.bytesCount /\ io'.remaining = 0
        /\ io'.skipped = 0
    BY <1>1, <1>2, RestIo DEF Return
  <1>4. chain' = chain /\ HasChain' = HasChain
    BY <1>1, <1>2, SameFile
  <1>5. PICK k \in DOMAIN chain :
          /\ k \in Nat \ {0} /\ io.cluster = chain[k] /\ handle.currentCluster = chain[k]
          /\ chain[k] < EndOfChain /\ handle.currentOffset = Place(k, io.sector, io.skipped)
    BY <1>1, Reading
  <1>6. InCluster(handle.currentOffset, k)
    BY <1>2, <1>5, PlaceInCluster
  <1>7. InCluster(handle'.currentOffset, k)
    BY <1>1, <1>6
  <1>8. PlacedInv'
    BY <1>1, <1>2, <1>4, <1>5, <1>7 DEF PlacedInv, InCluster
  <1>9. ReadInv' /\ SeekInv' /\ GivenInv'
    BY <1>1, <1>2, <1>3, <1>4, Sizes DEF ReadInv, SeekInv, GivenInv
  <1> QED
    BY <1>1, <1>2, <1>3, <1>8, <1>9, StillOpen DEF FileTypes

LEMMA SkipSector ==
    ASSUME IInv, handle.open, CopySector(TRUE), io.skipped >= SectorSize
    PROVE  IInv' /\ UNCHANGED <<dirVars, handle, given>>
  <1>1. /\ io.op = "read" /\ io.remaining > 0 /\ io.sector < SectorsPerCluster
        /\ io' = [io EXCEPT !.skipped = @ - SectorSize, !.sector = @ + 1]
        /\ UNCHANGED <<dirVars, handle, given, lost>>
    BY DEF CopySector
  <1>2. /\ HasChain /\ DirInv /\ FileInv /\ PlacedInv /\ ReadInv /\ GivenInv /\ FileTypes
        /\ handle.currentOffset \in Nat /\ io.bytesCount \in Nat /\ io.skipped \in Nat
        /\ io.sector \in Nat /\ io.remaining \in Nat /\ Len(given) \in Nat
        /\ io.sector * SectorSize + io.skipped < clusterSize
    BY <1>1, Opened, Reading
  <1>3. PICK k \in DOMAIN chain :
          /\ k \in Nat \ {0} /\ io.cluster = chain[k] /\ handle.currentCluster = chain[k]
          /\ handle.currentOffset = Place(k, io.sector, io.skipped)
          /\ \/ handle.currentOffset + io.remaining = handle.size
             \/ \E m \in Nat : handle.currentOffset + io.remaining = m * clusterSize
    BY <1>1, Reading
  <1> DEFINE sector == io.sector + 1
             skipped == io.skipped - SectorSize
  <1>4. /\ sector < SectorsPerCluster /\ skipped \in Nat /\ sector \in Nat
        /\ sector * SectorSize + skipped < clusterSize /\ skipped < clusterSize
        /\ Place(k, sector, skipped) = Place(k, io.sector, io.skipped)
    <2>1. /\ io.sector + 1 < SectorsPerCluster /\ io.skipped - SectorSize \in Nat
          /\ (io.sector + 1) * SectorSize + (io.skipped - SectorSize) < clusterSize
          /\ Place(k, io.sector + 1, io.skipped - SectorSize) = Place(k, io.sector, io.skipped)
      <3>1. SectorSize <= io.skipped
        BY <1>2, Sizes
      <3> QED
        BY <1>1, <1>2, <1>3, <3>1, SkippedPlace
    <2>2. sector \in Nat
      BY <1>2
    <2>3. skipped < clusterSize
      BY <1>2, Sizes DEF GivenInv
    <2> QED
      BY <2>1, <2>2, <2>3
  <1>5. io' = [io EXCEPT !.skipped = skipped, !.sector = sector]
    BY <1>1
  <1> HIDE DEF sector, skipped
  <1>6. /\ io' \in IoType /\ io'.op = "read" /\ io'.bytesCount = io.bytesCount
        /\ io'.remaining = io.remaining /\ io'.skipped = skipped
        /\ io'.sector = sector /\ io'.cluster = io.cluster
    BY <1>1, <1>2, <1>4, <1>5 DEF FileTypes, IoType
  <1>7. chain' = chain /\ HasChain' = HasChain
    BY <1>1, <1>2, SameFile
  <1>8. ReadInv'
    <2>1. /\ io'.sector <= SectorsPerCluster /\ io'.sector # SectorsPerCluster /\ io'.remaining # 0
          /\ io'.sector * SectorSize + io'.skipped < clusterSize
      <3>1. sector <= SectorsPerCluster /\ sector # SectorsPerCluster
        BY <1>4, Sizes
      <3>2. io.remaining # 0
        BY <1>1
      <3> QED
        BY <1>4, <1>6, <3>1, <3>2
    <2>2. /\ k \in DOMAIN chain' /\ io'.cluster = chain'[k] /\ handle'.currentCluster = chain'[k]
          /\ handle'.currentOffset = Place(k, io'.sector, io'.skipped)
      BY <1>1, <1>3, <1>4, <1>6, <1>7
    <2>3. \/ handle'.currentOffset + io'.remaining = handle'.size
          \/ \E m \in Nat : handle'.currentOffset + io'.remaining = m * clusterSize
      BY <1>1, <1>3, <1>6
    <2>4. /\ handle'.currentOffset + io'.remaining <= handle'.size
          /\ Len(given') + io'.remaining <= io'.bytesCount
      BY <1>1, <1>2, <1>6 DEF ReadInv
    <2> QED
      BY <1>2, <1>7, <2>1, <2>2, <2>3, <2>4 DEF ReadInv, Place
  <1>9. PlacedInv' /\ SeekInv' /\ GivenInv'
    BY <1>1, <1>2, <1>4, <1>6, <1>7 DEF PlacedInv, SeekInv, GivenInv
  <1> QED
    BY <1>1, <1>2, <1>6, <1>8, <1>9, StillOpen DEF FileTypes

\* A sequence with another one behind it.
LEMMA Followed ==
    ASSUME NEW S, NEW s \in Seq(S), NEW e \in Seq(S)
    PROVE  /\ s \o e \in Seq(S) /\ Len(s \o e) = Len(s) + Len(e)
           /\ \A i \in 1 .. Len(s) : (s \o e)[i] = s[i]
           /\ \A i \in 1 .. Len(e) : (s \o e)[Len(s) + i] = e[i]
  OBVIOUS

LEMMA IsFollowed ==
    ASSUME NEW S, NEW s \in Seq(S), NEW e \in Seq(S), NEW t \in Seq(S), Len(t) = Len(s) + Len(e),
           \A i \in 1 .. Len(s) : t[i] = s[i], \A i \in 1 .. Len(e) : t[Len(s) + i] = e[i]
    PROVE  t = s \o e
  <1> DEFINE n == Len(e)
  <1>1. Len(s) \in Nat /\ n \in Nat
    OBVIOUS
  <1>2. /\ \A i \in 1 .. Len(s) : (s \o e)[i] = s[i]
        /\ \A i \in 1 .. n : (s \o e)[Len(s) + i] = e[i]
    OBVIOUS
  <1>3. s \o e \in Seq(S) /\ Len(s \o e) = Len(s) + n
    OBVIOUS
  <1>4. ASSUME NEW i \in 1 .. (Len(s) + n) PROVE t[i] = (s \o e)[i]
    <2>1. CASE i <= Len(s)
      <3>1. i \in 1 .. Len(s)
        BY <1>1, <2>1
      <3>2. (s \o e)[i] = s[i] /\ t[i] = s[i]
        BY <1>2, <3>1
      <3> QED
        BY <3>2
    <2>2. CASE ~(i <= Len(s))
      <3>1. PICK j \in 1 .. n : i = Len(s) + j
        <4>1. i - Len(s) \in 1 .. n /\ i = Len(s) + (i - Len(s))
          BY <1>1, <2>2
        <4> QED
          BY <4>1
      <3>2. (s \o e)[Len(s) + j] = e[j] /\ t[Len(s) + j] = e[j]
        BY <1>2
      <3> QED
        BY <3>1, <3>2
    <2> QED
      BY <2>1, <2>2
  <1> QED
    BY <1>3, <1>4, SeqEqual

\* What copying from a sector does.
LEMMA Copied ==
    ASSUME IInv, handle.open, CopySector(TRUE), io.skipped < SectorSize
    PROVE  LET toCopy == Min({SectorSize - io.skipped, io.remaining})
               lba == ClusterToLba(io.cluster) + io.sector
           IN  /\ toCopy \in Nat \ {0} /\ toCopy <= io.remaining /\ toCopy <= SectorSize - io.skipped
               /\ toCopy < io.remaining => toCopy = SectorSize - io.skipped
               /\ \A i \in 1 .. Len(given) : given'[i] = given[i]
               /\ \A i \in 1 .. toCopy : given'[Len(given) + i] = <<lba, io.skipped + i - 1>>
               /\ handle' = [handle EXCEPT !.currentOffset = @ + toCopy]
               /\ io' = [io EXCEPT !.remaining = @ - toCopy, !.skipped = 0, !.sector = @ + 1]
               /\ UNCHANGED <<dirVars, lost>>
               /\ given' \in Seq(Byte) /\ Len(given') = Len(given) + toCopy
  <1> DEFINE toCopy == Min({SectorSize - io.skipped, io.remaining})
             lba == ClusterToLba(io.cluster) + io.sector
             more == [i \in 1 .. toCopy |-> <<lba, io.skipped + i - 1>>]
  <1>1. io.op = "read" /\ io.remaining > 0 /\ io.sector < SectorsPerCluster
    BY DEF CopySector
  <1>2. /\ DirInv /\ FileInv /\ FileTypes /\ given \in Seq(Byte) /\ io.sector \in Nat
        /\ io.skipped \in Nat /\ io.remaining \in Nat
    BY <1>1, Opened, Reading
  <1>3. io.cluster \in Nat /\ io.cluster >= 2
    BY <1>1, Reading
  <1>4. /\ toCopy \in Nat \ {0} /\ toCopy <= io.remaining /\ toCopy <= SectorSize - io.skipped
        /\ toCopy < io.remaining => toCopy = SectorSize - io.skipped
    <2>1. io.remaining \in Nat \ {0}
      BY <1>1, <1>2
    <2> HIDE DEF toCopy
    <2>2. toCopy = Min({SectorSize - io.skipped, io.remaining})
      BY DEF toCopy
    <2> QED
      BY <1>2, <2>1, <2>2, CopiedBytes
  <1>5. /\ given' = given \o more
        /\ handle' = [handle EXCEPT !.currentOffset = @ + toCopy]
        /\ io' = [io EXCEPT !.remaining = @ - toCopy, !.skipped = 0, !.sector = @ + 1]
        /\ UNCHANGED <<dirVars, lost>>
    <2>1. ~(io.skipped >= SectorSize)
      BY <1>2, Sizes
    <2> QED
      BY <2>1 DEF CopySector
  <1>6. lba \in Nat
    <2>1. fatData.clusterStartLba = image.firstLba /\ image.firstLba \in Nat
      BY <1>2, VolumeAssumption DEF DirInv, FileInv, Mounted
    <2>2. io.cluster - 2 \in Nat
      BY <1>3
    <2>3. (io.cluster - 2) * SectorsPerCluster \in Nat
      BY <2>2, Sizes
    <2> QED
      BY <1>2, <2>1, <2>3 DEF ClusterToLba
  <1> HIDE DEF toCopy, lba
  <1>7. more \in Seq(Byte) /\ Len(more) = toCopy
        /\ \A i \in 1 .. toCopy : more[i] = <<lba, io.skipped + i - 1>>
    <2>1. \A i \in 1 .. toCopy : <<lba, io.skipped + i - 1>> \in Byte
      BY <1>2, <1>4, <1>6 DEF Byte
    <2>2. toCopy \in Nat
      BY <1>4
    <2> QED
      BY <2>1, <2>2
  <1> HIDE DEF more
  <1>8. /\ given' \in Seq(Byte) /\ Len(given') = Len(given) + toCopy
        /\ \A i \in 1 .. Len(given) : given'[i] = given[i]
        /\ \A i \in 1 .. toCopy : given'[Len(given) + i] = more[i]
    <2>0. given \in Seq(Byte) /\ more \in Seq(Byte)
      BY <1>2, <1>7
    <2>1. /\ given \o more \in Seq(Byte) /\ Len(given \o more) = Len(given) + Len(more)
          /\ \A i \in 1 .. Len(given) : (given \o more)[i] = given[i]
          /\ \A i \in 1 .. Len(more) : (given \o more)[Len(given) + i] = more[i]
      BY <2>0, Followed
    <2>2. given' = given \o more /\ Len(more) = toCopy
      BY <1>5, <1>7
    <2> QED
      BY <2>1, <2>2
  <1> QED
    BY <1>4, <1>5, <1>7, <1>8 DEF toCopy, lba

LEMMA CopyStep ==
    ASSUME IInv, handle.open, CopySector(TRUE), io.skipped < SectorSize
    PROVE  IInv'
  <1> DEFINE toCopy == Min({SectorSize - io.skipped, io.remaining})
             offset == handle.currentOffset + toCopy
             remaining == io.remaining - toCopy
             sector == io.sector + 1
  <1>1. /\ toCopy \in Nat \ {0} /\ toCopy <= io.remaining /\ toCopy <= SectorSize - io.skipped
        /\ toCopy < io.remaining => toCopy = SectorSize - io.skipped
        /\ handle' = [handle EXCEPT !.currentOffset = offset]
        /\ io' = [io EXCEPT !.remaining = remaining, !.skipped = 0, !.sector = sector]
        /\ UNCHANGED <<dirVars, lost>>
        /\ given' \in Seq(Byte) /\ Len(given') = Len(given) + toCopy
    BY Copied
  <1>2. io.op = "read" /\ io.remaining > 0 /\ io.sector < SectorsPerCluster
    BY DEF CopySector
  <1>3. /\ HasChain /\ DirInv /\ FileInv /\ PlacedInv /\ ReadInv /\ GivenInv /\ FileTypes
        /\ handle.currentOffset \in Nat /\ handle.size \in Nat /\ io.bytesCount \in Nat
        /\ io.skipped \in Nat /\ io.sector \in Nat /\ io.remaining \in Nat /\ Len(given) \in Nat
    BY <1>2, Opened, Reading
  <1>4. PICK k \in DOMAIN chain :
          /\ k \in Nat \ {0} /\ io.cluster = chain[k] /\ handle.currentCluster = chain[k]
          /\ handle.currentOffset = Place(k, io.sector, io.skipped)
          /\ \/ handle.currentOffset + io.remaining = handle.size
             \/ \E m \in Nat : handle.currentOffset + io.remaining = m * clusterSize
    BY <1>2, Reading
  <1>5. /\ toCopy < io.remaining => offset = Place(k, sector, 0)
        /\ sector < SectorsPerCluster => sector * SectorSize + 0 < clusterSize
        /\ toCopy = io.remaining =>
             \A m \in Int : handle.currentOffset + io.remaining = m * clusterSize => m = k
    <2>1. io.remaining \in Nat \ {0} /\ k \in Int
      BY <1>2, <1>3, <1>4
    <2> HIDE DEF toCopy
    <2>2. /\ handle.currentOffset + (SectorSize - io.skipped) = Place(k, sector, 0)
          /\ sector < SectorsPerCluster => sector * SectorSize + 0 < clusterSize
      BY <1>2, <1>3, <1>4, <2>1, CopiedPlace
    <2>3. ASSUME toCopy = io.remaining, NEW m \in Int,
                 handle.currentOffset + io.remaining = m * clusterSize
          PROVE  m = k
      <3>1. io.remaining <= SectorSize - io.skipped
        BY <1>1, <2>3
      <3>2. /\ io.sector \in Nat /\ io.skipped \in Nat /\ io.sector < SectorsPerCluster
            /\ handle.currentOffset = Place(k, io.sector, io.skipped)
        BY <1>2, <1>3, <1>4
      <3> QED
        BY <2>1, <2>3, <3>1, <3>2, LastPlace
    <2> HIDE DEF sector
    <2> QED
      BY <1>1, <2>2, <2>3
  <1> HIDE DEF toCopy
  <1>6. /\ remaining \in Nat /\ offset \in Nat /\ sector \in Nat /\ sector <= SectorsPerCluster
        /\ offset + remaining = handle.currentOffset + io.remaining
        /\ Len(given') + remaining = Len(given) + io.remaining
        /\ (remaining = 0 <=> toCopy = io.remaining) /\ (remaining > 0 <=> toCopy < io.remaining)
        /\ Len(given') > 0
    <2>1. sector \in Nat /\ sector <= SectorsPerCluster
      BY <1>2, <1>3, Sizes
    <2> HIDE DEF sector
    <2>2. remaining \in Nat /\ offset \in Nat
      <3>1. /\ toCopy \in Nat /\ toCopy <= io.remaining
            /\ io.remaining \in Nat /\ handle.currentOffset \in Nat
        BY <1>1, <1>3
      <3> QED
        BY <3>1
    <2>5. Len(given') > 0
      <3>1. Len(given') = Len(given) + toCopy /\ toCopy > 0 /\ toCopy \in Nat
        BY <1>1
      <3> QED
        BY <1>3, <3>1
    <2>3. (remaining = 0 <=> toCopy = io.remaining) /\ (remaining > 0 <=> toCopy < io.remaining)
      <3>1. toCopy \in Nat /\ toCopy <= io.remaining /\ io.remaining \in Nat
        BY <1>1, <1>3
      <3> QED
        BY <3>1
    <2>4. /\ offset + remaining = handle.currentOffset + io.remaining
          /\ Len(given') + remaining = Len(given) + io.remaining
      <3>1. \A a, b, c \in Nat : a + b + (c - b) = a + c
        OBVIOUS
      <3>2. toCopy \in Nat /\ Len(given') = Len(given) + toCopy
        BY <1>1
      <3> QED
        BY <1>3, <3>1, <3>2
    <2> QED
      BY <2>1, <2>2, <2>5, <2>3, <2>4
  <1> HIDE DEF offset, remaining, sector
  <1>7. /\ io' \in IoType /\ io'.op = "read" /\ io'.bytesCount = io.bytesCount
        /\ io'.remaining = remaining /\ io'.skipped = 0
        /\ io'.sector = sector /\ io'.cluster = io.cluster
    BY <1>1, <1>2, <1>3, <1>6 DEF FileTypes, IoType
  <1>8. /\ handle' \in HandleType /\ handle'.currentOffset = offset
        /\ handle'.open = handle.open /\ handle'.size = handle.size
        /\ handle'.isDirectory = handle.isDirectory
        /\ handle'.firstCluster = handle.firstCluster
        /\ handle'.currentCluster = handle.currentCluster
    BY <1>1, <1>3, <1>6 DEF FileTypes, HandleType
  <1>9. chain' = chain /\ HasChain' = HasChain
    BY <1>1, <1>3, <1>8, SameFile
  <1>10. offset + remaining <= handle.size /\ Len(given') + remaining <= io.bytesCount
    BY <1>2, <1>3, <1>6 DEF ReadInv
  <1>11. ReadInv'
    <2>1. /\ io'.sector <= SectorsPerCluster
          /\ io'.sector < SectorsPerCluster => io'.sector * SectorSize + io'.skipped < clusterSize
      BY <1>5, <1>6, <1>7
    <2>2. k \in DOMAIN chain' /\ io'.cluster = chain'[k] /\ handle'.currentCluster = chain'[k]
      BY <1>4, <1>7, <1>8, <1>9
    <2>3. io'.remaining > 0 =>
            /\ handle'.currentOffset = Place(k, io'.sector, io'.skipped)
            /\ \/ handle'.currentOffset + io'.remaining = handle'.size
               \/ \E m \in Nat : handle'.currentOffset + io'.remaining = m * clusterSize
      BY <1>4, <1>5, <1>6, <1>7, <1>8
    <2>4. io'.remaining = 0 =>
            handle'.currentOffset = handle'.size \/ handle'.currentOffset = k * clusterSize
      <3> SUFFICES ASSUME remaining = 0 PROVE offset = handle.size \/ offset = k * clusterSize
        BY <1>7, <1>8
      <3>1. offset = handle.currentOffset + io.remaining /\ toCopy = io.remaining
        BY <1>6
      <3> QED
        BY <1>4, <1>5, <3>1
    <2>5. given' # <<>>
      BY <1>6
    <2>6. /\ handle'.currentOffset + io'.remaining <= handle'.size
          /\ Len(given') + io'.remaining <= io'.bytesCount
      BY <1>7, <1>8, <1>10
    <2> QED
      BY <1>3, <1>7, <1>9, <2>1, <2>2, <2>3, <2>4, <2>5, <2>6 DEF ReadInv, Place
  <1>12. handle'.currentOffset <= handle'.size
    BY <1>3, <1>6, <1>8, <1>10
  <1>13. PlacedInv' /\ SeekInv' /\ GivenInv'
    BY <1>3, <1>7, <1>9, <1>12, Sizes DEF PlacedInv, SeekInv, GivenInv
  <1> QED
    BY <1>1, <1>3, <1>7, <1>8, <1>11, <1>13, StillOpen DEF FileTypes

\* The file goes on behind the k-th cluster: then so does the chain.
LEMMA ChainGoesOn ==
    ASSUME DirInv, FileInv, HasChain, handle.size \in Nat, NEW k \in DOMAIN chain,
           k * clusterSize < handle.size
    PROVE  /\ NextCluster(chain[k], TRUE) = chain[k + 1] /\ k + 1 \in DOMAIN chain
           /\ chain[k + 1] < EndOfChain
  <1>1. /\ k \in Nat \ {0}
        /\ k # Len(chain) => NextCluster(chain[k], TRUE) = chain[k + 1] /\ k + 1 \in DOMAIN chain
    BY AlongTheChain
  <1>2. k # Len(chain)
    <2>1. Len(chain) * clusterSize >= handle.size
      BY DEF FileInv
    <2> DEFINE last == Len(chain) * clusterSize
    <2>2. ASSUME k = Len(chain) PROVE FALSE
      <3>1. k * clusterSize = last
        BY <2>2
      <3>2. last \in Int
        BY <2>2, <1>1, Sizes
      <3> HIDE DEF last
      <3>3. last >= handle.size
        BY <2>1 DEF last
      <3>4. last < handle.size
        BY <3>1
      <3> QED
        BY <3>2, <3>3, <3>4
    <2> QED
      BY <2>2
  <1>3. k + 1 \in DOMAIN chain
    BY <1>1, <1>2
  <1>4. chain[k + 1] < EndOfChain
    BY <1>3, AlongTheChain
  <1> QED
    BY <1>1, <1>2, <1>4

LEMMA LeaveClusterStep ==
    ASSUME IInv, handle.open, NEW ok \in BOOLEAN, LeaveCluster(ok)
    PROVE  IInv'
  <1> DEFINE next == NextCluster(io.cluster, ok)
             onwards == [io EXCEPT !.cluster = next, !.sector = 0]
  <1>1. /\ io.op = "read" /\ (io.remaining = 0 \/ io.sector = SectorsPerCluster)
        /\ handle' = [handle EXCEPT !.currentCluster = next]
        /\ io' = IF next >= EndOfChain \/ io.remaining = 0 THEN Return ELSE onwards
        /\ lost' = (lost \/ ~ok)
        /\ UNCHANGED <<dirVars, given>>
    BY DEF LeaveCluster
  <1>2. /\ DirInv /\ FileInv /\ PlacedInv /\ ReadInv /\ GivenInv /\ image \in Images
        /\ handle.currentOffset \in Nat /\ handle.size \in Nat /\ io.bytesCount \in Nat
        /\ io.skipped \in Nat /\ io.sector \in Nat /\ io.remaining \in Nat /\ io.cluster \in Nat
        /\ Len(given) \in Nat
    BY <1>1, Opened DEF DirInv
  <1>3. FileTypes /\ HasChain
    BY <1>1, <1>2 DEF IInv, ReadInv
  <1>4. next \in Nat /\ EndOfChain \in Nat
    BY <1>2, NextClusterIsNat DEF EndOfChain
  <1>5. ~ok => next >= EndOfChain
    <2>1. ~ok => next = EndOfChain + 1
      BY DEF NextCluster
    <2> QED
      BY <1>4, <2>1
  <1>6. PICK k \in DOMAIN chain :
          /\ io.cluster = chain[k] /\ handle.currentCluster = chain[k]
          /\ io.remaining > 0 =>
               /\ handle.currentOffset = Place(k, io.sector, io.skipped)
               /\ \/ handle.currentOffset + io.remaining = handle.size
                  \/ \E m \in Nat : handle.currentOffset + io.remaining = m * clusterSize
          /\ io.remaining = 0 =>
               handle.currentOffset = handle.size \/ handle.currentOffset = k * clusterSize
    BY <1>1, <1>2 DEF ReadInv
  <1>7. k \in Nat \ {0}
    BY <1>2, <1>3, AlongTheChain
  <1>8. handle.currentOffset = handle.size \/ handle.currentOffset = k * clusterSize
    <2> SUFFICES ASSUME io.remaining > 0 PROVE handle.currentOffset = k * clusterSize
      BY <1>2, <1>6
    <2>1. io.sector = SectorsPerCluster
      BY <1>1, <1>2
    <2>2. io.skipped = 0
      BY <1>1, <1>2, <2>1 DEF ReadInv
    <2>3. Place(k, SectorsPerCluster, 0) = k * clusterSize
      BY <1>7, NextClusterStarts
    <2> QED
      BY <1>6, <2>1, <2>2, <2>3
  <1>9. ok /\ handle.currentOffset < handle.size =>
          k + 1 \in DOMAIN chain /\ next = chain[k + 1] /\ next < EndOfChain
    <2> SUFFICES ASSUME ok, handle.currentOffset < handle.size
                 PROVE  k + 1 \in DOMAIN chain /\ next = chain[k + 1] /\ next < EndOfChain
      OBVIOUS
    <2>1. handle.currentOffset = k * clusterSize
      BY <1>2, <1>8
    <2>2. ok = TRUE
      OBVIOUS
    <2>3. k * clusterSize < handle.size
      BY <2>1
    <2> QED
      BY <1>2, <1>3, <1>6, <2>2, <2>3, ChainGoesOn
  <1> HIDE DEF next
  <1>10. /\ handle' \in HandleType /\ handle'.currentOffset = handle.currentOffset
         /\ handle'.open = handle.open /\ handle'.size = handle.size
         /\ handle'.isDirectory = handle.isDirectory
         /\ handle'.firstCluster = handle.firstCluster
         /\ handle'.currentCluster = next
    BY <1>1, <1>3, <1>4 DEF FileTypes, HandleType
  <1>11. chain' = chain /\ HasChain' = HasChain
    BY <1>1, <1>2, <1>10, SameFile
  <1>12. lost' \in BOOLEAN /\ (lost' <=> lost \/ ~ok)
    BY <1>1
  <1>13. CASE next >= EndOfChain \/ io.remaining = 0
    <2>1. /\ io' \in IoType /\ io'.op = "none" /\ io'.bytesCount = io.bytesCount /\ io'.remaining = 0
          /\ io'.skipped = 0
      BY <1>1, <1>2, <1>13, RestIo DEF Return
    <2>2. PlacedInv'
      <3> SUFFICES ASSUME handle.currentOffset < handle.size
                   PROVE  \/ /\ next < EndOfChain
                             /\ \E j \in DOMAIN chain : next = chain[j] /\ InCluster(handle.currentOffset, j)
                          \/ next >= EndOfChain /\ lost'
        BY <1>2, <1>10, <1>11 DEF PlacedInv, InCluster
      <3>1. CASE ~ok
        BY <1>5, <1>12, <3>1
      <3>2. CASE ok
        <4>1. k + 1 \in DOMAIN chain /\ next = chain[k + 1] /\ next < EndOfChain
          BY <1>9, <3>2
        <4>2. InCluster(handle.currentOffset, k + 1)
          <5>1. handle.currentOffset = k * clusterSize
            BY <1>2, <1>8
          <5>2. InCluster(k * clusterSize, k + 1)
            BY <1>7, NextClusterStarts
          <5> QED
            BY <5>1, <5>2
        <4> QED
          BY <4>1, <4>2
      <3> QED
        BY <3>1, <3>2
    <2>3. given = <<>> => lost'
      <3> SUFFICES ASSUME io.remaining > 0 PROVE lost'
        BY <1>1, <1>2 DEF ReadInv
      <3>1. handle.currentOffset < handle.size
        BY <1>1, <1>2 DEF ReadInv
      <3> QED
        BY <1>2, <1>4, <1>9, <1>12, <1>13, <3>1
    <2>4. Len(given) <= io.bytesCount
      BY <1>1, <1>2 DEF ReadInv
    <2>5. ReadInv' /\ SeekInv' /\ GivenInv'
      BY <1>1, <1>3, <1>11, <2>1, <2>3, <2>4, Sizes DEF ReadInv, SeekInv, GivenInv
    <2> QED
      BY <1>1, <1>3, <1>10, <1>12, <2>1, <2>2, <2>5, StillOpen DEF FileTypes
  <1>14. CASE ~(next >= EndOfChain \/ io.remaining = 0)
    <2>1. io' = onwards
      BY <1>1, <1>14
    <2>2. /\ io' \in IoType /\ io'.op = "read" /\ io'.bytesCount = io.bytesCount
          /\ io'.remaining = io.remaining /\ io'.skipped = io.skipped
          /\ io'.sector = 0 /\ io'.cluster = next
      <3>1. io \in IoType /\ next \in Nat /\ io.op = "read"
        BY <1>1, <1>3, <1>4 DEF FileTypes
      <3> QED
        BY <2>1, <3>1 DEF IoType
    <2>3. ok /\ io.remaining > 0
      BY <1>2, <1>5, <1>14
    <2>4. handle.currentOffset < handle.size
      BY <1>1, <1>2, <2>3 DEF ReadInv
    <2>5. io.skipped = 0
      <3>1. io.sector = SectorsPerCluster
        BY <1>1, <1>2, <2>3
      <3> QED
        BY <1>1, <1>2, <3>1 DEF ReadInv
    <2>6. k + 1 \in DOMAIN chain /\ next = chain[k + 1]
      BY <1>9, <2>3, <2>4
    <2>7. handle.currentOffset = Place(k + 1, 0, 0)
      <3>1. handle.currentOffset = k * clusterSize
        BY <1>2, <1>8, <2>4
      <3> QED
        BY <1>7, <3>1, NextClusterStarts
    <2>8. ReadInv'
      <3>1. /\ io'.sector <= SectorsPerCluster /\ io'.sector # SectorsPerCluster
            /\ io'.sector * SectorSize + io'.skipped < clusterSize
        <4>1. 0 * SectorSize = 0 /\ 0 <= SectorsPerCluster /\ 0 # SectorsPerCluster /\ 0 < clusterSize
          BY Sizes
        <4> QED
          BY <2>2, <2>5, <4>1
      <3>2. /\ k + 1 \in DOMAIN chain' /\ io'.cluster = chain'[k + 1]
            /\ handle'.currentCluster = chain'[k + 1]
            /\ handle'.currentOffset = Place(k + 1, io'.sector, io'.skipped)
        BY <1>10, <1>11, <2>2, <2>5, <2>6, <2>7
      <3>3. \/ handle'.currentOffset + io'.remaining = handle'.size
            \/ \E m \in Nat : handle'.currentOffset + io'.remaining = m * clusterSize
        BY <1>6, <1>10, <2>2, <2>3
      <3>4. /\ handle'.currentOffset + io'.remaining <= handle'.size
            /\ Len(given') + io'.remaining <= io'.bytesCount
        BY <1>1, <1>2, <1>10, <2>2 DEF ReadInv
      <3>5. io'.remaining # 0
        BY <1>14, <2>2
      <3> QED
        BY <1>3, <1>11, <3>1, <3>2, <3>3, <3>4, <3>5 DEF ReadInv, Place
    <2>9. PlacedInv' /\ SeekInv' /\ GivenInv'
      BY <1>1, <1>2, <1>3, <1>10, <1>11, <2>2, <2>5, Sizes DEF PlacedInv, SeekInv, GivenInv
    <2> QED
      BY <1>1, <1>3, <1>10, <1>12, <2>2, <2>8, <2>9, StillOpen DEF FileTypes
  <1> QED
    BY <1>13, <1>14

-----------------------------------------------------------------------------
(* FAT32_Seek. *)

LEMMA RestIsIdle ==
    NoIo \in IoType /\ NoIo.op = "none" /\ NoIo.bytesCount = 0 /\ NoIo.remaining = 0 /\ NoIo.skipped = 0
  BY DEF NoIo, IoType

LEMMA StartSeekStep ==
    ASSUME IInv, NEW offset \in SeekOffsets, StartSeek(offset)
    PROVE  IInv'
  <1> DEFINE left == offset \div clusterSize
  <1>1. /\ handle.open /\ io.op = "none" /\ offset <= handle.size /\ given' = <<>>
        /\ io' = [NoIo EXCEPT !.op = "seek", !.offset = offset, !.cluster = handle.firstCluster,
                              !.left = left]
        /\ UNCHANGED <<dirVars, handle, lost>>
    BY DEF StartSeek, Ready, Inside
  <1>2. /\ DirInv /\ FileInv /\ PlacedInv /\ GivenInv /\ offset \in Nat /\ handle.firstCluster \in Nat
    BY <1>1, Opened, CallersAssumption
  <1>3. FileTypes
    BY DEF IInv
  <1>4. left \in Nat /\ InCluster(offset, left + 1)
    BY <1>2, OffsetDivided
  <1> HIDE DEF left
  <1>5. /\ io' \in IoType /\ io'.op = "seek" /\ io'.bytesCount = 0 /\ io'.remaining = 0
        /\ io'.skipped = 0 /\ io'.offset = offset /\ io'.cluster = handle.firstCluster
        /\ io'.left = left
    BY <1>1, <1>2, <1>4 DEF NoIo, IoType
  <1>6. chain' = chain /\ HasChain' = HasChain
    BY <1>1, <1>2, SameFile
  <1>7. PlacedInv'
    BY <1>1, <1>2, <1>5, <1>6 DEF PlacedInv, InCluster
  <1>8. SeekInv'
    <2> SUFFICES ASSUME HasChain, offset < handle.size
                 PROVE  \E k \in DOMAIN chain : handle.firstCluster = chain[k] /\ InCluster(offset, k + left)
      BY <1>1, <1>5, <1>6 DEF SeekInv, InCluster
    <2>1. chain[1] = handle.firstCluster /\ chain # <<>> /\ chain \in Seq(2 .. (EndOfChain - 1))
      BY <1>2 DEF FileInv, Linked, Follows
    <2>2. 1 \in DOMAIN chain
      BY <2>1
    <2>3. 1 + left = left + 1
      BY <1>4
    <2>4. InCluster(offset, 1 + left)
      BY <1>4, <2>3
    <2> QED
      BY <2>1, <2>2, <2>4
  <1>9. ReadInv' /\ GivenInv'
    BY <1>1, <1>5, Sizes DEF ReadInv, GivenInv
  <1>10. given' \in Seq(Byte)
    BY <1>1
  <1> QED
    BY <1>1, <1>3, <1>5, <1>7, <1>8, <1>9, <1>10, StillOpen DEF FileTypes

LEMMA SeekClusterStep ==
    ASSUME IInv, handle.open, NEW ok \in BOOLEAN, SeekCluster(ok)
    PROVE  IInv'
  <1> DEFINE next == NextCluster(io.cluster, ok)
             left == io.left - 1
  <1>1. /\ io.op = "seek" /\ io.left > 0
        /\ io' = IF next >= EndOfChain THEN NoIo ELSE [io EXCEPT !.cluster = next, !.left = left]
        /\ UNCHANGED <<dirVars, handle, given, lost>>
    BY DEF SeekCluster
  <1>2. /\ DirInv /\ FileInv /\ PlacedInv /\ SeekInv /\ GivenInv /\ FileTypes /\ image \in Images
        /\ io.left \in Nat /\ io.cluster \in Nat
    BY <1>1, Opened DEF IInv, DirInv
  <1>3. next \in Nat /\ EndOfChain \in Nat /\ (~ok => next = EndOfChain + 1)
    BY <1>2, NextClusterIsNat DEF EndOfChain, NextCluster
  <1>4. chain' = chain /\ HasChain' = HasChain
    BY <1>1, <1>2, SameFile
  <1>5. io'.op # "read" => PlacedInv'
    BY <1>1, <1>2, <1>4 DEF PlacedInv, InCluster
  <1>6. CASE next >= EndOfChain
    <2>1. io' = NoIo
      BY <1>1, <1>6
    <2>2. /\ io'.op = "none" /\ io'.bytesCount = 0 /\ io'.remaining = 0 /\ io'.skipped = 0
          /\ given' = <<>> /\ Len(given') = 0
      <3>1. given' = <<>>
        BY <1>1, <1>2 DEF GivenInv
      <3> QED
        BY <2>1, <3>1, RestIsIdle
    <2>3. ReadInv' /\ SeekInv' /\ PlacedInv'
      BY <1>5, <2>2 DEF ReadInv, SeekInv
    <2>4. GivenInv'
      BY <2>2, Sizes DEF GivenInv
    <2> QED
      BY <1>1, <1>2, <2>1, <2>3, <2>4, RestIsIdle, StillOpen DEF FileTypes
  <1>7. CASE ~(next >= EndOfChain)
    <2>1. ok
      BY <1>3, <1>7
    <2>2. left \in Nat /\ io' = [io EXCEPT !.cluster = next, !.left = left]
      BY <1>1, <1>2, <1>7
    <2>3. HasChain /\ io.offset < handle.size =>
            \E k \in DOMAIN chain : next = chain[k] /\ InCluster(io.offset, k + left)
      <3> SUFFICES ASSUME HasChain, io.offset < handle.size
                   PROVE  \E k \in DOMAIN chain : next = chain[k] /\ InCluster(io.offset, k + left)
        OBVIOUS
      <3>1. PICK k \in DOMAIN chain : io.cluster = chain[k] /\ InCluster(io.offset, k + io.left)
        BY <1>1, <1>2 DEF SeekInv
      <3>2. /\ k \in Nat \ {0}
            /\ k = Len(chain) => NextCluster(chain[k], TRUE) >= EndOfChain
            /\ k # Len(chain) => NextCluster(chain[k], TRUE) = chain[k + 1] /\ k + 1 \in DOMAIN chain
        BY <1>2, AlongTheChain
      <3>3. next = NextCluster(chain[k], TRUE)
        <4>1. ok = TRUE
          BY <2>1
        <4> QED
          BY <3>1, <4>1
      <3>4. k + 1 \in DOMAIN chain /\ next = chain[k + 1]
        BY <1>7, <3>2, <3>3
      <3>5. k + 1 + left = k + io.left
        BY <1>2, <3>2
      <3>6. InCluster(io.offset, k + 1 + left)
        BY <3>1, <3>5
      <3> QED
        BY <3>4, <3>6
    <2> HIDE DEF next, left
    <2>4. /\ io' \in IoType /\ io'.op = "seek" /\ io'.bytesCount = io.bytesCount
          /\ io'.remaining = io.remaining /\ io'.skipped = io.skipped
          /\ io'.offset = io.offset /\ io'.cluster = next /\ io'.left = left
      <3>1. io \in IoType /\ next \in Nat /\ io.op = "seek"
        BY <1>1, <1>2, <1>3 DEF FileTypes
      <3> QED
        BY <2>2, <3>1 DEF IoType
    <2>5. SeekInv'
      BY <1>1, <1>2, <1>4, <2>3, <2>4 DEF SeekInv, InCluster
    <2>6. ReadInv' /\ GivenInv' /\ PlacedInv'
      BY <1>1, <1>2, <1>4, <1>5, <2>4 DEF ReadInv, GivenInv
    <2> QED
      BY <1>1, <1>2, <2>4, <2>5, <2>6, StillOpen DEF FileTypes
  <1> QED
    BY <1>6, <1>7

LEMMA EndSeekStep ==
    ASSUME IInv, handle.open, EndSeek
    PROVE  IInv'
  <1>1. /\ io.op = "seek" /\ io.left = 0 /\ io' = NoIo /\ lost' = FALSE
        /\ handle' = [handle EXCEPT !.currentOffset = io.offset, !.currentCluster = io.cluster]
        /\ UNCHANGED <<dirVars, given>>
    BY DEF EndSeek, Moved
  <1>2. /\ DirInv /\ FileInv /\ PlacedInv /\ SeekInv /\ GivenInv /\ FileTypes
        /\ io.offset \in Nat /\ io.cluster \in Nat /\ handle.size \in Nat
    BY <1>1, Opened DEF IInv
  <1>3. /\ handle' \in HandleType /\ handle'.currentOffset = io.offset
        /\ handle'.open = handle.open /\ handle'.size = handle.size
        /\ handle'.isDirectory = handle.isDirectory
        /\ handle'.firstCluster = handle.firstCluster
        /\ handle'.currentCluster = io.cluster
    BY <1>1, <1>2 DEF FileTypes, HandleType
  <1>4. chain' = chain /\ HasChain' = HasChain
    BY <1>1, <1>2, <1>3, SameFile
  <1>5. PlacedInv'
    <2>1. io.offset <= handle.size
      BY <1>1, <1>2 DEF SeekInv
    <2>2. HasChain /\ io.offset < handle.size =>
            /\ io.cluster < EndOfChain
            /\ \E k \in DOMAIN chain : io.cluster = chain[k] /\ InCluster(io.offset, k)
      <3> SUFFICES ASSUME HasChain, io.offset < handle.size
                   PROVE  /\ io.cluster < EndOfChain
                          /\ \E k \in DOMAIN chain : io.cluster = chain[k] /\ InCluster(io.offset, k)
        OBVIOUS
      <3>1. PICK k \in DOMAIN chain : io.cluster = chain[k] /\ InCluster(io.offset, k + io.left)
        BY <1>1, <1>2 DEF SeekInv
      <3>2. k \in Nat \ {0} /\ chain[k] < EndOfChain
        BY <1>2, AlongTheChain
      <3>3. k + io.left = k
        BY <1>1, <3>2
      <3> QED
        BY <3>1, <3>2, <3>3
    <2> QED
      BY <1>3, <1>4, <2>1, <2>2 DEF PlacedInv, InCluster
  <1>6. ReadInv' /\ SeekInv' /\ GivenInv'
    BY <1>1, <1>2, RestIsIdle, Sizes DEF ReadInv, SeekInv, GivenInv
  <1> QED
    BY <1>1, <1>2, <1>3, <1>5, <1>6, RestIsIdle, StillOpen DEF FileTypes

-----------------------------------------------------------------------------
(* The invariant. *)

LEMMA IInvInit == Init => IInv
  <1> SUFFICES ASSUME Init PROVE IInv
    OBVIOUS
  <1>1. /\ image \in Images /\ fatData = NoData /\ search = Idle /\ answer = NoAnswer /\ outcome = "ok"
        /\ handle = NoHandle /\ io = NoIo /\ given = <<>> /\ lost = FALSE
    BY DEF Init, DirInit
  <1>2. ~NoData.mounted /\ NoAnswer.found = {} /\ ~NoHandle.open /\ NoHandle \in HandleType
    BY DEF NoData, NoAnswer, NoHandle, HandleType
  <1>3. WalkInv(search)
    BY <1>1, IdleWalk
  <1>4. DirInv
    BY <1>1, <1>2, <1>3 DEF DirInv, AnswerInv, NoData
  <1>5. <<>> \in Seq(Byte) /\ FALSE \in BOOLEAN
    OBVIOUS
  <1>6. FileTypes
    BY <1>1, <1>2, <1>5, RestIsIdle DEF FileTypes
  <1> QED
    BY <1>1, <1>2, <1>4, <1>6 DEF IInv

\* Only an open handle has a call under way.
LEMMA InCall ==
    ASSUME IInv, io.op # "none"
    PROVE  handle.open
  BY RestIsIdle DEF IInv

LEMMA IInvStep ==
    ASSUME WholeClusters, IInv, [Next]_vars
    PROVE  IInv'
  <1>1. CASE UNCHANGED vars
    <2>1. UNCHANGED <<dirVars, fileVars>> /\ UNCHANGED <<handle, io, given, lost>>
      BY <1>1 DEF vars, fileVars
    <2>2. DirInv' /\ FileTypes'
      BY <2>1, DirStep DEF IInv, FileTypes
    <2>3. CASE ~handle.open
      BY <2>1, <2>2, <2>3 DEF IInv
    <2>4. CASE handle.open
      <3>1. DirInv /\ FileInv /\ PlacedInv /\ ReadInv /\ SeekInv /\ GivenInv
        BY <2>4, Opened
      <3>2. chain' = chain /\ HasChain' = HasChain /\ FileInv'
        BY <2>1, <3>1, SameFile
      <3>3. PlacedInv' /\ SeekInv' /\ GivenInv'
        BY <2>1, <3>1, <3>2 DEF PlacedInv, SeekInv, GivenInv, InCluster
      <3>4. ReadInv'
        BY <2>1, <3>1, <3>2 DEF ReadInv, Place
      <3> QED
        BY <2>1, <2>2, <2>4, <3>2, <3>3, <3>4 DEF IInv, OpenInv
    <2> QED
      BY <2>3, <2>4
  <1>2. CASE LookUp
    BY <1>2, LookUpStep
  <1>3. CASE Open
    BY <1>3, OpenStep
  <1>4. CASE Use
    <2>1. ASSUME NEW n \in ReadSizes, EndsWell(n), StartRead(n) PROVE IInv'
      BY <2>1, StartReadStep
    <2>2. ASSUME NEW offset \in SeekOffsets, StartSeek(offset) PROVE IInv'
      BY <2>2, StartSeekStep
    <2>3. CASE Close
      BY <2>3, CloseStep
    <2> QED
      BY <1>4, <2>1, <2>2, <2>3 DEF Use
  <1>5. ASSUME NEW ok \in BOOLEAN, CopySector(ok) PROVE IInv'
    <2>1. handle.open
      BY <1>5, InCall DEF CopySector
    <2>2. CASE ok = FALSE
      BY <1>5, <2>1, <2>2, CopySectorFails
    <2>3. CASE ok = TRUE
      <3>1. io.skipped >= SectorSize \/ io.skipped < SectorSize
        <4>1. io.skipped \in Nat
          BY <2>1, Opened
        <4> QED
          BY <4>1, Sizes
      <3> QED
        BY <1>5, <2>1, <2>3, <3>1, SkipSector, CopyStep
    <2> QED
      BY <2>2, <2>3
  <1>6. ASSUME NEW ok \in BOOLEAN, LeaveCluster(ok) PROVE IInv'
    <2>1. handle.open
      BY <1>6, InCall DEF LeaveCluster
    <2> QED
      BY <1>6, <2>1, LeaveClusterStep
  <1>7. ASSUME NEW ok \in BOOLEAN, SeekCluster(ok) PROVE IInv'
    <2>1. handle.open
      BY <1>7, InCall DEF SeekCluster
    <2> QED
      BY <1>7, <2>1, SeekClusterStep
  <1>8. CASE EndSeek
    <2>1. handle.open
      BY <1>8, InCall DEF EndSeek
    <2> QED
      BY <1>8, <2>1, EndSeekStep
  <1> QED
    BY <1>1, <1>2, <1>3, <1>4, <1>5, <1>6, <1>7, <1>8 DEF Next, IoStep

LEMMA Invariance == WholeClusters /\ Spec => []IInv
  <1> SUFFICES ASSUME WholeClusters PROVE Spec => []IInv
    OBVIOUS
  <1>1. IInv /\ [Next]_vars => IInv'
    BY IInvStep
  <1> QED
    BY IInvInit, <1>1, PTL DEF Spec

-----------------------------------------------------------------------------
(* What the properties say of it. *)

\* A read that delivers nothing is at the end of the file, unless a read of the
\* disk failed since the handle was last placed.
THEOREM ReadsToTheEndAlways == WholeClusters /\ Spec => []ReadsToTheEnd
  <1>1. IInv => ReadsToTheEnd
    BY DEF IInv, OpenInv, GivenInv, ReadsToTheEnd, Ready
  <1> QED
    BY Invariance, <1>1, PTL

\* Every walk, handle and read stays within its bounds: a read never delivers more
\* than it was asked for, and no handle passes the end of its file.
THEOREM TypeCorrect == WholeClusters /\ Spec => []TypeOK
  <1>1. DirInv => DirTypeOK
    <2> SUFFICES ASSUME DirInv PROVE DirTypeOK
      OBVIOUS
    <2>1. Cardinality(answer.found) <= 1
      <3>1. answer.found = {} \/ \E e : answer.found = {e}
        BY DEF DirInv, AnswerInv
      <3>2. Cardinality({}) = 0 /\ \A e : Cardinality({e}) = 1
        BY FS_EmptySet, FS_Singleton
      <3> QED
        BY <3>1, <3>2
    <2> QED
      BY <2>1 DEF DirInv, WalkInv, LfnOK, DirTypeOK
  <1>2. ASSUME IInv PROVE TypeOK
    <2>1. DirTypeOK /\ FileTypes
      BY <1>1, <1>2 DEF IInv
    <2>2. CASE ~handle.open
      <3>1. handle = NoHandle /\ io = NoIo /\ given = <<>>
        BY <1>2, <2>2 DEF IInv
      <3>2. Len(given) = 0
        BY <3>1
      <3> QED
        BY <2>1, <3>1, <3>2, Sizes DEF FileTypes, TypeOK, NoHandle, NoIo
    <2>3. CASE handle.open
      <3>1. /\ PlacedInv /\ ReadInv /\ GivenInv /\ handle.size \in Nat /\ handle.currentOffset \in Nat
            /\ handle.currentCluster \in Nat /\ io.bytesCount \in Nat /\ io.remaining \in Nat
            /\ io.skipped \in Nat /\ Len(given) \in Nat
        BY <1>2, <2>3, Opened
      <3>2. io.op \in {"none", "read", "seek"} /\ lost \in BOOLEAN
        BY <2>1 DEF FileTypes, IoType
      <3>3. handle.currentOffset <= handle.size /\ io.skipped < clusterSize
        BY <3>1 DEF PlacedInv, GivenInv
      <3>4. Len(given) + io.remaining <= io.bytesCount
        <4>1. CASE io.op = "read"
          BY <3>1, <4>1 DEF ReadInv
        <4>2. CASE io.op = "none"
          BY <3>1, <4>2 DEF GivenInv
        <4>3. CASE io.op = "seek"
          <5>1. given = <<>> /\ io.remaining = 0 /\ io.bytesCount = 0
            BY <3>1, <4>3 DEF GivenInv
          <5> QED
            BY <5>1
        <4> QED
          BY <3>2, <4>1, <4>2, <4>3
      <3> QED
        BY <2>1, <3>1, <3>2, <3>3, <3>4, Sizes DEF TypeOK
    <2> QED
      BY <2>2, <2>3
  <1> QED
    BY Invariance, <1>2, PTL

-----------------------------------------------------------------------------
(* The byte stream. *)

LEMMA OneSector ==
    ASSUME NEW a \in Int, NEW b \in Int, NEW s \in Nat, NEW t \in Nat,
           s < SectorsPerCluster, t < SectorsPerCluster,
           a * SectorsPerCluster + s = b * SectorsPerCluster + t
    PROVE  a = b /\ s = t
  <1>1. ASSUME NEW x \in Int, NEW y \in Int, NEW u \in Nat, NEW v \in Nat, x < y,
               u < SectorsPerCluster, x * SectorsPerCluster + u = y * SectorsPerCluster + v
        PROVE  FALSE
    <2>1. PICK d \in Nat : y = x + 1 + d
      <3>1. y - x - 1 \in Nat
        BY <1>1
      <3> QED
        BY <1>1, <3>1
    <2>2. y * SectorsPerCluster = x * SectorsPerCluster + SectorsPerCluster + d * SectorsPerCluster
      BY <1>1, <2>1, Sizes
    <2>3. d * SectorsPerCluster >= 0 /\ d * SectorsPerCluster \in Int /\ x * SectorsPerCluster \in Int
      BY <1>1, <2>1, Sizes
    <2> QED
      BY <1>1, <2>2, <2>3, Sizes
  <1>2. a = b
    BY <1>1
  <1>3. b * SectorsPerCluster \in Int
    BY Sizes
  <1> QED
    BY <1>2, <1>3

\* PlaceInFile, with all it depends on.
PlaceOf(clusters, firstLba, byte) ==
    LET lbaOf(k) == firstLba + (clusters[k] - 2) * SectorsPerCluster
        on == {q \in (1 .. Len(clusters)) \X (0 .. (SectorsPerCluster - 1)) :
                    lbaOf(q[1]) + q[2] = byte[1]}
        places == {(q[1] - 1) * clusterSize + q[2] * SectorSize + byte[2] : q \in on}
    IN  IF places = {} THEN -1 ELSE CHOOSE p \in places : TRUE

\* No two sectors of a chain are the same, so a byte of one has one place.
LEMMA OnePlace ==
    ASSUME NEW clusters \in Seq(Nat), \A i, j \in DOMAIN clusters : clusters[i] = clusters[j] => i = j,
           NEW firstLba \in Nat, NEW k \in DOMAIN clusters, NEW s \in Nat, s < SectorsPerCluster,
           NEW lba, lba = firstLba + (clusters[k] - 2) * SectorsPerCluster + s, NEW b \in Nat
    PROVE  PlaceOf(clusters, firstLba, <<lba, b>>) = Place(k, s, b)
  <1> DEFINE lbaOf(j) == firstLba + (clusters[j] - 2) * SectorsPerCluster
             Q == (1 .. Len(clusters)) \X (0 .. (SectorsPerCluster - 1))
             on == {q \in Q : lbaOf(q[1]) + q[2] = lba}
             P(q) == (q[1] - 1) * clusterSize + q[2] * SectorSize + b
             places == {P(q) : q \in on}
  <1>1. DOMAIN clusters = 1 .. Len(clusters) /\ \A j \in DOMAIN clusters : clusters[j] \in Nat
    OBVIOUS
  <1>2. s \in 0 .. (SectorsPerCluster - 1) /\ \A t \in 0 .. (SectorsPerCluster - 1) :
          t \in Nat /\ t < SectorsPerCluster
    BY Sizes
  <1>3. <<k, s>> \in on
    <2>1. <<k, s>> \in Q
      BY <1>1, <1>2
    <2> HIDE DEF Q
    <2> QED
      BY <2>1
  <1>4. ASSUME NEW q \in on PROVE q = <<k, s>>
    <2>1. PICK j \in 1 .. Len(clusters), t \in 0 .. (SectorsPerCluster - 1) : q = <<j, t>>
      OBVIOUS
    <2>2. lbaOf(j) + t = lba
      BY <2>1
    <2>3. j \in DOMAIN clusters /\ clusters[j] \in Nat /\ clusters[k] \in Nat
      BY <1>1
    <2> DEFINE c == clusters[j] - 2
               d == clusters[k] - 2
    <2>4. c \in Int /\ d \in Int
      <3>1. \A x \in Nat : x - 2 \in Int
        OBVIOUS
      <3> QED
        BY <2>3, <3>1
    <2>5. firstLba + c * SectorsPerCluster + t = firstLba + d * SectorsPerCluster + s
      BY <2>2
    <2>6. c = d => clusters[j] = clusters[k]
      BY <2>3
    <2> HIDE DEF c, d
    <2>7. c * SectorsPerCluster \in Int /\ d * SectorsPerCluster \in Int
      BY <2>4, Sizes
    <2>8. t \in Nat /\ t < SectorsPerCluster
      BY <1>2
    <2>9. c * SectorsPerCluster + t = d * SectorsPerCluster + s
      <3> DEFINE x == c * SectorsPerCluster
                 y == d * SectorsPerCluster
      <3>1. x \in Int /\ y \in Int /\ firstLba + x + t = firstLba + y + s
        BY <2>5, <2>7
      <3> HIDE DEF x, y
      <3>2. x + t = y + s
        BY <2>8, <3>1
      <3> QED
        BY <3>2 DEF x, y
    <2>10. c = d /\ t = s
      BY <2>4, <2>8, <2>9, OneSector
    <2>11. j = k
      BY <2>3, <2>6, <2>10
    <2> QED
      BY <2>1, <2>10, <2>11
  <1>5. P(<<k, s>>) = Place(k, s, b)
    BY DEF Place
  <1>6. PlaceOf(clusters, firstLba, <<lba, b>>) = IF places = {} THEN -1 ELSE CHOOSE p \in places : TRUE
    BY DEF PlaceOf
  <1> HIDE DEF on, P
  <1>7. places = {Place(k, s, b)}
    BY <1>3, <1>4, <1>5
  <1> HIDE DEF places
  <1> QED
    BY <1>6, <1>7

\* The bytes given, as places in the file.
Mapped == [i \in DOMAIN given |-> PlaceOf(chain, image.firstLba, given[i])]

file == [first |-> handle.firstCluster, size |-> handle.size]

LEMMA MappedIs ==
    /\ [i \in DOMAIN given |-> PlaceInFile(given[i])] = Mapped
    /\ [i \in DOMAIN given |-> PlaceInFile(given[i])]' = Mapped'
  BY DEF PlaceInFile, PlaceOf, Mapped, chain

\* Steps of the abstract handle.
LEMMA StreamStep ==
    ASSUME \/ file' = file /\ handle'.currentOffset = handle.currentOffset /\ Mapped' = Mapped
           \/ /\ file = NoFile /\ file' \in Files /\ handle'.currentOffset = 0 /\ Mapped' = <<>>
           \/ file # NoFile /\ file' = file /\ handle'.currentOffset = handle.currentOffset /\ Mapped' = <<>>
           \/ file # NoFile /\ file' = NoFile /\ handle'.currentOffset = 0 /\ Mapped' = <<>>
           \/ /\ file # NoFile /\ file' = file
              /\ \E n \in 1 .. (file.size - handle.currentOffset) :
                   /\ handle'.currentOffset = handle.currentOffset + n
                   /\ Mapped' = Mapped \o [i \in 1 .. n |-> handle.currentOffset + i - 1]
           \/ /\ file # NoFile /\ file' = file /\ handle'.currentOffset \in 0 .. file.size
              /\ Mapped' = Mapped
    PROVE  [Stream!Next]_Stream!vars
  BY MappedIs DEF Stream!Next, Stream!vars, Stream!Open, Stream!Begin, Stream!Close, Stream!Deliver,
                  Stream!Seek, file

LEMMA NothingMapped == (given = <<>> => Mapped = <<>>) /\ (given' = <<>> => Mapped' = <<>>)
  BY DEF Mapped

\* An empty file and no file are the same to the stream.
LEMMA EmptyFile ==
    ASSUME IInv, file = NoFile
    PROVE  handle.currentOffset = 0 /\ given = <<>>
  <1>1. handle.size = 0
    BY DEF file, NoFile
  <1>2. CASE ~handle.open
    BY <1>2 DEF IInv, NoHandle
  <1>3. CASE handle.open
    <2>1. ~HasChain /\ handle.currentOffset \in Nat /\ PlacedInv /\ GivenInv
      BY <1>1, <1>3, Opened DEF HasChain
    <2> QED
      BY <1>1, <2>1 DEF PlacedInv, GivenInv
  <1> QED
    BY <1>2, <1>3

LEMMA SameBytes ==
    ASSUME UNCHANGED <<image, given>>, handle'.firstCluster = handle.firstCluster
    PROVE  Mapped' = Mapped
  BY DEF Mapped, chain

\* Copying delivers the next bytes of the file.
LEMMA CopyDelivers ==
    ASSUME IInv, handle.open, CopySector(TRUE), io.skipped < SectorSize
    PROVE  /\ file # NoFile /\ file' = file
           /\ \E n \in 1 .. (file.size - handle.currentOffset) :
                /\ handle'.currentOffset = handle.currentOffset + n
                /\ Mapped' = Mapped \o [i \in 1 .. n |-> handle.currentOffset + i - 1]
  <1> DEFINE n == Min({SectorSize - io.skipped, io.remaining})
             lba == ClusterToLba(io.cluster) + io.sector
             offset == handle.currentOffset
             places == [i \in 1 .. n |-> offset + i - 1]
  <1>1. /\ n \in Nat \ {0} /\ n <= io.remaining
        /\ given' \in Seq(Byte) /\ Len(given') = Len(given) + n
        /\ \A i \in 1 .. Len(given) : given'[i] = given[i]
        /\ \A i \in 1 .. n : given'[Len(given) + i] = <<lba, io.skipped + i - 1>>
        /\ handle' = [handle EXCEPT !.currentOffset = @ + n]
        /\ UNCHANGED dirVars
    BY Copied
  <1>2. io.op = "read" /\ io.remaining > 0 /\ io.sector < SectorsPerCluster
    BY DEF CopySector
  <1>3. /\ HasChain /\ DirInv /\ FileInv /\ ReadInv /\ FileTypes /\ given \in Seq(Byte)
        /\ offset \in Nat /\ handle.size \in Nat /\ io.skipped \in Nat /\ io.sector \in Nat
        /\ io.remaining \in Nat
    BY <1>2, Opened, Reading
  <1>4. PICK k \in DOMAIN chain :
          /\ k \in Nat \ {0} /\ io.cluster = chain[k] /\ offset = Place(k, io.sector, io.skipped)
    BY <1>2, Reading
  <1> HIDE DEF n, lba
  <1>5. /\ handle'.currentOffset = offset + n /\ handle'.firstCluster = handle.firstCluster
        /\ handle'.size = handle.size /\ handle'.isDirectory = handle.isDirectory
    BY <1>1, <1>3 DEF FileTypes, HandleType
  <1>6. image' = image /\ chain' = chain
    BY <1>1, <1>3, <1>5, SameFile DEF dirVars
  <1>7. n \in 1 .. (handle.size - offset)
    <2>1. offset + io.remaining <= handle.size
      BY <1>2, <1>3 DEF ReadInv
    <2>2. n \in Nat \ {0} /\ n <= io.remaining
      BY <1>1
    <2> QED
      BY <1>3, <2>1, <2>2
  <1>8. \A b \in Nat : PlaceOf(chain, image.firstLba, <<lba, b>>) = Place(k, io.sector, b)
    <2>1. Linked(image, chain)
      BY <1>3 DEF FileInv
    <2>2. chain \in Seq(Nat) /\ \A i, j \in DOMAIN chain : chain[i] = chain[j] => i = j
      <3>1. 2 .. (EndOfChain - 1) \subseteq Nat
        <4>1. EndOfChain \in Nat
          BY DEF EndOfChain
        <4> QED
          BY <4>1
      <3>2. chain \in Seq(2 .. (EndOfChain - 1))
        BY <2>1 DEF Linked, Follows
      <3>3. \A i, j \in DOMAIN chain : chain[i] = chain[j] => i = j
        BY <2>1 DEF Linked, Follows
      <3>4. chain \in Seq(Nat)
        BY <3>1, <3>2, SeqMonotonic
      <3> QED
        BY <3>3, <3>4
    <2>3. fatData.clusterStartLba = image.firstLba /\ image.firstLba \in Nat
      BY <1>3, VolumeAssumption DEF DirInv, FileInv, Mounted
    <2>4. lba = image.firstLba + (chain[k] - 2) * SectorsPerCluster + io.sector
      BY <1>4, <2>3 DEF lba, ClusterToLba
    <2> SUFFICES ASSUME NEW b \in Nat
                 PROVE  PlaceOf(chain, image.firstLba, <<lba, b>>) = Place(k, io.sector, b)
      OBVIOUS
    <2>5. /\ io.sector \in Nat /\ io.sector < SectorsPerCluster
          /\ image.firstLba \in Nat /\ chain \in Seq(Nat)
      BY <1>2, <1>3, <2>2, <2>3
    <2> QED
      BY <2>2, <2>4, <2>5, OnePlace
  <1>9. \A i \in 1 .. n : Place(k, io.sector, io.skipped + i - 1) = offset + i - 1
    <2> DEFINE start == (k - 1) * clusterSize
               ss == io.sector * SectorSize
    <2>1. start \in Int /\ ss \in Int
      BY <1>3, <1>4, Sizes
    <2>2. offset = start + ss + io.skipped
      BY <1>4 DEF Place
    <2>3. \A i \in 1 .. n : Place(k, io.sector, io.skipped + i - 1) = start + ss + (io.skipped + i - 1)
      BY DEF Place
    <2> HIDE DEF start, ss
    <2>4. \A a, b, c, i \in Int : a + b + (c + i - 1) = a + b + c + i - 1
      OBVIOUS
    <2>5. 1 .. n \subseteq Int /\ io.skipped \in Int
      BY <1>1, <1>3
    <2>6. \A i \in 1 .. n : start + ss + (io.skipped + i - 1) = start + ss + io.skipped + i - 1
      BY <2>1, <2>4, <2>5
    <2> QED
      BY <2>2, <2>3, <2>6
  <1>10. Mapped' = Mapped \o places
    <2> DEFINE S == Int \cup {PlaceOf(chain, image.firstLba, given[i]) : i \in DOMAIN given}
                   \cup {PlaceOf(chain, image.firstLba, given'[i]) : i \in DOMAIN given'}
    <2>1. /\ Len(given) \in Nat /\ DOMAIN given = 1 .. Len(given)
          /\ DOMAIN given' = 1 .. (Len(given) + n)
      BY <1>1, <1>3
    <2>2. Mapped = [i \in 1 .. Len(given) |-> PlaceOf(chain, image.firstLba, given[i])]
      BY <2>1 DEF Mapped
    <2>3. Mapped' = [i \in 1 .. (Len(given) + n) |-> PlaceOf(chain, image.firstLba, given'[i])]
      BY <1>6, <2>1 DEF Mapped
    <2>4. Mapped \in [1 .. Len(given) -> S] /\ Mapped' \in [1 .. (Len(given) + n) -> S]
      BY <2>1, <2>2, <2>3
    <2>5. \A i \in 1 .. Len(given) : Mapped'[i] = Mapped[i]
      <3> SUFFICES ASSUME NEW i \in 1 .. Len(given) PROVE Mapped'[i] = Mapped[i]
        OBVIOUS
      <3>1. i \in 1 .. (Len(given) + n) /\ given'[i] = given[i]
        BY <1>1, <2>1
      <3> QED
        BY <2>2, <2>3, <3>1
    <2>6. \A i \in 1 .. n : Mapped'[Len(given) + i] = places[i]
      <3> SUFFICES ASSUME NEW i \in 1 .. n PROVE Mapped'[Len(given) + i] = offset + i - 1
        OBVIOUS
      <3>1. Len(given) + i \in 1 .. (Len(given) + n) /\ io.skipped + i - 1 \in Nat
        <4>1. i \in Nat /\ i >= 1 /\ i <= n /\ n \in Nat
          BY <1>1
        <4>2. io.skipped + i - 1 \in Nat
          BY <1>3, <4>1
        <4>3. Len(given) + i \in 1 .. (Len(given) + n)
          BY <2>1, <4>1
        <4> QED
          BY <4>2, <4>3
      <3>2. given'[Len(given) + i] = <<lba, io.skipped + i - 1>>
        BY <1>1
      <3>3. PlaceOf(chain, image.firstLba, <<lba, io.skipped + i - 1>>) = offset + i - 1
        BY <1>8, <1>9, <3>1
      <3> QED
        BY <2>3, <3>1, <3>2, <3>3
    <2>7. places \in [1 .. n -> S]
      <3>1. \A i \in 1 .. n : offset + i - 1 \in Int
        BY <1>1, <1>3
      <3> QED
        BY <3>1
    <2> HIDE DEF S, places
    <2>8. Mapped \in Seq(S) /\ Len(Mapped) = Len(given)
      BY <2>1, <2>4
    <2>9. Mapped' \in Seq(S) /\ Len(Mapped') = Len(given) + n
      <3>1. Len(given) + n \in Nat
        BY <1>1, <2>1
      <3> QED
        BY <2>4, <3>1
    <2>10. places \in Seq(S) /\ Len(places) = n
      <3>1. n \in Nat
        BY <1>1
      <3> QED
        BY <2>7, <3>1
    <2>11. /\ Len(Mapped') = Len(Mapped) + Len(places)
           /\ \A i \in 1 .. Len(Mapped) : Mapped'[i] = Mapped[i]
           /\ \A i \in 1 .. Len(places) : Mapped'[Len(Mapped) + i] = places[i]
      BY <2>5, <2>6, <2>8, <2>9, <2>10
    <2> QED
      BY <2>8, <2>9, <2>10, <2>11, IsFollowed
  <1>11. file # NoFile /\ file' = file
    BY <1>3, <1>5 DEF file, NoFile, HasChain
  <1>12. file.size = handle.size
    BY DEF file
  <1> QED
    BY <1>5, <1>7, <1>10, <1>11, <1>12

LEMMA StreamInit == Init => Stream!Init
  <1> SUFFICES ASSUME Init PROVE Stream!Init
    OBVIOUS
  <1>1. file = NoFile /\ handle.currentOffset = 0 /\ given = <<>>
    BY DEF Init, file, NoFile, NoHandle
  <1>2. [i \in DOMAIN given |-> PlaceInFile(given[i])] = <<>>
    BY <1>1, MappedIs, NothingMapped
  <1> QED
    BY <1>1, <1>2 DEF Stream!Init, file

\* A call that begins, and one that has nothing to do.
LEMMA BeginsOrStutters ==
    ASSUME IInv, file' = file, handle'.currentOffset = handle.currentOffset, given' = <<>>
    PROVE  [Stream!Next]_Stream!vars
  <1>1. Mapped' = <<>>
    BY NothingMapped
  <1>2. CASE file = NoFile
    <2>1. Mapped' = Mapped
      BY <1>1, <1>2, EmptyFile, NothingMapped
    <2> QED
      BY <2>1, StreamStep
  <1> QED
    BY <1>1, <1>2, StreamStep

LEMMA StreamSteps ==
    ASSUME IInv, IInv', [Next]_vars
    PROVE  [Stream!Next]_Stream!vars
  <1>1. ASSUME UNCHANGED <<image, given>>, UNCHANGED handle PROVE [Stream!Next]_Stream!vars
    <2>1. file' = file /\ Mapped' = Mapped
      BY <1>1, SameBytes DEF file
    <2> QED
      BY <1>1, <2>1, StreamStep
  <1>2. CASE UNCHANGED vars
    BY <1>1, <1>2 DEF vars, dirVars, fileVars
  <1>3. CASE LookUp
    <2>1. UNCHANGED fileVars /\ ~handle.open /\ given = <<>>
      BY <1>3 DEF LookUp, IInv
    <2>2. file' = file /\ handle' = handle /\ given' = <<>>
      BY <2>1 DEF fileVars, file
    <2> QED
      BY <2>2, BeginsOrStutters
  <1>4. CASE Open
    <2>1. handle'.open /\ handle'.currentOffset = 0 /\ given' = <<>>
      BY <1>4 DEF Open
    <2>2. ~handle.open
      BY <1>4 DEF IInv, OpenInv, FileInv, Open
    <2>3. handle = NoHandle
      BY <2>2 DEF IInv
    <2>4. file = NoFile
      BY <2>3 DEF file, NoFile, NoHandle
    <2>5. FileInv'
      BY <2>1 DEF IInv, OpenInv
    <2>6. file' \in Files
      BY <2>5 DEF FileInv, file
    <2> QED
      BY <2>1, <2>4, <2>6, NothingMapped, StreamStep
  <1>5. ASSUME NEW n \in ReadSizes, StartRead(n) PROVE [Stream!Next]_Stream!vars
    <2>1. UNCHANGED handle /\ given' = <<>>
      BY <1>5 DEF StartRead
    <2>2. file' = file
      BY <2>1 DEF file
    <2> QED
      BY <2>1, <2>2, BeginsOrStutters
  <1>6. ASSUME NEW offset \in SeekOffsets, StartSeek(offset) PROVE [Stream!Next]_Stream!vars
    <2>1. UNCHANGED handle /\ given' = <<>>
      BY <1>6 DEF StartSeek
    <2>2. file' = file
      BY <2>1 DEF file
    <2> QED
      BY <2>1, <2>2, BeginsOrStutters
  <1>7. CASE Close
    <2>1. handle' = NoHandle /\ given' = <<>>
      BY <1>7 DEF Close
    <2>2. file' = NoFile /\ handle'.currentOffset = 0
      BY <2>1 DEF file, NoFile, NoHandle
    <2>3. CASE file = NoFile
      BY <2>1, <2>2, <2>3, EmptyFile, BeginsOrStutters
    <2> QED
      BY <2>1, <2>2, <2>3, NothingMapped, StreamStep
  <1>8. ASSUME NEW ok \in BOOLEAN, CopySector(ok) PROVE [Stream!Next]_Stream!vars
    <2>1. handle.open /\ UNCHANGED dirVars
      BY <1>8, InCall DEF CopySector
    <2>2. CASE ok = FALSE
      <3>1. UNCHANGED <<handle, given>>
        BY <1>8, <2>2 DEF CopySector
      <3> QED
        BY <1>1, <2>1, <3>1 DEF dirVars
    <2>3. CASE ok = TRUE /\ io.skipped >= SectorSize
      <3>1. UNCHANGED <<handle, given>>
        BY <1>8, <2>1, <2>3, SkipSector
      <3> QED
        BY <1>1, <2>1, <3>1 DEF dirVars
    <2>4. CASE ok = TRUE /\ io.skipped < SectorSize
      BY <1>8, <2>1, <2>4, CopyDelivers, StreamStep
    <2>5. io.skipped >= SectorSize \/ io.skipped < SectorSize
      <3>1. io.skipped \in Nat
        BY <2>1, Opened
      <3> QED
        BY <3>1, Sizes
    <2> QED
      BY <2>2, <2>3, <2>4, <2>5
  <1>9. ASSUME NEW ok \in BOOLEAN, LeaveCluster(ok) PROVE [Stream!Next]_Stream!vars
    <2> DEFINE next == NextCluster(io.cluster, ok)
    <2>1. /\ handle.open /\ UNCHANGED <<dirVars, given>>
          /\ handle' = [handle EXCEPT !.currentCluster = next]
      BY <1>9, InCall DEF LeaveCluster
    <2> HIDE DEF next
    <2>2. /\ handle'.firstCluster = handle.firstCluster /\ handle'.size = handle.size
          /\ handle'.currentOffset = handle.currentOffset
      BY <2>1 DEF IInv, FileTypes, HandleType
    <2>3. file' = file /\ Mapped' = Mapped
      BY <2>1, <2>2, SameBytes DEF file, dirVars
    <2> QED
      BY <2>2, <2>3, StreamStep
  <1>10. ASSUME NEW ok \in BOOLEAN, SeekCluster(ok) PROVE [Stream!Next]_Stream!vars
    <2>1. UNCHANGED <<dirVars, handle, given>>
      BY <1>10 DEF SeekCluster
    <2> QED
      BY <1>1, <2>1 DEF dirVars
  <1>11. CASE EndSeek
    <2>1. /\ handle.open /\ io.op = "seek" /\ UNCHANGED <<dirVars, given>>
          /\ handle' = [handle EXCEPT !.currentOffset = io.offset, !.currentCluster = io.cluster]
      BY <1>11, InCall DEF EndSeek, Moved
    <2>2. /\ handle'.firstCluster = handle.firstCluster /\ handle'.size = handle.size
          /\ handle'.currentOffset = io.offset
      BY <2>1 DEF IInv, FileTypes, HandleType
    <2>3. file' = file /\ Mapped' = Mapped
      BY <2>1, <2>2, SameBytes DEF file, dirVars
    <2>4. io.offset \in Nat /\ handle.size \in Nat /\ io.offset <= handle.size
      BY <2>1, Opened DEF SeekInv
    <2>5. CASE file = NoFile
      <3>1. handle.size = 0 /\ handle.currentOffset = 0
        BY <2>5, EmptyFile DEF file, NoFile
      <3>2. handle'.currentOffset = handle.currentOffset
        BY <2>2, <2>4, <3>1
      <3> QED
        BY <2>3, <3>2, StreamStep
    <2>6. CASE file # NoFile
      <3>1. handle'.currentOffset \in 0 .. file.size
        BY <2>2, <2>4 DEF file
      <3> QED
        BY <2>3, <2>6, <3>1, StreamStep
    <2> QED
      BY <2>5, <2>6
  <1> QED
    BY <1>2, <1>3, <1>4, <1>5, <1>6, <1>7, <1>8, <1>9, <1>10, <1>11 DEF Next, Use, IoStep

\* What FAT32_Read delivers is always the file's next bytes, wherever its clusters
\* lie, through seeks and failed reads of the disk, if no read ends inside a cluster.
THEOREM IsByteStreamAlways == WholeClusters /\ Spec => IsByteStream
  <1> SUFFICES ASSUME WholeClusters PROVE Spec => IsByteStream
    OBVIOUS
  <1>1. IInv /\ [Next]_vars => IInv'
    BY IInvStep
  <1>2. IInv /\ IInv' /\ [Next]_vars => [Stream!Next]_Stream!vars
    BY StreamSteps
  <1> QED
    BY IInvInit, StreamInit, <1>1, <1>2, PTL DEF Spec, IsByteStream, Stream!Spec

-----------------------------------------------------------------------------
(* The recursive functions of lookups and listings have solutions. *)

\* The names printed of the first n files.
NamesTo(files, g) ==
    g = [n \in 0 .. Len(files) |->
            IF n = 0 THEN <<>>
            ELSE IF IsShown(files[n]) THEN Append(g[n - 1], NameOf(files[n]))
            ELSE g[n - 1]]

Names(files) == CHOOSE g : NamesTo(files, g)

PrintsAll(files, g) ==
    /\ g[0] = <<>>
    /\ \A n \in 0 .. Len(files) : g[n] \in Seq({NameOf(files[m]) : m \in DOMAIN files})
    /\ \A n \in 1 .. Len(files) :
         g[n] = IF IsShown(files[n]) THEN Append(g[n - 1], NameOf(files[n])) ELSE g[n - 1]

LEMMA NamesFacts ==
    ASSUME NEW files, Len(files) \in Nat, DOMAIN files = 1 .. Len(files)
    PROVE  PrintsAll(files, Names(files)) /\ NamesOf(files) = Names(files)[Len(files)]
  <1>0. PICK N \in Nat : N = Len(files)
    OBVIOUS
  <1> DEFINE V == Seq({NameOf(files[m]) : m \in DOMAIN files})
             F == [k \in 1 .. N |->
                      [v \in V |-> IF IsShown(files[k]) THEN Append(v, NameOf(files[k])) ELSE v]]
  <1>1. \A k \in 1 .. N, v \in V : F[k][v] = IF IsShown(files[k]) THEN Append(v, NameOf(files[k])) ELSE v
    OBVIOUS
  <1>2. F \in [1 .. N -> [V -> V]]
    <2>1. ASSUME NEW k \in 1 .. N, NEW v \in V
          PROVE  (IF IsShown(files[k]) THEN Append(v, NameOf(files[k])) ELSE v) \in V
      <3>1. NameOf(files[k]) \in {NameOf(files[m]) : m \in DOMAIN files}
        BY <1>0
      <3> QED
        BY <3>1
    <2> HIDE DEF V
    <2> QED
      BY <2>1
  <1>3. <<>> \in V
    OBVIOUS
  <1> HIDE DEF V, F
  <1>4. PICK f \in [0 .. N -> V] : f[0] = <<>> /\ \A k \in 1 .. N : f[k] = F[k][f[k - 1]]
    <2>1. PICK f \in [0 .. N -> V] : Iterates(f, <<>>, N, F)
      BY <1>2, <1>3, Recursion
    <2> QED
      BY <2>1 DEF Iterates
  <1>5. ASSUME NEW k \in 1 .. N
        PROVE  f[k] = IF IsShown(files[k]) THEN Append(f[k - 1], NameOf(files[k])) ELSE f[k - 1]
    <2>1. k - 1 \in 0 .. N
      OBVIOUS
    <2>2. f[k - 1] \in V
      BY <2>1
    <2> QED
      BY <1>1, <1>4, <2>2
  <1>6. NamesTo(files, f)
    <2>1. f = [n \in 0 .. N |-> f[n]]
      OBVIOUS
    <2>2. ASSUME NEW n \in 0 .. N
          PROVE  f[n] = IF n = 0 THEN <<>>
                        ELSE IF IsShown(files[n]) THEN Append(f[n - 1], NameOf(files[n]))
                        ELSE f[n - 1]
      <3>1. n # 0 => n \in 1 .. N
        OBVIOUS
      <3> QED
        BY <1>4, <1>5, <3>1
    <2> QED
      BY <1>0, <2>1, <2>2 DEF NamesTo
  <1> DEFINE g == Names(files)
  <1>7. NamesTo(files, g)
    BY <1>6 DEF Names
  <1>8. NamesOf(files) = g[N]
    BY <1>0 DEF NamesOf, Names, NamesTo
  <1> HIDE DEF g
  <1>9. g[0] = <<>> /\ \A k \in 1 .. N : g[k] = IF IsShown(files[k]) THEN Append(g[k - 1], NameOf(files[k])) ELSE g[k - 1]
    <2>1. \A n \in 0 .. N : g[n] = IF n = 0 THEN <<>>
                        ELSE IF IsShown(files[n]) THEN Append(g[n - 1], NameOf(files[n]))
                        ELSE g[n - 1]
      BY <1>0, <1>7 DEF NamesTo
    <2> QED
      BY <2>1
  <1> DEFINE Good == {n \in Nat : n <= N => g[n] \in V}
  <1>10. 0 \in Good
    BY <1>3, <1>9
  <1>11. ASSUME NEW n \in Nat, n \in Good PROVE n + 1 \in Good
    <2> SUFFICES ASSUME n + 1 <= N PROVE g[n + 1] \in V
      OBVIOUS
    <2>1. g[n] \in V /\ n + 1 \in 1 .. N /\ (n + 1) - 1 = n
      BY <1>11
    <2>2. NameOf(files[n + 1]) \in {NameOf(files[m]) : m \in DOMAIN files}
      BY <1>0, <2>1
    <2>3. Append(g[n], NameOf(files[n + 1])) \in V
      BY <2>1, <2>2 DEF V
    <2> QED
      BY <1>9, <2>1, <2>3
  <1> HIDE DEF Good
  <1>12. \A n \in 0 .. N : g[n] \in V
    <2>1. Nat \subseteq Good
      BY <1>10, <1>11, SetInduction
    <2> QED
      BY <2>1 DEF Good
  <1> QED
    BY <1>0, <1>8, <1>9, <1>12 DEF PrintsAll, V, g

\* The files of a directory, as a set, and the directories that the first k names of a
\* path lead to.
ChildrenOf(i, c) == IF c \in DOMAIN i.tree THEN ToSet(i.tree[c]) ELSE {}

AllFiles(i) == UNION {ToSet(i.tree[c]) : c \in DOMAIN i.tree}

Dirs(i, r, k) == IF k = 0 THEN {i.boot.rootCluster} ELSE {f.entry.cluster : f \in r[k]}

ReachedBy(i, n, H, r) ==
    /\ r = [k \in 0 .. n |-> r[k]] /\ r[0] = {}
    /\ \A k \in 1 .. n : r[k] = {f \in UNION {ChildrenOf(i, c) : c \in Dirs(i, r, k - 1)} : f \in H[k]}

LEMMA ReachedExists ==
    ASSUME NEW i, NEW n \in Nat, NEW H
    PROVE  \E r : ReachedBy(i, n, H, r)
  <1> DEFINE V == SUBSET AllFiles(i)
             From(v, k) == IF k = 1 THEN {i.boot.rootCluster} ELSE {f.entry.cluster : f \in v}
             To(v, k) == {f \in UNION {ChildrenOf(i, c) : c \in From(v, k)} : f \in H[k]}
             F == [k \in 1 .. n |-> [v \in V |-> To(v, k)]]
  <1>1. \A v, k : To(v, k) \in V
    BY DEF ChildrenOf, AllFiles
  <1> HIDE DEF V, To
  <1>2. F \in [1 .. n -> [V -> V]] /\ \A k \in 1 .. n, v \in V : F[k][v] = To(v, k)
    BY <1>1
  <1>3. {} \in V
    BY DEF V
  <1> HIDE DEF F
  <1>4. PICK r \in [0 .. n -> V] : r[0] = {} /\ \A k \in 1 .. n : r[k] = F[k][r[k - 1]]
    <2>1. PICK G, W, none : G = F /\ W = V /\ none = {}
      OBVIOUS
    <2>2. none \in W /\ G \in [1 .. n -> [W -> W]]
      BY <1>2, <1>3, <2>1
    <2>3. PICK r \in [0 .. n -> W] : Iterates(r, none, n, G)
      BY <2>2, Recursion
    <2> QED
      BY <2>1, <2>3 DEF Iterates
  <1>5. ASSUME NEW k \in 1 .. n
        PROVE  r[k] = {f \in UNION {ChildrenOf(i, c) : c \in Dirs(i, r, k - 1)} : f \in H[k]}
    <2>1. k - 1 \in 0 .. n /\ (k - 1 = 0 <=> k = 1)
      OBVIOUS
    <2>2. r[k] = To(r[k - 1], k)
      BY <1>2, <1>4, <2>1
    <2>3. Dirs(i, r, k - 1) = From(r[k - 1], k)
      BY <2>1 DEF Dirs
    <2> QED
      BY <2>2, <2>3 DEF To
  <1>6. r = [k \in 0 .. n |-> r[k]]
    OBVIOUS
  <1> QED
    BY <1>4, <1>5, <1>6 DEF ReachedBy

NamedTo(i, path, r) ==
    r = [k \in 0 .. Len(path) |->
            IF k = 0 THEN {}
            ELSE LET from == IF k = 1 THEN {i.boot.rootCluster}
                             ELSE {f.entry.cluster : f \in r[k - 1]}
                 IN  {f \in UNION {ChildrenOf(i, c) : c \in from} : HasName(f, path[k])}]

LongTo(i, path, r) ==
    r = [k \in 0 .. Len(path) |->
            IF k = 0 THEN {}
            ELSE LET from == IF k = 1 THEN {i.boot.rootCluster}
                             ELSE {f.entry.cluster : f \in r[k - 1]}
                 IN  {f \in UNION {ChildrenOf(i, c) : c \in from} : HasLongName(f, path[k])}]

Named(i, path) == CHOOSE r : NamedTo(i, path, r)

Long(i, path) == CHOOSE r : LongTo(i, path, r)

LEMMA NamedFacts ==
    ASSUME NEW i, NEW path, Len(path) \in Nat
    PROVE  \A k \in 1 .. Len(path) : \A f :
             f \in Named(i, path)[k] <=>
               (\E c \in Dirs(i, Named(i, path), k - 1) : f \in ChildrenOf(i, c)) /\ HasName(f, path[k])
  <1>0. PICK n \in Nat : n = Len(path)
    OBVIOUS
  <1> DEFINE H == [k \in 1 .. n |-> {f \in AllFiles(i) : HasName(f, path[k])}]
  <1>1. PICK r : /\ r = [k \in 0 .. n |-> r[k]] /\ r[0] = {}
                 /\ \A k \in 1 .. n : r[k] = {f \in UNION {ChildrenOf(i, c) : c \in Dirs(i, r, k - 1)} : f \in H[k]}
    <2> HIDE DEF H
    <2>1. PICK h : h = H
      OBVIOUS
    <2>2. \E r : ReachedBy(i, n, h, r)
      BY ReachedExists
    <2> QED
      BY <2>1, <2>2 DEF ReachedBy
  <1>2. \A c : ChildrenOf(i, c) \subseteq AllFiles(i)
    BY DEF ChildrenOf, AllFiles
  <1>3. ASSUME NEW k \in 0 .. n
        PROVE  r[k] = IF k = 0 THEN {}
                      ELSE LET from == IF k = 1 THEN {i.boot.rootCluster}
                                       ELSE {f.entry.cluster : f \in r[k - 1]}
                           IN  {f \in UNION {ChildrenOf(i, c) : c \in from} : HasName(f, path[k])}
    <2>1. CASE k = 0
      BY <1>1, <2>1
    <2>2. CASE k # 0
      <3>1. k \in 1 .. n /\ (k - 1 = 0 <=> k = 1)
        BY <2>2
      <3>2. \A f : f \in H[k] <=> f \in AllFiles(i) /\ HasName(f, path[k])
        BY <3>1
      <3> HIDE DEF H
      <3>3. r[k] = {f \in UNION {ChildrenOf(i, c) : c \in Dirs(i, r, k - 1)} : HasName(f, path[k])}
        BY <1>1, <1>2, <3>1, <3>2
      <3> QED
        BY <2>2, <3>1, <3>3 DEF Dirs
    <2> QED
      BY <2>1, <2>2
  <1>4. NamedTo(i, path, r)
    BY <1>0, <1>1, <1>3 DEF NamedTo
  <1>5. PICK g : g = Named(i, path) /\ NamedTo(i, path, g)
    BY <1>4 DEF Named
  <1>6. ASSUME NEW k \in 1 .. n
        PROVE  \A f : f \in g[k] <=> (\E c \in Dirs(i, g, k - 1) : f \in ChildrenOf(i, c)) /\ HasName(f, path[k])
    <2>1. k \in 0 .. n /\ k # 0 /\ (k - 1 = 0 <=> k = 1)
      OBVIOUS
    <2>2. g[k] = {f \in UNION {ChildrenOf(i, c) : c \in Dirs(i, g, k - 1)} : HasName(f, path[k])}
      BY <1>0, <1>5, <2>1 DEF NamedTo, Dirs
    <2> QED
      BY <2>2
  <1> QED
    BY <1>0, <1>5, <1>6

LEMMA LongFacts ==
    ASSUME NEW i, NEW path, Len(path) \in Nat
    PROVE  \A k \in 1 .. Len(path) : \A f :
             f \in Long(i, path)[k] <=>
               (\E c \in Dirs(i, Long(i, path), k - 1) : f \in ChildrenOf(i, c)) /\ HasLongName(f, path[k])
  <1>0. PICK n \in Nat : n = Len(path)
    OBVIOUS
  <1> DEFINE H == [k \in 1 .. n |-> {f \in AllFiles(i) : HasLongName(f, path[k])}]
  <1>1. PICK r : /\ r = [k \in 0 .. n |-> r[k]] /\ r[0] = {}
                 /\ \A k \in 1 .. n : r[k] = {f \in UNION {ChildrenOf(i, c) : c \in Dirs(i, r, k - 1)} : f \in H[k]}
    <2> HIDE DEF H
    <2>1. PICK h : h = H
      OBVIOUS
    <2>2. \E r : ReachedBy(i, n, h, r)
      BY ReachedExists
    <2> QED
      BY <2>1, <2>2 DEF ReachedBy
  <1>2. \A c : ChildrenOf(i, c) \subseteq AllFiles(i)
    BY DEF ChildrenOf, AllFiles
  <1>3. ASSUME NEW k \in 0 .. n
        PROVE  r[k] = IF k = 0 THEN {}
                      ELSE LET from == IF k = 1 THEN {i.boot.rootCluster}
                                       ELSE {f.entry.cluster : f \in r[k - 1]}
                           IN  {f \in UNION {ChildrenOf(i, c) : c \in from} : HasLongName(f, path[k])}
    <2>1. CASE k = 0
      BY <1>1, <2>1
    <2>2. CASE k # 0
      <3>1. k \in 1 .. n /\ (k - 1 = 0 <=> k = 1)
        BY <2>2
      <3>2. \A f : f \in H[k] <=> f \in AllFiles(i) /\ HasLongName(f, path[k])
        BY <3>1
      <3> HIDE DEF H
      <3>3. r[k] = {f \in UNION {ChildrenOf(i, c) : c \in Dirs(i, r, k - 1)} : HasLongName(f, path[k])}
        BY <1>1, <1>2, <3>1, <3>2
      <3> QED
        BY <2>2, <3>1, <3>3 DEF Dirs
    <2> QED
      BY <2>1, <2>2
  <1>4. LongTo(i, path, r)
    BY <1>0, <1>1, <1>3 DEF LongTo
  <1>5. PICK g : g = Long(i, path) /\ LongTo(i, path, g)
    BY <1>4 DEF Long
  <1>6. ASSUME NEW k \in 1 .. n
        PROVE  \A f : f \in g[k] <=> (\E c \in Dirs(i, g, k - 1) : f \in ChildrenOf(i, c)) /\ HasLongName(f, path[k])
    <2>1. k \in 0 .. n /\ k # 0 /\ (k - 1 = 0 <=> k = 1)
      OBVIOUS
    <2>2. g[k] = {f \in UNION {ChildrenOf(i, c) : c \in Dirs(i, g, k - 1)} : HasLongName(f, path[k])}
      BY <1>0, <1>5, <2>1 DEF LongTo, Dirs
    <2> QED
      BY <2>2
  <1> QED
    BY <1>0, <1>5, <1>6

LEMMA ReachedIs ==
    ASSUME NEW path
    PROVE  /\ Reached(path, HasName) = {f.entry : f \in Named(image, path)[Len(path)]}
           /\ Reached(path, HasLongName) = {f.entry : f \in Long(image, path)[Len(path)]}
  BY DEF Reached, Named, NamedTo, Long, LongTo, Children, ChildrenOf

-----------------------------------------------------------------------------
(* The entries of a directory, one after the other. *)

Directory(raw, files, ends) ==
    /\ Len(raw) \in Nat /\ DOMAIN raw = 1 .. Len(raw)
    /\ Len(files) \in Nat /\ DOMAIN files = 1 .. Len(files)
    /\ ends \in [DOMAIN files -> {p \in DOMAIN raw : IsFile(raw[p])}]
    /\ InOrder(raw, files, ends)

\* The first p entries are those of n files and of what lies between them.
Passed(files, ends, p, n) ==
    n \in 0 .. Len(files) /\ \A m \in DOMAIN files : ends[m] <= p <=> m <= n

\* Where the entry of the n-th file is: that of the next one lies behind it.
Behind(ends, n) == IF n = 0 THEN 0 ELSE ends[n]

PlacesOf(raw, ends, n) == {p \in (Behind(ends, n) + 1) .. (ends[n + 1] - 1) : raw[p].kind = "lfn"}

\* The pieces of the name of the file after n others are at `at`.
NamePieces(raw, files, ends, n, count, at) ==
    /\ count \in 0 .. (FAT32_LFN_MAX_INDEX + 1)
    /\ at \in [1 .. count -> PlacesOf(raw, ends, n)]
    /\ PiecesAt(raw, files[n + 1].long, PlacesOf(raw, ends, n), count, at)

\* The first p entries have q of the pieces, the last ones of the name.
SomeSeen(at, count, p, q) == \A r \in 1 .. count : at[r] <= p <=> r <= q

\* lfn holds the name from a character on.
NameFrom(lfn, name, from) ==
    \A u \in DOMAIN lfn : from <= u =>
        (u < Len(name) => lfn[u] = name[u + 1]) /\ (u = Len(name) => lfn[u] = NUL)

\* What the scan of the first p entries knows of the name of the next file.
KnowsName(raw, files, ends, p, n, lfn, last) ==
    \E count, at :
        /\ NamePieces(raw, files, ends, n, count, at)
        /\ \E q \in 0 .. count :
             /\ SomeSeen(at, count, p, q)
             /\ last = IF q = 0 THEN -1 ELSE count - 1
             /\ NameFrom(lfn, files[n + 1].long, (count - q) * PieceLength)

LEMMA HasNamePieces ==
    ASSUME NEW raw, NEW files, NEW ends, Directory(raw, files, ends), NEW n \in Nat, n + 1 \in DOMAIN files
    PROVE  \E count, at : NamePieces(raw, files, ends, n, count, at)
  <1>1. (n + 1 = 1 <=> n = 0) /\ (n + 1) - 1 = n
    OBVIOUS
  <1>2. HasPieces(raw, IF n + 1 = 1 THEN 0 ELSE ends[(n + 1) - 1], ends[n + 1], files[n + 1].long)
    BY DEF Directory, InOrder
  <1>3. HasPieces(raw, Behind(ends, n), ends[n + 1], files[n + 1].long)
    BY <1>1, <1>2 DEF Behind
  <1> QED
    BY <1>3 DEF HasPieces, NamePieces, PlacesOf

LEMMA PlacesAreBetween ==
    ASSUME NEW raw, NEW files, NEW ends, Directory(raw, files, ends), NEW n \in Nat, n + 1 \in DOMAIN files,
           NEW p \in PlacesOf(raw, ends, n)
    PROVE  p \in Nat /\ Behind(ends, n) < p /\ p < ends[n + 1] /\ raw[p].kind = "lfn"
  <1>1. ends[n + 1] \in Nat
    BY DEF Directory
  <1>2. Behind(ends, n) \in Nat
    BY DEF Directory, Behind
  <1> QED
    BY <1>1, <1>2 DEF PlacesOf

LEMMA KnowsNothing ==
    ASSUME NEW raw, NEW files, NEW ends, Directory(raw, files, ends), NEW n \in Nat, n + 1 \in DOMAIN files
    PROVE  KnowsName(raw, files, ends, Behind(ends, n), n, lfnEmpty, -1)
  <1>1. PICK count, at : NamePieces(raw, files, ends, n, count, at)
    BY HasNamePieces
  <1>2. count \in Nat /\ at \in [1 .. count -> PlacesOf(raw, ends, n)]
    BY <1>1, GeometryAssumption DEF NamePieces
  <1>3. Behind(ends, n) \in Nat
    BY DEF Directory, Behind
  <1>4. SomeSeen(at, count, Behind(ends, n), 0)
    <2> SUFFICES ASSUME NEW r \in 1 .. count PROVE ~(at[r] <= Behind(ends, n)) /\ ~(r <= 0)
      BY DEF SomeSeen
    <2>1. at[r] \in PlacesOf(raw, ends, n)
      BY <1>2
    <2>2. at[r] \in Nat /\ Behind(ends, n) < at[r]
      BY <2>1, PlacesAreBetween
    <2> QED
      BY <1>3, <2>2
  <1>5. NameFrom(lfnEmpty, files[n + 1].long, (count - 0) * PieceLength)
    <2>1. Len(files[n + 1].long) <= count * PieceLength
      BY <1>1 DEF NamePieces, PiecesAt
    <2>2. Len(files[n + 1].long) \in Nat
      BY DEF Directory, InOrder
    <2>3. count * PieceLength \in Nat /\ (count - 0) * PieceLength = count * PieceLength
      BY <1>2, GeometryAssumption
    <2>4. \A u \in DOMAIN lfnEmpty : u \in Int /\ lfnEmpty[u] = NUL
      BY DEF lfnEmpty
    <2> QED
      BY <2>1, <2>2, <2>3, <2>4 DEF NameFrom
  <1>6. 0 \in 0 .. count
    BY <1>2
  <1> QED
    BY <1>1, <1>4, <1>5, <1>6 DEF KnowsName

LEMMA KnowsTheSame ==
    ASSUME NEW raw, NEW files, NEW ends, Directory(raw, files, ends), NEW n \in Nat, n + 1 \in DOMAIN files,
           NEW p \in Nat, raw[p + 1].kind # "lfn", NEW lfn, NEW last, KnowsName(raw, files, ends, p, n, lfn, last)
    PROVE  KnowsName(raw, files, ends, p + 1, n, lfn, last)
  <1>1. PICK count, at :
        /\ NamePieces(raw, files, ends, n, count, at)
        /\ \E q \in 0 .. count :
             /\ SomeSeen(at, count, p, q)
             /\ last = IF q = 0 THEN -1 ELSE count - 1
             /\ NameFrom(lfn, files[n + 1].long, (count - q) * PieceLength)
    BY DEF KnowsName
  <1>2. PICK q \in 0 .. count :
             /\ SomeSeen(at, count, p, q)
             /\ last = IF q = 0 THEN -1 ELSE count - 1
             /\ NameFrom(lfn, files[n + 1].long, (count - q) * PieceLength)
    BY <1>1
  <1>3. SomeSeen(at, count, p + 1, q)
    <2> SUFFICES ASSUME NEW r \in 1 .. count PROVE at[r] <= p + 1 <=> r <= q
      BY DEF SomeSeen
    <2>1. at[r] \in PlacesOf(raw, ends, n)
      BY <1>1 DEF NamePieces
    <2>2. at[r] \in Nat /\ raw[at[r]].kind = "lfn"
      BY <2>1, PlacesAreBetween
    <2>3. at[r] <= p <=> r <= q
      BY <1>2 DEF SomeSeen
    <2> QED
      BY <2>2, <2>3
  <1> QED
    BY <1>1, <1>2, <1>3 DEF KnowsName

\* One more piece of the name.
LEMMA KnowsMore ==
    ASSUME NEW raw, NEW files, NEW ends, Directory(raw, files, ends), NEW n \in Nat, n + 1 \in DOMAIN files,
           NEW p \in Nat, Behind(ends, n) <= p, p + 1 < ends[n + 1], raw[p + 1].kind = "lfn",
           NEW lfn, DOMAIN lfn = DOMAIN lfnEmpty, NEW last, KnowsName(raw, files, ends, p, n, lfn, last)
    PROVE  /\ raw[p + 1].index \in 0 .. FAT32_LFN_MAX_INDEX
           /\ (raw[p + 1].index + 1) * PieceLength <= FAT32_LFN_MAXCHARS
           /\ KnowsName(raw, files, ends, p + 1, n, Copy(lfn, raw[p + 1]),
                        IF raw[p + 1].final THEN raw[p + 1].index ELSE last)
  <1> DEFINE e == raw[p + 1]
             name == files[n + 1].long
             L == PieceLength
  <1>1. PICK count, at :
        /\ NamePieces(raw, files, ends, n, count, at)
        /\ \E q \in 0 .. count :
             /\ SomeSeen(at, count, p, q)
             /\ last = IF q = 0 THEN -1 ELSE count - 1
             /\ NameFrom(lfn, name, (count - q) * L)
    BY DEF KnowsName
  <1>2. PICK q \in 0 .. count :
             /\ SomeSeen(at, count, p, q)
             /\ last = IF q = 0 THEN -1 ELSE count - 1
             /\ NameFrom(lfn, name, (count - q) * L)
    BY <1>1
  <1>3. /\ count \in Nat /\ count <= FAT32_LFN_MAX_INDEX + 1
        /\ at \in [1 .. count -> PlacesOf(raw, ends, n)]
        /\ PiecesAt(raw, name, PlacesOf(raw, ends, n), count, at)
    BY <1>1, GeometryAssumption DEF NamePieces
  <1>4. \A r \in 1 .. count : at[r] \in Nat
    BY <1>3, PlacesAreBetween
  <1>5. p + 1 \in PlacesOf(raw, ends, n)
    <2>1. Behind(ends, n) \in Nat /\ ends[n + 1] \in Nat
      BY DEF Directory, Behind
    <2> QED
      BY <2>1 DEF PlacesOf
  <1>6. PICK t \in 1 .. count : at[t] = p + 1
    <2>1. \A x \in PlacesOf(raw, ends, n) : \E r \in 1 .. count : at[r] = x
      BY <1>3 DEF PiecesAt
    <2> QED
      BY <1>5, <2>1
  <1>7. \A r \in 1 .. count : at[r] <= p <=> r <= q
    BY <1>2 DEF SomeSeen
  <1>8. \A r, u \in 1 .. count : r < u => at[r] < at[u]
    BY <1>3 DEF PiecesAt
  <1>9. t = q + 1
    <2>1. ~(t <= q)
      BY <1>6, <1>7
    <2>2. ASSUME q + 1 < t PROVE FALSE
      <3>1. q + 1 \in 1 .. count
        BY <1>3, <2>2
      <3>2. at[q + 1] < p + 1
        BY <1>6, <1>8, <2>2, <3>1
      <3>3. at[q + 1] <= p
        BY <1>4, <3>1, <3>2
      <3> QED
        BY <1>7, <3>1, <3>3
    <2> QED
      BY <2>1, <2>2
  <1>10. /\ e.index = count - t /\ e.final = (t = 1)
         /\ \A x \in 1 .. L :
              LET u == (count - t) * L + x
              IN  /\ u <= Len(name) => e.chars[x] = name[u]
                  /\ u = Len(name) + 1 => e.chars[x] = NUL
    <2>1. \A r \in 1 .. count :
            LET piece == raw[at[r]]
            IN  /\ piece.index = count - r /\ piece.final = (r = 1)
                /\ \A x \in 1 .. L :
                     LET u == (count - r) * L + x
                     IN  /\ u <= Len(name) => piece.chars[x] = name[u]
                         /\ u = Len(name) + 1 => piece.chars[x] = NUL
      BY <1>3 DEF PiecesAt
    <2> QED
      BY <1>6, <2>1
  <1>11. e.index \in 0 .. FAT32_LFN_MAX_INDEX
    BY <1>3, <1>10, GeometryAssumption
  <1> DEFINE base == (count - t) * L
  <1>12. base \in Nat /\ (count - q) * L = base + L
    <2>1. count - q = (count - t) + 1 /\ count - t \in Nat /\ L \in Nat
      BY <1>3, <1>9, GeometryAssumption
    <2>2. \A x \in Nat, y \in Nat : x * y \in Nat /\ (x + 1) * y = x * y + y
      OBVIOUS
    <2> QED
      BY <2>1, <2>2
  <1>13. (e.index + 1) * L <= FAT32_LFN_MAXCHARS
    <2>1. count * L <= FAT32_LFN_MAXCHARS
      BY <1>3 DEF PiecesAt
    <2>2. e.index + 1 \in Nat /\ e.index + 1 <= count /\ L \in Nat
      BY <1>3, <1>9, <1>10, GeometryAssumption
    <2>3. \A x \in Nat, y \in Nat, z \in Nat : x <= y => x * z <= y * z
      OBVIOUS
    <2>4. (e.index + 1) * L <= count * L
      BY <1>3, <2>2, <2>3
    <2>5. (e.index + 1) * L \in Nat /\ count * L \in Nat
      BY <1>3, <2>2
    <2> QED
      BY <2>1, <2>4, <2>5, GeometryAssumption
  <1>14. SomeSeen(at, count, p + 1, t)
    <2> SUFFICES ASSUME NEW r \in 1 .. count PROVE at[r] <= p + 1 <=> r <= t
      BY DEF SomeSeen
    <2>1. CASE r = t
      BY <1>6, <2>1
    <2>2. CASE r < t
      BY <1>4, <1>6, <1>8, <2>2
    <2>3. CASE t < r
      BY <1>4, <1>6, <1>8, <2>3
    <2> QED
      BY <2>1, <2>2, <2>3
  <1>15. (IF e.final THEN e.index ELSE last) = (IF t = 0 THEN -1 ELSE count - 1)
    <2>1. e.index = count - t /\ e.final = (t = 1)
      BY <1>10
    <2> HIDE DEF e
    <2>2. CASE t = 1
      <3>1. e.final /\ e.index = count - 1
        BY <2>1, <2>2
      <3> QED
        BY <2>2, <3>1
    <2>3. CASE t # 1
      <3>1. ~e.final
        BY <2>1, <2>3
      <3>2. q # 0 /\ t # 0
        BY <1>9, <2>3
      <3> QED
        BY <1>2, <3>1, <3>2
    <2> QED
      BY <2>2, <2>3
  <1>16. NameFrom(Copy(lfn, e), name, base)
    <2> SUFFICES ASSUME NEW u \in DOMAIN lfn, base <= u
                 PROVE  /\ u < Len(name) => Copy(lfn, e)[u] = name[u + 1]
                        /\ u = Len(name) => Copy(lfn, e)[u] = NUL
      BY DEF NameFrom, Copy
    <2>1. u \in Nat
      BY GeometryAssumption DEF lfnEmpty
    <2>2. Copy(lfn, e)[u] = LET k == u - base IN IF k \in 0 .. (L - 1) THEN e.chars[k + 1] ELSE lfn[u]
      BY <1>10 DEF Copy
    <2>3. Len(name) \in Nat
      BY DEF Directory, InOrder
    <2>4. L \in Nat
      BY GeometryAssumption
    <2> HIDE DEF base, e, name, L
    <2>5. CASE u < base + L
      <3>1. PICK x : x = (u - base) + 1
        OBVIOUS
      <3>2. u - base \in 0 .. (L - 1) /\ x \in 1 .. L /\ base + x = u + 1
        BY <1>12, <2>1, <2>4, <2>5, <3>1
      <3>3. Copy(lfn, e)[u] = e.chars[x]
        BY <2>2, <3>1, <3>2
      <3>4. (u + 1 <= Len(name) => e.chars[x] = name[u + 1]) /\ (u + 1 = Len(name) + 1 => e.chars[x] = NUL)
        BY <1>10, <3>2 DEF base
      <3> QED
        BY <2>1, <2>3, <3>3, <3>4
    <2>6. CASE ~(u < base + L)
      <3>1. base + L <= u /\ ~(u - base \in 0 .. (L - 1))
        BY <1>12, <2>1, <2>4, <2>6
      <3>2. Copy(lfn, e)[u] = lfn[u]
        BY <2>2, <3>1
      <3> QED
        BY <1>2, <1>12, <3>1, <3>2 DEF NameFrom
    <2> QED
      BY <2>5, <2>6
  <1>17. KnowsName(raw, files, ends, p + 1, n, Copy(lfn, e), IF e.final THEN e.index ELSE last)
    <2>1. t \in 0 .. count
      OBVIOUS
    <2>2. NameFrom(Copy(lfn, e), name, (count - t) * L)
      BY <1>16
    <2> QED
      BY <1>1, <1>14, <1>15, <2>1, <2>2 DEF KnowsName
  <1> QED
    BY <1>11, <1>13, <1>17

\* When the entry of the file comes, the whole name has been read.
LEMMA KnowsAll ==
    ASSUME NEW raw, NEW files, NEW ends, Directory(raw, files, ends), NEW n \in Nat, n + 1 \in DOMAIN files,
           NEW p \in Nat, p + 1 = ends[n + 1],
           NEW lfn, DOMAIN lfn = DOMAIN lfnEmpty, NEW last, KnowsName(raw, files, ends, p, n, lfn, last)
    PROVE  /\ last >= 0 <=> files[n + 1].long # <<>>
           /\ last >= 0 => Text(lfn) = files[n + 1].long
  <1> DEFINE name == files[n + 1].long
             L == PieceLength
  <1>1. PICK count, at :
        /\ NamePieces(raw, files, ends, n, count, at)
        /\ \E q \in 0 .. count :
             /\ SomeSeen(at, count, p, q)
             /\ last = IF q = 0 THEN -1 ELSE count - 1
             /\ NameFrom(lfn, name, (count - q) * L)
    BY DEF KnowsName
  <1>2. PICK q \in 0 .. count :
             /\ SomeSeen(at, count, p, q)
             /\ last = IF q = 0 THEN -1 ELSE count - 1
             /\ NameFrom(lfn, name, (count - q) * L)
    BY <1>1
  <1>3. /\ count \in Nat
        /\ at \in [1 .. count -> PlacesOf(raw, ends, n)]
        /\ PiecesAt(raw, name, PlacesOf(raw, ends, n), count, at)
    BY <1>1, GeometryAssumption DEF NamePieces
  <1>4. q = count
    <2> SUFFICES ASSUME q # count PROVE FALSE
      OBVIOUS
    <2>1. count \in 1 .. count /\ ~(count <= q)
      BY <1>3
    <2>2. at[count] \in PlacesOf(raw, ends, n)
      BY <1>3, <2>1
    <2>3. at[count] \in Nat /\ at[count] < p + 1
      BY <2>2, PlacesAreBetween
    <2> QED
      BY <1>2, <2>1, <2>3 DEF SomeSeen
  <1>5. /\ name \in Seq(Nat \ {NUL}) /\ Len(name) \in Nat
        /\ Len(name) <= count * L /\ (name = <<>> <=> count = 0) /\ count * L <= FAT32_LFN_MAXCHARS
    <2>1. name \in Seq(Nat \ {NUL})
      BY DEF Directory, InOrder
    <2> QED
      BY <1>3, <2>1 DEF PiecesAt
  <1>6. last >= 0 <=> name # <<>>
    BY <1>2, <1>3, <1>4, <1>5
  <1>7. NameFrom(lfn, name, 0)
    <2>1. (count - q) * L = 0
      BY <1>3, <1>4, GeometryAssumption
    <2> QED
      BY <1>2, <2>1
  <1>8. FAT32_LFN_MAXCHARS \in Nat /\ DOMAIN lfn = 0 .. (FAT32_LFN_MAXCHARS - 1)
    BY GeometryAssumption DEF lfnEmpty
  <1>9. Len(name) <= FAT32_LFN_MAXCHARS
    <2>1. count * L \in Nat
      BY <1>3, GeometryAssumption
    <2> QED
      BY <1>5, <1>8, <2>1
  <1>10. \A x \in 1 .. Len(name) : name[x] # NUL
    BY <1>5
  <1> HIDE DEF name, L
  <1>11. \A u \in DOMAIN lfn : (u < Len(name) => lfn[u] = name[u + 1]) /\ (u = Len(name) => lfn[u] = NUL)
    BY <1>7, <1>8 DEF NameFrom
  <1>12. Length(lfn) = Len(name)
    <2> DEFINE nuls == {u \in DOMAIN lfn : lfn[u] = NUL}
    <2>1. \A u \in nuls : Len(name) <= u
      <3> SUFFICES ASSUME NEW u \in nuls, u < Len(name) PROVE FALSE
        BY <1>5, <1>8
      <3>1. u \in DOMAIN lfn /\ lfn[u] = NUL /\ u + 1 \in 1 .. Len(name)
        BY <1>5, <1>8
      <3> QED
        BY <1>10, <1>11, <3>1
    <2>2. CASE Len(name) = FAT32_LFN_MAXCHARS
      <3>1. nuls = {}
        BY <1>8, <2>1, <2>2
      <3> QED
        BY <2>2, <3>1 DEF Length
    <2>3. CASE Len(name) # FAT32_LFN_MAXCHARS
      <3>1. Len(name) \in nuls
        BY <1>5, <1>8, <1>9, <1>11, <2>3
      <3>2. nuls \in SUBSET Nat
        BY <1>8
      <3> HIDE DEF nuls
      <3>3. Min(nuls) \in nuls /\ \A m \in nuls : Min(nuls) <= m
        BY <3>1, <3>2, MinIsLeast
      <3>4. Min(nuls) = Len(name)
        <4>1. PICK m : m = Min(nuls)
          OBVIOUS
        <4>2. m \in Nat /\ Len(name) <= m /\ m <= Len(name)
          BY <2>1, <3>1, <3>2, <3>3, <4>1
        <4> QED
          BY <1>5, <4>1, <4>2
      <3>5. nuls # {}
        BY <3>1
      <3> QED
        BY <3>4, <3>5 DEF Length, nuls
    <2> QED
      BY <2>2, <2>3
  <1>13. Text(lfn) = name
    <2>1. \A x \in 1 .. Len(name) : lfn[x - 1] = name[x]
      <3> SUFFICES ASSUME NEW x \in 1 .. Len(name) PROVE lfn[x - 1] = name[x]
        OBVIOUS
      <3>1. x - 1 \in DOMAIN lfn /\ x - 1 < Len(name) /\ (x - 1) + 1 = x
        BY <1>5, <1>8, <1>9
      <3> QED
        BY <1>11, <3>1
    <2>2. Text(lfn) = [x \in 1 .. Len(name) |-> name[x]]
      BY <1>12, <2>1 DEF Text
    <2> QED
      BY <1>5, <2>2
  <1> QED
    BY <1>6, <1>13 DEF name

\* The next entry, of a file or not.
LEMMA PassedBounds ==
    ASSUME NEW raw, NEW files, NEW ends, Directory(raw, files, ends), NEW p \in Nat, NEW n, Passed(files, ends, p, n)
    PROVE  /\ n \in Nat /\ Behind(ends, n) <= p
           /\ n + 1 \in DOMAIN files => p < ends[n + 1]
  <1>1. n \in Nat /\ n <= Len(files) /\ DOMAIN files = 1 .. Len(files) /\ Len(files) \in Nat
    BY DEF Directory, Passed
  <1>2. \A m \in DOMAIN files : ends[m] \in Nat
    BY DEF Directory
  <1>3. \A m \in DOMAIN files : ends[m] <= p <=> m <= n
    BY DEF Passed
  <1>4. CASE n = 0
    BY <1>1, <1>2, <1>3, <1>4 DEF Behind
  <1>5. CASE n # 0
    <2>1. n \in DOMAIN files
      BY <1>1, <1>5
    <2> QED
      BY <1>1, <1>2, <1>3, <1>5, <2>1 DEF Behind
  <1> QED
    BY <1>4, <1>5

LEMMA PassedMore ==
    ASSUME NEW raw, NEW files, NEW ends, Directory(raw, files, ends), NEW p \in Nat, NEW n, Passed(files, ends, p, n),
           ~IsFile(raw[p + 1])
    PROVE  Passed(files, ends, p + 1, n) /\ (n + 1 \in DOMAIN files => p + 1 < ends[n + 1])
  <1>1. \A m \in DOMAIN files : ends[m] \in Nat /\ ends[m] # p + 1
    BY DEF Directory
  <1>2. \A m \in DOMAIN files : ends[m] <= p <=> m <= n
    BY DEF Passed
  <1>3. Passed(files, ends, p + 1, n)
    BY <1>1, <1>2 DEF Passed
  <1> QED
    BY <1>1, <1>3, PassedBounds

LEMMA PassedFile ==
    ASSUME NEW raw, NEW files, NEW ends, Directory(raw, files, ends), NEW p \in Nat, NEW n, Passed(files, ends, p, n),
           p + 1 \in DOMAIN raw, IsFile(raw[p + 1])
    PROVE  /\ n + 1 \in DOMAIN files /\ ends[n + 1] = p + 1
           /\ raw[p + 1] = files[n + 1].entry
           /\ Passed(files, ends, p + 1, n + 1)
  <1>1. PICK m \in DOMAIN files : ends[m] = p + 1
    BY DEF Directory, InOrder
  <1>2. n \in Nat /\ n <= Len(files) /\ DOMAIN files = 1 .. Len(files) /\ Len(files) \in Nat
    BY DEF Directory, Passed
  <1>3. \A k \in DOMAIN files : ends[k] \in Nat
    BY DEF Directory
  <1>4. \A k \in DOMAIN files : ends[k] <= p <=> k <= n
    BY DEF Passed
  <1>5. \A j, k \in DOMAIN files : j < k => ends[j] < ends[k]
    BY DEF Directory, InOrder
  <1>6. m = n + 1
    <2>1. m \in Nat /\ ~(m <= n)
      BY <1>1, <1>2, <1>4
    <2>2. ASSUME n + 1 < m PROVE FALSE
      <3>1. n + 1 \in DOMAIN files /\ ~(n + 1 <= n)
        BY <1>2, <2>1, <2>2
      <3>2. ends[n + 1] < p + 1 /\ ends[n + 1] \in Nat
        BY <1>1, <1>3, <1>5, <2>2, <3>1
      <3> QED
        BY <1>4, <3>1, <3>2
    <2> QED
      BY <1>2, <2>1, <2>2
  <1>7. raw[p + 1] = files[n + 1].entry
    BY <1>1, <1>6 DEF Directory, InOrder
  <1>8. ASSUME NEW k \in DOMAIN files PROVE ends[k] <= p + 1 <=> k <= n + 1
    <2>1. k \in Nat
      BY <1>2
    <2>2. CASE k <= n
      BY <1>2, <1>3, <1>4, <2>1, <2>2
    <2>3. CASE k = n + 1
      BY <1>1, <1>2, <1>3, <1>6, <2>3
    <2>4. CASE n + 1 < k
      BY <1>1, <1>2, <1>3, <1>5, <1>6, <2>1, <2>4
    <2> QED
      BY <1>2, <2>1, <2>2, <2>3, <2>4
  <1>9. n + 1 \in 0 .. Len(files)
    BY <1>1, <1>2, <1>6
  <1> QED
    BY <1>1, <1>6, <1>7, <1>8, <1>9 DEF Passed

\* A scan of the first p entries: it goes on, having seen n files, or has found one that
\* may match, or has met a piece that belongs to no name.
Seen(raw, files, ends, p, s, n, mode, name) ==
    /\ Passed(files, ends, p, n)
    /\ n + 1 \in DOMAIN files => KnowsName(raw, files, ends, p, n, s.lfn, s.last)
    /\ mode = "list" => s.names = Names(files)[n]
    /\ mode = "find" => s.names = <<>> /\ \A m \in 1 .. n : files[m].long # name

ScanInv(raw, files, ends, p, s, mode, name) ==
    /\ DOMAIN s = {"lfn", "last", "names", "result", "found"}
    /\ LfnOK(s)
    /\ s.result \in {"none", "found", "invalid", "overflow"}
    /\ s.result = "none" => \E n : Seen(raw, files, ends, p, s, n, mode, name)
    /\ s.result = "found" =>
         /\ mode = "find" /\ s.names = <<>>
         /\ \E m \in DOMAIN files : s.found = {files[m].entry} /\ MayMatch(files[m], name)
    /\ s.result = "invalid" /\ mode = "find" => \A m \in DOMAIN files : files[m].long # name

\* An entry of a kind that is passed over.
LEMMA ScanOther ==
    ASSUME NEW raw, NEW files, NEW ends, Directory(raw, files, ends), NEW p \in Nat, p + 1 \in DOMAIN raw,
           NEW s, NEW mode, NEW name, ScanInv(raw, files, ends, p, s, mode, name), s.result = "none",
           ~IsFile(raw[p + 1]), raw[p + 1].kind # "lfn"
    PROVE  ScanInv(raw, files, ends, p + 1, s, mode, name)
  <1>1. PICK n : Seen(raw, files, ends, p, s, n, mode, name)
    BY DEF ScanInv
  <1>2. Passed(files, ends, p, n) /\ Passed(files, ends, p + 1, n)
    BY <1>1, PassedMore DEF Seen
  <1>3. n + 1 \in DOMAIN files => KnowsName(raw, files, ends, p + 1, n, s.lfn, s.last)
    BY <1>1, <1>2, PassedBounds, KnowsTheSame DEF Seen
  <1>4. Seen(raw, files, ends, p + 1, s, n, mode, name)
    BY <1>1, <1>2, <1>3 DEF Seen
  <1> QED
    BY <1>4 DEF ScanInv

\* A piece of a long name.
LEMMA ScanPieceStep ==
    ASSUME NEW raw, NEW files, NEW ends, Directory(raw, files, ends), NEW p \in Nat, p + 1 \in DOMAIN raw,
           NEW s, NEW mode, NEW name, ScanInv(raw, files, ends, p, s, mode, name), s.result = "none",
           raw[p + 1].kind = "lfn", ScanState(ScanPiece(s, raw[p + 1]))
    PROVE  ScanInv(raw, files, ends, p + 1, ScanPiece(s, raw[p + 1]), mode, name)
  <1> DEFINE e == raw[p + 1]
             t == ScanPiece(s, e)
             goesOn == [s EXCEPT !.lfn = Copy(s.lfn, e), !.last = IF e.final THEN e.index ELSE @]
  <1>1. PICK n : Seen(raw, files, ends, p, s, n, mode, name)
    BY DEF ScanInv
  <1>2. ~IsFile(e)
    BY DEF IsFile
  <1>3. /\ Passed(files, ends, p, n) /\ Passed(files, ends, p + 1, n)
        /\ n + 1 \in DOMAIN files => p + 1 < ends[n + 1]
        /\ n \in Nat /\ Behind(ends, n) <= p
    BY <1>1, <1>2, PassedMore, PassedBounds DEF Seen
  <1>4. DOMAIN s = {"lfn", "last", "names", "result", "found"} /\ DOMAIN s.lfn = DOMAIN lfnEmpty
    BY DEF ScanInv, LfnOK
  <1>5. \/ t = [s EXCEPT !.result = "invalid"]
        \/ t = [s EXCEPT !.result = "overflow"]
        \/ t = goesOn
    BY DEF ScanPiece
  <1>6. DOMAIN t = DOMAIN s /\ t.names = s.names /\ t.found = s.found
    BY <1>4, <1>5
  <1>7. CASE n + 1 \in DOMAIN files
    <2>1. /\ e.index \in 0 .. FAT32_LFN_MAX_INDEX
          /\ (e.index + 1) * PieceLength <= FAT32_LFN_MAXCHARS
          /\ KnowsName(raw, files, ends, p + 1, n, Copy(s.lfn, e), IF e.final THEN e.index ELSE s.last)
      BY <1>1, <1>3, <1>4, <1>7, KnowsMore DEF Seen
    <2>2. ~(e.index > FAT32_LFN_MAX_INDEX)
      BY <2>1, GeometryAssumption
    <2>3. ~Overflows(e.index)
      <3>1. (e.index + 1) * PieceLength \in Int
        BY <2>1, GeometryAssumption
      <3> QED
        BY <2>1, <3>1, GeometryAssumption DEF Overflows
    <2>4. t = goesOn
      BY <2>2, <2>3 DEF ScanPiece
    <2>5. t.result = s.result /\ t.lfn = Copy(s.lfn, e) /\ t.last = (IF e.final THEN e.index ELSE s.last)
      BY <1>4, <2>4
    <2> HIDE DEF t, e, goesOn
    <2>6. Seen(raw, files, ends, p + 1, t, n, mode, name)
      BY <1>1, <1>3, <1>6, <2>1, <2>5 DEF Seen
    <2> QED
      BY <1>4, <1>6, <2>5, <2>6 DEF ScanInv, ScanState, t, e
  <1>8. CASE n + 1 \notin DOMAIN files
    <2>1. \A m \in DOMAIN files : m \in 1 .. n
      BY <1>3, <1>8 DEF Directory, Passed
    <2>2. t.result = "none" => t = goesOn
      BY <1>4, <1>5
    <2> HIDE DEF t, e, goesOn
    <2>3. Seen(raw, files, ends, p + 1, t, n, mode, name)
      BY <1>1, <1>3, <1>6, <1>8 DEF Seen
    <2>4. mode = "find" => \A m \in DOMAIN files : files[m].long # name
      BY <1>1, <2>1 DEF Seen
    <2>5. t.result # "found"
      BY <1>4, <1>5 DEF goesOn
    <2> QED
      BY <2>3, <2>4, <2>5 DEF ScanInv, ScanState, t, e
  <1> QED
    BY <1>7, <1>8

LEMMA PrefixOfItself == ASSUME NEW x, Len(x) \in Nat PROVE IsPrefix(x, x)
  BY DEF IsPrefix

\* What an entry that the code takes for the name may be.
LEMMA MatchMayMatch ==
    ASSUME NEW f, NEW last, NEW lfn, NEW name, NEW chance,
           last >= 0 <=> f.long # <<>>, last >= 0 => Text(lfn) = f.long,
           IF last >= 0 THEN LongNameMatches(lfn, name)
           ELSE IsShortName(f.entry.short) /\ ShortNameMatches(f.entry.short, name, chance)
    PROVE  MayMatch(f, name)
  BY DEF MayMatch, LongNameMatches, ShortNameMatches

\* A file.
LEMMA ScanEntryStep ==
    ASSUME NEW raw, NEW files, NEW ends, Directory(raw, files, ends), NEW p \in Nat, p + 1 \in DOMAIN raw,
           NEW s, ScanInv(raw, files, ends, p, s, search.mode, Head(search.rest)), s.result = "none",
           IsFile(raw[p + 1]), search.mode \in {"find", "list"}, NEW chance,
           search.mode = "find" => Head(search.rest) # <<>>,
           ScanState(ScanEntry(s, raw[p + 1], chance))
    PROVE  ScanInv(raw, files, ends, p + 1, ScanEntry(s, raw[p + 1], chance), search.mode, Head(search.rest))
  <1> DEFINE e == raw[p + 1]
             t == ScanEntry(s, e, chance)
             name == Head(search.rest)
             mode == search.mode
             after == [s EXCEPT !.last = -1, !.lfn = Cleared(s.lfn)]
  <1>1. PICK n : Seen(raw, files, ends, p, s, n, mode, name)
    BY DEF ScanInv
  <1>2. /\ n + 1 \in DOMAIN files /\ ends[n + 1] = p + 1
        /\ e = files[n + 1].entry
        /\ Passed(files, ends, p + 1, n + 1)
    BY <1>1, PassedFile DEF Seen
  <1>3. n \in Nat
    BY <1>1, PassedBounds DEF Seen
  <1>4. DOMAIN s = {"lfn", "last", "names", "result", "found"} /\ DOMAIN s.lfn = DOMAIN lfnEmpty
    BY DEF ScanInv, LfnOK
  <1>5. PICK f : f = files[n + 1]
    OBVIOUS
  <1>6. (s.last >= 0 <=> f.long # <<>>) /\ (s.last >= 0 => Text(s.lfn) = f.long)
    BY <1>1, <1>2, <1>3, <1>4, <1>5, KnowsAll DEF Seen
  <1>7. DOMAIN after = DOMAIN s /\ after.last = -1 /\ after.lfn = lfnEmpty /\ after.names = s.names
        /\ after.result = "none" /\ after.found = s.found
    BY <1>4 DEF Cleared
  <1>8. n + 1 + 1 \in DOMAIN files => KnowsName(raw, files, ends, p + 1, n + 1, lfnEmpty, -1)
    <2> SUFFICES ASSUME (n + 1) + 1 \in DOMAIN files
                 PROVE  KnowsName(raw, files, ends, p + 1, n + 1, lfnEmpty, -1)
      OBVIOUS
    <2>1. Behind(ends, n + 1) = p + 1
      BY <1>2, <1>3 DEF Behind
    <2> QED
      BY <1>3, <2>1, KnowsNothing
  <1>9. CASE mode = "list"
    <2> DEFINE printed == IF s.last >= 0 THEN <<Text(s.lfn)>>
                          ELSE IF IsShortName(e.short) THEN <<ShortNameToName(e.short)>> ELSE <<>>
    <2>1. t = [after EXCEPT !.names = @ \o printed]
      BY <1>9 DEF ScanEntry
    <2> HIDE DEF printed, after
    <2>2. /\ DOMAIN t = DOMAIN s /\ t.last = -1 /\ t.lfn = lfnEmpty /\ t.names = s.names \o printed
          /\ t.result = "none" /\ t.found = s.found
      BY <1>4, <1>7, <2>1
    <2>3. PrintsAll(files, Names(files))
      BY NamesFacts DEF Directory
    <2>4. PICK g : g = Names(files)
      OBVIOUS
    <2>5. g[n + 1] = IF IsShown(f) THEN Append(g[n], NameOf(f)) ELSE g[n]
      <3>1. n + 1 \in 1 .. Len(files) /\ (n + 1) - 1 = n
        BY <1>2, <1>3 DEF Directory
      <3> QED
        BY <1>5, <2>3, <2>4, <3>1 DEF PrintsAll
    <2>6. s.names = g[n] /\ \E V : s.names \in Seq(V)
      <3>1. n \in 0 .. Len(files)
        BY <1>1 DEF Seen, Passed
      <3>2. s.names = g[n]
        BY <1>1, <1>9, <2>4 DEF Seen
      <3> QED
        BY <2>3, <2>4, <3>1, <3>2 DEF PrintsAll
    <2>7. printed = IF IsShown(f) THEN <<NameOf(f)>> ELSE <<>>
      <3>1. CASE s.last >= 0
        BY <1>6, <3>1 DEF printed, IsShown, NameOf
      <3>2. CASE ~(s.last >= 0)
        BY <1>2, <1>5, <1>6, <3>2 DEF printed, IsShown, NameOf
      <3> QED
        BY <3>1, <3>2
    <2>8. t.names = g[n + 1]
      <3>1. PICK V : s.names \in Seq(V)
        BY <2>6
      <3>2. s.names \o <<>> = s.names
        BY <3>1
      <3>3. s.names \o <<NameOf(f)>> = Append(s.names, NameOf(f))
        BY <3>1
      <3> HIDE DEF t
      <3>4. CASE IsShown(f)
        BY <2>2, <2>5, <2>6, <2>7, <3>3, <3>4
      <3>5. CASE ~IsShown(f)
        BY <2>2, <2>5, <2>6, <2>7, <3>2, <3>5
      <3> QED
        BY <3>4, <3>5
    <2> HIDE DEF t, mode, e, name
    <2>9. Seen(raw, files, ends, p + 1, t, n + 1, mode, name)
      BY <1>2, <1>8, <1>9, <2>2, <2>4, <2>8 DEF Seen
    <2>10. ScanInv(raw, files, ends, p + 1, t, mode, name)
      BY <1>4, <2>2, <2>9 DEF ScanInv, ScanState, t, e
    <2> QED
      BY <2>10 DEF t, mode, e, name
  <1>10. CASE mode = "find"
    <2> DEFINE matches == IF s.last >= 0 THEN LongNameMatches(s.lfn, name)
                          ELSE IsShortName(e.short) /\ ShortNameMatches(e.short, name, chance)
    <2>1. t = IF matches THEN [after EXCEPT !.result = "found", !.found = {e}] ELSE after
      BY <1>10 DEF ScanEntry
    <2>2. s.names = <<>> /\ \A m \in 1 .. n : files[m].long # name
      BY <1>1, <1>10 DEF Seen
    <2> HIDE DEF after
    <2>3. CASE matches
      <3>1. /\ DOMAIN t = DOMAIN s /\ t.names = <<>> /\ t.result = "found" /\ t.found = {e}
        BY <1>4, <1>7, <2>1, <2>2, <2>3
      <3>2. MayMatch(f, name)
        BY <1>2, <1>5, <1>6, <2>3, MatchMayMatch
      <3> HIDE DEF t, mode, e, name
      <3>3. ScanInv(raw, files, ends, p + 1, t, mode, name)
        BY <1>2, <1>4, <1>5, <1>10, <3>1, <3>2 DEF ScanInv, ScanState, t, e
      <3> QED
        BY <3>3 DEF t, mode, e, name
    <2>4. CASE ~matches
      <3>1. t = after
        BY <2>1, <2>4
      <3>2. f.long # name
        <4> SUFFICES ASSUME f.long = name PROVE FALSE
          OBVIOUS
        <4>1. CASE s.last >= 0
          <5>1. Text(s.lfn) = name /\ Len(f.long) \in Nat
            <6>1. f.long \in Seq(Nat \ {NUL})
              BY <1>2, <1>5 DEF Directory, InOrder
            <6> QED
              BY <1>6, <4>1, <6>1
          <5>2. IsPrefix(Text(s.lfn), name)
            BY <5>1, PrefixOfItself
          <5> QED
            BY <2>4, <4>1, <5>2 DEF LongNameMatches
        <4>2. CASE ~(s.last >= 0)
          BY <1>6, <1>10, <4>2
        <4> QED
          BY <4>1, <4>2
      <3>3. \A m \in 1 .. (n + 1) : files[m].long # name
        <4>1. \A m \in 1 .. (n + 1) : m \in 1 .. n \/ m = n + 1
          BY <1>3
        <4> QED
          BY <1>5, <2>2, <3>2, <4>1
      <3> HIDE DEF t, mode, e, name
      <3>4. Seen(raw, files, ends, p + 1, t, n + 1, mode, name)
        BY <1>2, <1>7, <1>8, <1>10, <2>2, <3>1, <3>3 DEF Seen
      <3>5. ScanInv(raw, files, ends, p + 1, t, mode, name)
        BY <1>4, <1>7, <3>1, <3>4 DEF ScanInv, ScanState, t, e
      <3> QED
        BY <3>5 DEF t, mode, e, name
    <2> QED
      BY <2>3, <2>4
  <1> QED
    BY <1>9, <1>10

LEMMA ScanNextStep ==
    ASSUME NEW raw, NEW files, NEW ends, Directory(raw, files, ends), NEW p \in Nat, p + 1 \in DOMAIN raw,
           NEW s, ScanInv(raw, files, ends, p, s, search.mode, Head(search.rest)),
           search.mode \in {"find", "list"}, search.mode = "find" => Head(search.rest) # <<>>,
           NEW chance, ScanState(ScanNext(s, raw[p + 1], chance))
    PROVE  ScanInv(raw, files, ends, p + 1, ScanNext(s, raw[p + 1], chance), search.mode, Head(search.rest))
  <1> DEFINE e == raw[p + 1]
             t == ScanNext(s, e, chance)
  <1>1. CASE s.result # "none"
    <2>1. t = s
      BY <1>1 DEF ScanNext
    <2> HIDE DEF t
    <2>2. ScanInv(raw, files, ends, p + 1, t, search.mode, Head(search.rest))
      BY <1>1, <2>1 DEF ScanInv
    <2> QED
      BY <2>2 DEF t
  <1>2. CASE s.result = "none" /\ e.kind = "lfn"
    <2>1. t = ScanPiece(s, e)
      BY <1>2 DEF ScanNext
    <2> QED
      BY <1>2, <2>1, ScanPieceStep
  <1>3. CASE s.result = "none" /\ IsFile(e)
    <2>1. t = ScanEntry(s, e, chance)
      BY <1>3 DEF ScanNext, IsFile
    <2> QED
      BY <1>3, <2>1, ScanEntryStep
  <1>4. CASE s.result = "none" /\ e.kind # "lfn" /\ ~IsFile(e)
    <2>1. t = s
      BY <1>4 DEF ScanNext, IsFile
    <2> QED
      BY <1>4, <2>1, ScanOther
  <1> QED
    BY <1>1, <1>2, <1>3, <1>4

\* The entries of a sector, from the base-th of the directory on.
LEMMA ScanStep ==
    ASSUME NEW raw, NEW files, NEW ends, Directory(raw, files, ends),
           image \in Images, WalkInv(search), NEW entries \in Seq(DirEntries(image)), NEW lucky,
           NEW base \in Nat, base + Len(entries) <= Len(raw),
           \A j \in 1 .. Len(entries) : entries[j] = raw[base + j],
           search.mode \in {"find", "list"}, search.mode = "find" => Head(search.rest) # <<>>,
           ScanInv(raw, files, ends, base, ScanStart, search.mode, Head(search.rest))
    PROVE  ScanInv(raw, files, ends, base + Len(entries), Scan(entries, lucky), search.mode, Head(search.rest))
  <1> DEFINE f == CHOOSE f : Solves(f, entries, lucky, Len(entries))
             Holds(j) == ScanState(f[j])
                         /\ ScanInv(raw, files, ends, base + j, f[j], search.mode, Head(search.rest))
  <1>1. Solves(f, entries, lucky, Len(entries))
    <2>1. Len(entries) \in Nat
      OBVIOUS
    <2>2. \E h : Solves(h, entries, lucky, Len(entries))
      BY ONLY <2>1, ScanRecursion
    <2> QED
      BY ONLY <2>2
  <1>2. Scan(entries, lucky) = f[Len(entries)]
    BY DEF Scan, Solves
  <1> HIDE DEF f
  <1>3. \A j \in 0 .. Len(entries) :
          f[j] = IF j = 0 THEN ScanStart ELSE ScanNext(f[j - 1], entries[j], j \in lucky)
    BY <1>1 DEF Solves
  <1> DEFINE Good == {j \in Nat : j <= Len(entries) => Holds(j)}
  <1>4. 0 \in Good
    <2>1. ScanState(ScanStart)
      BY DEF ScanStart, ScanState, WalkInv, LfnOK
    <2>2. f[0] = ScanStart
      BY <1>3
    <2>3. base + 0 = base
      OBVIOUS
    <2>4. Holds(0)
      BY <2>1, <2>2, <2>3
    <2> HIDE DEF Holds
    <2> QED
      BY <2>4
  <1>5. ASSUME NEW j \in Nat, j \in Good PROVE j + 1 \in Good
    <2> SUFFICES ASSUME j + 1 <= Len(entries) PROVE Holds(j + 1)
      OBVIOUS
    <2>1. Holds(j) /\ entries[j + 1] \in DirEntries(image)
      BY <1>5
    <2>2. f[j + 1] = ScanNext(f[j], entries[j + 1], j + 1 \in lucky)
      BY <1>3
    <2>3. ScanState(f[j + 1])
      BY <2>1, <2>2, ScanNextOK
    <2>4. entries[j + 1] = raw[base + (j + 1)]
      OBVIOUS
    <2>5. base + (j + 1) = (base + j) + 1 /\ base + j \in Nat /\ (base + j) + 1 \in DOMAIN raw
      <3>1. DOMAIN raw = 1 .. Len(raw) /\ Len(raw) \in Nat
        BY DEF Directory
      <3> QED
        BY <3>1
    <2>6. PICK p, s, chance : p = base + j /\ s = f[j] /\ chance = (j + 1 \in lucky)
      OBVIOUS
    <2>7. p \in Nat /\ p + 1 \in DOMAIN raw /\ f[j + 1] = ScanNext(s, raw[p + 1], chance)
      BY <2>2, <2>4, <2>5, <2>6
    <2>8. ScanInv(raw, files, ends, p + 1, ScanNext(s, raw[p + 1], chance), search.mode, Head(search.rest))
      <3>1. ScanInv(raw, files, ends, p, s, search.mode, Head(search.rest))
        BY <2>1, <2>6
      <3>2. ScanState(ScanNext(s, raw[p + 1], chance))
        BY <2>3, <2>7
      <3> QED
        BY <2>7, <3>1, <3>2, ScanNextStep
    <2> QED
      BY <2>3, <2>5, <2>6, <2>7, <2>8
  <1> HIDE DEF Good
  <1>6. Len(entries) \in Good
    BY <1>4, <1>5, SetInduction
  <1> QED
    BY <1>2, <1>6 DEF Good

-----------------------------------------------------------------------------
(* The walk along a path. *)

LaidOutAs(i, c, width, ends) ==
    /\ Directory(RawIn(i, c), FilesIn(i, c), ends)
    /\ width \in Nat /\ InSectors(i, i.chains[c], RawIn(i, c), width)

\* The entries before a sector of the k-th cluster.
Before(k, sector, width) == ((k - 1) * SectorsPerCluster + sector) * width

\* Where a walk is in the directory that begins with cluster c, and what it has seen.
Standing(i, w, c, width, ends, k, n) ==
    /\ LaidOutAs(i, c, width, ends)
    /\ k \in 1 .. (Len(i.chains[c]) + 1)
    /\ IF k <= Len(i.chains[c]) THEN w.cluster = i.chains[c][k]
       ELSE w.cluster >= EndOfChain /\ w.sector = 0
    /\ Seen(RawIn(i, c), FilesIn(i, c), ends, Before(k, w.sector, width), w, n, w.mode, Head(w.rest))

\* The walk has come to directory c by d names of its path: one that may have it, and
\* the only one that may by long names.
Arrived(i, path, c, d) ==
    /\ path \in Paths /\ d \in 0 .. Len(path)
    /\ c \in Dirs(i, Named(i, path), d)
    /\ Dirs(i, Long(i, path), d) \subseteq {c}
    /\ LaidOut(i, c)

Looks(i, w, c, d) ==
    /\ w.goal \in {"open", "list"}
    /\ w.mode = "find" =>
         /\ Len(w.rest) = Len(w.path) - d /\ w.rest \in Seq(Seq(Nat))
         /\ \A t \in DOMAIN w.rest : w.rest[t] = w.path[d + t]
    /\ w.mode = "list" => d = Len(w.path) /\ w.goal = "list" /\ c \in DOMAIN i.tree

WalkOK(i, w) ==
    w.mode # "idle" /\ ~w.failed =>
        \E c, d : /\ Arrived(i, w.path, c, d)
                  /\ Looks(i, w, c, d)
                  /\ \E width, ends, k, n : Standing(i, w, c, width, ends, k, n)

\* FindsTheName and ListsTheNames of an answer.
AnswerOK(i, a) ==
    /\ a.goal = "open" /\ a.path # <<>> /\ ~a.failed =>
         /\ \A e \in a.found : \E f \in Named(i, a.path)[Len(a.path)] : f.entry = e
         /\ a.found = {} => Long(i, a.path)[Len(a.path)] = {}
    /\ a.goal = "list" /\ a.ok /\ ~a.failed =>
         /\ a.path \in Paths
         /\ \E c \in Dirs(i, Named(i, a.path), Len(a.path)) : a.names = NamesOf(i.tree[c])

LEMMA PathIs == ASSUME NEW path \in Paths PROVE path \in Seq(Seq(Nat)) /\ Len(path) \in Nat
  BY CallersAssumption

LEMMA LaidOutIs ==
    ASSUME NEW i \in Images, NEW c, LaidOut(i, c)
    PROVE  \E width, ends : LaidOutAs(i, c, width, ends)
  <1> DEFINE raw == RawIn(i, c)
             files == FilesIn(i, c)
  <1>1. PICK ends \in [DOMAIN files -> {p \in DOMAIN raw : IsFile(raw[p])}] : InOrder(raw, files, ends)
    BY DEF LaidOut, Encodes
  <1>2. raw \in Seq(DirEntries(i)) /\ files \in Seq(ToSet(files))
    BY DEF LaidOut
  <1> HIDE DEF raw, files
  <1>3. Directory(raw, files, ends)
    BY <1>1, <1>2 DEF Directory
  <1>4. PICK width \in {Len(i.entries[lba]) : lba \in DOMAIN i.entries} \cup {0} :
           InSectors(i, i.chains[c], RawIn(i, c), width)
    BY DEF LaidOut
  <1>5. width \in Nat
    <2>1. CASE width = 0
      BY <2>1
    <2>2. CASE width # 0
      <3>1. PICK lba \in DOMAIN i.entries : width = Len(i.entries[lba])
        BY <1>4, <2>2
      <3>2. i.entries[lba] \in Seq(DirEntries(i))
        BY <3>1, VolumeAssumption
      <3> QED
        BY <3>1, <3>2
    <2> QED
      BY <2>1, <2>2
  <1> QED
    BY <1>3, <1>4, <1>5 DEF LaidOutAs, raw, files

LEMMA ChainIs ==
    ASSUME NEW i, NEW c, LaidOut(i, c)
    PROVE  /\ Follows(i, i.chains[c]) /\ i.chains[c][1] = c
           /\ i.chains[c] \in Seq(0 .. (EndOfChain - 1)) /\ Len(i.chains[c]) \in Nat \ {0}
  <1>1. i.chains[c] \in Seq(0 .. (EndOfChain - 1)) /\ i.chains[c] # <<>>
    BY DEF LaidOut, Follows
  <1> QED
    BY <1>1 DEF LaidOut

\* A walk that starts in a directory.
LEMMA Starts ==
    ASSUME NEW i \in Images, NEW c, LaidOut(i, c), NEW walk, DOMAIN walk = DOMAIN Idle,
           walk.names = <<>>, NEW mode
    PROVE  LET w == StartAt(c, mode, walk)
           IN  \E width, ends, k, n : Standing(i, w, c, width, ends, k, n)
  <1> DEFINE w == StartAt(c, mode, walk)
             raw == RawIn(i, c)
             files == FilesIn(i, c)
  <1>1. PICK width, ends : LaidOutAs(i, c, width, ends)
    BY LaidOutIs
  <1>2. /\ w.mode = mode /\ w.cluster = c /\ w.sector = 0 /\ w.lfn = lfnEmpty /\ w.last = -1
        /\ w.names = <<>> /\ w.rest = walk.rest
    BY DEF StartAt, Idle
  <1>3. Directory(raw, files, ends) /\ width \in Nat
    BY <1>1 DEF LaidOutAs
  <1>4. Before(1, 0, width) = 0
    <2>1. (1 - 1) * SectorsPerCluster + 0 = 0
      BY GeometryAssumption
    <2> QED
      BY <1>3, <2>1 DEF Before
  <1> HIDE DEF w, raw, files
  <1>5. Passed(files, ends, 0, 0)
    <2>1. \A m \in DOMAIN files : ends[m] \in Nat /\ ends[m] > 0 /\ m \in Nat /\ m > 0
      BY <1>3 DEF Directory
    <2> QED
      BY <1>3, <2>1 DEF Passed, Directory
  <1>6. 0 + 1 \in DOMAIN files => KnowsName(raw, files, ends, 0, 0, lfnEmpty, -1)
    <2>1. Behind(ends, 0) = 0
      BY DEF Behind
    <2> QED
      BY <1>3, <2>1, KnowsNothing
  <1>7. Names(files)[0] = <<>>
    BY <1>3, NamesFacts DEF Directory, PrintsAll
  <1>8. Seen(raw, files, ends, 0, w, 0, w.mode, Head(w.rest))
    BY <1>2, <1>5, <1>6, <1>7 DEF Seen
  <1>9. 1 \in 1 .. (Len(i.chains[c]) + 1) /\ 1 <= Len(i.chains[c]) /\ w.cluster = i.chains[c][1]
    BY <1>2, ChainIs
  <1>10. Standing(i, w, c, width, ends, 1, 0)
    BY <1>1, <1>2, <1>4, <1>8, <1>9 DEF Standing, raw, files
  <1> QED
    BY <1>10 DEF w

\* The next name of the path.
LEMMA NextName ==
    ASSUME Unambiguous, NEW i \in Images, NEW path, NEW c, NEW d, Arrived(i, path, c, d), d < Len(path)
    PROVE  /\ path[d + 1] # <<>>
           /\ \A f \in ToSet(FilesIn(i, c)) : MayMatch(f, path[d + 1]) =>
                f \in Named(i, path)[d + 1] /\ Long(i, path)[d + 1] \subseteq {f}
  <1>1. path \in Paths /\ Len(path) \in Nat /\ path \in Seq(Seq(Nat)) /\ d \in Nat /\ d \in 0 .. Len(path)
    BY PathIs DEF Arrived
  <1>2. d + 1 \in DOMAIN path /\ (d + 1) - 1 = d /\ d + 1 \in 1 .. Len(path)
    BY <1>1
  <1>3. PICK name : name = path[d + 1]
    OBVIOUS
  <1>4. name # <<>> /\ Len(name) \in Nat
    <2>1. i.boot.rootCluster \in DOMAIN i.tree
      BY DirectoriesAssumption
    <2>2. name \in Seq(Nat)
      BY <1>1, <1>2, <1>3
    <2> QED
      BY <1>1, <1>2, <1>3, <2>1, <2>2 DEF Unambiguous
  <1>5. ASSUME NEW f \in ToSet(FilesIn(i, c)), MayMatch(f, name)
        PROVE  f \in Named(i, path)[d + 1] /\ Long(i, path)[d + 1] \subseteq {f}
    <2>1. c \in DOMAIN i.tree /\ f \in ToSet(i.tree[c])
      BY DEF FilesIn, ToSet
    <2>2. HasName(f, name) /\ \A g \in ToSet(i.tree[c]) : MayMatch(g, name) => f = g
      BY <1>1, <1>2, <1>3, <1>5, <2>1 DEF Unambiguous
    <2>3. ChildrenOf(i, c) = ToSet(i.tree[c])
      BY <2>1 DEF ChildrenOf
    <2>4. f \in Named(i, path)[d + 1]
      BY <1>1, <1>2, <1>3, <2>1, <2>2, <2>3, NamedFacts DEF Arrived
    <2>5. ASSUME NEW g \in Long(i, path)[d + 1] PROVE g = f
      <3>1. (\E x \in Dirs(i, Long(i, path), d) : g \in ChildrenOf(i, x)) /\ HasLongName(g, name)
        BY <1>1, <1>2, <1>3, <2>5, LongFacts
      <3>2. g \in ToSet(i.tree[c])
        BY <2>3, <3>1 DEF Arrived
      <3>3. MayMatch(g, name)
        BY <1>4, <3>1, PrefixOfItself DEF MayMatch, HasLongName
      <3> QED
        BY <2>2, <3>2, <3>3
    <2> QED
      BY <2>4, <2>5
  <1> QED
    BY <1>3, <1>4, <1>5

\* A directory without the name is the end of what the path leads to by long names.
LEMMA NothingElse ==
    ASSUME NEW i \in Images, NEW path, NEW c, NEW d, Arrived(i, path, c, d), d < Len(path),
           \A m \in DOMAIN FilesIn(i, c) : FilesIn(i, c)[m].long # path[d + 1]
    PROVE  Long(i, path)[Len(path)] = {}
  <1>1. path \in Paths /\ Len(path) \in Nat /\ d \in Nat /\ d \in 0 .. Len(path)
    BY PathIs DEF Arrived
  <1>2. d + 1 \in 1 .. Len(path) /\ (d + 1) - 1 = d
    BY <1>1
  <1>3. \A g : g \notin Long(i, path)[d + 1]
    <2> SUFFICES ASSUME NEW g, g \in Long(i, path)[d + 1] PROVE FALSE
      OBVIOUS
    <2>1. PICK x \in Dirs(i, Long(i, path), d) : g \in ChildrenOf(i, x)
      BY <1>1, <1>2, LongFacts
    <2>2. g.long = path[d + 1]
      BY <1>1, <1>2, LongFacts DEF HasLongName
    <2>3. g \in ChildrenOf(i, c)
      BY <2>1 DEF Arrived
    <2>4. PICK m \in DOMAIN FilesIn(i, c) : g = FilesIn(i, c)[m]
      BY <2>3 DEF ChildrenOf, FilesIn, ToSet
    <2> QED
      BY <2>2, <2>4
  <1> DEFINE Good == {j \in Nat : d + 1 + j <= Len(path) => \A g : g \notin Long(i, path)[d + 1 + j]}
  <1>4. 0 \in Good
    <2>1. d + 1 + 0 = d + 1
      BY <1>1
    <2> QED
      BY <1>3, <2>1
  <1>5. ASSUME NEW j \in Nat, j \in Good PROVE j + 1 \in Good
    <2> SUFFICES ASSUME d + 1 + (j + 1) <= Len(path), NEW g, g \in Long(i, path)[d + 1 + (j + 1)] PROVE FALSE
      OBVIOUS
    <2>1. PICK k : k = d + 1 + j
      OBVIOUS
    <2>2. k \in Nat /\ k # 0 /\ k <= Len(path) /\ k + 1 \in 1 .. Len(path) /\ (k + 1) - 1 = k /\ d + 1 + (j + 1) = k + 1
      BY <1>1, <2>1
    <2>3. \A h : h \notin Long(i, path)[k]
      BY <1>5, <2>1, <2>2
    <2>4. Dirs(i, Long(i, path), k) = {}
      BY <2>2, <2>3 DEF Dirs
    <2>5. \E x \in Dirs(i, Long(i, path), k) : g \in ChildrenOf(i, x)
      <3>1. g \in Long(i, path)[k + 1]
        BY <2>2
      <3> QED
        BY <1>1, <2>2, <3>1, LongFacts
    <2> QED
      BY <2>4, <2>5
  <1> HIDE DEF Good
  <1>6. Len(path) - (d + 1) \in Good
    <2>1. Len(path) - (d + 1) \in Nat
      BY <1>1
    <2> QED
      BY <1>4, <1>5, <2>1, SetInduction
  <1>7. d + 1 + (Len(path) - (d + 1)) = Len(path)
    BY <1>1
  <1> QED
    BY <1>1, <1>6, <1>7 DEF Good

\* The rest of a path in a directory.
RestOf(path, rest, d) ==
    /\ d \in Nat /\ d < Len(path) /\ Len(path) \in Nat
    /\ Head(rest) = path[d + 1]
    /\ Tail(rest) \in Seq(Seq(Nat)) /\ Len(Tail(rest)) = Len(path) - (d + 1)
    /\ \A t \in DOMAIN Tail(rest) : Tail(rest)[t] = path[d + 1 + t]
    /\ (Tail(rest) = <<>> <=> d + 1 = Len(path))

LEMMA TailIs ==
    ASSUME NEW rest \in Seq(Seq(Nat)), rest # <<>>
    PROVE  /\ Len(rest) \in Nat /\ Len(rest) > 0 /\ 1 \in DOMAIN rest /\ Head(rest) = rest[1]
           /\ DOMAIN rest = 1 .. Len(rest)
           /\ Tail(rest) \in Seq(Seq(Nat)) /\ Len(Tail(rest)) = Len(rest) - 1
           /\ DOMAIN Tail(rest) = 1 .. (Len(rest) - 1)
           /\ \A t \in 1 .. (Len(rest) - 1) : Tail(rest)[t] = rest[t + 1]
           /\ (Tail(rest) = <<>> <=> Len(rest) = 1)
  <1>1. Len(rest) \in Nat /\ Len(rest) > 0
    OBVIOUS
  <1>2. PICK tail : tail = Tail(rest)
    OBVIOUS
  <1>3. tail \in Seq(Seq(Nat)) /\ Len(tail) = Len(rest) - 1 /\ \A t \in 1 .. (Len(rest) - 1) : tail[t] = rest[t + 1]
    BY <1>1, <1>2
  <1>4. tail = <<>> <=> Len(tail) = 0
    BY <1>3, EmptySeq
  <1> QED
    BY <1>1, <1>2, <1>3, <1>4

LEMMA RestIs ==
    ASSUME NEW i, NEW w, NEW c, NEW d, Arrived(i, w.path, c, d), Looks(i, w, c, d), w.mode = "find", w.rest # <<>>
    PROVE  RestOf(w.path, w.rest, d)
  <1>1. PICK rest, path : rest = w.rest /\ path = w.path
    OBVIOUS
  <1>2. d \in Nat /\ Len(path) \in Nat /\ Len(rest) = Len(path) - d /\ rest \in Seq(Seq(Nat)) /\ rest # <<>>
    BY <1>1, PathIs DEF Arrived, Looks
  <1>3. \A t \in DOMAIN rest : rest[t] = path[d + t]
    BY <1>1 DEF Looks
  <1>4. Head(rest) = path[d + 1]
    BY <1>2, <1>3, TailIs
  <1>5. PICK tail : tail = Tail(rest)
    OBVIOUS
  <1>6. /\ Len(rest) \in Nat /\ Len(rest) > 0 /\ DOMAIN rest = 1 .. Len(rest)
        /\ tail \in Seq(Seq(Nat)) /\ Len(tail) = Len(rest) - 1
        /\ DOMAIN tail = 1 .. (Len(rest) - 1)
        /\ \A t \in 1 .. (Len(rest) - 1) : tail[t] = rest[t + 1]
        /\ (tail = <<>> <=> Len(rest) = 1)
    BY <1>2, <1>5, TailIs
  <1>7. ASSUME NEW t \in DOMAIN tail PROVE tail[t] = path[d + 1 + t]
    <2>1. t \in 1 .. (Len(rest) - 1) /\ t + 1 \in DOMAIN rest
      BY <1>6
    <2>2. d + (t + 1) = d + 1 + t
      BY <1>2, <2>1
    <2> QED
      BY <1>3, <1>6, <2>1, <2>2
  <1>8. d < Len(path) /\ Len(tail) = Len(path) - (d + 1) /\ (tail = <<>> <=> d + 1 = Len(path))
    BY <1>2, <1>6
  <1>9. RestOf(path, rest, d)
    BY <1>2, <1>4, <1>5, <1>6, <1>7, <1>8 DEF RestOf
  <1> QED
    BY <1>1, <1>9

LEMMA AnsweredIs ==
    ASSUME NEW walk, NEW found, NEW ok, Answer(walk, found, ok)
    PROVE  /\ answer'.goal = walk.goal /\ answer'.path = walk.path /\ answer'.found = found
           /\ answer'.names = walk.names /\ answer'.ok = ok /\ answer'.failed = walk.failed
           /\ \A i : WalkOK(i, search')
  BY DEF Answer, WalkOK, Idle

\* A walk that has failed promises nothing.
LEMMA FailedIs ==
    ASSUME NEW i
    PROVE  /\ \A w : w.failed => WalkOK(i, w)
           /\ \A a : a.failed => AnswerOK(i, a)
  BY DEF WalkOK, AnswerOK

LEMMA FailedDescends ==
    ASSUME NEW i, NEW walk, DOMAIN walk = DOMAIN Idle, walk.failed, NEW e, Descend(walk, e), AnswerOK(i, answer)
    PROVE  WalkOK(i, search') /\ AnswerOK(i, answer')
  <1> DEFINE next == [walk EXCEPT !.rest = Tail(walk.rest)]
  <1>1. next.failed /\ DOMAIN next = DOMAIN Idle
    BY DEF Idle
  <1>2. \A x, mode : StartAt(x, mode, next).failed
    BY <1>1 DEF StartAt, Idle
  <1>3. \/ \E mode : search' = StartAt(e.cluster, mode, next) /\ UNCHANGED answer
        \/ \E found, ok : Answer(walk, found, ok)
    BY DEF Descend
  <1>4. CASE \E mode : search' = StartAt(e.cluster, mode, next) /\ UNCHANGED answer
    BY <1>2, <1>4, FailedIs
  <1>5. CASE \E found, ok : Answer(walk, found, ok)
    BY <1>5, AnsweredIs, FailedIs
  <1> QED
    BY <1>3, <1>4, <1>5

\* A walk that has found a file that may match goes on in it, or answers.
LEMMA Descends ==
    ASSUME Unambiguous, NEW i \in Images, NEW walk, DOMAIN walk = DOMAIN Idle,
           walk.mode = "find", walk.names = <<>>, walk.rest # <<>>,
           NEW c, NEW d, Arrived(i, walk.path, c, d), Looks(i, walk, c, d),
           NEW f \in ToSet(FilesIn(i, c)), MayMatch(f, Head(walk.rest)), IsEntry(i, f.entry),
           Descend(walk, f.entry), AnswerOK(i, answer)
    PROVE  WalkOK(i, search') /\ AnswerOK(i, answer')
  <1> DEFINE e == f.entry
             path == walk.path
             next == [walk EXCEPT !.rest = Tail(walk.rest)]
  <1>1. /\ d \in Nat /\ d < Len(path) /\ Len(path) \in Nat
        /\ Head(walk.rest) = path[d + 1]
        /\ Tail(walk.rest) \in Seq(Seq(Nat)) /\ Len(Tail(walk.rest)) = Len(path) - (d + 1)
        /\ \A t \in DOMAIN Tail(walk.rest) : Tail(walk.rest)[t] = path[d + 1 + t]
        /\ (Tail(walk.rest) = <<>> <=> d + 1 = Len(path))
    <2>1. RestOf(path, walk.rest, d)
      <3>1. walk.mode = "find" /\ walk.rest # <<>> /\ Arrived(i, walk.path, c, d) /\ Looks(i, walk, c, d)
        OBVIOUS
      <3> QED
        BY ONLY <3>1, RestIs
    <2> QED
      BY ONLY <2>1 DEF RestOf
  <1>2. f \in Named(i, path)[d + 1] /\ Long(i, path)[d + 1] \subseteq {f}
    <2>1. MayMatch(f, path[d + 1]) /\ d < Len(path)
      BY <1>1
    <2>2. \A x \in ToSet(FilesIn(i, c)) : MayMatch(x, path[d + 1]) =>
             x \in Named(i, path)[d + 1] /\ Long(i, path)[d + 1] \subseteq {x}
      BY <2>1, NextName
    <2> QED
      BY <2>1, <2>2
  <1>3. LaidOut(i, e.cluster) /\ (e.attr = "dir" => e.cluster \in DOMAIN i.tree)
    BY DirectoriesAssumption DEF IsEntry, IsFile
  <1>4. Arrived(i, path, e.cluster, d + 1)
    <2>1. d + 1 # 0 /\ d + 1 \in 0 .. Len(path) /\ path \in Paths
      BY <1>1 DEF Arrived
    <2>2. e.cluster \in Dirs(i, Named(i, path), d + 1) /\ Dirs(i, Long(i, path), d + 1) \subseteq {e.cluster}
      BY <1>2, <2>1 DEF Dirs
    <2> QED
      BY <1>3, <2>1, <2>2 DEF Arrived
  <1>5. /\ DOMAIN next = DOMAIN Idle /\ next.names = <<>> /\ next.path = path /\ next.goal = walk.goal
        /\ next.rest = Tail(walk.rest)
    BY DEF Idle
  <1> HIDE DEF next
  <1>6. ASSUME NEW mode \in {"find", "list"}, search' = StartAt(e.cluster, mode, next), UNCHANGED answer,
               mode = "find" => next.rest # <<>>,
               mode = "list" => d + 1 = Len(path) /\ walk.goal = "list" /\ e.attr = "dir"
        PROVE  WalkOK(i, search') /\ AnswerOK(i, answer')
    <2>1. PICK w : w = StartAt(e.cluster, mode, next)
      OBVIOUS
    <2>2. w.mode = mode /\ w.path = path /\ w.goal = walk.goal /\ w.rest = Tail(walk.rest)
      BY <1>5, <2>1 DEF StartAt, Idle
    <2>3. \E width, ends, k, n : Standing(i, w, e.cluster, width, ends, k, n)
      BY <1>3, <1>5, <2>1, Starts
    <2>4. Looks(i, w, e.cluster, d + 1)
      BY <1>1, <1>3, <1>6, <2>2 DEF Looks
    <2>5. WalkOK(i, w)
      BY <1>4, <2>2, <2>3, <2>4 DEF WalkOK
    <2> QED
      BY <1>6, <2>1, <2>5
  <1>7. CASE walk.goal = "open" /\ d + 1 = Len(path) /\ Answer(walk, {e}, TRUE)
    <2>1. answer'.goal = "open" /\ answer'.path = path /\ answer'.found = {e} /\ \A j : WalkOK(j, search')
      BY <1>7, AnsweredIs
    <2>2. AnswerOK(i, answer')
      BY <1>2, <1>7, <2>1 DEF AnswerOK
    <2> QED
      BY <2>1, <2>2
  <1>8. CASE walk.goal # "open" /\ Answer(walk, {}, FALSE)
    <2>1. answer'.goal # "open" /\ answer'.ok = FALSE /\ \A j : WalkOK(j, search')
      BY <1>8, AnsweredIs
    <2>2. AnswerOK(i, answer')
      BY <2>1 DEF AnswerOK
    <2> QED
      BY <2>1, <2>2
  <1>9. walk.goal \in {"open", "list"}
    BY DEF Looks
  <1>10. CASE next.rest # <<>>
    <2>1. search' = StartAt(e.cluster, "find", next) /\ UNCHANGED answer
      BY <1>10 DEF Descend, next
    <2> QED
      BY <1>6, <1>10, <2>1
  <1>11. CASE next.rest = <<>>
    <2>1. d + 1 = Len(path)
      BY <1>1, <1>5, <1>11
    <2>2. IF walk.goal = "open" THEN Answer(walk, {e}, TRUE)
          ELSE IF e.attr = "dir"
          THEN search' = StartAt(e.cluster, "list", next) /\ UNCHANGED answer
          ELSE Answer(walk, {}, FALSE)
      BY <1>11 DEF Descend, next
    <2> QED
      BY <1>6, <1>7, <1>8, <1>9, <2>1, <2>2
  <1> QED
    BY <1>10, <1>11

\* The sectors of a directory.
SectorAt(i, c, k, sector) ==
    SectorEntries(i, i.firstLba + (i.chains[c][k] - 2) * SectorsPerCluster + sector)

LEMMA SectorIs ==
    ASSUME NEW i, NEW c, NEW width, NEW ends, LaidOutAs(i, c, width, ends), LaidOut(i, c),
           NEW k \in 1 .. Len(i.chains[c]), NEW sector \in 0 .. (SectorsPerCluster - 1)
    PROVE  /\ Len(SectorAt(i, c, k, sector)) = width
           /\ \A j \in 1 .. width : SectorAt(i, c, k, sector)[j] = RawIn(i, c)[Before(k, sector, width) + j]
           /\ Before(k, sector, width) \in Nat /\ Before(k, sector, width) + width <= Len(RawIn(i, c))
           /\ Before(k, sector + 1, width) = Before(k, sector, width) + width
  <1> DEFINE base == Before(k, sector, width)
             n == Len(i.chains[c])
             S == SectorsPerCluster
  <1>1. n \in Nat /\ S \in Nat /\ width \in Nat /\ k \in Nat /\ k <= n /\ 1 <= k /\ sector \in Nat /\ sector + 1 <= S
    BY ChainIs, GeometryAssumption DEF LaidOutAs
  <1>2. DOMAIN i.chains[c] = 1 .. n
    BY ChainIs
  <1>3. Len(RawIn(i, c)) = n * S * width
    BY DEF LaidOutAs, InSectors
  <1>4. /\ Len(SectorAt(i, c, k, sector)) = width
        /\ \A j \in 1 .. width : SectorAt(i, c, k, sector)[j] = RawIn(i, c)[Before(k, sector, width) + j]
    BY <1>1, <1>2 DEF LaidOutAs, InSectors, SectorAt, Before
  <1> HIDE DEF n, S
  <1>5. (k - 1) * S + sector \in Nat /\ (k - 1) * S + sector + 1 <= n * S
    <2>1. k * S <= n * S
      BY <1>1
    <2>2. (k - 1) * S \in Nat /\ (k - 1) * S + S = k * S
      BY <1>1
    <2>3. k * S \in Nat /\ n * S \in Nat
      BY <1>1
    <2> QED
      BY <1>1, <2>1, <2>2, <2>3
  <1>6. \A x \in Nat, y \in Nat : x + 1 <= y =>
          /\ x * width \in Nat /\ (x + 1) * width = x * width + width /\ x * width + width <= y * width
    <2> SUFFICES ASSUME NEW x \in Nat, NEW y \in Nat, x + 1 <= y
                 PROVE  /\ x * width \in Nat /\ (x + 1) * width = x * width + width /\ x * width + width <= y * width
      OBVIOUS
    <2>1. x * width \in Nat /\ (x + 1) * width = x * width + width
      BY <1>1
    <2>2. (x + 1) * width <= y * width
      BY <1>1
    <2> QED
      BY <2>1, <2>2
  <1>7. PICK x : x = (k - 1) * S + sector
    OBVIOUS
  <1>8. x \in Nat /\ n * S \in Nat /\ x + 1 <= n * S
    BY <1>1, <1>5, <1>7
  <1>9. x * width \in Nat /\ (x + 1) * width = x * width + width /\ x * width + width <= n * S * width
    BY <1>6, <1>8
  <1>10. base = x * width /\ Before(k, sector + 1, width) = (x + 1) * width
    <2>1. (k - 1) * S + (sector + 1) = x + 1
      BY <1>1, <1>5, <1>7
    <2> QED
      BY <1>7, <2>1 DEF Before, S
  <1> QED
    BY <1>3, <1>4, <1>9, <1>10

\* After the last cluster the whole directory has been seen.
LEMMA SeenAll ==
    ASSUME NEW i \in Images, NEW w, NEW c, NEW width, NEW ends, NEW k, NEW n,
           LaidOut(i, c), Standing(i, w, c, width, ends, k, n), w.cluster >= EndOfChain, w.mode \in {"find", "list"}
    PROVE  /\ w.mode = "list" => w.names = NamesOf(FilesIn(i, c))
           /\ w.mode = "find" => \A m \in DOMAIN FilesIn(i, c) : FilesIn(i, c)[m].long # Head(w.rest)
  <1> DEFINE raw == RawIn(i, c)
             files == FilesIn(i, c)
             N == Len(i.chains[c])
  <1>1. N \in Nat /\ i.chains[c] \in Seq(0 .. (EndOfChain - 1))
    BY ChainIs
  <1>2. LaidOutAs(i, c, width, ends) /\ Directory(raw, files, ends) /\ width \in Nat
        /\ Len(raw) = N * SectorsPerCluster * width
    BY DEF Standing, LaidOutAs, InSectors
  <1>3. k = N + 1 /\ w.sector = 0
    <2>1. k \in 1 .. (N + 1) /\ (k <= N => w.cluster = i.chains[c][k]) /\ (~(k <= N) => w.sector = 0)
      BY DEF Standing
    <2>2. ASSUME k <= N PROVE i.chains[c][k] \in 0 .. (EndOfChain - 1)
      <3>1. PICK chn, S : chn = i.chains[c] /\ S = 0 .. (EndOfChain - 1)
        OBVIOUS
      <3>2. chn \in Seq(S)
        BY <1>1, <3>1
      <3>3. k \in 1 .. Len(chn)
        BY <1>1, <2>1, <2>2, <3>1
      <3>4. chn[k] \in S
        BY ONLY <3>2, <3>3, ElementOfSeq
      <3> QED
        BY <3>1, <3>4
    <2>3. \A x \in 0 .. (EndOfChain - 1) : ~(x >= EndOfChain)
      <3>1. EndOfChain \in Nat
        BY DEF EndOfChain
      <3> QED
        BY <3>1
    <2>4. ~(k <= N)
      BY <2>1, <2>2, <2>3
    <2> QED
      BY <1>1, <2>1, <2>4
  <1>4. Before(k, w.sector, width) = Len(raw)
    <2>1. (k - 1) * SectorsPerCluster + 0 = N * SectorsPerCluster
      BY <1>1, <1>3, GeometryAssumption
    <2> QED
      BY <1>2, <1>3, <2>1 DEF Before
  <1> HIDE DEF raw, files, N
  <1>5. Seen(raw, files, ends, Len(raw), w, n, w.mode, Head(w.rest))
    BY <1>4 DEF Standing, raw, files
  <1>6. n = Len(files)
    <2>1. \A m \in DOMAIN files : ends[m] \in Nat /\ ends[m] <= Len(raw)
      BY <1>2 DEF Directory
    <2>2. \A m \in DOMAIN files : m <= n
      BY <1>5, <2>1 DEF Seen, Passed
    <2>3. n \in 0 .. Len(files) /\ Len(files) \in Nat /\ DOMAIN files = 1 .. Len(files)
      BY <1>2, <1>5 DEF Seen, Passed, Directory
    <2>4. PICK L, dom : L = Len(files) /\ dom = DOMAIN files
      OBVIOUS
    <2>5. L \in Nat /\ n \in 0 .. L /\ dom = 1 .. L /\ \A m \in dom : m <= n
      BY <2>2, <2>3, <2>4
    <2>6. n = L
      BY ONLY <2>5
    <2> QED
      BY <2>4, <2>6
  <1>7. w.mode = "list" => w.names = NamesOf(files)
    <2>1. NamesOf(files) = Names(files)[Len(files)]
      BY <1>2, NamesFacts DEF Directory
    <2> QED
      BY <1>5, <1>6, <2>1 DEF Seen
  <1>8. w.mode = "find" => \A m \in DOMAIN files : files[m].long # Head(w.rest)
    BY <1>2, <1>5, <1>6 DEF Seen, Directory
  <1> QED
    BY <1>7, <1>8 DEF files

LEMMA EndStep ==
    ASSUME DirInv, WalkOK(image, search), AnswerOK(image, answer), EndOfDirectory
    PROVE  WalkOK(image, search') /\ AnswerOK(image, answer')
  <1>1. /\ search.mode \in {"find", "list"} /\ search.cluster \in Nat /\ ~(search.cluster < EndOfChain)
        /\ Answer(search, {}, search.mode = "list") /\ image \in Images
        /\ search.mode = "find" => search.rest # <<>>
    BY DEF DirInv, WalkInv, EndOfDirectory, InChain
  <1>2. /\ answer'.goal = search.goal /\ answer'.path = search.path /\ answer'.found = {}
        /\ answer'.names = search.names /\ answer'.ok = (search.mode = "list") /\ answer'.failed = search.failed
        /\ WalkOK(image, search')
    BY <1>1, AnsweredIs
  <1>3. CASE search.failed
    BY <1>2, <1>3, FailedIs
  <1>4. CASE ~search.failed
    <2>1. PICK c, d : /\ Arrived(image, search.path, c, d)
                      /\ Looks(image, search, c, d)
                      /\ \E width, ends, k, n : Standing(image, search, c, width, ends, k, n)
      BY <1>1, <1>4 DEF WalkOK
    <2>2. LaidOut(image, c)
      BY <2>1 DEF Arrived
    <2>3. /\ search.mode = "list" => search.names = NamesOf(FilesIn(image, c))
          /\ search.mode = "find" => \A m \in DOMAIN FilesIn(image, c) : FilesIn(image, c)[m].long # Head(search.rest)
      <3>1. search.cluster >= EndOfChain
        BY <1>1, SMT DEF EndOfChain
      <3> QED
        BY <1>1, <2>1, <2>2, <3>1, SeenAll
    <2>4. CASE search.mode = "list"
      <3>1. /\ search.goal = "list" /\ c \in DOMAIN image.tree /\ search.path \in Paths
            /\ c \in Dirs(image, Named(image, search.path), Len(search.path))
        BY <2>1, <2>4 DEF Looks, Arrived
      <3>2. answer'.names = NamesOf(image.tree[c])
        BY <1>2, <2>3, <2>4, <3>1 DEF FilesIn
      <3> QED
        BY <1>2, <3>1, <3>2 DEF AnswerOK
    <2>5. CASE search.mode = "find"
      <3>1. RestOf(search.path, search.rest, d)
        BY <1>1, <2>1, <2>5, RestIs
      <3>2. d < Len(search.path) /\ Head(search.rest) = search.path[d + 1]
        BY <3>1 DEF RestOf
      <3>3. Long(image, search.path)[Len(search.path)] = {}
        BY <1>1, <2>1, <2>3, <2>5, <3>2, NothingElse
      <3>4. answer'.ok = FALSE
        BY <1>2, <2>5
      <3> QED
        BY <1>2, <3>3, <3>4 DEF AnswerOK
    <2> QED
      BY <1>1, <2>4, <2>5
  <1> QED
    BY <1>3, <1>4

LEMMA FollowsTo ==
    ASSUME fatData = Mounted(image), NEW c, LaidOut(image, c), NEW k \in 1 .. Len(image.chains[c])
    PROVE  IF k = Len(image.chains[c]) THEN NextCluster(image.chains[c][k], TRUE) >= EndOfChain
           ELSE NextCluster(image.chains[c][k], TRUE) = image.chains[c][k + 1]
  <1>1. PICK chn : chn = image.chains[c]
    OBVIOUS
  <1>2. Follows(image, chn) /\ k \in DOMAIN chn
    BY <1>1, ChainIs
  <1> DEFINE lba == image.partitionOffset + image.boot.reserved + chn[k] \div FatEntries
             next == image.fat[lba][chn[k] % FatEntries]
  <1>3. lba \in DOMAIN image.fat /\ IF k = Len(chn) THEN next >= EndOfChain ELSE next = chn[k + 1]
    BY <1>2 DEF Follows
  <1>4. NextCluster(chn[k], TRUE) = next
    BY <1>3 DEF NextCluster, Mounted
  <1> QED
    BY <1>1, <1>3, <1>4

LEMMA FollowStep ==
    ASSUME DirInv, WalkOK(image, search), AnswerOK(image, answer), NEW ok \in BOOLEAN, FollowChain(ok)
    PROVE  WalkOK(image, search') /\ AnswerOK(image, answer')
  <1> DEFINE w == [search EXCEPT !.cluster = NextCluster(@, ok), !.sector = 0, !.failed = @ \/ ~ok]
  <1>1. /\ search.mode # "idle" /\ search.cluster < EndOfChain /\ search.sector = SectorsPerCluster
        /\ search' = w /\ UNCHANGED <<image, answer>> /\ image \in Images /\ DOMAIN search = DOMAIN Idle
        /\ fatData = Mounted(image)
    BY DEF FollowChain, DirInv, WalkInv, InChain
  <1>2. /\ w.cluster = NextCluster(search.cluster, ok) /\ w.sector = 0 /\ w.failed = (search.failed \/ ~ok)
        /\ w.mode = search.mode /\ w.path = search.path /\ w.goal = search.goal /\ w.rest = search.rest
        /\ w.lfn = search.lfn /\ w.last = search.last /\ w.names = search.names
    BY <1>1 DEF Idle
  <1> HIDE DEF w
  <1>3. CASE search.failed \/ ~ok
    <2>1. WalkOK(image, w)
      BY <1>2, <1>3, FailedIs
    <2> QED
      BY <1>1, <2>1
  <1>4. CASE ~search.failed /\ ok
    <2>1. PICK c, d : /\ Arrived(image, search.path, c, d)
                      /\ Looks(image, search, c, d)
                      /\ \E width, ends, k, n : Standing(image, search, c, width, ends, k, n)
      BY <1>1, <1>4 DEF WalkOK
    <2>2. PICK width, ends, k, n : Standing(image, search, c, width, ends, k, n)
      BY <2>1
    <2> DEFINE N == Len(image.chains[c])
    <2>3. LaidOut(image, c) /\ N \in Nat /\ width \in Nat
      BY <2>1, <2>2, ChainIs DEF Arrived, Standing, LaidOutAs
    <2>4. k \in 1 .. N /\ search.cluster = image.chains[c][k]
      <3>1. k \in 1 .. (N + 1) /\ IF k <= N THEN search.cluster = image.chains[c][k] ELSE search.cluster >= EndOfChain
        BY <2>2 DEF Standing
      <3>2. ~(search.cluster >= EndOfChain)
        <4>1. search.cluster \in Nat /\ EndOfChain \in Nat
          BY DEF DirInv, WalkInv, EndOfChain
        <4> QED
          BY <1>1, <4>1
      <3> QED
        BY <2>3, <3>1, <3>2
    <2>5. IF k = N THEN w.cluster >= EndOfChain ELSE w.cluster = image.chains[c][k + 1]
      <3>1. NextCluster(search.cluster, ok) = NextCluster(image.chains[c][k], TRUE)
        BY <1>4, <2>4
      <3> QED
        BY <1>1, <1>2, <2>3, <2>4, <3>1, FollowsTo
    <2>6. Before(k + 1, 0, width) = Before(k, SectorsPerCluster, width)
      <3>1. ((k + 1) - 1) * SectorsPerCluster + 0 = (k - 1) * SectorsPerCluster + SectorsPerCluster
        BY <2>3, <2>4, GeometryAssumption
      <3> QED
        BY <3>1 DEF Before
    <2>7. Seen(RawIn(image, c), FilesIn(image, c), ends, Before(k + 1, w.sector, width), w, n, w.mode, Head(w.rest))
      BY <1>1, <1>2, <2>2, <2>6 DEF Standing, Seen
    <2>8. Standing(image, w, c, width, ends, k + 1, n)
      <3>1. k + 1 \in 1 .. (N + 1) /\ (k + 1 <= N <=> k # N)
        BY <2>3, <2>4
      <3> QED
        BY <1>2, <2>2, <2>5, <2>7, <3>1 DEF Standing
    <2>9. Looks(image, w, c, d)
      BY <1>2, <2>1 DEF Looks
    <2>10. WalkOK(image, w)
      BY <1>2, <2>1, <2>8, <2>9 DEF WalkOK
    <2> QED
      BY <1>1, <2>10
  <1> QED
    BY <1>3, <1>4

LEMMA TraverseStep ==
    ASSUME DirInv, AnswerOK(image, answer), NEW goal \in {"open", "list"}, NEW path \in Paths, Traverse(goal, path)
    PROVE  (WalkOK(image, search) => WalkOK(image, search')) /\ AnswerOK(image, answer')
  <1> DEFINE walk == [Idle EXCEPT !.goal = goal, !.path = path, !.rest = path]
             mode == IF path = <<>> THEN "list" ELSE "find"
             root == image.boot.rootCluster
  <1>1. image \in Images /\ fatData.rootCluster = root
    BY DEF DirInv, Traverse, Mounted
  <1>2. CASE goal = "open" /\ path = <<>>
    <2>1. /\ answer' = [NoAnswer EXCEPT !.goal = goal, !.found = {RootEntry}, !.ok = TRUE]
          /\ UNCHANGED search
      BY <1>2 DEF Traverse
    <2>2. answer'.goal = "open" /\ answer'.path = <<>>
      BY <1>2, <2>1 DEF NoAnswer
    <2>3. AnswerOK(image, answer')
      BY <2>2 DEF AnswerOK
    <2> QED
      BY <2>1, <2>3
  <1>3. CASE ~(goal = "open" /\ path = <<>>)
    <2>1. search' = StartAt(root, mode, walk) /\ UNCHANGED answer
      BY <1>1, <1>3 DEF Traverse
    <2>2. /\ DOMAIN walk = DOMAIN Idle /\ walk.names = <<>> /\ walk.path = path /\ walk.goal = goal
          /\ walk.rest = path
      BY DEF Idle
    <2>3. path \in Seq(Seq(Nat)) /\ Len(path) \in Nat
      BY PathIs
    <2> HIDE DEF walk
    <2>4. PICK w : w = StartAt(root, mode, walk)
      OBVIOUS
    <2>5. w.mode = mode /\ w.path = path /\ w.goal = goal /\ w.rest = path
      BY <2>2, <2>4 DEF StartAt, Idle
    <2>6. LaidOut(image, root) /\ root \in DOMAIN image.tree
      BY <1>1, DirectoriesAssumption
    <2>7. \E width, ends, k, n : Standing(image, w, root, width, ends, k, n)
      BY <1>1, <2>2, <2>4, <2>6, Starts
    <2>8. Arrived(image, path, root, 0)
      BY <2>3, <2>6 DEF Arrived, Dirs
    <2>9. Looks(image, w, root, 0)
      <3>1. \A t \in DOMAIN path : path[t] = path[0 + t]
        BY <2>3
      <3>2. mode = "list" => Len(path) = 0 /\ goal = "list"
        BY <1>3
      <3> QED
        BY <2>3, <2>5, <2>6, <3>1, <3>2 DEF Looks
    <2>10. WalkOK(image, w)
      BY <2>5, <2>7, <2>8, <2>9 DEF WalkOK
    <2> QED
      BY <2>1, <2>4, <2>10
  <1> QED
    BY <1>2, <1>3

\* A sector that cannot be read, or is read by a walk that has failed.
LEMMA FailedReads ==
    ASSUME DirInv, WalkOK(image, search), AnswerOK(image, answer), NEW ok \in BOOLEAN,
           search.failed \/ ~ok, NEW entries, ScanSector(entries, ok)
    PROVE  WalkOK(image, search') /\ AnswerOK(image, answer')
  <1>1. PICK lucky : Scanned(Scan(entries, lucky), SectorDone(entries, ok, Scan(entries, lucky)))
    BY DEF ScanSector
  <1>2. PICK s : s = Scan(entries, lucky)
    OBVIOUS
  <1>3. PICK walk : walk = SectorDone(entries, ok, s)
    OBVIOUS
  <1>4. DOMAIN walk = DOMAIN Idle /\ walk.failed
    BY <1>3 DEF SectorDone, DirInv, WalkInv, Idle
  <1>5. Scanned(s, walk)
    BY <1>1, <1>2, <1>3
  <1>6. CASE search' = walk /\ UNCHANGED <<answer, outcome>>
    BY <1>4, <1>6, FailedIs
  <1>7. CASE \E e \in s.found : Descend(walk, e)
    BY <1>4, <1>7, FailedDescends
  <1>8. CASE Answer(walk, {}, FALSE)
    BY <1>4, <1>8, AnsweredIs, FailedIs
  <1>9. CASE UNCHANGED <<search, answer>>
    BY <1>9
  <1> QED
    BY <1>5, <1>6, <1>7, <1>8, <1>9 DEF Scanned

\* A sector that is read.
LEMMA GoodReads ==
    ASSUME Unambiguous, DirInv, search.mode # "idle", ~search.failed, InChain,
           search.sector < SectorsPerCluster,
           WalkOK(image, search), AnswerOK(image, answer),
           ScanSector(Entries(ClusterToLba(search.cluster) + search.sector), TRUE)
    PROVE  WalkOK(image, search') /\ AnswerOK(image, answer')
  <1>1. /\ image \in Images /\ WalkInv(search) /\ fatData = Mounted(image) /\ search.cluster < EndOfChain
        /\ search.mode \in {"find", "list"} /\ search.sector \in 0 .. (SectorsPerCluster - 1)
        /\ search.cluster \in Nat /\ DOMAIN search = DOMAIN Idle /\ (search.mode = "find" => search.rest # <<>>)
    BY GeometryAssumption DEF DirInv, WalkInv, InChain
  <1>2. PICK c, d : /\ Arrived(image, search.path, c, d)
                    /\ Looks(image, search, c, d)
                    /\ \E width, ends, k, n : Standing(image, search, c, width, ends, k, n)
    BY DEF WalkOK
  <1>3. PICK width, ends, k, n : Standing(image, search, c, width, ends, k, n)
    BY <1>2
  <1> DEFINE raw == RawIn(image, c)
             files == FilesIn(image, c)
             N == Len(image.chains[c])
             name == Head(search.rest)
             base == Before(k, search.sector, width)
  <1>4. LaidOut(image, c) /\ N \in Nat /\ LaidOutAs(image, c, width, ends) /\ Directory(raw, files, ends)
        /\ width \in Nat
    BY <1>2, <1>3, ChainIs DEF Arrived, Standing, LaidOutAs
  <1>5. k \in 1 .. N /\ search.cluster = image.chains[c][k]
    <2>1. k \in 1 .. (N + 1) /\ IF k <= N THEN search.cluster = image.chains[c][k] ELSE search.cluster >= EndOfChain
      BY <1>3 DEF Standing
    <2>2. ~(search.cluster >= EndOfChain)
      <3>1. EndOfChain \in Nat
        BY DEF EndOfChain
      <3> QED
        BY <1>1, <3>1
    <2> QED
      BY <1>4, <2>1, <2>2
  <1>6. PICK entries : entries = Entries(ClusterToLba(search.cluster) + search.sector)
    OBVIOUS
  <1>7. entries = SectorAt(image, c, k, search.sector)
    BY <1>1, <1>5, <1>6 DEF Entries, SectorEntries, SectorAt, ClusterToLba, Mounted
  <1>8. entries \in Seq(DirEntries(image))
    BY <1>1, <1>6, VolumeAssumption DEF Entries
  <1>9. /\ Len(entries) = width /\ \A j \in 1 .. width : entries[j] = raw[base + j]
        /\ base \in Nat /\ base + width <= Len(raw)
        /\ Before(k, search.sector + 1, width) = base + width
    <2>1. PICK sector : sector = search.sector
      OBVIOUS
    <2>2. sector \in 0 .. (SectorsPerCluster - 1) /\ k \in 1 .. Len(image.chains[c])
      BY <1>1, <1>5, <2>1
    <2>3. /\ Len(SectorAt(image, c, k, sector)) = width
          /\ \A j \in 1 .. width : SectorAt(image, c, k, sector)[j] = RawIn(image, c)[Before(k, sector, width) + j]
          /\ Before(k, sector, width) \in Nat /\ Before(k, sector, width) + width <= Len(RawIn(image, c))
          /\ Before(k, sector + 1, width) = Before(k, sector, width) + width
      BY ONLY <1>4, <2>2, SectorIs, GeometryAssumption
    <2> QED
      BY <1>7, <2>1, <2>3
  <1>10. Seen(raw, files, ends, base, search, n, search.mode, name)
    BY <1>3 DEF Standing
  <1>11. search.mode = "find" =>
           /\ name = search.path[d + 1] /\ d < Len(search.path) /\ name # <<>>
    <2> SUFFICES ASSUME search.mode = "find"
                 PROVE  name = search.path[d + 1] /\ d < Len(search.path) /\ name # <<>>
      OBVIOUS
    <2>1. RestOf(search.path, search.rest, d)
      BY <1>1, <1>2, RestIs
    <2>2. d < Len(search.path) /\ name = search.path[d + 1]
      BY <2>1 DEF RestOf
    <2>3. search.path[d + 1] # <<>>
      BY <1>1, <1>2, <2>2, NextName
    <2> QED
      BY <2>2, <2>3
  <1>12. PICK lucky : Scanned(Scan(entries, lucky), SectorDone(entries, TRUE, Scan(entries, lucky)))
    BY <1>6 DEF ScanSector
  <1>13. PICK s : s = Scan(entries, lucky)
    OBVIOUS
  <1>14. PICK walk : walk = SectorDone(entries, TRUE, s)
    OBVIOUS
  <1>15. Scanned(s, walk)
    BY <1>12, <1>13, <1>14
  <1> HIDE DEF raw, files, base, N
  <1>16. ScanInv(raw, files, ends, base, ScanStart, search.mode, Head(search.rest))
    <2>1. /\ DOMAIN ScanStart = {"lfn", "last", "names", "result", "found"}
          /\ ScanStart.lfn = search.lfn /\ ScanStart.last = search.last /\ ScanStart.names = search.names
          /\ ScanStart.result = "none"
      BY DEF ScanStart
    <2>2. LfnOK(ScanStart)
      BY <1>1, <2>1 DEF WalkInv, LfnOK
    <2>3. Seen(raw, files, ends, base, ScanStart, n, search.mode, name)
      BY <1>10, <2>1 DEF Seen
    <2> QED
      BY <2>1, <2>2, <2>3 DEF ScanInv
  <1>17. ScanInv(raw, files, ends, base + width, s, search.mode, Head(search.rest))
    <2>1. \A j \in 1 .. Len(entries) : entries[j] = raw[base + j]
      BY <1>9
    <2>2. ScanInv(raw, files, ends, base + Len(entries), Scan(entries, lucky), search.mode, Head(search.rest))
      BY <1>1, <1>4, <1>8, <1>9, <1>11, <1>16, <2>1, ScanStep
    <2> QED
      BY <1>9, <1>13, <2>2
  <1>18. ScanState(s)
    BY <1>1, <1>8, <1>13, ScanOK
  <1>19. /\ DOMAIN walk = DOMAIN Idle /\ walk.mode = search.mode /\ walk.path = search.path
         /\ walk.goal = search.goal /\ walk.rest = search.rest /\ walk.cluster = search.cluster
         /\ walk.sector = search.sector + 1 /\ ~walk.failed
         /\ walk.lfn = s.lfn /\ walk.last = s.last /\ walk.names = s.names
    BY <1>1, <1>14 DEF SectorDone, Idle
  <1>20. Looks(image, walk, c, d)
    BY <1>2, <1>19 DEF Looks
  <1>21. ASSUME s.result = "none", search' = walk, UNCHANGED answer
         PROVE  WalkOK(image, search') /\ AnswerOK(image, answer')
    <2>1. PICK m : Seen(raw, files, ends, base + width, s, m, search.mode, name)
      BY <1>17, <1>21 DEF ScanInv
    <2>2. Before(k, walk.sector, width) = base + width
      BY <1>9, <1>19
    <2>3. Seen(raw, files, ends, Before(k, walk.sector, width), walk, m, walk.mode, Head(walk.rest))
      BY <1>19, <2>1, <2>2 DEF Seen
    <2>4. k \in 1 .. (N + 1) /\ k <= N
      BY <1>4, <1>5
    <2>5. Standing(image, walk, c, width, ends, k, m)
      BY <1>4, <1>5, <1>19, <2>3, <2>4 DEF Standing, raw, files, N
    <2>6. WalkOK(image, walk)
      BY <1>2, <1>19, <1>20, <2>5 DEF WalkOK
    <2> QED
      BY <1>21, <2>6
  <1>22. ASSUME s.result = "found", NEW e \in s.found, Descend(walk, e)
         PROVE  WalkOK(image, search') /\ AnswerOK(image, answer')
    <2>1. /\ search.mode = "find" /\ s.names = <<>>
          /\ \E m \in DOMAIN files : s.found = {files[m].entry} /\ MayMatch(files[m], name)
      BY <1>17, <1>22 DEF ScanInv
    <2>2. PICK m \in DOMAIN files : s.found = {files[m].entry} /\ MayMatch(files[m], name)
      BY <2>1
    <2>3. PICK f : f = files[m]
      OBVIOUS
    <2>4. f \in ToSet(FilesIn(image, c)) /\ MayMatch(f, Head(walk.rest)) /\ e = f.entry
      BY <1>19, <1>22, <2>2, <2>3 DEF ToSet, files
    <2>5. IsEntry(image, f.entry)
      BY <1>18, <1>22, <2>4 DEF ScanState
    <2>6. Descend(walk, f.entry)
      BY <1>22, <2>4
    <2>7. Arrived(image, walk.path, c, d) /\ walk.mode = "find" /\ walk.names = <<>> /\ walk.rest # <<>>
      BY <1>1, <1>2, <1>19, <2>1
    <2> QED
      BY <1>1, <1>19, <1>20, <2>4, <2>5, <2>6, <2>7, Descends
  <1>23. ASSUME s.result = "invalid", Answer(walk, {}, FALSE)
         PROVE  WalkOK(image, search') /\ AnswerOK(image, answer')
    <2>1. /\ answer'.goal = search.goal /\ answer'.path = search.path /\ answer'.ok = FALSE
          /\ answer'.found = {} /\ WalkOK(image, search')
      BY <1>19, <1>23, AnsweredIs
    <2>2. CASE search.mode = "list"
      <3>1. answer'.goal = "list"
        BY <1>2, <2>1, <2>2 DEF Looks
      <3> QED
        BY <2>1, <3>1 DEF AnswerOK
    <2>3. CASE search.mode = "find"
      <3>1. \A m \in DOMAIN FilesIn(image, c) : FilesIn(image, c)[m].long # search.path[d + 1]
        BY <1>11, <1>17, <1>23, <2>3 DEF ScanInv, files
      <3>2. Long(image, search.path)[Len(search.path)] = {}
        BY <1>1, <1>2, <1>11, <2>3, <3>1, NothingElse
      <3> QED
        BY <2>1, <3>2 DEF AnswerOK
    <2> QED
      BY <1>1, <2>2, <2>3
  <1>24. CASE UNCHANGED <<search, answer>>
    BY <1>24
  <1> QED
    BY <1>15, <1>21, <1>22, <1>23, <1>24 DEF Scanned

LEMMA ReadStep ==
    ASSUME Unambiguous, DirInv, WalkOK(image, search), AnswerOK(image, answer), NEW ok \in BOOLEAN, ReadSector(ok)
    PROVE  WalkOK(image, search') /\ AnswerOK(image, answer')
  <1>1. search.mode # "idle" /\ InChain /\ search.sector < SectorsPerCluster
    BY DEF ReadSector
  <1>2. CASE UNCHANGED <<search, answer>>
    BY <1>2
  <1>3. CASE search.mode = "list" /\ Answer(search, {}, FALSE)
    <2>1. /\ answer'.goal = search.goal /\ answer'.ok = FALSE /\ answer'.failed = search.failed
          /\ WalkOK(image, search')
      BY <1>3, AnsweredIs
    <2>2. search.failed \/ search.goal = "list"
      BY <1>1, <1>3 DEF WalkOK, Looks
    <2>3. AnswerOK(image, answer')
      BY <2>1, <2>2 DEF AnswerOK
    <2> QED
      BY <2>1, <2>3
  <1>4. CASE ok /\ ScanSector(Entries(ClusterToLba(search.cluster) + search.sector), ok)
    <2>1. PICK entries : entries = Entries(ClusterToLba(search.cluster) + search.sector)
      OBVIOUS
    <2>2. CASE search.failed
      BY <1>4, <2>1, <2>2, FailedReads
    <2>3. CASE ~search.failed
      <3>1. ok = TRUE
        BY <1>4
      <3>2. ScanSector(Entries(ClusterToLba(search.cluster) + search.sector), TRUE)
        BY <1>4, <3>1
      <3> QED
        BY <1>1, <2>3, <3>2, GoodReads
    <2> QED
      BY <2>2, <2>3
  <1>5. CASE ~ok /\ ScanSector(search.buffer, ok)
    BY <1>5, FailedReads
  <1> QED
    BY <1>2, <1>3, <1>4, <1>5 DEF ReadSector

-----------------------------------------------------------------------------
(* What lookups and listings say. *)

NamesInv == DirInv /\ WalkOK(image, search) /\ AnswerOK(image, answer)

LEMMA NamesInvInit == Init => NamesInv
  <1> SUFFICES ASSUME Init PROVE NamesInv
    OBVIOUS
  <1>1. DirInv /\ search = Idle /\ answer = NoAnswer
    BY IInvInit DEF IInv, Init, DirInit
  <1>2. WalkOK(image, search)
    BY <1>1 DEF WalkOK, Idle
  <1>3. AnswerOK(image, answer)
    BY <1>1 DEF AnswerOK, NoAnswer
  <1> QED
    BY <1>1, <1>2, <1>3 DEF NamesInv

LEMMA NamesInvStep ==
    ASSUME Unambiguous, NamesInv, [Next]_vars
    PROVE  NamesInv'
  <1>1. DirInv /\ WalkOK(image, search) /\ AnswerOK(image, answer)
    BY DEF NamesInv
  <1>2. ASSUME image' = image, DirInv', WalkOK(image, search'), AnswerOK(image, answer') PROVE NamesInv'
    <2>1. WalkOK(image', search') /\ AnswerOK(image', answer')
      BY <1>2
    <2> QED
      BY <1>2, <2>1 DEF NamesInv
  <1>3. CASE UNCHANGED dirVars
    <2>1. DirInv' /\ image' = image /\ search' = search /\ answer' = answer
      BY <1>1, <1>3, DirStep DEF dirVars
    <2> QED
      BY <1>1, <1>2, <2>1
  <1>4. CASE Open
    <2>1. answer' = NoAnswer /\ UNCHANGED <<image, fatData, search, outcome>>
      BY <1>4 DEF Open
    <2>2. AnswerInv'
      BY <2>1 DEF AnswerInv, NoAnswer
    <2>3. WalkInv(search)'
      BY <1>1, <2>1 DEF DirInv, WalkInv, LfnOK
    <2>4. DirInv'
      BY <1>1, <2>1, <2>2, <2>3 DEF DirInv, Mounted
    <2>5. AnswerOK(image, answer')
      BY <2>1 DEF AnswerOK, NoAnswer
    <2> QED
      BY <1>1, <1>2, <2>1, <2>4, <2>5
  <1>5. ASSUME DirNext PROVE NamesInv'
    <2>1. DirInv'
      BY <1>1, <1>5, DirStep
    <2>2. CASE Initialize \/ TraverseEmptyPath
      <3>1. UNCHANGED <<image, search, answer>>
        BY <2>2 DEF Initialize, TraverseEmptyPath
      <3> QED
        BY <1>1, <1>2, <2>1, <3>1
    <2>3. ASSUME NEW goal \in {"open", "list"}, NEW path \in Paths, Traverse(goal, path) PROVE NamesInv'
      <3>1. image' = image
        BY <2>3 DEF Traverse
      <3> QED
        BY <1>1, <1>2, <2>1, <2>3, <3>1, TraverseStep
    <2>4. ASSUME NEW ok \in BOOLEAN, ReadSector(ok) PROVE NamesInv'
      <3>1. image' = image
        BY <2>4 DEF ReadSector
      <3> QED
        BY <1>1, <1>2, <2>1, <2>4, <3>1, ReadStep
    <2>5. ASSUME NEW ok \in BOOLEAN, FollowChain(ok) PROVE NamesInv'
      <3>1. image' = image
        BY <2>5 DEF FollowChain
      <3> QED
        BY <1>1, <1>2, <2>1, <2>5, <3>1, FollowStep
    <2>6. CASE EndOfDirectory
      <3>1. image' = image
        BY <2>6 DEF EndOfDirectory
      <3> QED
        BY <1>1, <1>2, <2>1, <2>6, <3>1, EndStep
    <2> QED
      BY <1>5, <2>2, <2>3, <2>4, <2>5, <2>6 DEF DirNext, WalkStep
  <1>6. UNCHANGED vars => UNCHANGED dirVars
    BY DEF vars
  <1>7. LookUp => DirNext
    BY DEF LookUp
  <1>8. Use => UNCHANGED dirVars
    BY DEF Use, StartRead, StartSeek, Close
  <1>9. IoStep => UNCHANGED dirVars
    BY DEF IoStep, CopySector, LeaveCluster, SeekCluster, EndSeek
  <1> QED
    BY <1>3, <1>4, <1>5, <1>6, <1>7, <1>8, <1>9 DEF Next

LEMMA NamesInvariance == Unambiguous /\ Spec => []NamesInv
  <1> SUFFICES ASSUME Unambiguous PROVE Spec => []NamesInv
    OBVIOUS
  <1>1. NamesInv /\ [Next]_vars => NamesInv'
    BY NamesInvStep
  <1> QED
    BY NamesInvInit, <1>1, PTL DEF Spec

\* Looking a path up finds what was stored under it, if no read fails: no entry of
\* another name, and always one whose long names were asked for.
THEOREM FindsTheNameAlways == Unambiguous /\ Spec => []FindsTheName
  <1>1. NamesInv => FindsTheName
    <2> SUFFICES ASSUME NamesInv, answer.goal = "open", answer.path # <<>>, ~answer.failed
                 PROVE  /\ answer.found \subseteq Reached(answer.path, HasName)
                        /\ answer.found = {} => Reached(answer.path, HasLongName) = {}
      BY DEF FindsTheName
    <2> DEFINE path == answer.path
    <2>1. /\ Reached(path, HasName) = {f.entry : f \in Named(image, path)[Len(path)]}
          /\ Reached(path, HasLongName) = {f.entry : f \in Long(image, path)[Len(path)]}
      BY ReachedIs
    <2>2. /\ \A e \in answer.found : \E f \in Named(image, path)[Len(path)] : f.entry = e
          /\ answer.found = {} => Long(image, path)[Len(path)] = {}
      BY DEF NamesInv, AnswerOK
    <2> QED
      BY <2>1, <2>2
  <1> QED
    BY NamesInvariance, <1>1, PTL

\* A directory that was listed without a failed read was printed name by name, in
\* order, none left out but the 8.3 names that are no short names.
THEOREM ListsTheNamesAlways == Unambiguous /\ Spec => []ListsTheNames
  <1>1. NamesInv => ListsTheNames
    <2> SUFFICES ASSUME NamesInv, answer.goal = "list", answer.ok, ~answer.failed
                 PROVE  \E c \in IF answer.path = <<>> THEN {image.boot.rootCluster}
                                 ELSE {e.cluster : e \in Reached(answer.path, HasName)} :
                            answer.names = NamesOf(image.tree[c])
      BY DEF ListsTheNames
    <2> DEFINE path == answer.path
    <2>1. path \in Paths /\ \E c \in Dirs(image, Named(image, path), Len(path)) : answer.names = NamesOf(image.tree[c])
      BY DEF NamesInv, AnswerOK
    <2>2. PICK c \in Dirs(image, Named(image, path), Len(path)) : answer.names = NamesOf(image.tree[c])
      BY <2>1
    <2>3. Reached(path, HasName) = {f.entry : f \in Named(image, path)[Len(path)]}
      BY ReachedIs
    <2>4. path = <<>> <=> Len(path) = 0
      <3>1. path \in Seq(Seq(Nat))
        BY <2>1, PathIs
      <3> QED
        BY <3>1, EmptySeq
    <2>5. CASE Len(path) = 0
      BY <2>2, <2>4, <2>5 DEF Dirs
    <2>6. CASE Len(path) # 0
      <3>1. PICK f \in Named(image, path)[Len(path)] : c = f.entry.cluster
        BY <2>2, <2>6 DEF Dirs
      <3>2. c \in {e.cluster : e \in Reached(path, HasName)}
        BY <2>3, <3>1
      <3> QED
        BY <2>2, <2>4, <2>6, <3>2
    <2> QED
      BY <2>5, <2>6
  <1> QED
    BY NamesInvariance, <1>1, PTL
=============================================================================
