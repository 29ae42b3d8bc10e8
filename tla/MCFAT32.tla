------------------------------ MODULE MCFAT32 ------------------------------
(***************************************************************************)
(* Disks for FAT32: two small volumes, laid out as mkfs.fat and a writer   *)
(* of long names lay them out, a sector holding two directory entries and  *)
(* a cluster two sectors of two bytes.                                     *)
(***************************************************************************)
EXTENDS FAT32

Skip == [kind |-> "skipped"]
Unused == [kind |-> "free"]

Entry(attr, base, ext, cluster, size) ==
    [kind |-> "entry", attr |-> attr, short |-> [base |-> base, ext |-> ext],
     cluster |-> cluster, size |-> size]

Stored2(long, entry) == [long |-> long, entry |-> entry]

\* The entries of a long name, the final piece first: it ends with a NUL and
\* 0xFF unless it is full.
Pieces(name) ==
    LET count == (Len(name) + PieceLength - 1) \div PieceLength
        at(i) == IF i <= Len(name) THEN name[i] ELSE IF i = Len(name) + 1 THEN NUL ELSE 255
    IN  [k \in 1 .. count |->
            LET index == count - k
            IN  [kind |-> "lfn", index |-> index, final |-> k = 1,
                 chars |-> [i \in 1 .. PieceLength |-> at(index * PieceLength + i)]]]

Raw(f) == Pieces(f.long) \o <<f.entry>>

\* Two entries a sector, the clusters of `chain` two sectors each.
Layout(entries, chain, firstLba) ==
    [lba \in UNION {{firstLba + (chain[k] - 2) * 2, firstLba + (chain[k] - 2) * 2 + 1} :
                      k \in DOMAIN chain} |->
        LET k == CHOOSE k \in DOMAIN chain : lba - (firstLba + (chain[k] - 2) * 2) \in {0, 1}
            at == (k - 1) * 4 + (lba - (firstLba + (chain[k] - 2) * 2)) * 2
        IN  [j \in 1 .. 2 |-> IF at + j <= Len(entries) THEN entries[at + j] ELSE Unused]]

\* All of them.
Padded(entries, chain) ==
    [p \in 1 .. 4 * Len(chain) |-> IF p <= Len(entries) THEN entries[p] ELSE Unused]

\* FAT sectors of four entries, from the chains.
FatOf(chains, startLba) ==
    LET next(c) ==
            LET on == {<<f, k>> \in UNION {{<<f, k>> : k \in DOMAIN chains[f]} : f \in DOMAIN chains} :
                         chains[f][k] = c}
            IN  IF on = {} THEN 0
                ELSE LET p == CHOOSE p \in on : TRUE
                     IN  IF p[2] = Len(chains[p[1]]) THEN EndOfChain ELSE chains[p[1]][p[2] + 1]
    IN  [lba \in startLba .. (startLba + 2) |->
            [i \in 0 .. 3 |-> next((lba - startLba) * 4 + i)]]

Boot == [reserved |-> 1, sectorsPerFat |-> 3, fatCount |-> 2, rootCluster |-> 2]

Disk(tree, raw, chains) ==
    LET firstLba == 2 + 1 + 3 * 2
    IN  [partitionOffset |-> 2, boot |-> Boot, firstLba |-> firstLba,
         tree |-> tree, chains |-> chains,
         raw |-> [c \in DOMAIN raw |-> Padded(raw[c], chains[c])],
         fat |-> FatOf(chains, 3),
         entries |-> FoldFunction(LAMBDA e, rest : e @@ rest, <<>>,
                        [c \in DOMAIN tree |-> Layout(raw[c], chains[c], firstLba)])]

a == 1
b == 2
c == 3
A == 31
B == 32
Digit == 60

\* A stray piece, of the order index + 1.
Piece(index) == [kind |-> "lfn", index |-> index, final |-> TRUE, chars |-> <<a, b>>]

\* A volume with long names: the pieces of one are split between sectors and
\* clusters, a deleted entry lies among them, and "b" is a directory that ends
\* with a piece of order 0.
LongNames ==
    LET f1 == Stored2(<<a, b, c>>, Entry("file", <<A, Digit>>, <<>>, 5, 9))
        d == Stored2(<<b>>, Entry("dir", <<B>>, <<>>, 3, 0))
        f2 == Stored2(<<c, b>>, Entry("file", <<B, Digit>>, <<>>, 8, 4))
        f3 == Stored2(<<a, a>>, Entry("file", <<A>>, <<B>>, 8, 4))
        chains == (2 :> <<2, 4, 9>>) @@ (3 :> <<3>>) @@ (5 :> <<5, 7, 6>>) @@ (8 :> <<8>>)
    IN  Disk((2 :> <<f1, d, f2>>) @@ (3 :> <<f3>>),
             (2 :> <<Skip>> \o Raw(f1) \o <<Skip>> \o Raw(d) \o Raw(f2)) @@ (3 :> Raw(f3) \o <<Piece(-1)>>),
             chains)

\* A volume with 8.3 names, one of them with a digit, a file of whole clusters, and
\* at the end a piece of an order that is too large.
ShortNames ==
    LET f1 == Stored2(<<>>, Entry("file", <<A, Digit>>, <<>>, 3, 4))
        f2 == Stored2(<<>>, Entry("file", <<A>>, <<B>>, 6, 8))
        f3 == Stored2(<<a, c, b>>, Entry("file", <<A, Digit>>, <<>>, 3, 4))
        chains == (2 :> <<2, 5>>) @@ (3 :> <<3>>) @@ (6 :> <<6, 4>>)
    IN  Disk(2 :> <<f1, f2, f3>>, 2 :> Raw(f1) \o <<Skip, Skip>> \o Raw(f2) \o Raw(f3) \o <<Piece(3)>>, chains)

Disks == {LongNames, ShortNames}

LookedUp ==
    {<<>>, << <<a, b, c>> >>, << <<b>> >>, << <<c, b>> >>, << <<b>>, <<a, a>> >>, << <<b>>, <<c>> >>,
     << <<a, Dot, b>> >>, << <<a, c, b>> >>, << <<c>> >>}

\* No lookup meets a name that is a part of the one it looks for.
ASSUME LookedUpUnambiguous == Unambiguous
=============================================================================
