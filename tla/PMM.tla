-------------------------------- MODULE PMM --------------------------------
(***************************************************************************)
(* The physical memory manager: pmm.c on top of bitmap.c, booted from the  *)
(* memory map that boot.c adds up.  Sizes are counted in pages of          *)
(* PAGE_SIZE bytes, so an address is the index of its page.                *)
(*                                                                         *)
(* Kernel tasks call pmm_AllocatePage(s) and may be preempted at any       *)
(* instruction.  The timer interrupt calls pmm_FreePages when the          *)
(* scheduler reaps a dead task; nothing preempts it.  PMM_LOCK is taken by *)
(* the allocation calls only.  The kernel is built without optimisation,   *)
(* so every `x &= m` and `x += n` on shared memory is a load and a store:  *)
(* a step of a process runs from just after one load of a shared word to   *)
(* just after the next one, and an interrupt can fall between the two.     *)
(***************************************************************************)
EXTENDS Integers, Sequences, FiniteSets, FiniteSetsExt

CONSTANTS
    Tasks,      \* the tasks that allocate pages
    Irq,        \* the timer interrupt handler, as a process
    Freers,     \* the processes that free pages; the code's only one is Irq
    Sizes,      \* the numbers of pages the callers ask for (a bound)
    MemMap,     \* the boot loader's map: <<[base, length, type], ...>>
    LowPages,   \* the pages at address 0 that are never handed out: 0x10
    WordSize    \* the counters are size_t: values are modulo 2^64 / PAGE_SIZE

Procs == Tasks \cup {Irq}

ASSUME ProcsAssumption ==
    /\ Irq \notin Tasks
    /\ Freers \subseteq Procs
    /\ Sizes \subseteq Nat \ {0}
    /\ LowPages \in Nat
    /\ WordSize \in Nat \ {0}

-----------------------------------------------------------------------------
(* The memory map and the boot-time state. *)

Run(start, n) == start .. (start + n - 1)

EntryPages(e) == Run(e.base, e.length)

EntriesOf(types) == {k \in DOMAIN MemMap : MemMap[k].type \in types}

\* GetBootInfo adds up every entry that is not reserved.
mmTotal ==
    MapThenSumSet(LAMBDA k : MemMap[k].length, DOMAIN MemMap \ EntriesOf({"reserved"}))

UsablePages == UNION {EntryPages(MemMap[k]) : k \in EntriesOf({"usable"})}

\* The first of the longest usable entries holds the bitmap.
largestMemSeg ==
    LET longest == {k \in EntriesOf({"usable"}) :
                      \A l \in EntriesOf({"usable"}) : MemMap[l].length <= MemMap[k].length}
    IN  MemMap[Min(longest)].base

bitmapSizeTooSmall == mmTotal \div 8    \* mutant: the last pages have no byte

bitmapSize == mmTotal \div 8 + 1

Bits == 0 .. (bitmapSize * 8 - 1)

BitmapPages == Run(largestMemSeg, bitmapSize \div 4096 + 1)

\* What Limine guarantees of the map (entries do not overlap), and what
\* InitializePMM relies on without checking it: there is a usable entry, and
\* no usable page lies above the total that sizes the bitmap.  InitializePMM
\* panics if the longest usable entry starts at address 0.
ASSUME MemMapAssumption ==
    /\ mmTotal \in Nat
    /\ largestMemSeg \in Nat \ {0}
    /\ EntriesOf({"usable"}) # {}
    /\ UsablePages \subseteq 0 .. mmTotal
    /\ BitmapPages \subseteq 0 .. mmTotal
    /\ LowPages <= mmTotal

Add(x, n) == (x + n) % WordSize
Sub(x, n) == (x - n) % WordSize

\* Each of the boot-time loops skips the pages whose bit needs no change.
Reserve(s, pages) ==
    LET n == Cardinality(pages \ s.occupied)
    IN  [s EXCEPT !.occupied = @ \cup pages, !.free = Sub(@, n), !.reserved = Add(@, n)]

\* Mutant: the released pages are not counted as free again.
UnreserveUncounted(s, pages) ==
    LET n == Cardinality(pages \cap s.occupied)
    IN  [s EXCEPT !.occupied = @ \ pages, !.reserved = Sub(@, n)]

Unreserve(s, pages) ==
    LET n == Cardinality(pages \cap s.occupied)
    IN  [s EXCEPT !.occupied = @ \ pages, !.free = Add(@, n), !.reserved = Sub(@, n)]

\* Mutant: the pages of the bitmap itself stay free.
LockNone(s, pages) == s

Lock(s, pages) ==
    LET n == Cardinality(pages \ s.occupied)
    IN  [s EXCEPT !.occupied = @ \cup pages, !.free = Sub(@, n), !.used = Add(@, n)]

\* InitializePMM: reserve everything, give the usable entries back, keep the
\* first pages, and lock the pages of the bitmap itself.
Booted ==
    LET empty    == [occupied |-> {}, free |-> mmTotal % WordSize, used |-> 0, reserved |-> 0]
        all      == Reserve(empty, Run(0, mmTotal + 1))
        usable   == Unreserve(all, UsablePages)
        lowKept  == Reserve(usable, Run(0, LowPages))
    IN  Lock(lowKept, BitmapPages)

-----------------------------------------------------------------------------
VARIABLES
    occupied,           \* the bitmap: the pages whose bit is 1
    lastDeepFragmented, \* where a search starts
    freeMemory, usedMemory, reservedMemory,
    PMM_LOCK,
    halted,             \* the CPU has faulted and the kernel has stopped
    pc,                 \* where each process is
    request,            \* numPages of its call
    region,             \* currentRegionStart, then the address locked or freed
    index,              \* the page its loop has reached
    byte,               \* the bits of the byte of the bitmap it has loaded
    word,               \* the counter it has loaded
    held,               \* the pages handed out and not given back (auxiliary)
    owed                \* how many those are, counted by the calls (auxiliary)

bitmap == <<occupied, lastDeepFragmented>>
counters == <<freeMemory, usedMemory, reservedMemory>>
vars == <<bitmap, counters, PMM_LOCK, halted, pc, request, region, index, byte, word, held, owed>>

AllocStages == {"spin", "scan", "lock", "lockClear", "lockSet", "lockFree", "lockUsed"}
FreeStages  == {"free", "freeClear", "freeFree", "freeUsed", "freeHint"}

Locking == AllocStages \ {"spin"}       \* the stages between acquire and release

\* (size_t)-1: no page of the bitmap has this index.
INVALID_PAGE == -1

ByteOf(i) == {j \in Bits : j \div 8 = i \div 8}

Init ==
    /\ occupied = Booted.occupied
    /\ lastDeepFragmented = 0
    /\ freeMemory = Booted.free
    /\ usedMemory = Booted.used
    /\ reservedMemory = Booted.reserved
    /\ PMM_LOCK = FALSE
    /\ halted = FALSE
    /\ pc = [p \in Procs |-> "idle"]
    /\ request = [p \in Procs |-> 1]
    /\ region = [p \in Procs |-> 0]
    /\ index = [p \in Procs |-> 0]
    /\ byte = [p \in Procs |-> {}]
    /\ word = [p \in Procs |-> 0]
    /\ held = {}
    /\ owed = 0

\* A process is at a stage and may take a step: nothing runs after a fault,
\* and nothing but the interrupt handler runs before it has returned.
At(p, stage) ==
    /\ ~halted
    /\ pc[p] = stage
    /\ p # Irq => pc[Irq] = "idle"

spinlockAcquireAlways == PMM_LOCK' = TRUE    \* mutant: the test is not made

\* The atomic test-and-set that ends the spinning.
spinlockAcquire == ~PMM_LOCK /\ PMM_LOCK' = TRUE

spinlockReleaseNothing == UNCHANGED PMM_LOCK    \* mutant: the flag is left set

spinlockRelease == PMM_LOCK' = FALSE

Goto(p, stage) == pc' = [pc EXCEPT ![p] = stage]

\* Where the loop over the pages of a region ends.
End(p) == region[p] + request[p]

\* A call returns: its local variables are gone.
Leave(p) ==
    /\ Goto(p, "idle")
    /\ request' = [request EXCEPT ![p] = 1]
    /\ region' = [region EXCEPT ![p] = 0]
    /\ index' = [index EXCEPT ![p] = 0]

-----------------------------------------------------------------------------
(* pmm_AllocatePage(s), pmm_FindFreeRegion *)

CallAllocate(t, n) ==
    /\ At(t, "idle")
    /\ Goto(t, "spin")
    /\ request' = [request EXCEPT ![t] = n]
    /\ UNCHANGED <<bitmap, counters, PMM_LOCK, halted, region, index, byte, word, held, owed>>

\* spinlockAcquire, and the first line of pmm_FindFreeRegion.
Acquire(t) ==
    /\ At(t, "spin")
    /\ spinlockAcquire
    /\ Goto(t, "scan")
    /\ region' = [region EXCEPT ![t] = lastDeepFragmented]
    /\ index' = [index EXCEPT ![t] = lastDeepFragmented]
    /\ UNCHANGED <<bitmap, counters, halted, request, byte, word, held, owed>>

\* One turn of the loop of pmm_FindFreeRegion.  currentRegionSize is always
\* the distance from region to index.
ScanOccupied(t) ==
    /\ At(t, "scan")
    /\ index[t] \in occupied
    /\ index' = [index EXCEPT ![t] = @ + 1]
    /\ region' = [region EXCEPT ![t] = index[t] + 1]
    /\ UNCHANGED <<bitmap, counters, PMM_LOCK, halted, pc, request, byte, word, held, owed>>

RaiseHintAlways(t) == region[t] + 1    \* mutant: whatever the length asked for

\* The hint moves only when a single page is looked for.
RaiseHint(t) == IF request[t] = 1 THEN region[t] + 1 ELSE lastDeepFragmented

ScanFree(t) ==
    LET found == index[t] + 1 - region[t] >= request[t]
    IN  /\ At(t, "scan")
        /\ index[t] \in Bits \ occupied
        /\ lastDeepFragmented' = RaiseHint(t)
        /\ index' = [index EXCEPT ![t] = IF found THEN region[t] ELSE @ + 1]
        /\ Goto(t, IF found THEN "lock" ELSE "scan")
        /\ UNCHANGED <<occupied, counters, PMM_LOCK, halted, request, region, byte, word, held, owed>>

\* The search has passed the last bit: INVALID_PAGE goes to pmm_LockPage.
ScanEnd(t) ==
    /\ At(t, "scan")
    /\ index[t] \notin Bits
    /\ region' = [region EXCEPT ![t] = INVALID_PAGE]
    /\ index' = [index EXCEPT ![t] = INVALID_PAGE]
    /\ Goto(t, "lock")
    /\ UNCHANGED <<bitmap, counters, PMM_LOCK, halted, request, byte, word, held, owed>>

\* bitmap_Get(INVALID_PAGE) reads 2^49 - 1 bytes past the bitmap, which is no
\* canonical address: the CPU raises a fault and the kernel stops.
LockInvalid(t) ==
    /\ At(t, "lock")
    /\ index[t] = INVALID_PAGE
    /\ halted' = TRUE
    /\ UNCHANGED <<bitmap, counters, PMM_LOCK, pc, request, region, index, byte, word, held, owed>>

\* The end of pmm_LockPages and spinlockRelease: the region is the caller's.
Return(t) ==
    /\ At(t, "lock")
    /\ index[t] = End(t)
    /\ spinlockRelease
    /\ held' = held \cup Run(region[t], request[t])
    /\ owed' = owed + request[t]
    /\ Leave(t)
    /\ UNCHANGED <<bitmap, counters, halted, byte, word>>

-----------------------------------------------------------------------------
(* pmm_LockPages, pmm_LockPage and pmm_FreePages, pmm_FreePage *)

NextPage(p, stage) == index' = [index EXCEPT ![p] = @ + 1] /\ Goto(p, stage)

\* bitmap_Get, then the load of `&=` in bitmap_Set; a page that is locked
\* already is passed over.
LockPage(t) ==
    /\ At(t, "lock")
    /\ index[t] \notin {INVALID_PAGE, End(t)}
    /\ IF index[t] \in occupied
       THEN NextPage(t, "lock") /\ UNCHANGED byte
       ELSE /\ byte' = [byte EXCEPT ![t] = occupied \cap ByteOf(index[t])]
            /\ Goto(t, "lockClear")
            /\ UNCHANGED index
    /\ UNCHANGED <<bitmap, counters, PMM_LOCK, halted, request, region, word, held, owed>>

\* The store of a byte.
StoreByte(p, bits) == occupied' = (occupied \ ByteOf(index[p])) \cup bits

\* The store of `&=`, and the load of `|=`.
LockClear(t) ==
    /\ At(t, "lockClear")
    /\ StoreByte(t, byte[t] \ {index[t]})
    /\ byte' = [byte EXCEPT ![t] = @ \ {index[t]}]
    /\ Goto(t, "lockSet")
    /\ UNCHANGED <<lastDeepFragmented, counters, PMM_LOCK, halted, request, region, index, word, held, owed>>

\* The store of `|=`, and the load of freeMemory.
LockSet(t) ==
    /\ At(t, "lockSet")
    /\ StoreByte(t, byte[t] \cup {index[t]})
    /\ byte' = [byte EXCEPT ![t] = {}]
    /\ word' = [word EXCEPT ![t] = freeMemory]
    /\ Goto(t, "lockFree")
    /\ UNCHANGED <<lastDeepFragmented, counters, PMM_LOCK, halted, request, region, index, held, owed>>

\* The store of freeMemory, and the load of usedMemory.
LockFree(t) ==
    /\ At(t, "lockFree")
    /\ freeMemory' = Sub(word[t], 1)
    /\ word' = [word EXCEPT ![t] = usedMemory]
    /\ Goto(t, "lockUsed")
    /\ UNCHANGED <<bitmap, usedMemory, reservedMemory, PMM_LOCK, halted, request, region, index, byte, held, owed>>

LockUsed(t) ==
    /\ At(t, "lockUsed")
    /\ usedMemory' = Add(word[t], 1)
    /\ word' = [word EXCEPT ![t] = 0]
    /\ NextPage(t, "lock")
    /\ UNCHANGED <<bitmap, freeMemory, reservedMemory, PMM_LOCK, halted, request, region, byte, held, owed>>

\* A caller gives back pages it was handed.
CallFree(p, start, n) ==
    /\ At(p, "idle")
    /\ Run(start, n) \subseteq held
    /\ held' = held \ Run(start, n)
    /\ owed' = owed - n
    /\ request' = [request EXCEPT ![p] = n]
    /\ region' = [region EXCEPT ![p] = start]
    /\ index' = [index EXCEPT ![p] = start]
    /\ Goto(p, "free")
    /\ UNCHANGED <<bitmap, counters, PMM_LOCK, halted, byte, word>>

FreePage(p) ==
    /\ At(p, "free")
    /\ index[p] # End(p)
    /\ IF index[p] \in occupied
       THEN /\ byte' = [byte EXCEPT ![p] = occupied \cap ByteOf(index[p])]
            /\ Goto(p, "freeClear")
            /\ UNCHANGED index
       ELSE NextPage(p, "free") /\ UNCHANGED byte
    /\ UNCHANGED <<bitmap, counters, PMM_LOCK, halted, request, region, word, held, owed>>

FreeClear(p) ==
    /\ At(p, "freeClear")
    /\ StoreByte(p, byte[p] \ {index[p]})
    /\ byte' = [byte EXCEPT ![p] = {}]
    /\ word' = [word EXCEPT ![p] = freeMemory]
    /\ Goto(p, "freeFree")
    /\ UNCHANGED <<lastDeepFragmented, counters, PMM_LOCK, halted, request, region, index, held, owed>>

FreeFree(p) ==
    /\ At(p, "freeFree")
    /\ freeMemory' = Add(word[p], 1)
    /\ word' = [word EXCEPT ![p] = usedMemory]
    /\ Goto(p, "freeUsed")
    /\ UNCHANGED <<bitmap, usedMemory, reservedMemory, PMM_LOCK, halted, request, region, index, byte, held, owed>>

FreeUsed(p) ==
    /\ At(p, "freeUsed")
    /\ usedMemory' = Sub(word[p], 1)
    /\ word' = [word EXCEPT ![p] = 0]
    /\ Goto(p, "freeHint")
    /\ UNCHANGED <<bitmap, freeMemory, reservedMemory, PMM_LOCK, halted, request, region, index, byte, held, owed>>

LowerHintNever(p) == lastDeepFragmented    \* mutant: the hint is left alone

LowerHint(p) == IF lastDeepFragmented > index[p] THEN index[p] ELSE lastDeepFragmented

FreeHint(p) ==
    /\ At(p, "freeHint")
    /\ lastDeepFragmented' = LowerHint(p)
    /\ NextPage(p, "free")
    /\ UNCHANGED <<occupied, counters, PMM_LOCK, halted, request, region, byte, word, held, owed>>

FreeReturn(p) ==
    /\ At(p, "free")
    /\ index[p] = End(p)
    /\ Leave(p)
    /\ UNCHANGED <<bitmap, counters, PMM_LOCK, halted, byte, word, held, owed>>

-----------------------------------------------------------------------------
Allocating(t) ==
    \/ Acquire(t) \/ ScanOccupied(t) \/ ScanFree(t) \/ ScanEnd(t) \/ LockInvalid(t)
    \/ LockPage(t) \/ LockClear(t) \/ LockSet(t) \/ LockFree(t) \/ LockUsed(t)
    \/ Return(t)

Freeing(p) ==
    \/ FreePage(p) \/ FreeClear(p) \/ FreeFree(p) \/ FreeUsed(p) \/ FreeHint(p)
    \/ FreeReturn(p)

Call ==
    \/ \E t \in Tasks, n \in Sizes : CallAllocate(t, n)
    \/ \E p \in Freers, start \in Bits, n \in Sizes : CallFree(p, start, n)

Next ==
    \/ Call
    \/ \E t \in Tasks : Allocating(t)
    \/ \E p \in Freers : Freeing(p)

\* The scheduler gives every ready task its turn, and an interrupt handler
\* runs to its end.
Fairness ==
    /\ \A t \in Tasks : WF_vars(Allocating(t))
    /\ \A p \in Freers : WF_vars(Freeing(p))

Spec == Init /\ [][Next]_vars
FairSpec == Spec /\ Fairness

-----------------------------------------------------------------------------
(* Properties *)

\* The pages there are for the callers: memory that neither the firmware, the
\* boot loader nor the kernel occupies, without the first pages and the
\* bitmap's own.
UsableFrames == UsablePages \ ((0 .. LowPages - 1) \cup BitmapPages)

TypeOK ==
    /\ occupied \subseteq Bits
    /\ lastDeepFragmented \in Nat
    /\ freeMemory \in 0 .. WordSize - 1
    /\ usedMemory \in 0 .. WordSize - 1
    /\ reservedMemory \in 0 .. WordSize - 1
    /\ PMM_LOCK \in BOOLEAN
    /\ halted \in BOOLEAN
    /\ pc \in [Procs -> AllocStages \cup FreeStages \cup {"idle"}]
    /\ request \in [Procs -> Nat \ {0}]
    /\ region \in [Procs -> Int]
    /\ index \in [Procs -> Int]
    /\ byte \in [Procs -> SUBSET Bits]
    /\ word \in [Procs -> 0 .. WordSize - 1]
    /\ held \subseteq Bits
    /\ owed \in Int

\* The promise of pmm_AllocatePage(s) and pmm_FreePage(s): what a call
\* returns is a contiguous run of pages of usable memory that nobody holds,
\* however tasks and the interrupt that frees pages interleave.  It is kept
\* only if the bitmap ends with the page the boot reserves last (pmm.c:54):
\* else the bits behind it are clear, and a search finds them (pmm.c:175).
Allocator == INSTANCE PageAllocator WITH Frames <- UsableFrames
ImplementsPageAllocator == Allocator!Spec

\* What is left of the promise with such bits: no page is given to a second
\* caller, and none whose bit the boot has set.
BitAllocator == INSTANCE PageAllocator WITH Frames <- Bits \ Booted.occupied
NoBitIsTakenTwice == BitAllocator!Spec

\* PMM_LOCK is let go on every path: a task that takes it gives it back unless
\* the machine stops.
LockReleased == PMM_LOCK ~> (~PMM_LOCK \/ halted)

Quiet == ~halted /\ \A p \in Procs : pc[p] = "idle"

\* Between calls no free page lies below the page where the next search
\* starts, which pmm_FindFreeRegion relies on to find every free page.
HintSoundWhenQuiet ==
    Quiet => \A i \in Bits : i < lastDeepFragmented => i \in occupied

\* Between calls the counters agree with the bitmap: the used and reserved
\* pages are those whose bit is set, and freeMemory is what is left of the
\* total, modulo the width of size_t.  (The total counts one page less than
\* the bitmap covers, so with every page taken freeMemory wraps around.)
CountersAgreeWhenQuiet ==
    LET taken == Cardinality(occupied)
    IN  Quiet => /\ Add(usedMemory, reservedMemory) = taken % WordSize
                 /\ freeMemory = Sub(mmTotal, taken)

\* A call gives up only if no run of the length it asks for is free, whatever
\* the calls before it did to the hint.
GivesUpOnlyWhenFull ==
    \A t \in Tasks :
        pc[t] = "lock" /\ index[t] = INVALID_PAGE =>
            \A start \in Bits :
                Run(start, request[t]) \subseteq Bits =>
                    Run(start, request[t]) \cap occupied # {}
=============================================================================
