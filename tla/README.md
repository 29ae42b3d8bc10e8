# Verification of LIGHTUX

TLA+ modules about the LIGHTUX kernel (`src/kernel/src`), TLC runs that check
them on small instances, and TLAPS proofs of the properties that matter most.
`PROJECT.json` lists the components, the runs, which lines each definition
stands for, the hazards and the theorems.

    tlc -workers 2 -config MCPMM_irq.cfg MCPMM       # and so on for each run
    tlapm PMM_proofs.tla                             # and the other *_proofs modules and Induction

## The system

LIGHTUX is a 64-bit kernel for one CPU, built with gcc without optimisation.
`kmain` sets up the memory manager, paging, the heap, the interrupts, the
keyboard, the timer and multitasking, creates one user task (`TestUserspace`),
scans PCI for an AHCI controller, mounts the first partition of its disk as
FAT32, and stays in a shell.

| Part | State | Operations | Hard part | Correct when |
|---|---|---|---|---|
| Physical memory manager (`pmm.c`, `bitmap.c`, `boot.c`) | bitmap with the hint `lastDeepFragmented`, three counters, `PMM_LOCK` | boot, allocate one or more pages, free | tasks are preempted inside the lock; the interrupt frees without it | no page is given out twice or although it is reserved; free pages are found; the counters agree with the bitmap |
| Tasks (`task.c`) | task list, statuses, numbers, `currentTask`, `TASK_LOCK` | create, kill, look up, unlink | the list and the fields are changed while the timer may run the scheduler | a task runs only when complete, and keeps its registers |
| Scheduler (`scheduler.c`, `timer.c`, `isr.asm`) | TSS, saved registers, `cr3` | one round-robin step per tick, reaping the dead | runs in an interrupt, on locks and directories of whoever was preempted | every ready task runs; only dead tasks go; the machine agrees with `currentTask` |
| Address spaces (`paging.c`, `stack.c`, `vmm.c`) | page tables, `g_PageDir`, `PAGING_LOCK` | new directory, switch, map, translate | three copies of "the current directory" | user pages go to their owner's directory only |
| Heap (`heap.c`), list helper (`linked_list.c`) | node list in memory, `HEAP_LOCK` | malloc, free, split, expand, combine | sizes at the edges; list order is not memory order | blocks in use are disjoint and inside the heap |
| PCI, AHCI (`pci.c`, `ahci*.c`), disk (`disk.c`) | list of devices, port registers, command slots | scan, hand off, probe, rebase, read, write, poll | the disk answers late, with an error or never | a slot in use is not used again; a call moves its sector or says it did not, and returns |
| FAT32 (`fat32.c`), partition table (`mbr.c`) | boot sector, file handles | mount, look up, list, open, read, seek | cluster chains, long names, read errors | a path finds the entry of that name; a read continues where the last one ended |
| Keyboard (`keyboard.c`, `kb_translate.c`) | last key, shift | interrupt handler, `GetKey` | handler and reader share one character | keys are delivered at most once, in order, and not left lying |
| Shell, console, printf (`shell.c`, `console.c`, `printf.c`) | line buffer, words, cursor, screen | edit a line, run a command, draw | edges of the line and the screen | what is on the screen is what is in the line; `argv` is its words |
| Descriptor tables, PIC, fonts, utilities | set at boot | - | - | not modelled: no state that changes afterwards, or data |

How they meet: `TaskCreate` and the address spaces take pages from the memory
manager and the task structure from the heap; `schedule()`, in the timer
interrupt, gives all of these back when it reaps a dead task, whatever the
task it interrupted was doing.  The heap expands into pages of the memory
manager.  The shell reads keys that the keyboard interrupt leaves, and files
through FAT32, the partition and AHCI.

## The modules

### Memory and tasks

**PageAllocator** is the promise of the memory manager: `held` frames and
their number `owed`; `Allocate` takes a contiguous run nobody holds, `Free`
gives held ones back.  Because `owed` counts per call, a second hand-out of a
held frame is a step of PMM that the promise has no step for.

**PMM** is the memory manager as the code has it.  Sizes are in pages.  The
boot (`Booted`) follows `InitializePMM` on a memory map given as a constant.
The rest is one action per stretch between two accesses to shared memory:
the search loop of `pmm_FindFreeRegion` (`ScanOccupied`, `ScanFree`,
`ScanEnd`), and `pmm_LockPage` and `pmm_FreePage` split at every load and
store of a byte of the bitmap and of a counter (`LockPage` ... `LockUsed`,
`FreePage` ... `FreeHint`), because `&=`, `|=` and `+=` are a load and a store
in this build.  Tasks interleave with one another and with the interrupt;
the interrupt runs to its end (`At`).  `PMM_LOCK` is the flag the code tests
and sets.  `held` and `owed` are auxiliary: what has been
returned and not given back.  PageAllocator is used twice: `Allocator` hands out usable
pages only (`UsableFrames`), `BitAllocator` any page whose bit the boot left clear.

**Scheduler** is multitasking.  `tasks` is the list from `firstTask`, `task`
the fields of each `task_t`; `cr3`, `g_PageDir`, `tss` are the registers and
the kernel's copy.  The kernel task runs `TestUserspace` with everything it
calls, one action per store the interrupt can see, and `TaskKill`; it is the
only task that does either in this repository.  `Tick` is the whole of
`schedule()` with the frame copy and the switch; `TickFails` is a tick whose
reaping never ends; `Iretq` is the end of a tick that reaped, since `TaskFree`
has enabled interrupts by then and another tick can come first.  A user task
is `jmp $`.  Directories and stacks are named after the task they were made
for.  The initial state is what `InitializeTask` leaves.

**Heap** is memory in units of `HEAP_ALIGNMENT`: `mem` says what each unit
holds, two units being a node header, and forgets a header that something else
is written over.  `malloc` is `Malloc`, then `Advance` or `ExpandHeap` per node
of its walk, then `Take` with `SplitNode`; `free` is one action with
`CombineForward`, and `CombineBackward`, which in the code only follows pointers.
`Stray` pointers come from headers that `SplitNode` leaves half written: a
walk along one leads to any node, or `outcome` is "wild" when anything may
follow.  `HEAP_LOCK` makes calls atomic towards one another.  `LinkedListAllocate` and
`LinkedListRemove` are clients: an element is a block with a pointer, and one that is
larger than what was allocated for it empties the header behind it (`Cleared`).
`OthersWrite` is the rest of the kernel, which writes to the pages that are not the heap's.
The history variable `damaged` says that a header or an element may have been written
over: by a split that leaves less than a header (`NoRoomForHeader`), by an expansion
into what the heap claims already (`RunsInto`), or by `OthersWrite`.

### The disk

**DiskService** is the promise of `diskRead` and `diskWrite`: only the caller's
buffer or the written sector may change during a call, and success means the
sector has been moved.

**AHCI** is the driver.  `boot` walks through `InitializePCI` and, per
controller, `InitializeAHCI`: handoff, probe, rebase, and the search for a
drive, which hangs without one.  A call goes through the steps of
`AHCI_DiskRead`/`Write`: `FindCmdSlot`, `SetupCMD`, `PortReady`, and the two
tests of the polling loop.  The controllers are **external** (`External`): they
complete or fail issued commands at any time, leave a failed command's slot set
in CI, and may stop the port.  **MCAHCI** has four machines.

**FAT32Directory** is a mounted volume.  `search` is a walk over a cluster
chain, one step per sector (`ReadSector`) and per FAT lookup (`FollowChain`),
each of which may fail; `Scan` goes over the entries of a sector like the
inner loops of `FAT32_FindEntry` and `FAT32_ListDirectoryEntry`.  Names are
sequences of characters, where a letter can be told from its capital.

**FAT32** adds a handle: `Open`, `Close`, `FAT32_Read` as `StartRead`, `CopySector`
per sector and `LeaveCluster`, `FAT32_Seek` as `StartSeek`, `SeekCluster` and `EndSeek`.
A byte of the disk is its place there, so that the properties can ask which
byte of the file it is.  **ByteStream** is the promise of a handle.
**MCFAT32** lays out two disks.

### The terminal

**Console** is the screen in cells of one glyph; every operation maps a screen
to a screen: `putc` with erasing and drawing the cursor, `\r`, `\n`, tab,
backspace, wrapping and clearing at the end.  **Printf** is `printf_internal`
as a recursive function over the format.  **Terminal** puts the keyboard interrupt, `GetKey`
in its four steps, the line editor, the tokenizer and the commands on top of
them.  A line that is longer than `cmdString` or has more words than `argv` ends in the state
"fault" (`LineOverrun`, `FitsArrays`), because the code checks neither.
**MCTerminal** gives it a screen of three lines of four characters, and
states what `printf` promises.

**MCPMM** gives PMM two small memory maps.

### The theorems

**PMM_proofs**, **PMM_sequential_proofs**, **Scheduler_proofs**, **Heap_proofs**, **AHCI_proofs**,
**FAT32_proofs** and **Terminal_proofs** hold the theorems about the modules they are
named after; **Induction** the lemmas that they share: induction over numbers and over sets whose members
have a size, and that a function which a recursion defines exists.

## The runs

| Run | Expect | Shows |
|---|---|---|
| `pmm_irq` | pass | with two tasks allocating 1 or 2 pages and the interrupt freeing, and a bitmap that ends with the last page the boot reserves, PMM implements PageAllocator over the usable pages and over the bits that the boot left clear, and `PMM_LOCK` is always let go |
| `pmm_trailing` | violation | the bits behind the last page that the boot reserves are handed out, although no usable page is behind them |
| `pmm_seq` | pass | with one task and no interrupt, between calls no free page lies below the hint, the counters agree with the bitmap, and a call gives up only when no run of that length is free |
| `sched` | pass | three users are created, killed and reaped with a tick possible at every store: user pages never get into the kernel's directory or another task's before the kernel panics, `cr3`, `g_PageDir`, TSS and `currentTask` agree, the dummy is not needed, every complete ready task runs, only dead tasks leave the list, the dead stay dead, and leave it unless the machine stops |
| `sched_halfbuilt` | violation | a tick right after a new task is linked switches to it |
| `sched_reap` | violation | reaping panics, waits for ever, or frees a living task's stack |
| `heap_calls` | pass | until something is written over a header or an element, the nodes keep their order, the used ones are the blocks in use and large enough, the linked list holds its elements, and the heap grows only when no free node would do |
| `heap_blocks` | violation | a remainder smaller than a header makes `malloc` hand out memory of others |
| `fat32_volume` | pass | lookups and listings give what was stored; a handle is a byte stream; a read that gives nothing is at the end; calls return |
| `fat32_chunks` | violation | reading a sector at a time leaves sectors out when a cluster has two |
| `ahci_calls` | pass | the driver implements DiskService, writes no command list that is still issued, sends commands to initialised drives only; boot and calls end |
| `terminal` | pass | keys come at most once and in order, and are not left lying; the screen shows the line; `argv` is its words where `cmdString` and `argv` hold them; printf follows its format |

`sched` contains the behaviours of `sched_halfbuilt` and `sched_reap`: where they
stop the machine, its properties speak of the states before.  Deadlock is not
checked because the systems may stop: a panic or a fault halts them, and calls
and scancodes are bounded.

What the passing runs leave out on purpose, because the code goes wrong there:

* `pmm_irq` has a memory map whose total is one page short of a whole byte of the bitmap.
  With any other there are bits that the boot never reserves (`pmm.c:54`): `pmm_trailing`.
  `NoBitIsTakenTwice`, which counts these among the pages to be had, is proved for every map.
* `heap_calls` makes no step from a `damaged` state (`BeforeDamage`), as its properties say nothing
  about one.  It has both sizes of list elements, remainders and expansions of every kind, so that
  it reaches all three kinds of damage.  `heap_blocks` shows what follows the first kind.
  Blocks can overlap others' pages also while every header is intact: in an instance like that of `heap_blocks`
  with `Sizes = {8}` and `Gaps = {0}`, `BlocksApart` fails because `ExpandHeap` counts a node's
  header as room for a block (`heap.c:69`), and with `Sizes = {6}`, `Gaps = {1}` and `Pages = 4`
  because `CombineForward` merges nodes that have pages of others between them (`heap.c:99`).
* `pmm_seq` has no interrupt that frees during a call.  With one (`Freers = {irq}`),
  `HintSoundWhenQuiet` fails: a search loads the hint, is interrupted by a free below it, and stores a hint
  above the freed page (`pmm.c:188`), which no later search looks at.
* `fat32_volume` reads up to the end of a cluster or of the file (`WholeClusters`);
  `fat32_chunks` does not.  The names that are looked up have no prefix in their directory
  (`fat32.c:376` could find that one; `Unambiguous`), and whether an 8.3 name matches is left to
  `chance`, as the code compares memory it has not written.
* `ahci_calls`: `BootEnds` is about machines whose controllers have a drive, and
  `EveryCallReturns` ends where a port has stopped after an error, because
  nothing starts it again and the wait has no timeout.
* `terminal`: `KeysComeOnceInOrder` does not say that no key is lost: one that comes
  between `GetKey`'s read and its clearing is.  `PrintfFollowsFormat` leaves out a
  conversion like `%s` right after a number's, which prints a number again: `number`
  is not reset (`printf.c:177`).  `ScreenShowsLine` is about texts that
  leave nothing behind the cursor (`InputsKeepTheLine`): `\r` goes back without erasing, and the
  shell's prompt would be written over the rest.  A line that does not fit the arrays
  ends in "fault", and nothing is said of it.

### Bounds

* PMM: 14 or 15 pages in two bytes of bitmap, with usable memory below and
  above the kernel, so that searches cross bytes, find runs too short, and run
  out.  In `MapOf14` bit 15 is one the boot never reserves.  `Sizes` bounds
  the request to the lengths around the runs of free pages; 0 pages returns
  NULL at once and is left out.  `LowPages` is 2 for the code's 0x10.
  `WordSize` is 64 in `pmm_seq`, so that the wrap of `freeMemory` below zero is
  seen; in `pmm_irq`, whose properties do not read the counters, it is 1.
* Scheduler: three user tasks, each created once, so that a task has another
  one before and after it in the list.  The numbers and the list grow with
  the users only.
* Heap: one page of 6 units at first, two more pages, of which others may take one before an
  expansion (`Gaps`), two blocks at a time (`MaxHeld`), requests of 1 and 4 units and elements of 1 and 2:
  splits, exact fits, merges with the next node and with expansions, near and far, and emptied headers.
  `heap_blocks` has larger pages, four blocks, and sizes up to 4.
* FAT32: sectors of 2 bytes and 2 entries, clusters of 2 sectors, FAT sectors of 4
  entries, names of up to 3 characters in pieces of 2: a directory of three clusters that
  are not in order, a name split over sectors, a deleted entry among its pieces,
  a subdirectory, a file of three clusters with a partial last sector, pieces of
  order 0 and too large.  One file is open at a time.
* AHCI: 2 ports, 2 slots, 2 sectors, 2 buffers, 2 values, 3 calls: after two
  errors all slots are taken and the third call finds none.
* Terminal: 4 scancodes (`MaxScancodes`) out of a letter, the byte behind the table,
  space, backspace, tab, enter and shift; on 4 by 3 characters a prompt, two
  tabs and an output already clear the screen.  `int` has 4 bits and `long` 6 (`IntSize`, `LongSize`), so that a value
  fits one and not the other; formats have two pieces.  `LineSize` is 8, which four
  scancodes can pass with tabs; `ArgvSize` is 2, which they can fill.

### Fairness

`FairSpec` of PMM: each task in a call keeps taking steps, because the
scheduler is round robin (`EveryReadyTaskRuns`), and so does the interrupt
handler.  `FairSpec` of Scheduler: the timer keeps ticking; nothing is assumed
of the kernel task's own progress.  FAT32, AHCI, Terminal: the kernel task,
which is always ready, goes on with what it has begun; in AHCI the
firmware lets the controller go, engines follow their bits, and an issued
command of a running port completes or fails; in Terminal the timer ticks.
Nobody is assumed to call again or to press a key.

### Assumptions on the environment

`MemMapAssumption`: the boot loader reports a usable entry, and no usable page
above the total that sizes the bitmap (`boot.c` adds up lengths, so a hole in
the map can break this; `pmm.c:62` would then write past the bitmap).  Callers
free only pages they hold, blocks they got from `malloc`, and elements of the list.
Limine does not map low addresses, so a new directory starts without user
pages.  Killing the kernel task or the dummy is left out: nothing in the code
could go on.

`VolumeAssumption`: a FAT32 volume is laid out as a formatter and those who wrote the
files leave it: each file has a chain of distinct clusters, which the FAT links and ends
and which is long enough for the file's size; the entries on the disk are those of the
tree.  `DirectoriesAssumption`: the sectors of a directory hold its files in order, the pieces
of a long name, the last piece first, between the entry of the file before and that of the file
itself; deleted entries may lie anywhere, pieces that belong to no file only behind the
last one; and what lies where a file begins that is no directory has no entries to show.
`Unambiguous`, where a theorem needs it: the code compares a long name only as far as the entry's
name goes (`fat32.c:376`), so in no directory may an entry match (`MayMatch`) a name of a
path that is not its own.  **MCFAT32** assumes it too, so that TLC evaluates it.
`CallersAssumption`: sizes and offsets are numbers, a sector has bytes, and a path is a
sequence of names.  `WholeClusters`, where a
theorem or a run needs it: a read ends at the end of a cluster or of the file.  The run
`fat32_chunks` shows what happens otherwise.

A controller never transfers for a command it has already failed.

`InputsAssumption`, `SizesAssumption` and `SizeAssumption`: the kinds of the terminal's inputs,
widths of integers and a screen of at least one character.  `InputsKeepTheLine`, where a
theorem needs it: a text of the file system with a `\r` ends with a line end and erases nothing
(otherwise it could leave something behind the cursor, which `\r` moves and nothing
erases), and the byte behind `ASCIITable` is no `\n`.  **MCTerminal** assumes it too, with a text that has both.

## The proofs

Each theorem is about every value of the constants that satisfies the named
assumptions; each inductive invariant was checked with TLC on an
instance before it was proved.

### The memory manager, with concurrency (`PMM_proofs`)

For every memory map that satisfies `MemMapAssumption`, every set of tasks, every set
of sizes and every width of the counters:

* `TypeCorrect`: `Spec => []TypeOK`, whoever frees.  The inductive invariant
  `TypeInv` adds to the types where each process's loop is: `region` and
  `index` stay inside the bitmap while a page is locked or freed.
* `NoBitIsTakenTwiceAlways`: if only the interrupt handler frees (`Freers
  \subseteq {Irq}`, as in the code), `Spec => NoBitIsTakenTwice`.  The
  inductive invariant `IInv` says: at most one task is between taking and
  releasing `PMM_LOCK`; the bits of held and reserved pages, and of the pages
  a task has already locked, are set; a task between the load and the store
  of a byte holds a copy that differs from the byte only in bits the handler
  has cleared since; and the region a task has found is disjoint from what is
  held.  It is needed because a lost update of a byte is possible: the
  handler's clearing of a bit may be undone by a task's store.  The
  invariant shows that the loss only goes one way: the page stays taken and
  nobody's, and never the opposite.
* `PageAllocatorImplemented`: if besides the bitmap ends with the last bit that the boot sets
  (`EveryBitIsReserved`, which is `mmTotal % 8 = 7`), `Spec => ImplementsPageAllocator`: the bits that the boot left clear are
  just the usable pages.  `pmm_trailing` shows that it is needed.

The steps: `BootedState` (what the boot leaves), one lemma per group of
actions (`CallAllocateStep`, `AllocatingStep`, `CallFreeStep`, `FreeingStep`),
`OthersStay` for what a step of one process leaves of the others, and
`IInvInductive`.

### The memory manager, one call at a time (`PMM_sequential_proofs`)

`HintIsSound`, `CountersAgree` and `GivingUpIsRight` have the form
`Spec /\ []OneCallAtATime => []P`: any number of processes may call, none while
another's call is under way.  The hypothesis is what boot and the single kernel
task provide; the interrupt's free breaks the first without it, as said above,
and a lost update of a counter breaks the second.  The inductive invariant is `SearchesInv /\ CountingInv`:

* `HintInv`: below the hint every page is taken, except those that the call
  under way has found and not locked yet (a search for one page raises the hint
  when it finds the page, before locking it);
* `SearchInv`: no free run of the requested length starts before the region a search is at,
  which is why giving up is right although it started from the hint and
  jumped over runs too short;
* `CountersInv`: each counter is the number of set bits, off by the one update that
  the call under way still has to make, modulo the word.  `freeMemory` can wrap below
  zero, so this is arithmetic modulo `WordSize` throughout
  (`RemainderIsUnique`, `MultiplesVanish`, `FreeFollows`, `UsedFollows`).

### The scheduler (`Scheduler_proofs`)

For any finite set of users: `TypeCorrect`, `SpacesStayApartAlways`, `MachineAgreesWithTaskAlways`,
`DummyNeverRunsAlways`, `OnlyTheDeadLeaveAlways` and `DeadStayDeadAlways`.  One inductive invariant
serves all of them, as long as the machine runs: `BuildInv`, that each user task is
unmade, whole, or the one under construction, with just the fields assigned so far at each program
counter; `ListInv`, that the kernel task stays first in the list and alive and that no two user
tasks of the list have one number; `DirInv`, which directory `cr3`, `g_PageDir` and the
kernel task's saved `pageDir` name between any two stores of `ChangePageDir`,
where a tick may have saved either one; `CurrentInv`, that the current task is linked,
alive and, if it is a user, whole.  `OnlyTheDeadLeave` needs the
numbers: `schedule()` frees by number, the kernel task and the dummy both have 0, and
so has a task that has been linked and not numbered yet.
The walks along the list, `Without(line, gone)`
and the round robin's next ready task, are reasoned about as functions on sequences:
`Without` is a recursive function, for which the proof shows that a solution of its
equation exists, by induction on lengths (`Induction`), before using it.

### The heap (`Heap_proofs`)

`HeapTypeOK`, `TheNodesKeepTheirOrder`, `NoCallTakesAnothersBlock` and `TheListIsExact` have the
form `Spec => []P`, and `TheHeapGrowsOnlyWhenFull` is `Spec => ExpandsOnlyWhenFull`, for any sizes, gaps, number of
blocks and of list elements, and any order of calls.  The properties speak of the
states before the first damage (`damaged`), an event of the history and no
assumption on the constants: each damage is possible in the code, and after it nothing can be said.

The inductive invariant is `IInv`, that is `PlainInv /\ (damaged \/ Shape)`: `PlainInv` holds at all times
(types, which pages are whose), and `Shape` is what damage ends.  There is a set of nodes whose
headers are intact, each of which ends before the next one of the list begins, the
last being `lastNode` (`InOrder`); the blocks in use lie right behind the headers of nodes that are not
marked free, and the other such nodes are empty (`BlocksIn`); the nodes
that the walk of a `malloc` has passed would not do (`CallInv`); a sequence of distinct blocks in
use is what the pointers of the list lead through (`Listed`).
This must be inductive for `Take` with a split in the middle of the list and with an element whose clearing
empties the header behind it, for expansions anywhere, for `free` with and without a merge, over whatever lies
between the two nodes, and for the removal of
an element in front, in the middle or at the end of the list.
The properties speak of `Nodes` and `Elements`, which follow pointers; that these are
the invariant's nodes and sequence is by induction on the number of links followed
(`NodesAre`, `ElementsListed`): memory has room for no more nodes than that (`FewNodes`).
One lemma per action: `MallocStep`, `AdvanceStep`, `TakeStep`, `ExpandStep`, `FreeStep`, `RemoveStep`, `OthersStep`.

### The disk (`AHCI_proofs`)

For every machine, number of ports, slots, sectors, buffers, values and calls: `TypeCorrect`,
`CommandsReachDrivesAlways`, `IssuedTablesAreLeftAlways`, and `IsDiskServiceAlways`, that
every step of the driver and the controllers is a step of DiskService or a stutter.  The invariant: the drives
found so far are rebased, started and behind the scan (`DriveInv`, `ScanInv`); only drives have commands issued, and of these only
the current call's can still move data, the others having failed (`CommandInv`);
the slot of a call is free until it is issued, its table says what `SetupCMD` wrote, an error
of its port is its own, and once it is no longer issued its sector and buffer agree
(`CallInv`).  It rests on the **external** controllers' promise never to transfer for a command they
have failed; without it a late transfer would write into a buffer whose caller
has long returned.

### The file system (`FAT32_proofs`)

For every volume that satisfies `VolumeAssumption`, any number of sectors in a cluster and of
entries in a sector of the FAT, and any calls, there are five theorems.

`TypeCorrect`, `ReadsToTheEndAlways` and `IsByteStreamAlways` are about a handle,
each of the form `WholeClusters /\ Spec => ...`.  The last says that every
step is a step of ByteStream or a stutter: `CopySector` delivers the file's next bytes, a seek moves the
offset, and nothing else moves it.  Any read of the disk may fail.  The invariant:

* `DirInv`: a walk reads entries of the disk, and finds one of them or the root, so that
  a handle starts with the first cluster of a file of the tree;
* `PlacedInv`: between calls the handle's current cluster is the one of the chain in which its offset
  lies, unless the file has ended, or the chain was lost by a failed read of the FAT;
* `ReadInv`: during a read the sector and the bytes skipped in it are those of the offset, and
  the read ends at the end of a cluster or of the file.  Here `WholeClusters` is needed: the
  code follows the chain after every read;
* `SeekInv`: the links that a seek has still to follow lead to the cluster of its offset;
* `GivenInv`: a read that has delivered nothing was at the end of the file, on a
  directory, or after the chain was lost.

`OnePlace` rests the abstraction of a byte as its place on the disk: no two sectors of a
chain coincide, so a place on the disk is one place in the file.  The arithmetic of
places (`Place`, `SectorsFit`, `CopiedPlace`, `LastPlace`) is kept in lemmas of its own.

`FindsTheNameAlways` and `ListsTheNamesAlways` are about lookups and listings, of the form
`Unambiguous /\ Spec => []P`, whether or not reads end with a cluster.  The
code collects the pieces of a long name in a buffer that outlives a sector and a cluster, and
shows or compares it at the entry that follows.  The invariant `NamesInv` adds to `DirInv`:

* `WalkOK`: a walk stands (`Standing`) between two entries of a directory the path's names
  lead to (`Arrived`), and has passed some number of its files.  The buffer holds as many of the last
  pieces of the next file's name as it has seen (`KnowsName`); a listing has printed the
  names of just the files passed, and in a lookup none of them has the long name looked for;
* `AnswerOK`: what a finished walk has left behind is what the two properties say.

`KnowsMore` and `KnowsAll` take it over one piece and one entry, `ScanNextStep` and
`ScanStep` over a sector, by induction on its entries; `ReadStep`, `FollowStep`,
`EndStep` and `Descends` over the steps of the walk.  `NextName` uses `Unambiguous`: where
a name is found, no other file of the directory could have been meant; `NothingElse` says that
a directory without the name ends every path of long names.  `Scan`, `NamesOf` and
`Reached` are recursive functions, for which the proof shows first that their equations have a
solution (`Recursion`).

### The terminal (`Terminal_proofs`)

For any keyboard, any number of scancodes, any screen, devices and texts, there are four theorems.

`KeysComeOnceInOrderAlways`.  The invariant `IInv`: the keys
that `GetKey` returned have increasing places among those the handler stored, all before
that of the key waiting in `g_KeyInfo`, which is the last one stored, and before that of the
key which `GetKey` has read and not cleared yet.  Between the read and the clearing
the handler may store more; the clearing then loses them, but never repeats one.

`TerminalTypeOK`: `TextInv` adds to `IInv` what the shell holds: a key to edit with, a
line and words of characters that a key can be (`LineChars`), and a screen that shows the cursor.

`ScreenShowsLineAlways`, of the form `InputsKeepTheLine => (Spec => []ScreenShowsLine)`.
`LineInv`: nothing follows the cursor (`Clean`), and while a line is edited the cells before
the cursor hold the end of the prompt and the line (`EndsWith`).  This is inductive only if
`Clean` also holds while commands print, whatever the text: a `\r` breaks it
until the next `\n`, and in between there is nothing in the lines below (`NothingBelow`).  The
lemmas say what each operation of Console does to the cursor and to which cells, then what `putc`
and `puts` of it keep, then what `printf` returns (`Prints` is the invariant of its state
machine); the proof has one lemma per key and one for the commands.

`ArgvIsWordsAlways`, of lines that the two arrays hold: `Tokenize` cuts the first word off and goes on with the rest
(`TokenizeStep`); the words of a line start where its first word does and where those of its rest do
(`StartsSplit`), because the rest is empty or begins with a space; by induction over the
length of the line (`TokenizeCuts`).  `WordsInv` keeps `argv` and the line together while a command runs.

`Remainders` and `Tokenize` recurse on a smaller number and a shorter line.  That their
equations have a solution is `Fixpoint` of **Induction**.

### Only model-checked

* The liveness properties (`LockReleased`, `EveryReadyTaskRuns`, `KilledLeaves`,
  `CallsEnd`, `EveryCallReturns`, `BootEnds`, `KeyIsTaken`): the prover does not reason about fairness.
* `PrintfFollowsFormat`: it says of the formats of one instance what each of their pieces prints, and
  is evaluated once.  What is proved of `printf` is that it ends and of which characters its output is made.
* The properties of the runs that expect a violation: they are false.

## Not modelled

* The memory behind addresses: contents and walk of page tables, physical
  contiguity of a user stack (`schedulerDeleteTask` frees four pages in a row from
  the first, which `StackMapUser` allocated one by one), reuse of freed pages.
* In Scheduler, allocation does not fail, the four pages of a stack are mapped in
  one step, and the stacks and page tables the reaper forgets are not counted.
  Registers are not modelled: a tick between `TaskFree`'s `sti` and the handler's `iretq`
  loses a task's.
* A fault when physical memory runs out (`pmm.c:208`) halts PMM (`halted`); that it
  comes before the code's own panic is a hazard, without a run of its own.
* PCI configuration registers, the addresses in AHCI's registers, sector
  counts above one, `sleep`, the debug log, glyphs and pixels, widths that are
  not a multiple of a character.
* What is behind `cmdString[256]` and `argv[10]`: a line that does not fit ends in "fault".
* Descriptor tables, interrupt controller, fonts, the boot loader's header and
  the copying of what it reports: set once, or data.

## Plan

1. **Paging**: the table walk of `paging_MapPage` and `paging_VirtToPhysical`,
   against a map from pages to frames; a second creator of tasks, for the
   races of `GetFreeID` and `paging_AllocatePD`.
