-------------------------------- MODULE Heap --------------------------------
(***************************************************************************)
(* The kernel heap (heap.c) and the linked list helper on top of it        *)
(* (linked_list.c).  Memory is counted in units of HEAP_ALIGNMENT bytes: a *)
(* HeapNode_t takes two, the first with size and free, the second with     *)
(* next and last.  What a cell of memory holds is what was stored there    *)
(* last, so a header that something else overwrites is gone; what a freed  *)
(* block or a merged header leaves behind counts as gone too.              *)
(*                                                                         *)
(* HEAP_LOCK is held from the first to the last step of a call, and there  *)
(* is one CPU: calls do not interleave (Scheduler has the interrupt that   *)
(* waits for the lock).  The walk of malloc takes a step per node.         *)
(***************************************************************************)
EXTENDS Integers, FiniteSets, FiniteSetsExt

CONSTANTS
    PageUnits,  \* PAGE_SIZE / HEAP_ALIGNMENT
    FirstPages, \* HEAP_SIZE_IN_PAGES
    Pages,      \* the pages there are for the heap (a bound)
    Gaps,       \* how many pages others may take between two expansions
    Sizes,      \* the sizes the callers of malloc ask for, in units (a bound)
    ElementSizes,   \* the sizes passed to LinkedListAllocate
    MaxHeld,    \* blocks in use at a time (a bound)
    SizeMod,    \* size_t is modulo this
    NULL,
    Junk        \* a pointer read from memory nobody stored a pointer in

Header == 2

\* The heap's pages, and what an expansion reaches beyond them.
Units == 0 .. (Pages + 1) * PageUnits

ASSUME SizesAssumption ==
    /\ PageUnits \in Nat /\ PageUnits > Header
    /\ Pages \in Nat /\ FirstPages \in 1 .. Pages
    /\ Sizes \subseteq Nat \ {0}
    /\ ElementSizes \subseteq 1 .. 2     \* TestLinkedList's LLTest and PCI
    /\ Gaps \subseteq Nat
    /\ MaxHeld \in Nat
    /\ SizeMod \in Nat /\ SizeMod > (Pages + 1) * PageUnits
    /\ NULL \notin Units

VARIABLES
    mem,        \* what each unit of memory holds
    lastNode,
    top,        \* the pages below this one are taken
    owned,      \* the pages vmm_AllocatePages returned to the heap
    held,       \* the blocks malloc returned and nobody freed: their sizes
    first,      \* the first element of the linked list
    call,       \* the call under way: what it is, its size and currentNode
    outcome,    \* "ok" until a call reads a wild pointer or memory runs out
    damaged     \* history: a header or an element was written over (see below)

vars == <<mem, lastNode, top, owned, held, first, call, outcome, damaged>>

heapStart == 0

HeadCell(size, free) == [kind |-> "head", size |-> size, free |-> free]
Links(next, last) == [kind |-> "links", next |-> next, last |-> last]
Element(next) == [kind |-> "element", next |-> next]
Data == [kind |-> "data"]

\* An intact HeapNode_t.
NodeIn(m, n) ==
    /\ n \in Units /\ n + 1 \in Units
    /\ m[n].kind = "head"
    /\ m[n + 1].kind = "links"

Node(n) == NodeIn(mem, n)

\* Storing a pointer leaves the other one of its unit as it was.
Stored(m, n, next) ==
    Links(next, IF n + 1 \in Units /\ m[n + 1].kind = "links" THEN m[n + 1].last ELSE Junk)

Write(m, units, cell) == [u \in DOMAIN m |-> IF u \in units THEN cell ELSE m[u]]

Extent(n, size) == n .. (n + size - 1)

NoCall == [what |-> "none", size |-> 0, node |-> NULL]

\* InitializeHeap.
Init ==
    /\ LET size == FirstPages * PageUnits - Header
       IN  mem = [u \in Units |-> CASE u = heapStart     -> HeadCell(size, TRUE)
                                    [] u = heapStart + 1 -> Links(NULL, NULL)
                                    [] OTHER             -> Data]
    /\ lastNode = heapStart
    /\ top = FirstPages
    /\ owned = 0 .. (FirstPages - 1)
    /\ held = [b \in {} |-> 0]
    /\ first = NULL
    /\ call = NoCall
    /\ outcome = "ok"
    /\ damaged = FALSE

\* What follows is undefined.
Wild ==
    /\ outcome' = "wild"
    /\ UNCHANGED <<mem, lastNode, top, owned, held, first, call, damaged>>

-----------------------------------------------------------------------------
(* malloc *)

\* malloc takes HEAP_LOCK and starts at the first node.
Malloc(what, size) ==
    /\ outcome = "ok"
    /\ call.what = "none"
    /\ Cardinality(DOMAIN held) < MaxHeld
    /\ call' = [what |-> what, size |-> size, node |-> heapStart]
    /\ UNCHANGED <<mem, lastNode, top, owned, held, first, outcome, damaged>>

\* LinkedListAllocate asks for sizeof(size), which is one unit, whatever the
\* element's size.
Asked(request) == IF request.what = "list" THEN 1 ELSE request.size

MallocSize == Asked(call)

Visiting ==
    /\ outcome = "ok"
    /\ call.what # "none"
    /\ Node(call.node)

FitsMore(n, size) == mem[n].free /\ mem[n].size > size      \* mutant: not the exact size

FitsAnything(n, size) == mem[n].free    \* mutant: the size is not compared

Fits(n, size) == mem[n].free /\ mem[n].size >= size

RemainderWithHeader(size, split) == (size - split) % SizeMod    \* mutant: the new header is free

Remainder(size, split) == (size - split - Header) % SizeMod

\* SplitNode cuts what is left off as a new node; it does not store the new
\* node's `last`.  An exact fit is not split.
Taken(n, size) ==
    LET rest == n + Header + size
        split == Write(mem, {rest}, HeadCell(Remainder(mem[n].size, size), TRUE))
        linked == Write(split, {rest + 1}, Stored(split, rest, mem[n + 1].next))
    IN  IF mem[n].size = size
        THEN Write(mem, {n}, HeadCell(size, FALSE))
        ELSE Write(Write(linked, {n}, HeadCell(size, FALSE)), {n + 1},
                   Links(rest, mem[n + 1].last))

LastNodeAfterSplit(n, size) ==
    IF n = lastNode /\ mem[n].size # size THEN n + Header + size ELSE lastNode

\* The n-th element of the linked list, as its pointers say.
ElementAt[k \in 0 .. MaxHeld] ==
    IF k = 0 THEN first
    ELSE LET e == ElementAt[k - 1]
         IN  IF e \in Units /\ mem[e].kind = "element" THEN mem[e].next ELSE NULL

Elements == {ElementAt[k] : k \in 0 .. MaxHeld} \ {NULL}

\* The list helper meets only elements on its way.
ListIntact == \A e \in Elements : e \in Units /\ mem[e].kind = "element"

LastElement == CHOOSE e \in Elements : mem[e].next = NULL

\* The block is the caller's: it writes all of it.  LinkedListAllocate clears
\* the element's size, which makes a header behind the block that of an empty
\* node in use, and appends the element.
Cleared(m, u) == IF u \in Units /\ m[u].kind = "head" THEN HeadCell(0, FALSE) ELSE Data

Used(m, b) ==
    IF call.what = "malloc" THEN Write(m, Extent(b, call.size), Data)
    ELSE LET behind == Write(m, Extent(b + 1, call.size - 1), Cleared(m, b + 1))
             cleared == Write(behind, {b}, Element(NULL))
         IN  IF first = NULL \/ ~ListIntact THEN cleared ELSE Write(cleared, {LastElement}, Element(b))

\* The header of the remainder reaches beyond it (heap.c:41).
NoRoomForHeader(n, size) == size < mem[n].size /\ mem[n].size < size + Header

Take ==
    LET n == call.node
        b == n + Header
    IN  /\ Visiting
        /\ Fits(n, MallocSize)
        /\ mem' = Used(Taken(n, MallocSize), b)
        /\ lastNode' = LastNodeAfterSplit(n, MallocSize)
        /\ held' = [c \in DOMAIN held \cup {b} |-> IF c = b THEN [what |-> call.what, size |-> call.size]
                                                  ELSE held[c]]
        /\ first' = IF call.what = "list" /\ first = NULL THEN b ELSE first
        /\ call' = NoCall
        /\ outcome' = IF call.what = "malloc" \/ ListIntact THEN "ok" ELSE "wild"
        /\ damaged' = (damaged \/ NoRoomForHeader(n, MallocSize))
        /\ UNCHANGED <<top, owned>>

Advance ==
    /\ Visiting
    /\ ~Fits(call.node, MallocSize)
    /\ call.node # lastNode
    /\ LET next == mem[call.node + 1].next
       IN  /\ call' = IF next = NULL THEN NoCall ELSE [call EXCEPT !.node = next]
           /\ outcome' = IF next = NULL \/ Node(next) THEN "ok" ELSE "wild"
    /\ UNCHANGED <<mem, lastNode, top, owned, held, first, damaged>>

\* A pointer left in memory by something else: it may be NULL, lead to some node
\* of the list, or astray.
Stray(m, last) == last # NULL /\ ~NodeIn(m, last)

\* The list from heapStart on: no pointer of it leads back.
MaxNodes == ((Pages + 1) * PageUnits) \div Header

Nodes ==
    LET at[k \in 0 .. MaxNodes] ==
            IF k = 0 THEN heapStart
            ELSE LET n == at[k - 1] IN IF Node(n) THEN mem[n + 1].next ELSE NULL
    IN  {at[k] : k \in 0 .. MaxNodes} \ {NULL}

\* The new pages begin before the last node or a block in use ends (heap.c:69).
RunsInto(new) ==
    \/ new < lastNode + Header + mem[lastNode].size
    \/ \E b \in DOMAIN held : new < b + Asked(held[b])

\* ExpandHeap: the size of the new node counts its own header.  malloc goes
\* on after the node before the one it was at, if that has one.
ExpandHeap ==
    LET n == call.node
        numPages == (MallocSize + PageUnits - 1) \div PageUnits
        last == mem[n + 1].last
    IN  /\ Visiting
        /\ ~Fits(n, MallocSize)
        /\ n = lastNode
        /\ \E gap \in Gaps :
             LET page == top + gap
                 new == page * PageUnits
                 made == Write(Write(mem, {new}, HeadCell(numPages * PageUnits, TRUE)),
                               {new + 1}, Links(NULL, lastNode))
                 linked == Write(made, {n + 1}, Links(new, last))
             IN  IF page + numPages > Pages
                 THEN /\ outcome' = "out of memory"
                      /\ UNCHANGED <<mem, lastNode, top, owned, call, damaged>>
                 ELSE /\ mem' = linked
                      /\ lastNode' = new
                      /\ top' = page + numPages
                      /\ owned' = owned \cup Extent(page, numPages)
                      /\ damaged' = (damaged \/ RunsInto(new))
                      /\ \/ /\ last = NULL \/ Stray(linked, last)
                            /\ call' = [call EXCEPT !.node = new]
                            /\ UNCHANGED outcome
                         \/ \E m \in {m \in Nodes : m = last \/ Stray(linked, last)} :
                               /\ NodeIn(linked, m)
                               /\ call' = [call EXCEPT !.node = linked[m + 1].next]
                               /\ UNCHANGED outcome
                         \/ /\ Stray(linked, last)
                            /\ outcome' = "wild"
                            /\ UNCHANGED call
        /\ UNCHANGED <<held, first>>

-----------------------------------------------------------------------------
(* free *)

MergesAny(next) == TRUE     \* mutant: a node in use is merged too

Merges(next) == mem[next].free

\* CombineForward takes the next node of the list in, wherever it lies.
Freed(n) ==
    LET next == mem[n + 1].next
        after == mem[next + 1].next
        size == mem[n].size + mem[next].size + Header
        gone == Write(mem, {next, next + 1}, Data)
        merged == Write(Write(gone, {n}, HeadCell(size, TRUE)), {n + 1}, Links(after, mem[n + 1].last))
    IN  IF next = NULL \/ ~Merges(next)
        THEN Write(mem, {n}, HeadCell(mem[n].size, TRUE))
        ELSE IF after = NULL THEN merged
        ELSE Write(merged, {after + 1}, Links(mem[after + 1].next, n))

LastNodeAfterFree(n) ==
    LET next == mem[n + 1].next
    IN  IF next = lastNode /\ next # NULL /\ Merges(next) THEN n ELSE lastNode

\* CombineBackward only follows `last` as long as the nodes are free.  A stray
\* pointer may as well lead to a byte that is 0.
CombineBackwardMayFail(n) ==
    LET back[k \in Nat] ==
            IF k = 0 THEN n
            ELSE LET last == mem[back[k - 1] + 1].last
                 IN  IF Node(last) /\ mem[last].free THEN last ELSE back[k - 1]
        last == mem[back[MaxHeld] + 1].last
    IN  Stray(mem, last)

\* CombineForward meets only nodes on its way.
ForwardIntact(n) ==
    LET next == mem[n + 1].next
        after == mem[next + 1].next
    IN  next # NULL => Node(next) /\ (Merges(next) /\ after # NULL => Node(after))

FreeMayFail(b) ==
    LET n == b - Header
    IN  \/ ~Node(n)
        \/ ~ForwardIntact(n)
        \/ CombineBackwardMayFail(n)

FreeLost(b) ==
    /\ outcome = "ok"
    /\ call.what = "none"
    /\ FreeMayFail(b)
    /\ Wild

\* free(b), with `cell` stored in the units of `relinked`.
Release(b, relinked, cell) ==
    LET n == b - Header
    IN  /\ outcome = "ok"
        /\ call.what = "none"
        /\ Node(n)
        /\ ForwardIntact(n)
        /\ mem' = Write(Write(Freed(n), {b}, Data), relinked, cell)
        /\ lastNode' = LastNodeAfterFree(n)
        /\ held' = [c \in DOMAIN held \ {b} |-> held[c]]
        /\ UNCHANGED <<top, owned, call, outcome, damaged>>

Free(b) ==
    /\ held[b].what = "malloc"
    /\ Release(b, {}, Data)
    /\ UNCHANGED first

UnregisterOthers(e) == first        \* mutant: the first element stays the first

Unregister(e) == IF e = first THEN mem[e].next ELSE first

\* LinkedListRemove: the element before it takes over its `next`, then free.
LinkedListRemove(e) ==
    /\ held[e].what = "list"
    /\ e \in Elements
    /\ ListIntact
    /\ Release(e, {p \in Elements : mem[p].next = e}, Element(mem[e].next))
    /\ first' = Unregister(e)

-----------------------------------------------------------------------------
(* The rest of the kernel *)

\* Whoever has a page that the heap does not own writes what it likes there.
OthersWrite ==
    /\ outcome = "ok"
    /\ \E page \in (0 .. Pages) \ owned :
         LET units == Extent(page * PageUnits, PageUnits)
         IN  /\ mem' = Write(mem, units, Data)
             /\ damaged' = (damaged \/ \E u \in units : mem[u] # Data)
    /\ UNCHANGED <<lastNode, top, owned, held, first, call, outcome>>

Calls ==
    \/ \E size \in Sizes : Malloc("malloc", size)
    \/ \E size \in ElementSizes : Malloc("list", size)
    \/ \E b \in DOMAIN held : Free(b) \/ LinkedListRemove(b) \/ FreeLost(b)

Walk == Take \/ Advance \/ ExpandHeap

Next == Calls \/ Walk \/ OthersWrite

Spec == Init /\ [][Next]_vars

-----------------------------------------------------------------------------
(* Properties *)

\* The properties speak of the time before the first of three events, each of which
\* writes over a header or an element: a split that leaves less than a header
\* (NoRoomForHeader), an expansion into what the heap claims already (RunsInto),
\* and a write to a page that the list claims and others have (OthersWrite).

BeforeDamage == ~damaged

TypeOK ==
    /\ DOMAIN mem = Units
    /\ top \in 0 .. Pages
    /\ owned \subseteq 0 .. (top - 1)
    /\ call.what \in {"none", "malloc", "list"}
    /\ outcome \in {"ok", "wild", "out of memory"}
    /\ damaged \in BOOLEAN
    /\ ~damaged =>
         /\ LET nodes == Nodes
            IN  /\ \A n \in nodes : Node(n) /\ mem[n].size \in Units /\ mem[n].free \in BOOLEAN
                /\ lastNode \in nodes
         /\ DOMAIN held \subseteq Units
         /\ first \in Units \cup {NULL}

\* Through splits, merges and expansions, wherever these lie, and with headers that an
\* element's clearing empties, each node of the list ends before the next one begins,
\* and the last is lastNode and ends with the heap, or a header behind it (heap.c:69).
NodesInOrder ==
    ~damaged => \A n \in Nodes :
        LET end == n + Header + mem[n].size
        IN  IF mem[n + 1].next = NULL
            THEN n = lastNode /\ end <= top * PageUnits + Header
            ELSE end <= mem[n + 1].next

\* Every block in use, as large as was asked for, lies between the header of its node,
\* which is marked as in use, and the next one; the other nodes are free or
\* empty: no call merges, splits or hands out another's block.
UsedNodesAreHeld ==
    ~damaged =>
      LET nodes == Nodes
      IN  /\ \A b \in DOMAIN held :
                /\ b - Header \in nodes /\ ~mem[b - Header].free
                /\ \A n \in nodes : b <= n => b + Asked(held[b]) <= n
          /\ \A n \in nodes :
                n + Header \in DOMAIN held \/ mem[n].free \/ mem[n].size = 0

\* The heap grows only when no free node would do, wherever malloc's walk went.
ExpandsOnlyWhenFull ==
    [][top' # top /\ ~damaged =>
         \A n \in Nodes : ~(mem[n].free /\ mem[n].size >= MallocSize)]_vars

\* The linked list holds exactly the elements allocated and not removed, while
\* other blocks are taken, written and freed around them.
ElementsStayLinked ==
    ~damaged => Elements = {b \in DOMAIN held : held[b].what = "list"}

\* heap.c:133 says of the node malloc takes "Found a free node that is free and
\* large enough": what two callers asked for, with its headers, never overlaps, and
\* lies in pages the heap owns.
BlocksApart ==
    LET uses(b) == Extent(b - Header, Header + Asked(held[b]))
        heap == UNION {Extent(p * PageUnits, PageUnits) : p \in owned}
    IN  \A b \in DOMAIN held :
            /\ uses(b) \subseteq heap
            /\ \A c \in DOMAIN held \ {b} : uses(b) \cap uses(c) = {}
=============================================================================
