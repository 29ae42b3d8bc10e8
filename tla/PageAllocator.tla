--------------------------- MODULE PageAllocator ---------------------------
(***************************************************************************)
(* What LIGHTUX's physical memory manager promises its callers, with no    *)
(* bitmap, lock, hint or counter in it: a call to pmm_AllocatePage(s)      *)
(* returns a contiguous run of page frames that nobody holds, and a call   *)
(* to pmm_FreePage(s) gives a run of held frames back.  owed counts what   *)
(* the calls hand out and take back, so that handing out a held frame      *)
(* again is a step, and one that is not allowed.                           *)
(***************************************************************************)
EXTENDS Integers

CONSTANT Frames     \* the indices of the frames that may ever be handed out

VARIABLES
    held,           \* the frames handed out and not given back yet
    owed            \* their number

Init == held = {} /\ owed = 0

\* The runs of frames first .. last.
Allocate(first, last) ==
    /\ first..last \subseteq Frames \ held
    /\ held' = held \cup first..last
    /\ owed' = owed + (last - first + 1)

Free(first, last) ==
    /\ first..last \subseteq held
    /\ held' = held \ (first..last)
    /\ owed' = owed - (last - first + 1)

Next == \E first, last \in Frames : Allocate(first, last) \/ Free(first, last)

Spec == Init /\ [][Next]_<<held, owed>>
=============================================================================
