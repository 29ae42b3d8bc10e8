----------------------------- MODULE PMM_proofs -----------------------------
(***************************************************************************)
(* Theorems about PMM for any memory map and any number of tasks: type     *)
(* correctness whoever frees, and, when only the interrupt handler frees   *)
(* (as in the code), that PMM implements PageAllocator: no interleaving    *)
(* makes pmm_AllocatePage(s) hand out a page that is held or that the boot *)
(* reserved.                                                               *)
(***************************************************************************)
EXTENDS PMM, FiniteSetTheorems, TLAPS

NBits == bitmapSize * 8

LockStages == Locking \ {"scan"}

\* The pages of a call's region before and from the one its loop has reached.
Done(p) == region[p] .. index[p] - 1
Pending(p) == index[p] .. End(p) - 1

\* The loops stay inside the bitmap.
InBounds(p) ==
    /\ region[p] >= 0 /\ End(p) <= NBits
    /\ region[p] <= index[p] /\ index[p] <= End(p)

ScanInBounds(t) ==
    /\ region[t] >= 0 /\ region[t] <= index[t] /\ index[t] <= NBits
    /\ index[t] < End(t)

ProcInv(p) ==
    /\ pc[p] = "scan" => ScanInBounds(p)
    /\ pc[p] \in LockStages =>
         \/ pc[p] = "lock" /\ region[p] = INVALID_PAGE /\ index[p] = INVALID_PAGE
         \/ InBounds(p) /\ (pc[p] # "lock" => index[p] < End(p))
    /\ pc[p] \in FreeStages => InBounds(p) /\ (pc[p] # "free" => index[p] < End(p))

LocalInv ==
    /\ lastDeepFragmented <= NBits
    /\ pc[Irq] \notin AllocStages
    /\ \A p \in Procs : ProcInv(p)

TypeInv == TypeOK /\ LocalInv

\* The pages whose bits the boot leaves set (BootedState).
BootReserved ==
    ((0 .. mmTotal) \ UsablePages) \cup (0 .. LowPages - 1) \cup BitmapPages

\* The bits that must not be handed out.
Busy == held \cup BootReserved

MutualExclusion ==
    /\ \A t \in Tasks : pc[t] \in Locking => PMM_LOCK
    /\ \A t, u \in Tasks : pc[t] \in Locking /\ pc[u] \in Locking => t = u

\* The interrupt handler works on pages nobody holds, and what it loaded of
\* the bitmap is what the bitmap still contains.
IrqInv ==
    /\ \A t \in Tasks : pc[t] \notin FreeStages
    /\ pc[Irq] \in FreeStages => Run(region[Irq], request[Irq]) \cap Busy = {}
    /\ pc[Irq] = "freeClear" => byte[Irq] = occupied \cap ByteOf(index[Irq])
    /\ \A t \in Tasks : pc[Irq] \in FreeStages /\ pc[t] \in LockStages /\ index[t] # INVALID_PAGE =>
         Run(region[Irq], request[Irq]) \cap Run(region[t], request[t]) = {}

\* What a task has found free stays free until it takes it, what it has taken
\* stays taken, and the byte it is about to store back has the bit of every
\* page that is taken.
TaskInv(t) ==
    /\ pc[t] = "scan" => Done(t) \cap occupied = {}
    /\ pc[t] \in LockStages /\ index[t] # INVALID_PAGE =>
         /\ Run(region[t], request[t]) \cap Busy = {}
         /\ Done(t) \subseteq occupied
    /\ pc[t] \in {"lock", "lockClear", "lockSet"} /\ index[t] # INVALID_PAGE =>
         Pending(t) \cap occupied = {}
    /\ pc[t] \in {"lockClear", "lockSet"} =>
         /\ byte[t] \subseteq ByteOf(index[t])
         /\ byte[t] \cap Pending(t) = {}
         /\ ByteOf(index[t]) \cap (Busy \cup Done(t)) \subseteq byte[t]
    /\ pc[t] \in {"lockFree", "lockUsed"} =>
         /\ index[t] \in occupied
         /\ (Pending(t) \ {index[t]}) \cap occupied = {}

IInv ==
    /\ TypeInv
    /\ MutualExclusion
    /\ IrqInv
    /\ Busy \subseteq occupied
    /\ held \cap BootReserved = {}
    /\ \A t \in Tasks : TaskInv(t)

-----------------------------------------------------------------------------
(* The constants and the state the boot leaves. *)

\* Counter arithmetic stays within a size_t.
LEMMA WordArithmetic ==
    \A x \in Int, n \in Int : Add(x, n) \in 0 .. WordSize - 1 /\ Sub(x, n) \in 0 .. WordSize - 1
  BY ProcsAssumption DEF Add, Sub

\* The bitmap covers every page up to the total, and whole bytes of them.
LEMMA BitmapCovers ==
    /\ NBits \in Nat /\ Bits = 0 .. NBits - 1
    /\ 0 .. mmTotal \subseteq Bits
    /\ BootReserved \subseteq Bits
  <1>1. NBits \in Nat /\ mmTotal < NBits /\ Bits = 0 .. NBits - 1
    BY MemMapAssumption DEF NBits, bitmapSize, Bits
  <1>2. BootReserved \subseteq 0 .. mmTotal
    BY MemMapAssumption, ProcsAssumption DEF BootReserved
  <1> QED
    BY <1>1, <1>2, MemMapAssumption

\* Reserving, releasing and locking set the bits they should.
LEMMA BootedState ==
    /\ Booted.occupied = BootReserved
    /\ Booted.free \in 0 .. WordSize - 1
    /\ Booted.used \in 0 .. WordSize - 1
    /\ Booted.reserved \in 0 .. WordSize - 1
  <1> DEFINE State == [occupied : SUBSET (0 .. mmTotal), free : 0 .. WordSize - 1,
                       used : 0 .. WordSize - 1, reserved : 0 .. WordSize - 1]
  <1>1. ASSUME NEW S, S \subseteq 0 .. mmTotal PROVE Cardinality(S) \in Nat
    <2>1. IsFiniteSet(0 .. mmTotal)
      BY FS_Interval, MemMapAssumption
    <2> QED
      BY <1>1, <2>1, FS_Subset, FS_CardinalityType
  <1>2. ASSUME NEW s \in State, NEW S, S \subseteq 0 .. mmTotal
        PROVE  /\ Reserve(s, S) \in State /\ Reserve(s, S).occupied = s.occupied \cup S
               /\ Unreserve(s, S) \in State /\ Unreserve(s, S).occupied = s.occupied \ S
               /\ Lock(s, S) \in State /\ Lock(s, S).occupied = s.occupied \cup S
    <2>1. Cardinality(S \ s.occupied) \in Nat /\ Cardinality(S \cap s.occupied) \in Nat
      BY <1>1, <1>2
    <2>2. ASSUME NEW n \in Nat
          PROVE  /\ Add(s.free, n) \in 0 .. WordSize - 1 /\ Sub(s.free, n) \in 0 .. WordSize - 1
                 /\ Add(s.used, n) \in 0 .. WordSize - 1
                 /\ Add(s.reserved, n) \in 0 .. WordSize - 1
                 /\ Sub(s.reserved, n) \in 0 .. WordSize - 1
      <3>1. s.free \in Int /\ s.used \in Int /\ s.reserved \in Int
        BY ProcsAssumption
      <3>2. n \in Int
        OBVIOUS
      <3> QED
        BY <3>1, <3>2, WordArithmetic, Zenon
    <2>3. s.occupied \cup S \subseteq 0 .. mmTotal /\ s.occupied \ S \subseteq 0 .. mmTotal
      BY <1>2
    <2>4. Reserve(s, S) \in State /\ Reserve(s, S).occupied = s.occupied \cup S
      BY <2>1, <2>2, <2>3 DEF Reserve
    <2>5. Unreserve(s, S) \in State /\ Unreserve(s, S).occupied = s.occupied \ S
      BY <2>1, <2>2, <2>3 DEF Unreserve
    <2>6. Lock(s, S) \in State /\ Lock(s, S).occupied = s.occupied \cup S
      BY <2>1, <2>2, <2>3 DEF Lock
    <2> QED
      BY <2>4, <2>5, <2>6
  <1> DEFINE empty  == [occupied |-> {}, free |-> mmTotal % WordSize, used |-> 0, reserved |-> 0]
             all    == Reserve(empty, Run(0, mmTotal + 1))
             usable == Unreserve(all, UsablePages)
             low    == Reserve(usable, Run(0, LowPages))
  <1>3. empty \in State
    BY ProcsAssumption, MemMapAssumption
  <1>4. /\ Run(0, mmTotal + 1) = 0 .. mmTotal
        /\ Run(0, LowPages) = 0 .. LowPages - 1
        /\ 0 .. LowPages - 1 \subseteq 0 .. mmTotal
    BY ProcsAssumption, MemMapAssumption DEF Run
  <1>5. all \in State /\ all.occupied = 0 .. mmTotal
    <2>1. empty.occupied = {}
      OBVIOUS
    <2> HIDE DEF State, empty
    <2> QED
      BY <1>2, <1>3, <1>4, <2>1
  <1> QED
    <2> HIDE DEF State, all
    <2>1. usable \in State /\ usable.occupied = (0 .. mmTotal) \ UsablePages
      BY <1>2, <1>5, MemMapAssumption
    <2> HIDE DEF usable
    <2>2. low \in State /\ low.occupied = usable.occupied \cup (0 .. LowPages - 1)
      <3>1. low = Reserve(usable, 0 .. LowPages - 1)
        BY <1>4
      <3> HIDE DEF low
      <3> QED
        BY <1>2, <1>4, <2>1, <3>1
    <2> HIDE DEF low
    <2>3. Lock(low, BitmapPages) \in State
          /\ Lock(low, BitmapPages).occupied = low.occupied \cup BitmapPages
      <3>1. BitmapPages \subseteq 0 .. mmTotal
        BY MemMapAssumption
      <3> QED
        BY <1>2, <2>2, <3>1
    <2>4. Booted = Lock(low, BitmapPages)
      BY DEF Booted, all, usable, low, empty
    <2> QED
      BY <2>1, <2>2, <2>3, <2>4 DEF BootReserved, State
-----------------------------------------------------------------------------
(* Type correctness: nothing here depends on who frees, or when. *)

\* Counting a page in or out stays within a size_t.
LEMMA WordStep ==
    /\ 0 \in 0 .. WordSize - 1
    /\ \A x \in 0 .. WordSize - 1 :
         Add(x, 1) \in 0 .. WordSize - 1 /\ Sub(x, 1) \in 0 .. WordSize - 1
  BY ProcsAssumption DEF Add, Sub

\* The boot leaves every variable in its type.
LEMMA TypeInvInit == Init => TypeInv
  <1> SUFFICES ASSUME Init PROVE TypeInv
    OBVIOUS
  <1>1. PMM_LOCK \in BOOLEAN /\ halted \in BOOLEAN
    BY DEF Init
  <1>2. 0 \in 0 .. WordSize - 1 /\ lastDeepFragmented \in Nat
    BY ProcsAssumption DEF Init
  <1>3. occupied \subseteq Bits /\ held \subseteq Bits
    BY BootedState, BitmapCovers DEF Init
  <1>4. /\ freeMemory \in 0 .. WordSize - 1
        /\ usedMemory \in 0 .. WordSize - 1
        /\ reservedMemory \in 0 .. WordSize - 1
    BY BootedState DEF Init
  <1>5. /\ pc \in [Procs -> AllocStages \cup FreeStages \cup {"idle"}]
        /\ byte \in [Procs -> SUBSET Bits]
    BY DEF Init
  <1>6. /\ request \in [Procs -> Nat \ {0}]
        /\ region \in [Procs -> Int] /\ index \in [Procs -> Int]
    BY DEF Init
  <1>7. word \in [Procs -> 0 .. WordSize - 1]
    BY <1>2 DEF Init
  <1>8. LocalInv
    BY BitmapCovers
    DEF Init, LocalInv, ProcInv, Procs, LockStages, Locking, AllocStages, FreeStages
  <1>9. owed \in Int
    BY DEF Init
  <1> QED
    BY <1>1, <1>2, <1>3, <1>4, <1>5, <1>6, <1>7, <1>8, <1>9 DEF TypeInv, TypeOK

\* A step of one process leaves what is known of the others.
LEMMA OthersStay ==
    ASSUME LocalInv, NEW p \in Procs, ProcInv(p)', lastDeepFragmented' <= NBits,
           p = Irq => pc'[p] \notin AllocStages,
           \A q \in Procs \ {p} : /\ pc'[q] = pc[q] /\ request'[q] = request[q]
                                  /\ region'[q] = region[q] /\ index'[q] = index[q]
    PROVE  LocalInv'
  <1>1. ASSUME NEW q \in Procs, q # p PROVE ProcInv(q)'
    BY <1>1 DEF LocalInv, ProcInv, ScanInBounds, InBounds, End
  <1>2. pc'[Irq] \notin AllocStages
    BY DEF LocalInv, Procs
  <1> QED
    BY <1>1, <1>2 DEF LocalInv

\* Every step of a call keeps the loops inside the bitmap and every variable
\* in its type.
LEMMA TypeInvStep == TypeInv /\ [Next]_vars => TypeInv'
  <1> SUFFICES ASSUME TypeInv, [Next]_vars PROVE TypeInv'
    OBVIOUS
  <1> USE DEF TypeInv
  <1>1. ASSUME NEW t \in Tasks, NEW n \in Sizes, CallAllocate(t, n) PROVE TypeInv'
    <2> USE <1>1 DEF CallAllocate, At, Goto
    <2>1. t \in Procs
      BY ProcsAssumption DEF Procs
    <2>2. /\ index[t] \in Int /\ region[t] \in Int /\ request[t] \in Nat \ {0}
          /\ ProcInv(t)
      BY <2>1 DEF TypeOK, LocalInv
    <2>3. NBits \in Nat /\ Bits = 0 .. NBits - 1
      BY BitmapCovers
    <2>4. request' \in [Procs -> Nat \ {0}]
      BY <2>1, <2>2, <2>3, ProcsAssumption DEF TypeOK
    <2>5. pc' \in [Procs -> AllocStages \cup FreeStages \cup {"idle"}]
      BY <2>1 DEF TypeOK, AllocStages, FreeStages
    <2>6. TypeOK'
      BY <2>4, <2>5 DEF TypeOK, bitmap, counters
    <2>7. ProcInv(t)'
      BY <2>1, <2>2, <2>3, ProcsAssumption
      DEF TypeOK, LocalInv, ProcInv, ScanInBounds, InBounds, End, LockStages, Locking, AllocStages, FreeStages, INVALID_PAGE, bitmap
    <2>8. lastDeepFragmented' <= NBits
      BY <2>1, <2>2, <2>3 DEF TypeOK, LocalInv, ProcInv, ScanInBounds, InBounds, FreeStages, bitmap
    <2>9. \A q \in Procs \ {t} : /\ pc'[q] = pc[q] /\ request'[q] = request[q]
                                   /\ region'[q] = region[q] /\ index'[q] = index[q]
      BY <2>1 DEF TypeOK
    <2>10. t = Irq => pc'[t] \notin AllocStages
      BY <2>1, ProcsAssumption DEF TypeOK, LocalInv, AllocStages
    <2> QED
      BY <2>1, <2>6, <2>7, <2>8, <2>9, <2>10, OthersStay
  <1>2. ASSUME NEW t \in Tasks, Acquire(t) PROVE TypeInv'
    <2> USE <1>2 DEF Acquire, At, Goto, spinlockAcquire
    <2>1. t \in Procs
      BY ProcsAssumption DEF Procs
    <2>2. /\ index[t] \in Int /\ region[t] \in Int /\ request[t] \in Nat \ {0}
          /\ ProcInv(t)
      BY <2>1 DEF TypeOK, LocalInv
    <2>3. NBits \in Nat /\ Bits = 0 .. NBits - 1
      BY BitmapCovers
    <2>4. PMM_LOCK' \in BOOLEAN
      BY <2>1 DEF TypeOK
    <2>5. region' \in [Procs -> Int] /\ index' \in [Procs -> Int]
      BY <2>1, <2>2, <2>3 DEF TypeOK
    <2>6. pc' \in [Procs -> AllocStages \cup FreeStages \cup {"idle"}]
      BY <2>1 DEF TypeOK, AllocStages, FreeStages
    <2>7. TypeOK'
      BY <2>4, <2>5, <2>6 DEF TypeOK, bitmap, counters
    <2>8. ProcInv(t)'
      BY <2>1, <2>2, <2>3
      DEF TypeOK, LocalInv, ProcInv, ScanInBounds, InBounds, End, LockStages, Locking, AllocStages, FreeStages, INVALID_PAGE, bitmap
    <2>9. lastDeepFragmented' <= NBits
      BY <2>1, <2>2, <2>3 DEF TypeOK, LocalInv, ProcInv, ScanInBounds, InBounds, FreeStages, bitmap
    <2>10. \A q \in Procs \ {t} : /\ pc'[q] = pc[q] /\ request'[q] = request[q]
                                   /\ region'[q] = region[q] /\ index'[q] = index[q]
      BY <2>1 DEF TypeOK
    <2>11. t = Irq => pc'[t] \notin AllocStages
      BY <2>1, ProcsAssumption DEF TypeOK, LocalInv, AllocStages
    <2> QED
      BY <2>1, <2>7, <2>8, <2>9, <2>10, <2>11, OthersStay
  <1>3. ASSUME NEW t \in Tasks, ScanOccupied(t) PROVE TypeInv'
    <2> USE <1>3 DEF ScanOccupied, At, Goto
    <2>1. t \in Procs
      BY ProcsAssumption DEF Procs
    <2>2. /\ index[t] \in Int /\ region[t] \in Int /\ request[t] \in Nat \ {0}
          /\ ProcInv(t)
      BY <2>1 DEF TypeOK, LocalInv
    <2>3. NBits \in Nat /\ Bits = 0 .. NBits - 1
      BY BitmapCovers
    <2>4. region' \in [Procs -> Int] /\ index' \in [Procs -> Int]
      BY <2>1, <2>2, <2>3 DEF TypeOK
    <2>5. pc' \in [Procs -> AllocStages \cup FreeStages \cup {"idle"}]
      BY <2>1 DEF TypeOK, AllocStages, FreeStages
    <2>6. TypeOK'
      BY <2>4, <2>5 DEF TypeOK, bitmap, counters
    <2>7. ProcInv(t)'
      BY <2>1, <2>2, <2>3
      DEF TypeOK, LocalInv, ProcInv, ScanInBounds, InBounds, End, LockStages, Locking, AllocStages, FreeStages, INVALID_PAGE, bitmap
    <2>8. lastDeepFragmented' <= NBits
      BY <2>1, <2>2, <2>3 DEF TypeOK, LocalInv, ProcInv, ScanInBounds, InBounds, FreeStages, bitmap
    <2>9. \A q \in Procs \ {t} : /\ pc'[q] = pc[q] /\ request'[q] = request[q]
                                   /\ region'[q] = region[q] /\ index'[q] = index[q]
      BY <2>1 DEF TypeOK
    <2>10. t = Irq => pc'[t] \notin AllocStages
      BY <2>1, ProcsAssumption DEF TypeOK, LocalInv, AllocStages
    <2> QED
      BY <2>1, <2>6, <2>7, <2>8, <2>9, <2>10, OthersStay
  <1>4. ASSUME NEW t \in Tasks, ScanFree(t) PROVE TypeInv'
    <2> USE <1>4 DEF ScanFree, At, Goto, RaiseHint
    <2>1. t \in Procs
      BY ProcsAssumption DEF Procs
    <2>2. /\ index[t] \in Int /\ region[t] \in Int /\ request[t] \in Nat \ {0}
          /\ ProcInv(t)
      BY <2>1 DEF TypeOK, LocalInv
    <2>3. NBits \in Nat /\ Bits = 0 .. NBits - 1
      BY BitmapCovers
    <2>4. index' \in [Procs -> Int]
      BY <2>1, <2>2, <2>3 DEF TypeOK
    <2>5. lastDeepFragmented' \in Nat
      BY <2>1, <2>2, <2>3 DEF TypeOK, ProcInv, ScanInBounds, InBounds, FreeStages
    <2>6. pc' \in [Procs -> AllocStages \cup FreeStages \cup {"idle"}]
      BY <2>1 DEF TypeOK, AllocStages, FreeStages
    <2>7. TypeOK'
      BY <2>4, <2>5, <2>6 DEF TypeOK, bitmap, counters
    <2>8. ProcInv(t)'
      <3>1. /\ ScanInBounds(t) /\ index[t] + 1 <= NBits
            /\ region'[t] = region[t] /\ request'[t] = request[t]
        BY <2>1, <2>2, <2>3 DEF ProcInv
      <3>2. CASE index[t] + 1 - region[t] >= request[t]
        <4>1. pc'[t] = "lock" /\ index'[t] = region[t]
          BY <2>1, <3>2 DEF TypeOK
        <4>2. InBounds(t)'
          BY <2>2, <2>3, <3>1, <3>2, <4>1 DEF InBounds, ScanInBounds, End
        <4> QED
          BY <4>1, <4>2 DEF ProcInv, LockStages, Locking, AllocStages, FreeStages
      <3>3. CASE ~(index[t] + 1 - region[t] >= request[t])
        <4>1. pc'[t] = "scan" /\ index'[t] = index[t] + 1
          BY <2>1, <3>3 DEF TypeOK
        <4>2. ScanInBounds(t)'
          BY <2>2, <2>3, <3>1, <3>3, <4>1 DEF ScanInBounds, End
        <4> QED
          BY <4>1, <4>2 DEF ProcInv, LockStages, Locking, AllocStages, FreeStages
      <3> QED
        BY <3>2, <3>3
    <2>9. lastDeepFragmented' <= NBits
      BY <2>1, <2>2, <2>3 DEF TypeOK, LocalInv, ProcInv, ScanInBounds, InBounds, FreeStages, bitmap
    <2>10. \A q \in Procs \ {t} : /\ pc'[q] = pc[q] /\ request'[q] = request[q]
                                   /\ region'[q] = region[q] /\ index'[q] = index[q]
      BY <2>1 DEF TypeOK
    <2>11. t = Irq => pc'[t] \notin AllocStages
      BY <2>1, ProcsAssumption DEF TypeOK, LocalInv, AllocStages
    <2> QED
      BY <2>1, <2>7, <2>8, <2>9, <2>10, <2>11, OthersStay
  <1>5. ASSUME NEW t \in Tasks, ScanEnd(t) PROVE TypeInv'
    <2> USE <1>5 DEF ScanEnd, At, Goto
    <2>1. t \in Procs
      BY ProcsAssumption DEF Procs
    <2>2. /\ index[t] \in Int /\ region[t] \in Int /\ request[t] \in Nat \ {0}
          /\ ProcInv(t)
      BY <2>1 DEF TypeOK, LocalInv
    <2>3. NBits \in Nat /\ Bits = 0 .. NBits - 1
      BY BitmapCovers
    <2>4. region' \in [Procs -> Int] /\ index' \in [Procs -> Int]
      BY <2>1, <2>2, <2>3 DEF TypeOK, INVALID_PAGE
    <2>5. pc' \in [Procs -> AllocStages \cup FreeStages \cup {"idle"}]
      BY <2>1 DEF TypeOK, AllocStages, FreeStages
    <2>6. TypeOK'
      BY <2>4, <2>5 DEF TypeOK, bitmap, counters
    <2>7. ProcInv(t)'
      BY <2>1, <2>2, <2>3
      DEF TypeOK, LocalInv, ProcInv, ScanInBounds, InBounds, End, LockStages, Locking, AllocStages, FreeStages, INVALID_PAGE, bitmap
    <2>8. lastDeepFragmented' <= NBits
      BY <2>1, <2>2, <2>3 DEF TypeOK, LocalInv, ProcInv, ScanInBounds, InBounds, FreeStages, bitmap
    <2>9. \A q \in Procs \ {t} : /\ pc'[q] = pc[q] /\ request'[q] = request[q]
                                   /\ region'[q] = region[q] /\ index'[q] = index[q]
      BY <2>1 DEF TypeOK
    <2>10. t = Irq => pc'[t] \notin AllocStages
      BY <2>1, ProcsAssumption DEF TypeOK, LocalInv, AllocStages
    <2> QED
      BY <2>1, <2>6, <2>7, <2>8, <2>9, <2>10, OthersStay
  <1>6. ASSUME NEW t \in Tasks, LockInvalid(t) PROVE TypeInv'
    <2> USE <1>6 DEF LockInvalid, At, Goto
    <2>1. t \in Procs
      BY ProcsAssumption DEF Procs
    <2>2. /\ index[t] \in Int /\ region[t] \in Int /\ request[t] \in Nat \ {0}
          /\ ProcInv(t)
      BY <2>1 DEF TypeOK, LocalInv
    <2>3. NBits \in Nat /\ Bits = 0 .. NBits - 1
      BY BitmapCovers
    <2>4. halted' \in BOOLEAN
      BY <2>1 DEF TypeOK
    <2>5. pc' \in [Procs -> AllocStages \cup FreeStages \cup {"idle"}]
      BY <2>1 DEF TypeOK, AllocStages, FreeStages
    <2>6. TypeOK'
      BY <2>4, <2>5 DEF TypeOK, bitmap, counters
    <2>7. ProcInv(t)'
      BY <2>1, <2>2, <2>3
      DEF TypeOK, LocalInv, ProcInv, ScanInBounds, InBounds, End, LockStages, Locking, AllocStages, FreeStages, INVALID_PAGE, bitmap
    <2>8. lastDeepFragmented' <= NBits
      BY <2>1, <2>2, <2>3 DEF TypeOK, LocalInv, ProcInv, ScanInBounds, InBounds, FreeStages, bitmap
    <2>9. \A q \in Procs \ {t} : /\ pc'[q] = pc[q] /\ request'[q] = request[q]
                                   /\ region'[q] = region[q] /\ index'[q] = index[q]
      BY <2>1 DEF TypeOK
    <2>10. t = Irq => pc'[t] \notin AllocStages
      BY <2>1, ProcsAssumption DEF TypeOK, LocalInv, AllocStages
    <2> QED
      BY <2>1, <2>6, <2>7, <2>8, <2>9, <2>10, OthersStay
  <1>7. ASSUME NEW t \in Tasks, LockPage(t) PROVE TypeInv'
    <2> USE <1>7 DEF LockPage, At, Goto, NextPage
    <2>1. t \in Procs
      BY ProcsAssumption DEF Procs
    <2>2. /\ index[t] \in Int /\ region[t] \in Int /\ request[t] \in Nat \ {0}
          /\ ProcInv(t)
      BY <2>1 DEF TypeOK, LocalInv
    <2>3. NBits \in Nat /\ Bits = 0 .. NBits - 1
      BY BitmapCovers
    <2>4. index' \in [Procs -> Int]
      BY <2>1, <2>2, <2>3 DEF TypeOK
    <2>5. byte' \in [Procs -> SUBSET Bits]
      BY <2>1 DEF TypeOK
    <2>6. pc' \in [Procs -> AllocStages \cup FreeStages \cup {"idle"}]
      BY <2>1 DEF TypeOK, AllocStages, FreeStages
    <2>7. TypeOK'
      BY <2>4, <2>5, <2>6 DEF TypeOK, bitmap, counters
    <2>8. ProcInv(t)'
      <3>1. InBounds(t) /\ index[t] < End(t)
        BY <2>1, <2>2, <2>3 DEF ProcInv, InBounds, End, LockStages, Locking, AllocStages, FreeStages, INVALID_PAGE
      <3>2. region'[t] = region[t] /\ request'[t] = request[t] /\ End(t)' = End(t)
        BY DEF End
      <3>3. CASE index[t] \in occupied
        <4>1. pc'[t] = pc[t] /\ index'[t] = index[t] + 1
          BY <2>1, <2>2, <3>3 DEF TypeOK
        <4> QED
          BY <2>2, <2>3, <3>1, <3>2, <4>1 DEF ProcInv, InBounds, End, LockStages, Locking, AllocStages, FreeStages
      <3>4. CASE index[t] \notin occupied
        <4>1. pc'[t] = "lockClear" /\ index'[t] = index[t]
          BY <2>1, <2>2, <3>4 DEF TypeOK
        <4> QED
          BY <2>2, <2>3, <3>1, <3>2, <4>1 DEF ProcInv, InBounds, End, LockStages, Locking, AllocStages, FreeStages
      <3> QED
        BY <3>3, <3>4
    <2>9. lastDeepFragmented' <= NBits
      BY <2>1, <2>2, <2>3 DEF TypeOK, LocalInv, ProcInv, ScanInBounds, InBounds, FreeStages, bitmap
    <2>10. \A q \in Procs \ {t} : /\ pc'[q] = pc[q] /\ request'[q] = request[q]
                                   /\ region'[q] = region[q] /\ index'[q] = index[q]
      BY <2>1 DEF TypeOK
    <2>11. t = Irq => pc'[t] \notin AllocStages
      BY <2>1, ProcsAssumption DEF TypeOK, LocalInv, AllocStages
    <2> QED
      BY <2>1, <2>7, <2>8, <2>9, <2>10, <2>11, OthersStay
  <1>8. ASSUME NEW t \in Tasks, LockClear(t) PROVE TypeInv'
    <2> USE <1>8 DEF LockClear, At, Goto, StoreByte
    <2>1. t \in Procs
      BY ProcsAssumption DEF Procs
    <2>2. /\ index[t] \in Int /\ region[t] \in Int /\ request[t] \in Nat \ {0}
          /\ ProcInv(t)
      BY <2>1 DEF TypeOK, LocalInv
    <2>3. NBits \in Nat /\ Bits = 0 .. NBits - 1
      BY BitmapCovers
    <2>4. byte' \in [Procs -> SUBSET Bits]
      BY <2>1 DEF TypeOK
    <2>5. occupied' \subseteq Bits
      BY <2>1, <2>2, <2>3 DEF TypeOK, ProcInv, InBounds, ByteOf, End, LockStages, Locking, AllocStages, FreeStages, INVALID_PAGE
    <2>6. pc' \in [Procs -> AllocStages \cup FreeStages \cup {"idle"}]
      BY <2>1 DEF TypeOK, AllocStages, FreeStages
    <2>7. TypeOK'
      BY <2>4, <2>5, <2>6 DEF TypeOK, bitmap, counters
    <2>8. ProcInv(t)'
      BY <2>1, <2>2, <2>3
      DEF TypeOK, LocalInv, ProcInv, ScanInBounds, InBounds, End, LockStages, Locking, AllocStages, FreeStages, INVALID_PAGE, bitmap
    <2>9. lastDeepFragmented' <= NBits
      BY <2>1, <2>2, <2>3 DEF TypeOK, LocalInv, ProcInv, ScanInBounds, InBounds, FreeStages, bitmap
    <2>10. \A q \in Procs \ {t} : /\ pc'[q] = pc[q] /\ request'[q] = request[q]
                                   /\ region'[q] = region[q] /\ index'[q] = index[q]
      BY <2>1 DEF TypeOK
    <2>11. t = Irq => pc'[t] \notin AllocStages
      BY <2>1, ProcsAssumption DEF TypeOK, LocalInv, AllocStages
    <2> QED
      BY <2>1, <2>7, <2>8, <2>9, <2>10, <2>11, OthersStay
  <1>9. ASSUME NEW t \in Tasks, LockSet(t) PROVE TypeInv'
    <2> USE <1>9 DEF LockSet, At, Goto, StoreByte
    <2>1. t \in Procs
      BY ProcsAssumption DEF Procs
    <2>2. /\ index[t] \in Int /\ region[t] \in Int /\ request[t] \in Nat \ {0}
          /\ ProcInv(t)
      BY <2>1 DEF TypeOK, LocalInv
    <2>3. NBits \in Nat /\ Bits = 0 .. NBits - 1
      BY BitmapCovers
    <2>4. byte' \in [Procs -> SUBSET Bits]
      BY <2>1 DEF TypeOK
    <2>5. index[t] \in Bits
      BY <2>1, <2>2, <2>3 DEF ProcInv, InBounds, End, LockStages, Locking, AllocStages, FreeStages, INVALID_PAGE
    <2>6. occupied' \subseteq Bits
      BY <2>1, <2>5 DEF TypeOK, ByteOf
    <2>7. word' \in [Procs -> 0 .. WordSize - 1]
      BY <2>1, WordStep DEF TypeOK
    <2>8. pc' \in [Procs -> AllocStages \cup FreeStages \cup {"idle"}]
      BY <2>1 DEF TypeOK, AllocStages, FreeStages
    <2>9. TypeOK'
      BY <2>4, <2>6, <2>7, <2>8 DEF TypeOK, bitmap, counters
    <2>10. ProcInv(t)'
      BY <2>1, <2>2, <2>3
      DEF TypeOK, LocalInv, ProcInv, ScanInBounds, InBounds, End, LockStages, Locking, AllocStages, FreeStages, INVALID_PAGE, bitmap
    <2>11. lastDeepFragmented' <= NBits
      BY <2>1, <2>2, <2>3 DEF TypeOK, LocalInv, ProcInv, ScanInBounds, InBounds, FreeStages, bitmap
    <2>12. \A q \in Procs \ {t} : /\ pc'[q] = pc[q] /\ request'[q] = request[q]
                                   /\ region'[q] = region[q] /\ index'[q] = index[q]
      BY <2>1 DEF TypeOK
    <2>13. t = Irq => pc'[t] \notin AllocStages
      BY <2>1, ProcsAssumption DEF TypeOK, LocalInv, AllocStages
    <2> QED
      BY <2>1, <2>9, <2>10, <2>11, <2>12, <2>13, OthersStay
  <1>10. ASSUME NEW t \in Tasks, LockFree(t) PROVE TypeInv'
    <2> USE <1>10 DEF LockFree, At, Goto
    <2>1. t \in Procs
      BY ProcsAssumption DEF Procs
    <2>2. /\ index[t] \in Int /\ region[t] \in Int /\ request[t] \in Nat \ {0}
          /\ ProcInv(t)
      BY <2>1 DEF TypeOK, LocalInv
    <2>3. NBits \in Nat /\ Bits = 0 .. NBits - 1
      BY BitmapCovers
    <2>4. freeMemory' \in 0 .. WordSize - 1 /\ word' \in [Procs -> 0 .. WordSize - 1]
      BY <2>1, WordStep DEF TypeOK
    <2>5. pc' \in [Procs -> AllocStages \cup FreeStages \cup {"idle"}]
      BY <2>1 DEF TypeOK, AllocStages, FreeStages
    <2>6. TypeOK'
      BY <2>4, <2>5 DEF TypeOK, bitmap, counters
    <2>7. ProcInv(t)'
      BY <2>1, <2>2, <2>3
      DEF TypeOK, LocalInv, ProcInv, ScanInBounds, InBounds, End, LockStages, Locking, AllocStages, FreeStages, INVALID_PAGE, bitmap
    <2>8. lastDeepFragmented' <= NBits
      BY <2>1, <2>2, <2>3 DEF TypeOK, LocalInv, ProcInv, ScanInBounds, InBounds, FreeStages, bitmap
    <2>9. \A q \in Procs \ {t} : /\ pc'[q] = pc[q] /\ request'[q] = request[q]
                                   /\ region'[q] = region[q] /\ index'[q] = index[q]
      BY <2>1 DEF TypeOK
    <2>10. t = Irq => pc'[t] \notin AllocStages
      BY <2>1, ProcsAssumption DEF TypeOK, LocalInv, AllocStages
    <2> QED
      BY <2>1, <2>6, <2>7, <2>8, <2>9, <2>10, OthersStay
  <1>11. ASSUME NEW t \in Tasks, LockUsed(t) PROVE TypeInv'
    <2> USE <1>11 DEF LockUsed, At, Goto, NextPage
    <2>1. t \in Procs
      BY ProcsAssumption DEF Procs
    <2>2. /\ index[t] \in Int /\ region[t] \in Int /\ request[t] \in Nat \ {0}
          /\ ProcInv(t)
      BY <2>1 DEF TypeOK, LocalInv
    <2>3. NBits \in Nat /\ Bits = 0 .. NBits - 1
      BY BitmapCovers
    <2>4. usedMemory' \in 0 .. WordSize - 1 /\ word' \in [Procs -> 0 .. WordSize - 1]
      BY <2>1, WordStep DEF TypeOK
    <2>5. index' \in [Procs -> Int]
      BY <2>1, <2>2, <2>3 DEF TypeOK
    <2>6. pc' \in [Procs -> AllocStages \cup FreeStages \cup {"idle"}]
      BY <2>1 DEF TypeOK, AllocStages, FreeStages
    <2>7. TypeOK'
      BY <2>4, <2>5, <2>6 DEF TypeOK, bitmap, counters
    <2>8. ProcInv(t)'
      BY <2>1, <2>2, <2>3
      DEF TypeOK, LocalInv, ProcInv, ScanInBounds, InBounds, End, LockStages, Locking, AllocStages, FreeStages, INVALID_PAGE, bitmap
    <2>9. lastDeepFragmented' <= NBits
      BY <2>1, <2>2, <2>3 DEF TypeOK, LocalInv, ProcInv, ScanInBounds, InBounds, FreeStages, bitmap
    <2>10. \A q \in Procs \ {t} : /\ pc'[q] = pc[q] /\ request'[q] = request[q]
                                   /\ region'[q] = region[q] /\ index'[q] = index[q]
      BY <2>1 DEF TypeOK
    <2>11. t = Irq => pc'[t] \notin AllocStages
      BY <2>1, ProcsAssumption DEF TypeOK, LocalInv, AllocStages
    <2> QED
      BY <2>1, <2>7, <2>8, <2>9, <2>10, <2>11, OthersStay
  <1>12. ASSUME NEW t \in Tasks, Return(t) PROVE TypeInv'
    <2> USE <1>12 DEF Return, At, Goto, spinlockRelease, Leave
    <2>1. t \in Procs
      BY ProcsAssumption DEF Procs
    <2>2. /\ index[t] \in Int /\ region[t] \in Int /\ request[t] \in Nat \ {0}
          /\ ProcInv(t)
      BY <2>1 DEF TypeOK, LocalInv
    <2>3. NBits \in Nat /\ Bits = 0 .. NBits - 1
      BY BitmapCovers
    <2>4. PMM_LOCK' \in BOOLEAN
      BY <2>1 DEF TypeOK
    <2>5. InBounds(t)
      BY <2>1, <2>2, <2>3 DEF ProcInv, End, LockStages, Locking, AllocStages, FreeStages, INVALID_PAGE
    <2>6. Run(region[t], request[t]) \subseteq Bits
      BY <2>2, <2>3, <2>5 DEF InBounds, End, Run
    <2>7. held' \subseteq Bits
      BY <2>6 DEF TypeOK
    <2>8. request' \in [Procs -> Nat \ {0}] /\ region' \in [Procs -> Int] /\ index' \in [Procs -> Int]
      BY <2>1, <2>2, <2>3, ProcsAssumption DEF TypeOK
    <2>9. pc' \in [Procs -> AllocStages \cup FreeStages \cup {"idle"}]
      BY <2>1 DEF TypeOK, AllocStages, FreeStages
    <2>10. TypeOK'
      BY <2>4, <2>7, <2>8, <2>9 DEF TypeOK, bitmap, counters
    <2>11. ProcInv(t)'
      BY <2>1, <2>2, <2>3
      DEF TypeOK, LocalInv, ProcInv, ScanInBounds, InBounds, End, LockStages, Locking, AllocStages, FreeStages, INVALID_PAGE, bitmap
    <2>12. lastDeepFragmented' <= NBits
      BY <2>1, <2>2, <2>3 DEF TypeOK, LocalInv, ProcInv, ScanInBounds, InBounds, FreeStages, bitmap
    <2>13. \A q \in Procs \ {t} : /\ pc'[q] = pc[q] /\ request'[q] = request[q]
                                   /\ region'[q] = region[q] /\ index'[q] = index[q]
      BY <2>1 DEF TypeOK
    <2>14. t = Irq => pc'[t] \notin AllocStages
      BY <2>1, ProcsAssumption DEF TypeOK, LocalInv, AllocStages
    <2> QED
      BY <2>1, <2>10, <2>11, <2>12, <2>13, <2>14, OthersStay
  <1>13. ASSUME NEW p \in Freers, NEW start \in Bits, NEW n \in Sizes, CallFree(p, start, n) PROVE TypeInv'
    <2> USE <1>13 DEF CallFree, At, Goto
    <2>1. p \in Procs
      BY ProcsAssumption DEF Procs
    <2>2. /\ index[p] \in Int /\ region[p] \in Int /\ request[p] \in Nat \ {0}
          /\ ProcInv(p)
      BY <2>1 DEF TypeOK, LocalInv
    <2>3. NBits \in Nat /\ Bits = 0 .. NBits - 1
      BY BitmapCovers
    <2>4. held' \subseteq Bits
      BY <2>1, <2>2, <2>3 DEF TypeOK
    <2>5. request' \in [Procs -> Nat \ {0}] /\ region' \in [Procs -> Int] /\ index' \in [Procs -> Int]
      BY <2>1, <2>2, <2>3, ProcsAssumption DEF TypeOK
    <2>6. pc' \in [Procs -> AllocStages \cup FreeStages \cup {"idle"}]
      BY <2>1 DEF TypeOK, AllocStages, FreeStages
    <2>7. TypeOK'
      BY <2>4, <2>5, <2>6 DEF TypeOK, bitmap, counters
    <2>8. ProcInv(p)'
      BY <2>1, <2>2, <2>3, ProcsAssumption
      DEF TypeOK, LocalInv, ProcInv, ScanInBounds, InBounds, End, LockStages, Locking, AllocStages, FreeStages, INVALID_PAGE, Run, bitmap
    <2>9. lastDeepFragmented' <= NBits
      BY <2>1, <2>2, <2>3 DEF TypeOK, LocalInv, ProcInv, ScanInBounds, InBounds, FreeStages, bitmap
    <2>10. \A q \in Procs \ {p} : /\ pc'[q] = pc[q] /\ request'[q] = request[q]
                                   /\ region'[q] = region[q] /\ index'[q] = index[q]
      BY <2>1 DEF TypeOK
    <2>11. p = Irq => pc'[p] \notin AllocStages
      BY <2>1, ProcsAssumption DEF TypeOK, LocalInv, AllocStages
    <2> QED
      BY <2>1, <2>7, <2>8, <2>9, <2>10, <2>11, OthersStay
  <1>14. ASSUME NEW p \in Freers, FreePage(p) PROVE TypeInv'
    <2> USE <1>14 DEF FreePage, At, Goto, NextPage
    <2>1. p \in Procs
      BY ProcsAssumption DEF Procs
    <2>2. /\ index[p] \in Int /\ region[p] \in Int /\ request[p] \in Nat \ {0}
          /\ ProcInv(p)
      BY <2>1 DEF TypeOK, LocalInv
    <2>3. NBits \in Nat /\ Bits = 0 .. NBits - 1
      BY BitmapCovers
    <2>4. index' \in [Procs -> Int]
      BY <2>1, <2>2, <2>3 DEF TypeOK
    <2>5. byte' \in [Procs -> SUBSET Bits]
      BY <2>1 DEF TypeOK
    <2>6. pc' \in [Procs -> AllocStages \cup FreeStages \cup {"idle"}]
      BY <2>1 DEF TypeOK, AllocStages, FreeStages
    <2>7. TypeOK'
      BY <2>4, <2>5, <2>6 DEF TypeOK, bitmap, counters
    <2>8. ProcInv(p)'
      <3>1. InBounds(p) /\ index[p] < End(p)
        BY <2>1, <2>2, <2>3 DEF ProcInv, InBounds, End, LockStages, Locking, AllocStages, FreeStages, INVALID_PAGE
      <3>2. region'[p] = region[p] /\ request'[p] = request[p] /\ End(p)' = End(p)
        BY DEF End
      <3>3. CASE index[p] \notin occupied
        <4>1. pc'[p] = pc[p] /\ index'[p] = index[p] + 1
          BY <2>1, <2>2, <3>3 DEF TypeOK
        <4> QED
          BY <2>2, <2>3, <3>1, <3>2, <4>1 DEF ProcInv, InBounds, End, LockStages, Locking, AllocStages, FreeStages
      <3>4. CASE index[p] \in occupied
        <4>1. pc'[p] = "freeClear" /\ index'[p] = index[p]
          BY <2>1, <2>2, <3>4 DEF TypeOK
        <4> QED
          BY <2>2, <2>3, <3>1, <3>2, <4>1 DEF ProcInv, InBounds, End, LockStages, Locking, AllocStages, FreeStages
      <3> QED
        BY <3>3, <3>4
    <2>9. lastDeepFragmented' <= NBits
      BY <2>1, <2>2, <2>3 DEF TypeOK, LocalInv, ProcInv, ScanInBounds, InBounds, FreeStages, bitmap
    <2>10. \A q \in Procs \ {p} : /\ pc'[q] = pc[q] /\ request'[q] = request[q]
                                   /\ region'[q] = region[q] /\ index'[q] = index[q]
      BY <2>1 DEF TypeOK
    <2>11. p = Irq => pc'[p] \notin AllocStages
      BY <2>1, ProcsAssumption DEF TypeOK, LocalInv, AllocStages
    <2> QED
      BY <2>1, <2>7, <2>8, <2>9, <2>10, <2>11, OthersStay
  <1>15. ASSUME NEW p \in Freers, FreeClear(p) PROVE TypeInv'
    <2> USE <1>15 DEF FreeClear, At, Goto, StoreByte
    <2>1. p \in Procs
      BY ProcsAssumption DEF Procs
    <2>2. /\ index[p] \in Int /\ region[p] \in Int /\ request[p] \in Nat \ {0}
          /\ ProcInv(p)
      BY <2>1 DEF TypeOK, LocalInv
    <2>3. NBits \in Nat /\ Bits = 0 .. NBits - 1
      BY BitmapCovers
    <2>4. byte' \in [Procs -> SUBSET Bits]
      BY <2>1 DEF TypeOK
    <2>5. occupied' \subseteq Bits
      BY <2>1, <2>2, <2>3 DEF TypeOK, ProcInv, InBounds, ByteOf, End, LockStages, Locking, AllocStages, FreeStages, INVALID_PAGE
    <2>6. word' \in [Procs -> 0 .. WordSize - 1]
      BY <2>1, WordStep DEF TypeOK
    <2>7. pc' \in [Procs -> AllocStages \cup FreeStages \cup {"idle"}]
      BY <2>1 DEF TypeOK, AllocStages, FreeStages
    <2>8. TypeOK'
      BY <2>4, <2>5, <2>6, <2>7 DEF TypeOK, bitmap, counters
    <2>9. ProcInv(p)'
      BY <2>1, <2>2, <2>3
      DEF TypeOK, LocalInv, ProcInv, ScanInBounds, InBounds, End, LockStages, Locking, AllocStages, FreeStages, INVALID_PAGE, bitmap
    <2>10. lastDeepFragmented' <= NBits
      BY <2>1, <2>2, <2>3 DEF TypeOK, LocalInv, ProcInv, ScanInBounds, InBounds, FreeStages, bitmap
    <2>11. \A q \in Procs \ {p} : /\ pc'[q] = pc[q] /\ request'[q] = request[q]
                                   /\ region'[q] = region[q] /\ index'[q] = index[q]
      BY <2>1 DEF TypeOK
    <2>12. p = Irq => pc'[p] \notin AllocStages
      BY <2>1, ProcsAssumption DEF TypeOK, LocalInv, AllocStages
    <2> QED
      BY <2>1, <2>8, <2>9, <2>10, <2>11, <2>12, OthersStay
  <1>16. ASSUME NEW p \in Freers, FreeFree(p) PROVE TypeInv'
    <2> USE <1>16 DEF FreeFree, At, Goto
    <2>1. p \in Procs
      BY ProcsAssumption DEF Procs
    <2>2. /\ index[p] \in Int /\ region[p] \in Int /\ request[p] \in Nat \ {0}
          /\ ProcInv(p)
      BY <2>1 DEF TypeOK, LocalInv
    <2>3. NBits \in Nat /\ Bits = 0 .. NBits - 1
      BY BitmapCovers
    <2>4. freeMemory' \in 0 .. WordSize - 1 /\ word' \in [Procs -> 0 .. WordSize - 1]
      BY <2>1, WordStep DEF TypeOK
    <2>5. pc' \in [Procs -> AllocStages \cup FreeStages \cup {"idle"}]
      BY <2>1 DEF TypeOK, AllocStages, FreeStages
    <2>6. TypeOK'
      BY <2>4, <2>5 DEF TypeOK, bitmap, counters
    <2>7. ProcInv(p)'
      BY <2>1, <2>2, <2>3
      DEF TypeOK, LocalInv, ProcInv, ScanInBounds, InBounds, End, LockStages, Locking, AllocStages, FreeStages, INVALID_PAGE, bitmap
    <2>8. lastDeepFragmented' <= NBits
      BY <2>1, <2>2, <2>3 DEF TypeOK, LocalInv, ProcInv, ScanInBounds, InBounds, FreeStages, bitmap
    <2>9. \A q \in Procs \ {p} : /\ pc'[q] = pc[q] /\ request'[q] = request[q]
                                   /\ region'[q] = region[q] /\ index'[q] = index[q]
      BY <2>1 DEF TypeOK
    <2>10. p = Irq => pc'[p] \notin AllocStages
      BY <2>1, ProcsAssumption DEF TypeOK, LocalInv, AllocStages
    <2> QED
      BY <2>1, <2>6, <2>7, <2>8, <2>9, <2>10, OthersStay
  <1>17. ASSUME NEW p \in Freers, FreeUsed(p) PROVE TypeInv'
    <2> USE <1>17 DEF FreeUsed, At, Goto
    <2>1. p \in Procs
      BY ProcsAssumption DEF Procs
    <2>2. /\ index[p] \in Int /\ region[p] \in Int /\ request[p] \in Nat \ {0}
          /\ ProcInv(p)
      BY <2>1 DEF TypeOK, LocalInv
    <2>3. NBits \in Nat /\ Bits = 0 .. NBits - 1
      BY BitmapCovers
    <2>4. usedMemory' \in 0 .. WordSize - 1 /\ word' \in [Procs -> 0 .. WordSize - 1]
      BY <2>1, WordStep DEF TypeOK
    <2>5. pc' \in [Procs -> AllocStages \cup FreeStages \cup {"idle"}]
      BY <2>1 DEF TypeOK, AllocStages, FreeStages
    <2>6. TypeOK'
      BY <2>4, <2>5 DEF TypeOK, bitmap, counters
    <2>7. ProcInv(p)'
      BY <2>1, <2>2, <2>3
      DEF TypeOK, LocalInv, ProcInv, ScanInBounds, InBounds, End, LockStages, Locking, AllocStages, FreeStages, INVALID_PAGE, bitmap
    <2>8. lastDeepFragmented' <= NBits
      BY <2>1, <2>2, <2>3 DEF TypeOK, LocalInv, ProcInv, ScanInBounds, InBounds, FreeStages, bitmap
    <2>9. \A q \in Procs \ {p} : /\ pc'[q] = pc[q] /\ request'[q] = request[q]
                                   /\ region'[q] = region[q] /\ index'[q] = index[q]
      BY <2>1 DEF TypeOK
    <2>10. p = Irq => pc'[p] \notin AllocStages
      BY <2>1, ProcsAssumption DEF TypeOK, LocalInv, AllocStages
    <2> QED
      BY <2>1, <2>6, <2>7, <2>8, <2>9, <2>10, OthersStay
  <1>18. ASSUME NEW p \in Freers, FreeHint(p) PROVE TypeInv'
    <2> USE <1>18 DEF FreeHint, At, Goto, LowerHint, NextPage
    <2>1. p \in Procs
      BY ProcsAssumption DEF Procs
    <2>2. /\ index[p] \in Int /\ region[p] \in Int /\ request[p] \in Nat \ {0}
          /\ ProcInv(p)
      BY <2>1 DEF TypeOK, LocalInv
    <2>3. NBits \in Nat /\ Bits = 0 .. NBits - 1
      BY BitmapCovers
    <2>4. index' \in [Procs -> Int]
      BY <2>1, <2>2, <2>3 DEF TypeOK
    <2>5. lastDeepFragmented' \in Nat
      BY <2>1, <2>2, <2>3 DEF TypeOK, ProcInv, ScanInBounds, InBounds, FreeStages
    <2>6. pc' \in [Procs -> AllocStages \cup FreeStages \cup {"idle"}]
      BY <2>1 DEF TypeOK, AllocStages, FreeStages
    <2>7. TypeOK'
      BY <2>4, <2>5, <2>6 DEF TypeOK, bitmap, counters
    <2>8. ProcInv(p)'
      BY <2>1, <2>2, <2>3
      DEF TypeOK, LocalInv, ProcInv, ScanInBounds, InBounds, End, LockStages, Locking, AllocStages, FreeStages, INVALID_PAGE, bitmap
    <2>9. lastDeepFragmented' <= NBits
      BY <2>1, <2>2, <2>3 DEF TypeOK, LocalInv, ProcInv, ScanInBounds, InBounds, FreeStages, bitmap
    <2>10. \A q \in Procs \ {p} : /\ pc'[q] = pc[q] /\ request'[q] = request[q]
                                   /\ region'[q] = region[q] /\ index'[q] = index[q]
      BY <2>1 DEF TypeOK
    <2>11. p = Irq => pc'[p] \notin AllocStages
      BY <2>1, ProcsAssumption DEF TypeOK, LocalInv, AllocStages
    <2> QED
      BY <2>1, <2>7, <2>8, <2>9, <2>10, <2>11, OthersStay
  <1>19. ASSUME NEW p \in Freers, FreeReturn(p) PROVE TypeInv'
    <2> USE <1>19 DEF FreeReturn, At, Goto, Leave
    <2>1. p \in Procs
      BY ProcsAssumption DEF Procs
    <2>2. /\ index[p] \in Int /\ region[p] \in Int /\ request[p] \in Nat \ {0}
          /\ ProcInv(p)
      BY <2>1 DEF TypeOK, LocalInv
    <2>3. NBits \in Nat /\ Bits = 0 .. NBits - 1
      BY BitmapCovers
    <2>4. request' \in [Procs -> Nat \ {0}] /\ region' \in [Procs -> Int] /\ index' \in [Procs -> Int]
      BY <2>1, <2>2, <2>3, ProcsAssumption DEF TypeOK
    <2>5. pc' \in [Procs -> AllocStages \cup FreeStages \cup {"idle"}]
      BY <2>1 DEF TypeOK, AllocStages, FreeStages
    <2>6. TypeOK'
      BY <2>4, <2>5 DEF TypeOK, bitmap, counters
    <2>7. ProcInv(p)'
      BY <2>1, <2>2, <2>3
      DEF TypeOK, LocalInv, ProcInv, ScanInBounds, InBounds, End, LockStages, Locking, AllocStages, FreeStages, INVALID_PAGE, bitmap
    <2>8. lastDeepFragmented' <= NBits
      BY <2>1, <2>2, <2>3 DEF TypeOK, LocalInv, ProcInv, ScanInBounds, InBounds, FreeStages, bitmap
    <2>9. \A q \in Procs \ {p} : /\ pc'[q] = pc[q] /\ request'[q] = request[q]
                                   /\ region'[q] = region[q] /\ index'[q] = index[q]
      BY <2>1 DEF TypeOK
    <2>10. p = Irq => pc'[p] \notin AllocStages
      BY <2>1, ProcsAssumption DEF TypeOK, LocalInv, AllocStages
    <2> QED
      BY <2>1, <2>6, <2>7, <2>8, <2>9, <2>10, OthersStay
  <1>20. CASE UNCHANGED vars
    BY <1>20 DEF vars, bitmap, counters, TypeOK, LocalInv, ProcInv, ScanInBounds, InBounds, End
  <1> QED
    BY <1>1, <1>2, <1>3, <1>4, <1>5, <1>6, <1>7, <1>8, <1>9, <1>10, <1>11, <1>12, <1>13, <1>14, <1>15, <1>16, <1>17, <1>18, <1>19, <1>20 DEF Next, Call, Allocating, Freeing

\* Every variable keeps its type, whoever frees and whatever interleaves.
THEOREM TypeCorrect == Spec => []TypeOK
  <1>1. TypeInv => TypeOK
    BY DEF TypeInv
  <1> QED
    BY TypeInvInit, TypeInvStep, <1>1, PTL DEF Spec
-----------------------------------------------------------------------------
(* Safety, when the interrupt handler alone frees pages. *)

\* What the invariant says of one task.
LEMMA TaskFacts ==
    ASSUME TypeInv, NEW t \in Tasks
    PROVE  /\ t \in Procs /\ t # Irq
           /\ index[t] \in Int /\ region[t] \in Int /\ request[t] \in Nat \ {0}
           /\ ProcInv(t) /\ occupied \subseteq Bits
           /\ NBits \in Nat /\ Bits = 0 .. NBits - 1
           /\ lastDeepFragmented \in Nat
  BY ProcsAssumption, BitmapCovers DEF TypeInv, TypeOK, LocalInv, Procs

\* What a task inside the lock has to establish for the whole invariant to hold
\* after its step: the other tasks are outside, and the handler is idle.
LEMMA AloneStep ==
    ASSUME IInv, TypeInv', NEW t \in Tasks, pc[Irq] = "idle",
           \A p \in Procs \ {t} : pc'[p] = pc[p],
           \A u \in Tasks \ {t} : pc[u] \notin Locking,
           pc'[t] \notin FreeStages, pc'[t] \in Locking => PMM_LOCK',
           Busy' \subseteq occupied', held' \cap BootReserved = {},
           TaskInv(t)'
    PROVE  IInv'
  <1>1. pc'[Irq] = "idle" /\ \A u \in Tasks \ {t} : pc'[u] = pc[u]
    BY ProcsAssumption DEF Procs
  <1>2. MutualExclusion'
    BY <1>1 DEF MutualExclusion
  <1>3. IrqInv'
    BY <1>1 DEF IrqInv, IInv, FreeStages
  <1>4. ASSUME NEW u \in Tasks, u # t PROVE TaskInv(u)'
    BY <1>1, <1>4 DEF TaskInv, LockStages, Locking, AllocStages
  <1> QED
    BY <1>2, <1>3, <1>4 DEF IInv, Busy

\* A step of a task that is inside the lock or takes it.
LEMMA AllocatingStep == ASSUME IInv, TypeInv', NEW t \in Tasks, Allocating(t) PROVE IInv'
  <1> USE DEF Locking, LockStages, AllocStages
  <1>1. /\ t \in Procs /\ t # Irq
        /\ index[t] \in Int /\ region[t] \in Int /\ request[t] \in Nat \ {0}
        /\ ProcInv(t) /\ occupied \subseteq Bits
        /\ NBits \in Nat /\ Bits = 0 .. NBits - 1
        /\ lastDeepFragmented \in Nat
    BY TaskFacts DEF IInv
  <1>2. /\ TaskInv(t) /\ Busy \subseteq occupied /\ held \cap BootReserved = {}
        /\ pc \in [Procs -> AllocStages \cup FreeStages \cup {"idle"}]
        /\ index \in [Procs -> Int] /\ region \in [Procs -> Int]
        /\ byte \in [Procs -> SUBSET Bits]
    BY DEF IInv, TypeInv, TypeOK
  <1>3. \A u \in Tasks \ {t} : pc[t] \in Locking => pc[u] \notin Locking
    BY DEF IInv, MutualExclusion
  <1>4. pc[t] \in Locking => PMM_LOCK
    BY DEF IInv, MutualExclusion
  <1>5. CASE Acquire(t)
    <2> USE <1>5 DEF Acquire, At, Goto, spinlockAcquire
    <2>1. pc[Irq] = "idle" /\ \A p \in Procs \ {t} : pc'[p] = pc[p]
      BY <1>1, <1>2
    <2>2. pc'[t] \notin FreeStages /\ (pc'[t] \in Locking => PMM_LOCK')
      BY <1>1, <1>2, <1>4 DEF FreeStages
    <2>3. Busy' \subseteq occupied' /\ held' \cap BootReserved = {}
      BY <1>2 DEF Busy, bitmap
    <2>4. \A u \in Tasks \ {t} : pc[u] \notin Locking
      BY DEF IInv, MutualExclusion
    <2>5. TaskInv(t)'
      BY <1>1, <1>2 DEF TaskInv, Done
    <2> QED
      BY <2>1, <2>2, <2>3, <2>4, <2>5, <1>3, AloneStep DEF FreeStages
  <1>6. CASE ScanOccupied(t)
    <2> USE <1>6 DEF ScanOccupied, At, Goto
    <2>1. pc[Irq] = "idle" /\ \A p \in Procs \ {t} : pc'[p] = pc[p]
      BY <1>1, <1>2
    <2>2. pc'[t] \notin FreeStages /\ (pc'[t] \in Locking => PMM_LOCK')
      BY <1>1, <1>2, <1>4 DEF FreeStages
    <2>3. Busy' \subseteq occupied' /\ held' \cap BootReserved = {}
      BY <1>2 DEF Busy, bitmap
    <2>4. \A u \in Tasks \ {t} : pc[u] \notin Locking
      BY <1>3
    <2>5. TaskInv(t)'
      BY <1>1, <1>2 DEF TaskInv, Done
    <2> QED
      BY <2>1, <2>2, <2>3, <2>4, <2>5, <1>3, AloneStep DEF FreeStages
  <1>7. CASE ScanFree(t)
    <2> USE <1>7 DEF ScanFree, At, Goto, RaiseHint
    <2>1. pc[Irq] = "idle" /\ \A p \in Procs \ {t} : pc'[p] = pc[p]
      BY <1>1, <1>2
    <2>2. pc'[t] \notin FreeStages /\ (pc'[t] \in Locking => PMM_LOCK')
      BY <1>1, <1>2, <1>4 DEF FreeStages
    <2>3. Busy' \subseteq occupied' /\ held' \cap BootReserved = {}
      BY <1>2 DEF Busy, bitmap
    <2>4. \A u \in Tasks \ {t} : pc[u] \notin Locking
      BY <1>3
    <2>5. TaskInv(t)'
      <3>1. Done(t) \cap occupied = {} /\ index[t] \notin occupied /\ region'[t] = region[t]
        BY <1>1, <1>2 DEF TaskInv
      <3>2. ASSUME NEW i \in region[t] .. index[t] PROVE i \notin occupied
        BY <1>1, <3>1, <3>2 DEF Done
      <3>3. CASE index[t] + 1 - region[t] >= request[t]
        <4>1. pc'[t] = "lock" /\ index'[t] = region[t]
          BY <1>1, <1>2, <3>3
        <4>2. End(t)' = index[t] + 1
          <5>1. ScanInBounds(t)
            BY <1>1 DEF ProcInv
          <5>2. request[t] = index[t] + 1 - region[t]
            BY <1>1, <3>3, <5>1 DEF ScanInBounds, End
          <5>3. region'[t] = region[t] /\ request'[t] = request[t]
            BY <3>1
          <5> QED
            BY <1>1, <5>2, <5>3 DEF End
        <4>3. Pending(t)' = region[t] .. index[t] /\ Run(region[t], request[t])' = region[t] .. index[t]
          <5>1. End(t)' - 1 = index[t]
            BY <1>1, <4>2
          <5>2. Pending(t)' = region[t] .. index[t]
            BY <4>1, <5>1 DEF Pending
          <5>3. Run(region[t], request[t])' = region'[t] .. End(t)' - 1
            BY <1>1, <3>1 DEF Run, End
          <5> QED
            BY <3>1, <5>1, <5>2, <5>3
        <4>4. Done(t)' = {}
          BY <1>1, <3>1, <4>1 DEF Done
        <4> QED
          BY <1>2, <3>1, <3>2, <4>1, <4>3, <4>4 DEF TaskInv, Busy
      <3>4. CASE ~(index[t] + 1 - region[t] >= request[t])
        <4>1. pc'[t] = "scan" /\ index'[t] = index[t] + 1
          BY <1>1, <1>2, <3>4
        <4>2. Done(t)' = region[t] .. index[t]
          BY <1>1, <3>1, <4>1 DEF Done
        <4> QED
          BY <3>2, <4>1, <4>2 DEF TaskInv
      <3> QED
        BY <3>3, <3>4
    <2> QED
      BY <2>1, <2>2, <2>3, <2>4, <2>5, <1>3, AloneStep DEF FreeStages
  <1>8. CASE ScanEnd(t)
    <2> USE <1>8 DEF ScanEnd, At, Goto
    <2>1. pc[Irq] = "idle" /\ \A p \in Procs \ {t} : pc'[p] = pc[p]
      BY <1>1, <1>2
    <2>2. pc'[t] \notin FreeStages /\ (pc'[t] \in Locking => PMM_LOCK')
      BY <1>1, <1>2, <1>4 DEF FreeStages
    <2>3. Busy' \subseteq occupied' /\ held' \cap BootReserved = {}
      BY <1>2 DEF Busy, bitmap
    <2>4. \A u \in Tasks \ {t} : pc[u] \notin Locking
      BY <1>3
    <2>5. TaskInv(t)'
      <3>1. pc'[t] = "lock" /\ index'[t] = INVALID_PAGE
        BY <1>1, <1>2
      <3> QED
        BY <3>1 DEF TaskInv
    <2> QED
      BY <2>1, <2>2, <2>3, <2>4, <2>5, <1>3, AloneStep DEF FreeStages
  <1>9. CASE LockInvalid(t)
    <2> USE <1>9 DEF LockInvalid, At, Goto
    <2>1. pc[Irq] = "idle" /\ \A p \in Procs \ {t} : pc'[p] = pc[p]
      BY <1>1, <1>2
    <2>2. pc'[t] \notin FreeStages /\ (pc'[t] \in Locking => PMM_LOCK')
      BY <1>1, <1>2, <1>4 DEF FreeStages
    <2>3. Busy' \subseteq occupied' /\ held' \cap BootReserved = {}
      BY <1>2 DEF Busy, bitmap
    <2>4. \A u \in Tasks \ {t} : pc[u] \notin Locking
      BY <1>3
    <2>5. TaskInv(t)'
      <3>1. pc'[t] = "lock" /\ index'[t] = INVALID_PAGE
        OBVIOUS
      <3> QED
        BY <3>1 DEF TaskInv
    <2> QED
      BY <2>1, <2>2, <2>3, <2>4, <2>5, <1>3, AloneStep DEF FreeStages
  <1>10. CASE LockPage(t)
    <2> USE <1>10 DEF LockPage, At, Goto, NextPage
    <2>1. pc[Irq] = "idle" /\ \A p \in Procs \ {t} : pc'[p] = pc[p]
      BY <1>1, <1>2
    <2>2. pc'[t] \notin FreeStages /\ (pc'[t] \in Locking => PMM_LOCK')
      BY <1>1, <1>2, <1>4 DEF FreeStages
    <2>3. Busy' \subseteq occupied' /\ held' \cap BootReserved = {}
      BY <1>2 DEF Busy, bitmap
    <2>4. \A u \in Tasks \ {t} : pc[u] \notin Locking
      BY <1>3
    <2>5. TaskInv(t)'
      <3>1. InBounds(t) /\ index[t] < End(t) /\ index[t] # INVALID_PAGE
        BY <1>1 DEF ProcInv, InBounds, End, INVALID_PAGE
      <3>2. index[t] \in Pending(t) /\ index[t] \notin Done(t)
        BY <1>1, <3>1 DEF Pending, Done, End
      <3>3. index[t] \notin occupied
        BY <1>2, <3>1, <3>2 DEF TaskInv
      <3>4. pc'[t] = "lockClear" /\ byte'[t] = occupied \cap ByteOf(index[t])
        BY <1>1, <1>2, <3>3
      <3>5. /\ index'[t] = index[t] /\ region'[t] = region[t] /\ request'[t] = request[t]
             /\ End(t)' = End(t) /\ Done(t)' = Done(t) /\ Pending(t)' = Pending(t)
        BY <3>3 DEF End, Done, Pending
      <3>6. byte'[t] \cap Pending(t) = {} /\ Run(region[t], request[t]) \cap Busy = {}
            /\ Done(t) \subseteq occupied /\ Pending(t) \cap occupied = {}
        BY <1>2, <3>1, <3>4 DEF TaskInv
      <3> QED
        BY <1>2, <3>4, <3>5, <3>6 DEF TaskInv, Busy, bitmap
    <2> QED
      BY <2>1, <2>2, <2>3, <2>4, <2>5, <1>3, AloneStep DEF FreeStages
  <1>11. CASE LockClear(t)
    <2> USE <1>11 DEF LockClear, At, Goto, StoreByte
    <2>1. pc[Irq] = "idle" /\ \A p \in Procs \ {t} : pc'[p] = pc[p]
      BY <1>1, <1>2
    <2>2. pc'[t] \notin FreeStages /\ (pc'[t] \in Locking => PMM_LOCK')
      BY <1>1, <1>2, <1>4 DEF FreeStages
    <2>6. /\ InBounds(t) /\ index[t] < End(t) /\ index[t] # INVALID_PAGE
          /\ index[t] \in Bits
      BY <1>1 DEF ProcInv, InBounds, End, INVALID_PAGE
    <2>7. /\ index[t] \in Pending(t) /\ index[t] \notin Done(t)
          /\ index[t] \in Run(region[t], request[t]) /\ index[t] \in ByteOf(index[t])
      BY <1>1, <2>6 DEF Pending, Done, Run, InBounds, End, ByteOf
    <2>8. /\ Run(region[t], request[t]) \cap Busy = {}
          /\ Done(t) \subseteq occupied /\ Pending(t) \cap occupied = {}
          /\ byte[t] \subseteq ByteOf(index[t]) /\ byte[t] \cap Pending(t) = {}
          /\ ByteOf(index[t]) \cap (Busy \cup Done(t)) \subseteq byte[t]
      BY <1>2, <2>6 DEF TaskInv
    <2>9. /\ index'[t] = index[t] /\ region'[t] = region[t] /\ request'[t] = request[t]
          /\ End(t)' = End(t) /\ Done(t)' = Done(t) /\ Pending(t)' = Pending(t)
      BY DEF End, Done, Pending
    <2>10. byte'[t] = byte[t] \ {index[t]} /\ pc'[t] = "lockSet"
      BY <1>1, <1>2
    <2>3. Busy' \subseteq occupied' /\ held' \cap BootReserved = {}
      BY <1>2, <2>7, <2>8 DEF Busy
    <2>4. \A u \in Tasks \ {t} : pc[u] \notin Locking
      BY <1>3
    <2>5. TaskInv(t)'
      <3>1. /\ Done(t) \subseteq occupied' /\ Pending(t) \cap occupied' = {}
            /\ ByteOf(index[t]) \cap (Busy \cup Done(t)) \subseteq byte'[t]
        BY <2>7, <2>8, <2>10
      <3> QED
        BY <2>8, <2>9, <2>10, <3>1 DEF TaskInv, Busy
    <2> QED
      BY <2>1, <2>2, <2>3, <2>4, <2>5, <1>3, AloneStep DEF FreeStages
  <1>12. CASE LockSet(t)
    <2> USE <1>12 DEF LockSet, At, Goto, StoreByte
    <2>1. pc[Irq] = "idle" /\ \A p \in Procs \ {t} : pc'[p] = pc[p]
      BY <1>1, <1>2
    <2>2. pc'[t] \notin FreeStages /\ (pc'[t] \in Locking => PMM_LOCK')
      BY <1>1, <1>2, <1>4 DEF FreeStages
    <2>6. /\ InBounds(t) /\ index[t] < End(t) /\ index[t] # INVALID_PAGE
          /\ index[t] \in Bits
      BY <1>1 DEF ProcInv, InBounds, End, INVALID_PAGE
    <2>7. /\ index[t] \in Pending(t) /\ index[t] \notin Done(t)
          /\ index[t] \in Run(region[t], request[t]) /\ index[t] \in ByteOf(index[t])
      BY <1>1, <2>6 DEF Pending, Done, Run, InBounds, End, ByteOf
    <2>8. /\ Run(region[t], request[t]) \cap Busy = {}
          /\ Done(t) \subseteq occupied /\ Pending(t) \cap occupied = {}
          /\ byte[t] \subseteq ByteOf(index[t]) /\ byte[t] \cap Pending(t) = {}
          /\ ByteOf(index[t]) \cap (Busy \cup Done(t)) \subseteq byte[t]
      BY <1>2, <2>6 DEF TaskInv
    <2>9. /\ index'[t] = index[t] /\ region'[t] = region[t] /\ request'[t] = request[t]
          /\ End(t)' = End(t) /\ Done(t)' = Done(t) /\ Pending(t)' = Pending(t)
      BY DEF End, Done, Pending
    <2>10. pc'[t] = "lockFree"
      BY <1>1, <1>2
    <2>3. Busy' \subseteq occupied' /\ held' \cap BootReserved = {}
      BY <1>2, <2>7, <2>8 DEF Busy
    <2>4. \A u \in Tasks \ {t} : pc[u] \notin Locking
      BY <1>3
    <2>5. TaskInv(t)'
      <3>1. /\ Done(t) \subseteq occupied' /\ index[t] \in occupied'
            /\ (Pending(t) \ {index[t]}) \cap occupied' = {}
        BY <2>7, <2>8
      <3> QED
        BY <2>8, <2>9, <2>10, <3>1 DEF TaskInv, Busy
    <2> QED
      BY <2>1, <2>2, <2>3, <2>4, <2>5, <1>3, AloneStep DEF FreeStages
  <1>13. CASE LockFree(t)
    <2> USE <1>13 DEF LockFree, At, Goto
    <2>1. pc[Irq] = "idle" /\ \A p \in Procs \ {t} : pc'[p] = pc[p]
      BY <1>1, <1>2
    <2>2. pc'[t] \notin FreeStages /\ (pc'[t] \in Locking => PMM_LOCK')
      BY <1>1, <1>2, <1>4 DEF FreeStages
    <2>3. Busy' \subseteq occupied' /\ held' \cap BootReserved = {}
      BY <1>2 DEF Busy, bitmap
    <2>4. \A u \in Tasks \ {t} : pc[u] \notin Locking
      BY <1>3
    <2>5. TaskInv(t)'
      <3>1. /\ index'[t] = index[t] /\ region'[t] = region[t] /\ request'[t] = request[t]
             /\ End(t)' = End(t) /\ Done(t)' = Done(t) /\ Pending(t)' = Pending(t)
        BY DEF End, Done, Pending
      <3>2. pc'[t] = "lockUsed" /\ index[t] # INVALID_PAGE
        BY <1>1, <1>2 DEF ProcInv, InBounds, INVALID_PAGE
      <3> QED
        BY <1>2, <3>1, <3>2 DEF TaskInv, Busy, bitmap
    <2> QED
      BY <2>1, <2>2, <2>3, <2>4, <2>5, <1>3, AloneStep DEF FreeStages
  <1>14. CASE LockUsed(t)
    <2> USE <1>14 DEF LockUsed, At, Goto, NextPage
    <2>1. pc[Irq] = "idle" /\ \A p \in Procs \ {t} : pc'[p] = pc[p]
      BY <1>1, <1>2
    <2>2. pc'[t] \notin FreeStages /\ (pc'[t] \in Locking => PMM_LOCK')
      BY <1>1, <1>2, <1>4 DEF FreeStages
    <2>3. Busy' \subseteq occupied' /\ held' \cap BootReserved = {}
      BY <1>2 DEF Busy, bitmap
    <2>4. \A u \in Tasks \ {t} : pc[u] \notin Locking
      BY <1>3
    <2>5. TaskInv(t)'
      <3>1. pc'[t] = "lock" /\ index'[t] = index[t] + 1 /\ region'[t] = region[t] /\ End(t)' = End(t)
        BY <1>1, <1>2 DEF End
      <3>2. InBounds(t) /\ index[t] < End(t) /\ index[t] # INVALID_PAGE
        BY <1>1 DEF ProcInv, InBounds, INVALID_PAGE
      <3>3. Done(t)' = Done(t) \cup {index[t]} /\ Pending(t)' = Pending(t) \ {index[t]}
        BY <1>1, <3>1, <3>2 DEF Done, Pending, InBounds, End
      <3>4. /\ Run(region[t], request[t]) \cap Busy = {} /\ Done(t) \subseteq occupied
            /\ index[t] \in occupied /\ (Pending(t) \ {index[t]}) \cap occupied = {}
        BY <1>2, <3>2 DEF TaskInv
      <3> QED
        BY <3>1, <3>3, <3>4 DEF TaskInv, Busy, bitmap
    <2> QED
      BY <2>1, <2>2, <2>3, <2>4, <2>5, <1>3, AloneStep DEF FreeStages
  <1>15. CASE Return(t)
    <2> USE <1>15 DEF Return, At, Goto, spinlockRelease, Leave
    <2>1. pc[Irq] = "idle" /\ \A p \in Procs \ {t} : pc'[p] = pc[p]
      BY <1>1, <1>2
    <2>2. pc'[t] \notin FreeStages /\ (pc'[t] \in Locking => PMM_LOCK')
      BY <1>1, <1>2, <1>4 DEF FreeStages
    <2>6. Run(region[t], request[t]) \cap Busy = {} /\ Run(region[t], request[t]) \subseteq occupied
      <3>1. index[t] # INVALID_PAGE
        BY <1>1 DEF ProcInv, InBounds, End, INVALID_PAGE
      <3>2. Done(t) = Run(region[t], request[t])
        BY <1>1 DEF Done, Run, End
      <3> QED
        BY <1>2, <3>1, <3>2 DEF TaskInv
    <2>3. Busy' \subseteq occupied' /\ held' \cap BootReserved = {}
      BY <1>2, <2>6 DEF Busy, bitmap
    <2>4. \A u \in Tasks \ {t} : pc[u] \notin Locking
      BY <1>3
    <2>5. TaskInv(t)'
      <3>1. pc'[t] = "idle"
        BY <1>1, <1>2
      <3> QED
        BY <3>1 DEF TaskInv
    <2> QED
      BY <2>1, <2>2, <2>3, <2>4, <2>5, <1>3, AloneStep DEF FreeStages
  <1> QED
    BY <1>5, <1>6, <1>7, <1>8, <1>9, <1>10, <1>11, <1>12, <1>13, <1>14, <1>15 DEF Allocating
\* A task that calls and waits for the lock holds nothing.
LEMMA CallAllocateStep ==
    ASSUME IInv, TypeInv', NEW t \in Tasks, NEW n \in Sizes, CallAllocate(t, n)
    PROVE  IInv'
  <1> USE DEF CallAllocate, At, Goto
  <1>1. /\ pc[Irq] = "idle" /\ pc'[Irq] = "idle"
        /\ pc[t] = "idle" /\ pc'[t] = "spin"
        /\ \A u \in Tasks \ {t} : pc'[u] = pc[u] /\ request'[u] = request[u]
    BY TaskFacts DEF IInv, TypeInv, TypeOK, Procs
  <1>2. MutualExclusion'
    BY <1>1 DEF IInv, MutualExclusion, Locking, AllocStages
  <1>3. IrqInv'
    BY <1>1 DEF IInv, IrqInv, FreeStages
  <1>4. Busy' \subseteq occupied' /\ (held \cap BootReserved = {})'
    BY DEF IInv, Busy, bitmap
  <1>5. TaskInv(t)'
    BY <1>1 DEF TaskInv, LockStages, Locking, AllocStages
  <1>6. ASSUME NEW u \in Tasks, u # t PROVE TaskInv(u)'
    BY <1>1, <1>6 DEF IInv, TaskInv, Done, Pending, End, Busy, bitmap
  <1> QED
    BY <1>2, <1>3, <1>4, <1>5, <1>6 DEF IInv

\* What the handler has to establish: it only clears bits of pages that are
\* neither busy nor in the region of a task.
LEMMA IrqStep ==
    ASSUME IInv, TypeInv', IrqInv', held' \subseteq held,
           Busy' \subseteq occupied', occupied' \subseteq occupied,
           \A t \in Tasks : /\ pc'[t] = pc[t] /\ request'[t] = request[t]
                            /\ region'[t] = region[t] /\ index'[t] = index[t]
                            /\ byte'[t] = byte[t],
           PMM_LOCK' = PMM_LOCK,
           \A t \in Tasks : pc[t] \in LockStages /\ index[t] # INVALID_PAGE =>
             (occupied \ occupied') \cap Run(region[t], request[t]) = {}
    PROVE  IInv'
  <1>1. MutualExclusion'
    BY DEF IInv, MutualExclusion
  <1>2. held' \cap BootReserved = {}
    BY DEF IInv
  <1>3. ASSUME NEW t \in Tasks PROVE TaskInv(t)'
    <2>1. /\ index[t] \in Int /\ region[t] \in Int /\ request[t] \in Nat \ {0} /\ ProcInv(t)
      BY TaskFacts DEF IInv
    <2>2. Done(t)' = Done(t) /\ Pending(t)' = Pending(t)
      BY DEF Done, Pending, End
    <2>3. Busy' \subseteq Busy /\ TaskInv(t)
      BY DEF IInv, Busy
    <2>4. CASE pc[t] \in LockStages /\ index[t] # INVALID_PAGE
      <3>1. Done(t) \subseteq Run(region[t], request[t]) /\ (pc[t] # "lock" => index[t] \in Run(region[t], request[t]))
        BY <2>1, <2>4 DEF ProcInv, InBounds, Done, Run, End
      <3>2. Done(t) \subseteq occupied' /\ (pc[t] \in {"lockFree", "lockUsed"} => index[t] \in occupied')
        BY <2>3, <2>4, <3>1 DEF TaskInv
      <3>3. /\ Run(region[t], request[t]) \cap Busy' = {}
            /\ pc[t] \in {"lock", "lockClear", "lockSet"} => Pending(t) \cap occupied' = {}
            /\ pc[t] \in {"lockClear", "lockSet"} =>
                 /\ byte[t] \subseteq ByteOf(index[t])
                 /\ byte[t] \cap Pending(t) = {}
                 /\ ByteOf(index[t]) \cap (Busy' \cup Done(t)) \subseteq byte[t]
            /\ pc[t] \in {"lockFree", "lockUsed"} =>
                 (Pending(t) \ {index[t]}) \cap occupied' = {}
        BY <2>3, <2>4 DEF TaskInv
      <3>4. pc[t] # "scan"
        BY <2>4 DEF LockStages
      <3> QED
        BY <2>2, <3>2, <3>3, <3>4 DEF TaskInv, LockStages
    <2>5. CASE pc[t] \in LockStages /\ index[t] = INVALID_PAGE
      <3>1. pc[t] = "lock"
        BY <2>1, <2>5 DEF ProcInv, InBounds, INVALID_PAGE
      <3> QED
        BY <2>5, <3>1 DEF TaskInv
    <2>6. CASE pc[t] \notin LockStages
      <3>1. pc[t] = "scan" => Done(t) \cap occupied' = {}
        BY <2>3 DEF TaskInv
      <3> QED
        BY <2>2, <2>6, <3>1 DEF TaskInv, LockStages, Locking, AllocStages
    <2> QED
      BY <2>4, <2>5, <2>6
  <1> QED
    BY <1>1, <1>2, <1>3 DEF IInv, Busy

\* The handler frees pages it was given: they were held, so they are in no
\* task's region, and from then on they are busy for nobody.
LEMMA CallFreeStep ==
    ASSUME IInv, TypeInv', NEW start \in Bits, NEW n \in Sizes, CallFree(Irq, start, n)
    PROVE  IInv'
  <1> USE DEF CallFree, At, Goto
  <1>1. Irq \in Procs /\ \A t \in Tasks : t \in Procs /\ t # Irq
    BY ProcsAssumption DEF Procs
  <1>2. \A t \in Tasks : /\ pc'[t] = pc[t] /\ request'[t] = request[t]
                         /\ region'[t] = region[t] /\ index'[t] = index[t] /\ byte'[t] = byte[t]
    BY <1>1 DEF IInv, TypeInv, TypeOK
  <1>3. pc'[Irq] = "free" /\ region'[Irq] = start /\ request'[Irq] = n
    BY <1>1 DEF IInv, TypeInv, TypeOK
  <1>4. held' \subseteq held /\ Busy' \subseteq occupied' /\ occupied' = occupied
    BY DEF IInv, Busy, bitmap
  <1>5. Run(start, n) \cap Busy' = {}
    BY DEF IInv, Busy
  <1>6. ASSUME NEW t \in Tasks, pc[t] \in LockStages, index[t] # INVALID_PAGE
        PROVE  Run(start, n) \cap Run(region[t], request[t]) = {}
    BY <1>6 DEF IInv, TaskInv, Busy
  <1>7. IrqInv'
    BY <1>2, <1>3, <1>5, <1>6 DEF IInv, IrqInv, FreeStages
  <1> QED
    BY <1>2, <1>4, <1>7, IrqStep

\* The rest of the handler's work.
LEMMA FreeingStep == ASSUME IInv, TypeInv', Freeing(Irq) PROVE IInv'
  <1> DEFINE freed == Run(region[Irq], request[Irq])
  <1>1. /\ Irq \in Procs /\ \A t \in Tasks : t \in Procs /\ t # Irq
        /\ index[Irq] \in Int /\ region[Irq] \in Int /\ request[Irq] \in Nat \ {0}
        /\ ProcInv(Irq) /\ occupied \subseteq Bits
    BY ProcsAssumption DEF Procs, IInv, TypeInv, TypeOK, LocalInv
  <1>2. /\ pc[Irq] \in FreeStages
        /\ held' = held /\ PMM_LOCK' = PMM_LOCK
        /\ \A t \in Tasks : /\ pc'[t] = pc[t] /\ request'[t] = request[t]
                            /\ region'[t] = region[t] /\ index'[t] = index[t]
                            /\ byte'[t] = byte[t]
    BY <1>1 DEF IInv, TypeInv, TypeOK, Freeing, FreePage, FreeClear, FreeFree, FreeUsed, FreeHint,
         FreeReturn, At, Goto, NextPage, Leave, FreeStages
  <1>3. /\ freed \cap Busy = {}
        /\ \A t \in Tasks : pc[t] \in LockStages /\ index[t] # INVALID_PAGE =>
             freed \cap Run(region[t], request[t]) = {}
    BY <1>2 DEF IInv, IrqInv
  <1>4. pc'[Irq] \in FreeStages => region'[Irq] = region[Irq] /\ request'[Irq] = request[Irq]
    BY <1>1 DEF IInv, TypeInv, TypeOK, Freeing, FreePage, FreeClear, FreeFree, FreeUsed, FreeHint,
         FreeReturn, At, Goto, NextPage, Leave, FreeStages
  <1>5. occupied' \subseteq occupied /\ occupied \ occupied' \subseteq freed
    <2>1. CASE FreeClear(Irq)
      <3>1. byte[Irq] = occupied \cap ByteOf(index[Irq])
        BY <2>1 DEF FreeClear, At, IInv, IrqInv
      <3>2. index[Irq] \in freed
        BY <1>1, <2>1 DEF FreeClear, At, ProcInv, InBounds, End, Run, FreeStages
      <3> QED
        BY <2>1, <3>1, <3>2 DEF FreeClear, StoreByte
    <2>2. CASE ~FreeClear(Irq)
      BY <2>2 DEF Freeing, FreePage, FreeFree, FreeUsed, FreeHint, FreeReturn, bitmap
    <2> QED
      BY <2>1, <2>2
  <1>6. Busy' \subseteq occupied'
    BY <1>2, <1>3, <1>5 DEF IInv, Busy
  <1>7. pc'[Irq] = "freeClear" => byte'[Irq] = occupied' \cap ByteOf(index'[Irq])
    <2>1. CASE FreePage(Irq)
      BY <1>1, <2>1 DEF FreePage, At, Goto, NextPage, bitmap, IInv, TypeInv, TypeOK
    <2>2. CASE ~FreePage(Irq)
      BY <1>1, <2>2 DEF Freeing, FreeClear, FreeFree, FreeUsed, FreeHint, FreeReturn, At, Goto,
           NextPage, Leave, IInv, TypeInv, TypeOK
    <2> QED
      BY <2>1, <2>2
  <1>8. IrqInv'
    <2>1. \A t \in Tasks : pc'[t] \notin FreeStages
      BY <1>2 DEF IInv, IrqInv
    <2>2. pc'[Irq] \in FreeStages => Run(region'[Irq], request'[Irq]) \cap Busy' = {}
      BY <1>2, <1>3, <1>4 DEF Busy
    <2> QED
      BY <1>2, <1>3, <1>4, <1>7, <2>1, <2>2 DEF IrqInv
  <1>9. \A t \in Tasks : pc[t] \in LockStages /\ index[t] # INVALID_PAGE =>
          (occupied \ occupied') \cap Run(region[t], request[t]) = {}
    BY <1>3, <1>5
  <1> QED
    BY <1>2, <1>5, <1>6, <1>8, <1>9, IrqStep

\* The invariant holds after the boot and every step keeps it.
LEMMA IInvInductive ==
    ASSUME Freers \subseteq {Irq}
    PROVE  (Init => IInv) /\ (IInv /\ [Next]_vars => IInv')
  <1>1. ASSUME Init PROVE IInv
    <2>1. TypeInv
      BY <1>1, TypeInvInit
    <2>2. \A p \in Procs : pc[p] = "idle"
      BY <1>1 DEF Init
    <2>3. Irq \in Procs /\ \A t \in Tasks : t \in Procs
      BY DEF Procs
    <2>4. MutualExclusion /\ IrqInv /\ \A t \in Tasks : TaskInv(t)
      BY <2>2, <2>3
      DEF MutualExclusion, IrqInv, TaskInv, LockStages, Locking, AllocStages, FreeStages
    <2>5. Busy \subseteq occupied /\ held \cap BootReserved = {}
      BY <1>1, BootedState DEF Init, Busy
    <2> QED
      BY <2>1, <2>4, <2>5 DEF IInv
  <1>2. ASSUME IInv, [Next]_vars PROVE IInv'
    <2>1. TypeInv'
      BY <1>2, TypeInvStep DEF IInv
    <2>2. ASSUME NEW t \in Tasks, NEW n \in Sizes, CallAllocate(t, n) PROVE IInv'
      BY <1>2, <2>1, <2>2, CallAllocateStep
    <2>3. ASSUME NEW p \in Freers, NEW start \in Bits, NEW n \in Sizes, CallFree(p, start, n)
          PROVE  IInv'
      <3>1. p = Irq
        OBVIOUS
      <3> QED
        BY <1>2, <2>1, <2>3, <3>1, CallFreeStep
    <2>4. ASSUME NEW t \in Tasks, Allocating(t) PROVE IInv'
      BY <1>2, <2>1, <2>4, AllocatingStep
    <2>5. ASSUME NEW p \in Freers, Freeing(p) PROVE IInv'
      <3>1. p = Irq
        OBVIOUS
      <3> QED
        BY <1>2, <2>1, <2>5, <3>1, FreeingStep
    <2>6. CASE UNCHANGED vars
      BY <1>2, <2>1, <2>6
      DEF vars, bitmap, counters, IInv, MutualExclusion, IrqInv, TaskInv, Busy, Done, Pending, End
    <2> QED
      BY <1>2, <2>2, <2>3, <2>4, <2>5, <2>6 DEF Next, Call
  <1> QED
    BY <1>1, <1>2

-----------------------------------------------------------------------------
\* When the interrupt handler is the only one to free pages, as in the code,
\* every step is one of the abstract allocator over the bits that the boot left
\* clear, or changes nothing it sees: no bit that is held or that the boot set
\* is ever handed out, however the tasks and the handler interleave, with any
\* memory map.
THEOREM NoBitIsTakenTwiceAlways ==
    ASSUME Freers \subseteq {Irq} PROVE Spec => NoBitIsTakenTwice
  <1>1. Init => BitAllocator!Init
    BY DEF Init, BitAllocator!Init
  <1>2. IInv /\ [Next]_vars => [BitAllocator!Next]_<<held, owed>>
    <2> SUFFICES ASSUME IInv, [Next]_vars PROVE BitAllocator!Next \/ UNCHANGED <<held, owed>>
      OBVIOUS
    <2>1. ASSUME NEW t \in Tasks, Return(t) PROVE BitAllocator!Next
      <3>1. /\ index[t] \in Int /\ region[t] \in Int /\ request[t] \in Nat \ {0}
            /\ ProcInv(t) /\ Bits = 0 .. NBits - 1 /\ NBits \in Nat
        BY TaskFacts DEF IInv
      <3>2. InBounds(t) /\ index[t] # INVALID_PAGE
        BY <2>1, <3>1 DEF Return, At, ProcInv, InBounds, End, INVALID_PAGE, LockStages, Locking, AllocStages
      <3> DEFINE first == region[t]
                 last  == region[t] + request[t] - 1
      <3>3. Run(region[t], request[t]) = first .. last /\ first .. last \subseteq Bits
        BY <3>1, <3>2 DEF Run, InBounds, End
      <3>4. (first .. last) \cap Busy = {}
        BY <2>1, <3>2, <3>3 DEF IInv, TaskInv, Return, At, LockStages, Locking, AllocStages
      <3>5. first .. last \subseteq (Bits \ Booted.occupied) \ held
        BY <3>3, <3>4, BootedState DEF Busy
      <3>6. first \in first .. last /\ last \in first .. last
        BY <3>1
      <3>7. owed' = owed + (last - first + 1)
        BY <2>1, <3>1 DEF Return
      <3> QED
        BY <2>1, <3>3, <3>5, <3>6, <3>7 DEF Return, BitAllocator!Next, BitAllocator!Allocate
    <2>2. ASSUME NEW p \in Freers, NEW start \in Bits, NEW n \in Sizes, CallFree(p, start, n)
          PROVE  BitAllocator!Next
      <3> DEFINE last == start + n - 1
      <3>1. n \in Nat \ {0} /\ start \in Nat
        BY ProcsAssumption, BitmapCovers
      <3>2. Run(start, n) = start .. last /\ start \in start .. last /\ last \in start .. last
        BY <3>1 DEF Run
      <3>3. start .. last \subseteq held /\ held' = held \ (start .. last)
        BY <2>2, <3>2 DEF CallFree
      <3>4. held \subseteq Bits \ Booted.occupied
        BY BootedState DEF IInv, TypeInv, TypeOK
      <3>5. owed' = owed - (last - start + 1)
        BY <2>2, <3>1 DEF CallFree
      <3> QED
        BY <3>2, <3>3, <3>4, <3>5 DEF BitAllocator!Next, BitAllocator!Free
    <2>3. CASE UNCHANGED vars
      BY <2>3 DEF vars
    <2>4. ASSUME NEW t \in Tasks, NEW n \in Sizes, CallAllocate(t, n) PROVE UNCHANGED <<held, owed>>
      BY <2>4 DEF CallAllocate
    <2>5. ASSUME NEW t \in Tasks, Allocating(t), ~Return(t) PROVE UNCHANGED <<held, owed>>
      BY <2>5 DEF Allocating, Acquire, ScanOccupied, ScanFree, ScanEnd, LockInvalid, LockPage,
           LockClear, LockSet, LockFree, LockUsed
    <2>6. ASSUME NEW p \in Freers, Freeing(p) PROVE UNCHANGED <<held, owed>>
      BY <2>6 DEF Freeing, FreePage, FreeClear, FreeFree, FreeUsed, FreeHint, FreeReturn
    <2> QED
      BY <2>1, <2>2, <2>3, <2>4, <2>5, <2>6 DEF Next, Call
  <1>3. Init => IInv
    BY IInvInductive
  <1>4. IInv /\ [Next]_vars => IInv'
    BY IInvInductive
  <1> QED
    BY <1>1, <1>2, <1>3, <1>4, PTL DEF Spec, NoBitIsTakenTwice, BitAllocator!Spec

\* No bit lies behind the last one that pmm.c:54 sets.
EveryBitIsReserved == mmTotal % 8 = 7

\* With such a memory map, and the interrupt handler as the only one to free
\* pages, only pages of usable memory that nobody holds are ever handed out:
\* none of the firmware, the kernel or the bitmap, and none that is not there.
THEOREM PageAllocatorImplemented ==
    ASSUME Freers \subseteq {Irq}, EveryBitIsReserved
    PROVE  Spec => ImplementsPageAllocator
  <1>1. Bits = 0 .. mmTotal
    <2>1. mmTotal \in Nat /\ bitmapSize * 8 - 1 = mmTotal
      BY MemMapAssumption DEF bitmapSize, EveryBitIsReserved
    <2> QED
      BY <2>1 DEF Bits
  <1>2. Bits \ Booted.occupied = UsableFrames
    BY <1>1, BootedState, MemMapAssumption DEF BootReserved, UsableFrames
  <1>3. BitAllocator!Init => Allocator!Init
    BY DEF BitAllocator!Init, Allocator!Init
  <1>4. [BitAllocator!Next]_<<held, owed>> => [Allocator!Next]_<<held, owed>>
    BY <1>2 DEF BitAllocator!Next, BitAllocator!Allocate, BitAllocator!Free,
                Allocator!Next, Allocator!Allocate, Allocator!Free
  <1> QED
    BY <1>3, <1>4, NoBitIsTakenTwiceAlways, PTL
       DEF ImplementsPageAllocator, Allocator!Spec, NoBitIsTakenTwice, BitAllocator!Spec
=============================================================================
