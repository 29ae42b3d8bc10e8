----------------------- MODULE PMM_sequential_proofs -----------------------
(***************************************************************************)
(* What the calls of PMM promise when they do not overlap, for any memory  *)
(* map and whoever calls: the hint never passes a free page, a search      *)
(* gives up only if there is no run of free pages of its length, and the   *)
(* counters agree with the bitmap.  With overlapping calls the first fails *)
(* (MCPMM_hint.cfg).                                                       *)
(***************************************************************************)
EXTENDS PMM_proofs

\* Calls do not overlap: every call returns before the next one begins.
OneCallAtATime ==
    \A p, q \in Procs : pc[p] # "idle" /\ pc[q] # "idle" => p = q

\* The pages whose bit the call of p is still to set, or has cleared without
\* having lowered the hint.
Exempt(p) ==
    {i \in Int :
        \/ pc[p] \in LockStages /\ index[p] # INVALID_PAGE /\ i \in Pending(p)
        \/ pc[p] \in {"freeFree", "freeUsed", "freeHint"} /\ i = index[p]}

\* Below the hint every other page is taken.
HintInv ==
    \A i \in Bits : i < lastDeepFragmented =>
        i \in occupied \/ \E p \in Procs : i \in Exempt(p)

\* No run of the length that p asks for starts before its region.
NoRunBefore(p) ==
    \A start \in Bits : start < region[p] => Run(start, request[p]) \cap occupied # {}

\* The call gives up with reason.
NoRun(p) ==
    \A start \in Bits :
        Run(start, request[p]) \subseteq Bits => Run(start, request[p]) \cap occupied # {}

\* A search knows the pages before its region, has found free the ones since,
\* and a call that stores a byte has loaded all of it.
SearchInv(p) ==
    /\ pc[p] = "scan" => NoRunBefore(p) /\ Done(p) \cap occupied = {}
    /\ pc[p] = "lock" /\ index[p] = INVALID_PAGE => NoRun(p)
    /\ pc[p] \in {"lockClear", "lockSet"} => index[p] \notin occupied
    /\ pc[p] \in {"lockFree", "lockUsed", "freeClear"} => index[p] \in occupied
    /\ pc[p] \in {"lockClear", "lockSet", "freeClear"} =>
         byte[p] = occupied \cap ByteOf(index[p])

SearchesInv == HintInv /\ \A p \in Procs : SearchInv(p)

\* What the counters still have to follow of the bitmap.
Uncounted(p, setting, clearing) ==
    IF pc[p] \in setting THEN 1 ELSE IF pc[p] \in clearing THEN -1 ELSE 0

Taken == Cardinality(occupied)

CountersInv(p) ==
    /\ freeMemory = Sub(mmTotal, Taken - Uncounted(p, {"lockFree"}, {"freeFree"}))
    /\ Add(usedMemory, reservedMemory)
         = (Taken - Uncounted(p, {"lockFree", "lockUsed"}, {"freeFree", "freeUsed"})) % WordSize
    /\ pc[p] \in {"lockFree", "freeFree"} => word[p] = freeMemory
    /\ pc[p] \in {"lockUsed", "freeUsed"} => word[p] = usedMemory

CountingInv ==
    \A p \in Procs : (\A q \in Procs \ {p} : pc[q] = "idle") => CountersInv(p)

-----------------------------------------------------------------------------
(* The hint and the search. *)

\* What the types say of one process.
LEMMA CallFacts ==
    ASSUME TypeInv, NEW p \in Procs
    PROVE  /\ index[p] \in Int /\ region[p] \in Int /\ request[p] \in Nat \ {0}
           /\ ProcInv(p) /\ occupied \subseteq Bits /\ byte[p] \subseteq Bits
           /\ NBits \in Nat /\ Bits = 0 .. NBits - 1
           /\ lastDeepFragmented \in Nat
  BY BitmapCovers DEF TypeInv, TypeOK, LocalInv

\* While one process is in a call the others are not.
LEMMA Solo ==
    ASSUME OneCallAtATime, OneCallAtATime', NEW p \in Procs,
           \A q \in Procs \ {p} : pc'[q] = pc[q],
           pc[p] # "idle" \/ pc'[p] # "idle"
    PROVE  \A q \in Procs \ {p} : pc[q] = "idle" /\ pc'[q] = "idle"
  BY DEF OneCallAtATime

\* The invariant before a step of the only process in a call, ...
LEMMA SoloHint ==
    ASSUME HintInv, NEW p \in Procs, \A q \in Procs \ {p} : pc[q] = "idle"
    PROVE  \A i \in Bits : i < lastDeepFragmented => i \in occupied \/ i \in Exempt(p)
  <1>1. ASSUME NEW q \in Procs, q # p PROVE Exempt(q) = {}
    BY <1>1 DEF Exempt, LockStages, Locking, AllocStages
  <1> QED
    BY <1>1 DEF HintInv

\* ... and what it has to establish for the invariant to hold after it.
LEMMA SoloSearch ==
    ASSUME NEW p \in Procs, \A q \in Procs \ {p} : pc'[q] = "idle",
           \A i \in Bits : i < lastDeepFragmented' => i \in occupied' \/ i \in Exempt(p)',
           SearchInv(p)'
    PROVE  SearchesInv'
  <1>1. ASSUME NEW q \in Procs, q # p PROVE SearchInv(q)'
    BY <1>1 DEF SearchInv
  <1> QED
    BY <1>1 DEF SearchesInv, HintInv

\* A store of the byte that was loaded, with one bit changed.
LEMMA StoreOfLoaded ==
    ASSUME TypeInv, NEW p \in Procs, index[p] \in Bits, byte[p] = occupied \cap ByteOf(index[p])
    PROVE  /\ StoreByte(p, byte[p] \ {index[p]}) <=> occupied' = occupied \ {index[p]}
           /\ StoreByte(p, byte[p] \cup {index[p]}) <=> occupied' = occupied \cup {index[p]}
  <1>1. index[p] \in ByteOf(index[p])
    BY DEF ByteOf
  <1>2. /\ (occupied \ ByteOf(index[p])) \cup (byte[p] \ {index[p]}) = occupied \ {index[p]}
        /\ (occupied \ ByteOf(index[p])) \cup (byte[p] \cup {index[p]}) = occupied \cup {index[p]}
    BY <1>1
  <1> QED
    BY <1>2 DEF StoreByte

\* A step of a search keeps what is known of the pages before its region.
LEMMA ScanStep ==
    ASSUME TypeInv, TypeInv', OneCallAtATime, OneCallAtATime', SearchesInv, NEW t \in Tasks,
           Acquire(t) \/ ScanOccupied(t) \/ ScanFree(t) \/ ScanEnd(t)
    PROVE  SearchesInv'
  <1> USE DEF At, Goto, LockStages, Locking, AllocStages
  <1>1. t \in Procs
    BY DEF Procs
  <1>2. /\ index[t] \in Int /\ region[t] \in Int /\ request[t] \in Nat \ {0}
        /\ ProcInv(t) /\ occupied \subseteq Bits
        /\ NBits \in Nat /\ Bits = 0 .. NBits - 1
        /\ lastDeepFragmented \in Nat
    BY <1>1, CallFacts
  <1>3. /\ t \in DOMAIN pc /\ t \in DOMAIN index /\ t \in DOMAIN region
        /\ \A q \in Procs \ {t} : pc'[q] = pc[q]
    BY <1>1 DEF TypeInv, TypeOK, Acquire, ScanOccupied, ScanFree, ScanEnd
  <1>4. pc[t] # "idle" /\ occupied' = occupied /\ request' = request /\ byte' = byte
    BY DEF Acquire, ScanOccupied, ScanFree, ScanEnd, bitmap
  <1>5. \A q \in Procs \ {t} : pc[q] = "idle" /\ pc'[q] = "idle"
    BY <1>1, <1>3, <1>4, Solo
  <1>6. \A i \in Bits : i < lastDeepFragmented => i \in occupied \/ i \in Exempt(t)
    BY <1>1, <1>5, SoloHint DEF SearchesInv
  <1>7. SearchInv(t)
    BY <1>1 DEF SearchesInv
  <1>8. pc[t] \in {"spin", "scan"} => Exempt(t) = {}
    BY DEF Exempt
  <1>9. \A start, i \in Bits :
          i \in Run(start, request[t]) <=> start <= i /\ i < start + request[t]
    BY <1>2 DEF Run
  <1>10. CASE Acquire(t)
    <2> USE <1>10 DEF Acquire, bitmap, counters
    <2>1. /\ pc'[t] = "scan" /\ region'[t] = lastDeepFragmented /\ index'[t] = lastDeepFragmented
          /\ lastDeepFragmented' = lastDeepFragmented
      BY <1>3
    <2>2. \A i \in Bits : i < lastDeepFragmented => i \in occupied
      BY <1>6, <1>8
    <2>3. NoRunBefore(t)'
      BY <2>1, <2>2, <1>2, <1>4, <1>9 DEF NoRunBefore
    <2>4. Done(t)' = {}
      BY <1>2, <2>1 DEF Done
    <2> QED
      BY <1>1, <1>4, <1>5, <2>1, <2>2, <2>3, <2>4, SoloSearch DEF SearchInv
  <1>11. CASE ScanOccupied(t)
    <2> USE <1>11 DEF ScanOccupied, bitmap, counters
    <2>1. /\ pc[t] = "scan" /\ pc'[t] = "scan" /\ region'[t] = index[t] + 1
          /\ index'[t] = index[t] + 1
          /\ lastDeepFragmented' = lastDeepFragmented /\ index[t] \in occupied
      <3>1. /\ pc' = pc /\ pc[t] = "scan" /\ index[t] \in occupied
            /\ lastDeepFragmented' = lastDeepFragmented
        OBVIOUS
      <3>2. region' = [region EXCEPT ![t] = index[t] + 1] /\ index' = [index EXCEPT ![t] = index[t] + 1]
        OBVIOUS
      <3> HIDE <1>11
      <3> QED
        BY <1>3, <3>1, <3>2
    <2>2. \A i \in Bits : i < lastDeepFragmented => i \in occupied
      BY <1>6, <1>8, <2>1
    <2>3. NoRunBefore(t)'
      <3> SUFFICES ASSUME NEW start \in Bits, start < index[t] + 1
                   PROVE  Run(start, request[t]) \cap occupied # {}
        BY <1>4, <2>1 DEF NoRunBefore
      <3>1. CASE start < region[t]
        BY <3>1, <1>7, <2>1 DEF SearchInv, NoRunBefore
      <3>2. CASE region[t] <= start
        <4>1. index[t] < start + request[t]
          BY <1>2, <2>1, <3>2 DEF ProcInv, ScanInBounds, End
        <4>2. index[t] \in Run(start, request[t])
          BY <1>2, <1>9, <2>1, <4>1
        <4> QED
          BY <2>1, <4>2
      <3> QED
        BY <3>1, <3>2, <1>2
    <2>4. Done(t)' = {}
      BY <1>2, <2>1 DEF Done
    <2> QED
      BY <1>1, <1>4, <1>5, <2>1, <2>2, <2>3, <2>4, SoloSearch DEF SearchInv
  <1>12. CASE ScanFree(t)
    <2> USE <1>12 DEF ScanFree, RaiseHint, counters
    <2>1. /\ pc[t] = "scan" /\ region' = region /\ index[t] \in Bits \ occupied
          /\ index[t] \in Int
      BY <1>2, <1>3
    <2>2. \A i \in Bits : i < lastDeepFragmented => i \in occupied
      BY <1>6, <1>8, <2>1
    <2>3. request[t] = 1 => index[t] = region[t]
      BY <1>2, <2>1 DEF ProcInv, ScanInBounds, End
    <2>4. request[t] = 1 => \A i \in Bits : i < region[t] => i \in occupied
      <3> SUFFICES ASSUME request[t] = 1, NEW i \in Bits, i < region[t] PROVE i \in occupied
        OBVIOUS
      <3>1. Run(i, request[t]) = {i}
        BY <1>2 DEF Run
      <3> QED
        BY <3>1, <1>7, <2>1 DEF SearchInv, NoRunBefore
    <2>5. CASE index[t] + 1 - region[t] >= request[t]
      <3>1. pc'[t] = "lock" /\ index'[t] = region[t]
        BY <2>5, <1>3
      <3>2. region[t] >= 0
        BY <1>2, <2>1 DEF ProcInv, ScanInBounds
      <3>3. SearchInv(t)'
        BY <3>1, <3>2, <2>1, <1>2 DEF SearchInv, INVALID_PAGE
      <3>4. ASSUME NEW i \in Bits, i < lastDeepFragmented' PROVE i \in occupied' \/ i \in Exempt(t)'
        <4>1. CASE request[t] = 1
          <5>1. i < region[t] \/ i = region[t]
            BY <4>1, <3>4, <1>2
          <5>2. i = region[t] => i \in Exempt(t)'
            BY <4>1, <3>1, <3>2, <2>1, <1>2, <1>4 DEF Exempt, Pending, End, INVALID_PAGE
          <5> QED
            BY <5>1, <5>2, <4>1, <2>4, <1>4
        <4>2. CASE request[t] # 1
          BY <4>2, <3>4, <2>2, <1>4
        <4> QED
          BY <4>1, <4>2
      <3> QED
        BY <1>1, <1>5, <3>3, <3>4, SoloSearch
    <2>6. CASE ~ (index[t] + 1 - region[t] >= request[t])
      <3>1. pc'[t] = "scan" /\ index'[t] = index[t] + 1 /\ request[t] # 1
        BY <2>6, <2>3, <1>2, <1>3
      <3>2. NoRunBefore(t)'
        BY <3>1, <2>1, <1>4, <1>7 DEF SearchInv, NoRunBefore
      <3>3. Done(t)' \cap occupied' = {}
        <4>1. region[t] <= index[t]
          BY <1>2, <2>1 DEF ProcInv, ScanInBounds
        <4>2. Done(t)' = Done(t) \cup {index[t]}
          <5>1. region'[t] = region[t]
            BY <3>1, <2>1
          <5>2. /\ Done(t) = region[t] .. index[t] - 1
                /\ Done(t)' = region[t] .. index[t]
            BY <3>1, <5>1, <1>2 DEF Done
          <5> HIDE <1>12 DEF At, Goto, LockStages, Locking, AllocStages
          <5> QED
            BY <5>2, <4>1, <1>2
        <4> QED
          BY <4>2, <2>1, <1>4, <1>7 DEF SearchInv
      <3>4. SearchInv(t)'
        BY <3>1, <3>2, <3>3 DEF SearchInv
      <3> QED
        BY <1>1, <1>4, <1>5, <2>2, <3>1, <3>4, SoloSearch
    <2> QED
      BY <2>5, <2>6
  <1>13. CASE ScanEnd(t)
    <2> USE <1>13 DEF ScanEnd, bitmap, counters
    <2>1. /\ pc[t] = "scan" /\ pc'[t] = "lock" /\ index'[t] = INVALID_PAGE
          /\ lastDeepFragmented' = lastDeepFragmented /\ index[t] \notin Bits
      BY <1>3
    <2>2. \A i \in Bits : i < lastDeepFragmented => i \in occupied
      BY <1>6, <1>8, <2>1
    <2>3. index[t] = NBits /\ index[t] < region[t] + request[t]
      BY <1>2, <2>1 DEF ProcInv, ScanInBounds, End
    <2>4. NoRun(t)'
      <3> SUFFICES ASSUME NEW start \in Bits, Run(start, request[t]) \subseteq Bits
                   PROVE  Run(start, request[t]) \cap occupied # {}
        BY <1>4 DEF NoRun
      <3>1. start + request[t] - 1 \in Bits
        BY <1>2 DEF Run
      <3>2. start < region[t]
        BY <3>1, <2>3, <1>2
      <3> QED
        BY <3>2, <1>7, <2>1 DEF SearchInv, NoRunBefore
    <2> QED
      BY <1>1, <1>4, <1>5, <2>1, <2>2, <2>4, SoloSearch DEF SearchInv
  <1> QED
    BY <1>10, <1>11, <1>12, <1>13

\* Locking the pages of a region ends with all of them, and so every page
\* below the hint, taken.
LEMMA LockStep ==
    ASSUME TypeInv, TypeInv', OneCallAtATime, OneCallAtATime', SearchesInv, NEW t \in Tasks,
           \/ LockInvalid(t) \/ LockPage(t) \/ LockClear(t) \/ LockSet(t)
           \/ LockFree(t) \/ LockUsed(t) \/ Return(t)
    PROVE  SearchesInv'
  <1> USE DEF At, Goto, LockStages, Locking, AllocStages
  <1>1. t \in Procs
    BY DEF Procs
  <1>2. /\ index[t] \in Int /\ region[t] \in Int /\ request[t] \in Nat \ {0}
        /\ ProcInv(t) /\ occupied \subseteq Bits
        /\ NBits \in Nat /\ Bits = 0 .. NBits - 1
        /\ lastDeepFragmented \in Nat
    BY <1>1, CallFacts
  <1>3. /\ t \in DOMAIN pc /\ t \in DOMAIN index /\ t \in DOMAIN region
        /\ t \in DOMAIN request /\ t \in DOMAIN byte
    BY <1>1 DEF TypeInv, TypeOK
  <1>4. /\ pc[t] \in LockStages /\ lastDeepFragmented' = lastDeepFragmented
        /\ \A q \in Procs \ {t} : pc'[q] = pc[q]
    <2>1. ASSUME NEW stage, pc' = [pc EXCEPT ![t] = stage]
          PROVE  \A q \in Procs \ {t} : pc'[q] = pc[q]
      BY <2>1 DEF TypeInv, TypeOK
    <2>2. (\E stage : pc' = [pc EXCEPT ![t] = stage]) \/ pc' = pc
      BY DEF LockInvalid, LockPage, LockClear, LockSet, LockFree, LockUsed, Return, NextPage, Leave
    <2>3. /\ pc[t] \in LockStages /\ lastDeepFragmented' = lastDeepFragmented
      BY DEF LockInvalid, LockPage, LockClear, LockSet, LockFree, LockUsed, Return, bitmap
    <2> QED
      BY <2>1, <2>2, <2>3
  <1>5. \A q \in Procs \ {t} : pc[q] = "idle" /\ pc'[q] = "idle"
    BY <1>1, <1>4, Solo
  <1>6. \A i \in Bits : i < lastDeepFragmented => i \in occupied \/ i \in Exempt(t)
    BY <1>1, <1>5, SoloHint DEF SearchesInv
  <1>7. SearchInv(t)
    BY <1>1 DEF SearchesInv
  <1>8. pc[t] # "lock" \/ index[t] # INVALID_PAGE =>
          InBounds(t) /\ index[t] # INVALID_PAGE /\ (pc[t] # "lock" => index[t] \in Bits)
    BY <1>2, <1>4 DEF ProcInv, InBounds, End, INVALID_PAGE
  <1>9. CASE LockInvalid(t)
    <2> USE <1>9 DEF LockInvalid, bitmap
    <2>1. SearchInv(t)'
      BY <1>7 DEF SearchInv, NoRun, NoRunBefore, Done
    <2>2. Exempt(t)' = Exempt(t)
      BY DEF Exempt, Pending, End
    <2> QED
      BY <1>1, <1>5, <1>4, <1>6, <2>1, <2>2, SoloSearch
  <1>10. CASE LockPage(t)
    <2> USE <1>10 DEF LockPage, NextPage, bitmap
    <2>1. /\ occupied' = occupied /\ request' = request /\ region' = region
          /\ pc[t] = "lock" /\ index[t] # INVALID_PAGE /\ index[t] # End(t)
      OBVIOUS
    <2>2. index[t] \in Bits /\ InBounds(t)
      BY <1>2, <1>8, <2>1 DEF InBounds, End
    <2>3. CASE index[t] \in occupied
      <3>1. pc'[t] = "lock" /\ index'[t] = index[t] + 1
        BY <1>3, <2>3
      <3>2. SearchInv(t)'
        BY <3>1, <2>2, <1>2 DEF SearchInv, INVALID_PAGE
      <3>3. ASSUME NEW i \in Bits, i \in Exempt(t) PROVE i \in occupied' \/ i \in Exempt(t)'
        <4>1. i \in Pending(t)
          BY <3>3, <2>1 DEF Exempt
        <4>2. i = index[t] \/ i \in Pending(t)'
          BY <4>1, <3>1, <2>1, <1>2 DEF Pending, End
        <4>3. i \in Pending(t)' => i \in Exempt(t)'
          BY <3>1, <2>2, <1>2 DEF Exempt, INVALID_PAGE
        <4> QED
          BY <4>2, <4>3, <2>1, <2>3
      <3> QED
        BY <1>1, <1>5, <1>4, <1>6, <2>1, <3>2, <3>3, SoloSearch
    <2>4. CASE index[t] \notin occupied
      <3>1. pc'[t] = "lockClear" /\ index' = index /\ byte'[t] = occupied \cap ByteOf(index[t])
        BY <1>3, <2>4
      <3>2. SearchInv(t)'
        BY <3>1, <2>1, <2>4 DEF SearchInv
      <3>3. Exempt(t)' = Exempt(t)
        BY <3>1, <2>1, <1>4 DEF Exempt, Pending, End
      <3> QED
        BY <1>1, <1>5, <1>4, <1>6, <2>1, <3>2, <3>3, SoloSearch
    <2> QED
      BY <2>3, <2>4
  <1>11. CASE LockClear(t)
    <2> USE <1>11 DEF LockClear
    <2>1. /\ request' = request /\ region' = region /\ index' = index
          /\ pc[t] = "lockClear" /\ pc'[t] = "lockSet" /\ byte'[t] = byte[t] \ {index[t]}
      BY <1>3
    <2>2. index[t] \notin occupied /\ byte[t] = occupied \cap ByteOf(index[t]) /\ index[t] \in Bits
      BY <1>7, <1>8, <2>1 DEF SearchInv
    <2>3. occupied' = occupied
      BY <1>1, <2>2, StoreOfLoaded
    <2>4. SearchInv(t)'
      BY <2>1, <2>2, <2>3 DEF SearchInv
    <2>5. Exempt(t)' = Exempt(t)
      BY <2>1 DEF Exempt, Pending, End
    <2> QED
      BY <1>1, <1>5, <1>4, <1>6, <2>3, <2>4, <2>5, SoloSearch
  <1>12. CASE LockSet(t)
    <2> USE <1>12 DEF LockSet
    <2>1. /\ request' = request /\ region' = region /\ index' = index
          /\ pc[t] = "lockSet" /\ pc'[t] = "lockFree"
      BY <1>3
    <2>2. byte[t] = occupied \cap ByteOf(index[t]) /\ index[t] \in Bits
      BY <1>7, <1>8, <2>1 DEF SearchInv
    <2>3. occupied' = occupied \cup {index[t]}
      BY <1>1, <2>2, StoreOfLoaded
    <2>4. SearchInv(t)'
      BY <2>1, <2>3 DEF SearchInv
    <2>5. Exempt(t)' = Exempt(t)
      BY <2>1 DEF Exempt, Pending, End
    <2> QED
      BY <1>1, <1>5, <1>4, <1>6, <2>3, <2>4, <2>5, SoloSearch
  <1>13. CASE LockFree(t)
    <2> USE <1>13 DEF LockFree, bitmap
    <2>1. /\ request' = request /\ region' = region /\ index' = index /\ occupied' = occupied
          /\ pc[t] = "lockFree" /\ pc'[t] = "lockUsed"
      BY <1>3
    <2>2. SearchInv(t)'
      BY <1>7, <2>1 DEF SearchInv
    <2>3. Exempt(t)' = Exempt(t)
      BY <2>1 DEF Exempt, Pending, End
    <2> QED
      BY <1>1, <1>5, <1>4, <1>6, <2>1, <2>2, <2>3, SoloSearch
  <1>14. CASE LockUsed(t)
    <2> USE <1>14 DEF LockUsed, NextPage, bitmap
    <2>1. /\ request' = request /\ region' = region /\ index'[t] = index[t] + 1
          /\ occupied' = occupied /\ pc[t] = "lockUsed" /\ pc'[t] = "lock"
      BY <1>3
    <2>2. index[t] \in Bits /\ InBounds(t)
      BY <1>8, <2>1
    <2>3. SearchInv(t)'
      BY <2>1, <2>2, <1>2 DEF SearchInv, INVALID_PAGE
    <2>4. ASSUME NEW i \in Bits, i \in Exempt(t) PROVE i \in occupied' \/ i \in Exempt(t)'
      <3>1. i \in Pending(t)
        BY <2>4, <2>1 DEF Exempt
      <3>2. i = index[t] \/ i \in Pending(t)'
        BY <3>1, <2>1, <1>2 DEF Pending, End
      <3>3. i \in Pending(t)' => i \in Exempt(t)'
        BY <2>1, <2>2, <1>2 DEF Exempt, INVALID_PAGE
      <3>4. index[t] \in occupied
        BY <1>7, <2>1 DEF SearchInv
      <3> QED
        BY <3>2, <3>3, <3>4, <2>1
    <2> QED
      BY <1>1, <1>5, <1>4, <1>6, <2>1, <2>3, <2>4, SoloSearch
  <1>15. CASE Return(t)
    <2> USE <1>15 DEF Return, Leave, bitmap
    <2>1. occupied' = occupied /\ pc[t] = "lock" /\ pc'[t] = "idle" /\ index[t] = End(t)
      BY <1>3
    <2>2. Exempt(t) = {}
      BY <2>1, <1>2 DEF Exempt, Pending, End
    <2>3. SearchInv(t)'
      BY <2>1 DEF SearchInv
    <2> QED
      BY <1>1, <1>5, <1>4, <1>6, <2>1, <2>2, <2>3, SoloSearch
  <1> QED
    BY <1>9, <1>10, <1>11, <1>12, <1>13, <1>14, <1>15

\* Freeing lowers the hint to every page it has cleared.
LEMMA FreeStep ==
    ASSUME TypeInv, TypeInv', OneCallAtATime, OneCallAtATime', SearchesInv, NEW p \in Procs,
           Freeing(p)
    PROVE  SearchesInv'
  <1> USE DEF At, Goto, LockStages, Locking, AllocStages
  <1>1. /\ index[p] \in Int /\ region[p] \in Int /\ request[p] \in Nat \ {0}
        /\ ProcInv(p) /\ occupied \subseteq Bits
        /\ NBits \in Nat /\ Bits = 0 .. NBits - 1
        /\ lastDeepFragmented \in Nat
    BY CallFacts
  <1>2. /\ p \in DOMAIN pc /\ p \in DOMAIN index /\ p \in DOMAIN byte
    BY DEF TypeInv, TypeOK
  <1>3. /\ pc[p] \in FreeStages
        /\ \A q \in Procs \ {p} : pc'[q] = pc[q]
    <2>1. ASSUME NEW stage, pc' = [pc EXCEPT ![p] = stage]
          PROVE  \A q \in Procs \ {p} : pc'[q] = pc[q]
      BY <2>1 DEF TypeInv, TypeOK
    <2>2. \E stage : pc' = [pc EXCEPT ![p] = stage]
      BY DEF Freeing, FreePage, FreeClear, FreeFree, FreeUsed, FreeHint, FreeReturn, NextPage, Leave
    <2>3. pc[p] \in FreeStages
      BY DEF Freeing, FreePage, FreeClear, FreeFree, FreeUsed, FreeHint, FreeReturn, FreeStages
    <2> QED
      BY <2>1, <2>2, <2>3
  <1>4. \A q \in Procs \ {p} : pc[q] = "idle" /\ pc'[q] = "idle"
    BY <1>3, Solo DEF FreeStages
  <1>5. \A i \in Bits : i < lastDeepFragmented => i \in occupied \/ i \in Exempt(p)
    BY <1>4, SoloHint DEF SearchesInv
  <1>6. SearchInv(p)
    BY DEF SearchesInv
  <1>7. pc[p] # "free" => index[p] \in Bits
    BY <1>1, <1>3 DEF ProcInv, InBounds, End, FreeStages
  <1>8. pc[p] \in {"free", "freeClear"} => Exempt(p) = {}
    BY DEF Exempt
  <1>9. pc[p] \in {"freeFree", "freeUsed", "freeHint"} => Exempt(p) = {index[p]}
    BY <1>1 DEF Exempt
  <1>10. CASE FreePage(p)
    <2> USE <1>10 DEF FreePage, NextPage, bitmap
    <2>1. pc[p] = "free" /\ occupied' = occupied /\ lastDeepFragmented' = lastDeepFragmented
      OBVIOUS
    <2>2. SearchInv(p)'
      <3>1. CASE index[p] \in occupied
        <4>1. pc'[p] = "freeClear" /\ index' = index /\ byte'[p] = occupied \cap ByteOf(index[p])
          BY <1>2, <3>1
        <4> QED
          BY <4>1, <3>1, <2>1 DEF SearchInv
      <3>2. CASE index[p] \notin occupied
        <4>1. pc'[p] = "free"
          BY <1>2, <3>2
        <4> QED
          BY <4>1 DEF SearchInv
      <3> QED
        BY <3>1, <3>2
    <2> QED
      BY <1>4, <1>5, <1>8, <2>1, <2>2, SoloSearch
  <1>11. CASE FreeClear(p)
    <2> USE <1>11 DEF FreeClear
    <2>1. /\ pc[p] = "freeClear" /\ pc'[p] = "freeFree" /\ index' = index
          /\ lastDeepFragmented' = lastDeepFragmented
      BY <1>2
    <2>2. byte[p] = occupied \cap ByteOf(index[p]) /\ index[p] \in Bits
      BY <1>6, <1>7, <2>1 DEF SearchInv
    <2>3. occupied' = occupied \ {index[p]}
      BY <2>2, StoreOfLoaded
    <2>4. Exempt(p)' = {index[p]}
      BY <2>1, <1>1 DEF Exempt
    <2>5. SearchInv(p)'
      BY <2>1 DEF SearchInv
    <2> QED
      BY <1>4, <1>5, <1>8, <2>1, <2>3, <2>4, <2>5, SoloSearch
  <1>12. CASE FreeFree(p) \/ FreeUsed(p)
    <2> USE <1>12 DEF FreeFree, FreeUsed, bitmap
    <2>1. /\ pc[p] \in {"freeFree", "freeUsed"} /\ pc'[p] \in {"freeUsed", "freeHint"}
          /\ index' = index /\ occupied' = occupied /\ lastDeepFragmented' = lastDeepFragmented
      BY <1>2
    <2>2. Exempt(p)' = {index[p]}
      BY <2>1, <1>1 DEF Exempt
    <2>3. SearchInv(p)'
      BY <2>1 DEF SearchInv
    <2> QED
      BY <1>4, <1>5, <1>9, <2>1, <2>2, <2>3, SoloSearch
  <1>13. CASE FreeHint(p)
    <2> USE <1>13 DEF FreeHint, NextPage
    <2>1. /\ pc[p] = "freeHint" /\ pc'[p] = "free" /\ occupied' = occupied
          /\ lastDeepFragmented' = LowerHint(p)
      BY <1>2
    <2>2. lastDeepFragmented' <= lastDeepFragmented /\ lastDeepFragmented' <= index[p]
          /\ lastDeepFragmented' \in Int
      BY <2>1, <1>1 DEF LowerHint
    <2>3. \A i \in Bits : i < lastDeepFragmented' => i < lastDeepFragmented /\ i # index[p]
      BY <2>2, <1>1
    <2>4. SearchInv(p)'
      BY <2>1 DEF SearchInv
    <2> QED
      BY <1>4, <1>5, <1>9, <2>1, <2>3, <2>4, SoloSearch
  <1>14. CASE FreeReturn(p)
    <2> USE <1>14 DEF FreeReturn, Leave, bitmap
    <2>1. /\ pc[p] = "free" /\ pc'[p] = "idle" /\ occupied' = occupied
          /\ lastDeepFragmented' = lastDeepFragmented
      BY <1>2
    <2>2. SearchInv(p)'
      BY <2>1 DEF SearchInv
    <2> QED
      BY <1>4, <1>5, <1>8, <2>1, <2>2, SoloSearch
  <1> QED
    BY <1>10, <1>11, <1>12, <1>13, <1>14 DEF Freeing

-----------------------------------------------------------------------------
(* Arithmetic modulo the width of a size_t. *)

\* A remainder is determined by its multiple.
LEMMA RemainderIsUnique ==
    ASSUME NEW W \in Nat \ {0}, NEW k \in Int, NEW b \in 0 .. W - 1, NEW d \in 0 .. W - 1,
           W * k = d - b
    PROVE  b = d
  <1>1. k >= 1 => W * k >= W
    OBVIOUS
  <1>2. k <= -1 => W * k <= -W
    OBVIOUS
  <1>3. k = 0 => W * k = 0
    OBVIOUS
  <1> QED
    BY <1>1, <1>2, <1>3

\* What a multiple of the width adds is not seen.
LEMMA MultiplesVanish ==
    ASSUME NEW W \in Nat \ {0}, NEW y \in Int, NEW q \in Int
    PROVE  (y + W * q) % W = y % W
  <1> DEFINE a == y \div W
             b == y % W
             c == (y + W * q) \div W
             d == (y + W * q) % W
  <1>1. a \in Int /\ b \in 0 .. W - 1 /\ y = W * a + b
    OBVIOUS
  <1>2. W * q \in Int
    OBVIOUS
  <1>3. c \in Int /\ d \in 0 .. W - 1 /\ y + W * q = W * c + d
    BY <1>2
  <1> HIDE DEF a, b, c, d
  <1>4. W * (a + q - c) = d - b
    BY <1>1, <1>3
  <1>5. b = d
    BY <1>1, <1>3, <1>4, RemainderIsUnique
  <1> QED
    BY <1>5 DEF b, d

\* Taking the remainder before adding makes no difference to the remainder.
LEMMA RemainderOfSum ==
    ASSUME NEW W \in Nat \ {0}, NEW x \in Int, NEW n \in Int
    PROVE  x % W \in 0 .. W - 1 /\ ((x % W) + n) % W = (x + n) % W
  <1> DEFINE q == x \div W
             r == x % W
  <1>1. q \in Int /\ r \in 0 .. W - 1 /\ x = W * q + r
    OBVIOUS
  <1> HIDE DEF q, r
  <1>2. r + n \in Int /\ x + n = (r + n) + W * q
    BY <1>1
  <1>3. ((r + n) + W * q) % W = (r + n) % W
    BY <1>1, <1>2, MultiplesVanish
  <1> QED
    BY <1>1, <1>2, <1>3 DEF r

\* Counting n pages more keeps freeMemory in step with a number of pages
\* taken that grows by n, ...
LEMMA FreeFollows ==
    ASSUME NEW free \in Int, NEW taken \in Int, NEW n \in Int, free = Sub(mmTotal, taken)
    PROVE  Sub(free, n) = Sub(mmTotal, taken + n)
  <1> DEFINE W == WordSize
             left == mmTotal - taken
  <1>1. /\ W \in Nat \ {0} /\ left \in Int /\ -n \in Int /\ free = left % W
        /\ free - n = free + (-n) /\ mmTotal - (taken + n) = left + (-n)
    BY ProcsAssumption, MemMapAssumption DEF Sub
  <1> HIDE DEF W, left
  <1>2. ((left % W) + (-n)) % W = (left + (-n)) % W
    BY <1>1, RemainderOfSum
  <1> QED
    BY <1>1, <1>2 DEF Sub, W

\* ... counting n pages less with one that shrinks by n, ...
LEMMA FreeFollowsDown ==
    ASSUME NEW free \in Int, NEW taken \in Int, NEW n \in Int, free = Sub(mmTotal, taken)
    PROVE  Add(free, n) = Sub(mmTotal, taken - n)
  <1>1. -n \in Int /\ free - (-n) = free + n /\ taken + (-n) = taken - n
    OBVIOUS
  <1>2. Sub(free, -n) = Sub(mmTotal, taken + (-n))
    BY <1>1, FreeFollows
  <1> QED
    BY <1>1, <1>2 DEF Add, Sub

\* ... and the sum of the two other counters as well, whichever of them counts.
LEMMA UsedFollows ==
    ASSUME NEW used \in Int, NEW reserved \in Int, NEW taken \in Int, NEW n \in Int,
           Add(used, reserved) = taken % WordSize
    PROVE  /\ Add(Add(used, n), reserved) = (taken + n) % WordSize
           /\ Add(used, Add(reserved, n)) = (taken + n) % WordSize
  <1> DEFINE W == WordSize
             both == used + reserved
  <1>1. W \in Nat \ {0} /\ both \in Int /\ both % W = taken % W
    BY ProcsAssumption DEF Add
  <1>2. /\ used + n \in Int /\ reserved + n \in Int
        /\ used + n + reserved = both + n /\ reserved + n + used = both + n
    OBVIOUS
  <1> HIDE DEF W, both
  <1>3. (((used + n) % W) + reserved) % W = (used + n + reserved) % W
    BY <1>1, <1>2, RemainderOfSum
  <1>4. (((reserved + n) % W) + used) % W = (reserved + n + used) % W
    BY <1>1, <1>2, RemainderOfSum
  <1>5. (both + n) % W = (taken + n) % W
    <2>1. ((both % W) + n) % W = (both + n) % W
      BY <1>1, RemainderOfSum
    <2>2. ((taken % W) + n) % W = (taken + n) % W
      BY <1>1, RemainderOfSum
    <2> QED
      BY <1>1, <2>1, <2>2
  <1>6. (reserved + n) % W \in Int
    BY <1>1, <1>2, RemainderOfSum
  <1>7. used + ((reserved + n) % W) = ((reserved + n) % W) + used
    BY <1>6
  <1> QED
    BY <1>2, <1>3, <1>4, <1>5, <1>7 DEF Add, W

\* The same for a page less.
LEMMA UsedFollowsDown ==
    ASSUME NEW used \in Int, NEW reserved \in Int, NEW taken \in Int, NEW n \in Int,
           Add(used, reserved) = taken % WordSize
    PROVE  /\ Add(Sub(used, n), reserved) = (taken - n) % WordSize
           /\ Add(used, Sub(reserved, n)) = (taken - n) % WordSize
  <1>1. /\ -n \in Int /\ taken - n = taken + (-n)
        /\ used - n = used + (-n) /\ reserved - n = reserved + (-n)
    OBVIOUS
  <1>2. Sub(used, n) = Add(used, -n) /\ Sub(reserved, n) = Add(reserved, -n)
    BY <1>1 DEF Add, Sub
  <1>3. ASSUME NEW m \in Int
        PROVE  /\ Add(Add(used, m), reserved) = (taken + m) % WordSize
               /\ Add(used, Add(reserved, m)) = (taken + m) % WordSize
    BY <1>3, UsedFollows
  <1> QED
    BY <1>1, <1>2, <1>3

\* The boot leaves the counters in step with the bitmap.
LEMMA BootedCounters ==
    LET taken == Cardinality(Booted.occupied)
    IN  /\ Booted.free = Sub(mmTotal, taken)
        /\ Add(Booted.used, Booted.reserved) = taken % WordSize
  <1> DEFINE State == [occupied : SUBSET (0 .. mmTotal), free : 0 .. WordSize - 1,
                       used : 0 .. WordSize - 1, reserved : 0 .. WordSize - 1]
             InStep(s) == /\ s.free = Sub(mmTotal, Cardinality(s.occupied))
                          /\ Add(s.used, s.reserved) = Cardinality(s.occupied) % WordSize
  <1>1. ASSUME NEW S \in SUBSET (0 .. mmTotal), NEW P \in SUBSET (0 .. mmTotal)
        PROVE  /\ Cardinality(S) \in Nat
               /\ Cardinality(P \ S) \in Nat /\ Cardinality(P \cap S) \in Nat
               /\ Cardinality(S \cup P) = Cardinality(S) + Cardinality(P \ S)
               /\ Cardinality(S \ P) = Cardinality(S) - Cardinality(P \cap S)
    <2>1. ASSUME NEW T \in SUBSET (0 .. mmTotal) PROVE IsFiniteSet(T) /\ Cardinality(T) \in Nat
      <3>1. IsFiniteSet(0 .. mmTotal)
        BY FS_Interval, MemMapAssumption
      <3> QED
        BY <2>1, <3>1, FS_Subset, FS_CardinalityType
    <2>2. ASSUME NEW T \in SUBSET (0 .. mmTotal), NEW U \in SUBSET (0 .. mmTotal), T \cap U = {}
          PROVE  Cardinality(T \cup U) = Cardinality(T) + Cardinality(U)
      <3>1. Cardinality(T \cup U) = Cardinality(T) + Cardinality(U) - Cardinality(T \cap U)
        BY <2>1, FS_Union
      <3>2. Cardinality(T \cap U) = 0
        BY <2>2, FS_EmptySet
      <3>3. Cardinality(T) \in Nat /\ Cardinality(U) \in Nat
        BY <2>1
      <3> QED
        BY <3>1, <3>2, <3>3
    <2>3. Cardinality(S \cup (P \ S)) = Cardinality(S) + Cardinality(P \ S)
      BY <2>2
    <2>4. Cardinality((S \ P) \cup (P \cap S)) = Cardinality(S \ P) + Cardinality(P \cap S)
      BY <2>2
    <2>5. S \cup (P \ S) = S \cup P /\ (S \ P) \cup (P \cap S) = S
      OBVIOUS
    <2>6. /\ Cardinality(S) \in Nat /\ Cardinality(P \ S) \in Nat /\ Cardinality(P \cap S) \in Nat
          /\ Cardinality(S \ P) \in Nat
      BY <2>1
    <2>7. /\ Cardinality(S \cup P) = Cardinality(S) + Cardinality(P \ S)
          /\ Cardinality(S) = Cardinality(S \ P) + Cardinality(P \cap S)
      BY <2>3, <2>4, <2>5
    <2> QED
      BY <2>6, <2>7
  <1>2. ASSUME NEW s \in State, InStep(s), NEW P \in SUBSET (0 .. mmTotal)
        PROVE  /\ Reserve(s, P) \in State /\ InStep(Reserve(s, P))
               /\ Unreserve(s, P) \in State /\ InStep(Unreserve(s, P))
               /\ Lock(s, P) \in State /\ InStep(Lock(s, P))
    <2> DEFINE S     == s.occupied
               taken == Cardinality(S)
               more  == Cardinality(P \ S)
               less  == Cardinality(P \cap S)
    <2>1. /\ S \in SUBSET (0 .. mmTotal) /\ s.free \in 0 .. WordSize - 1
          /\ s.used \in 0 .. WordSize - 1 /\ s.reserved \in 0 .. WordSize - 1
      OBVIOUS
    <2>2. /\ taken \in Int /\ more \in Int /\ less \in Int
          /\ Cardinality(S \cup P) = taken + more /\ Cardinality(S \ P) = taken - less
      <3> HIDE DEF S
      <3>1. /\ Cardinality(S) \in Nat
            /\ Cardinality(P \ S) \in Nat /\ Cardinality(P \cap S) \in Nat
            /\ Cardinality(S \cup P) = Cardinality(S) + Cardinality(P \ S)
            /\ Cardinality(S \ P) = Cardinality(S) - Cardinality(P \cap S)
        BY <1>1, <2>1
      <3> QED
        BY <3>1
    <2>3. s.free = Sub(mmTotal, taken) /\ Add(s.used, s.reserved) = taken % WordSize
      BY <1>2
    <2>4. ASSUME NEW x \in 0 .. WordSize - 1, NEW n \in Int
          PROVE  Add(x, n) \in 0 .. WordSize - 1 /\ Sub(x, n) \in 0 .. WordSize - 1
      <3>1. x \in Int
        BY ProcsAssumption
      <3> QED
        BY <3>1, WordArithmetic
    <2>5. /\ Sub(s.free, more) = Sub(mmTotal, taken + more) /\ Add(s.free, less) = Sub(mmTotal, taken - less)
          /\ Add(s.used, Add(s.reserved, more)) = (taken + more) % WordSize
          /\ Add(s.used, Sub(s.reserved, less)) = (taken - less) % WordSize
          /\ Add(Add(s.used, more), s.reserved) = (taken + more) % WordSize
      <3> DEFINE f == s.free
                 u == s.used
                 r == s.reserved
      <3>0. /\ f \in Int /\ u \in Int /\ r \in Int
            /\ f = Sub(mmTotal, taken) /\ Add(u, r) = taken % WordSize
            /\ taken \in Int /\ more \in Int /\ less \in Int
        BY <2>1, <2>2, <2>3, ProcsAssumption
      <3> HIDE DEF State, InStep, S, taken, more, less, f, u, r
      <3>1. Sub(f, more) = Sub(mmTotal, taken + more)
        BY <3>0, FreeFollows
      <3>2. Add(Add(u, more), r) = (taken + more) % WordSize
            /\ Add(u, Add(r, more)) = (taken + more) % WordSize
        BY <3>0, UsedFollows
      <3>4. Add(f, less) = Sub(mmTotal, taken - less)
        BY <3>0, FreeFollowsDown
      <3>5. Add(u, Sub(r, less)) = (taken - less) % WordSize
        BY <3>0, UsedFollowsDown
      <3> QED
        BY <3>1, <3>2, <3>4, <3>5 DEF f, u, r
    <2>6. S \cup P \in SUBSET (0 .. mmTotal) /\ S \ P \in SUBSET (0 .. mmTotal)
      BY <2>1
    <2>7. Reserve(s, P) \in State /\ InStep(Reserve(s, P))
      <3>1. Reserve(s, P) = [s EXCEPT !.occupied = @ \cup P, !.free = Sub(@, more), !.reserved = Add(@, more)]
        BY DEF Reserve
      <3> HIDE DEF taken, more, less
      <3>2. /\ Reserve(s, P).occupied = S \cup P /\ Reserve(s, P).free = Sub(s.free, more)
            /\ Reserve(s, P).used = s.used /\ Reserve(s, P).reserved = Add(s.reserved, more)
        BY <3>1
      <3>3. Reserve(s, P) \in State
        BY <2>1, <2>2, <2>4, <2>6, <3>1
      <3>4. InStep(Reserve(s, P))
        BY <2>2, <2>3, <2>5, <3>2
      <3> QED
        BY <3>3, <3>4
    <2>8. Unreserve(s, P) \in State /\ InStep(Unreserve(s, P))
      <3>1. Unreserve(s, P) = [s EXCEPT !.occupied = @ \ P, !.free = Add(@, less), !.reserved = Sub(@, less)]
        BY DEF Unreserve
      <3> HIDE DEF taken, more, less
      <3>2. /\ Unreserve(s, P).occupied = S \ P /\ Unreserve(s, P).free = Add(s.free, less)
            /\ Unreserve(s, P).used = s.used /\ Unreserve(s, P).reserved = Sub(s.reserved, less)
        BY <3>1
      <3>3. Unreserve(s, P) \in State
        BY <2>1, <2>2, <2>4, <2>6, <3>1
      <3>4. InStep(Unreserve(s, P))
        BY <2>2, <2>3, <2>5, <3>2
      <3> QED
        BY <3>3, <3>4
    <2>9. Lock(s, P) \in State /\ InStep(Lock(s, P))
      <3>1. Lock(s, P) = [s EXCEPT !.occupied = @ \cup P, !.free = Sub(@, more), !.used = Add(@, more)]
        BY DEF Lock
      <3> HIDE DEF taken, more, less
      <3>2. /\ Lock(s, P).occupied = S \cup P /\ Lock(s, P).free = Sub(s.free, more)
            /\ Lock(s, P).used = Add(s.used, more) /\ Lock(s, P).reserved = s.reserved
        BY <3>1
      <3>3. Lock(s, P) \in State
        BY <2>1, <2>2, <2>4, <2>6, <3>1
      <3>4. InStep(Lock(s, P))
        BY <2>2, <2>3, <2>5, <3>2
      <3> QED
        BY <3>3, <3>4
    <2> QED
      BY <2>7, <2>8, <2>9
  <1> DEFINE empty  == [occupied |-> {}, free |-> mmTotal % WordSize, used |-> 0, reserved |-> 0]
             all    == Reserve(empty, Run(0, mmTotal + 1))
             usable == Unreserve(all, UsablePages)
             low    == Reserve(usable, Run(0, LowPages))
  <1>3. empty \in State /\ InStep(empty)
    <2>1. mmTotal % WordSize \in 0 .. WordSize - 1 /\ 0 \in 0 .. WordSize - 1
          /\ 0 % WordSize = 0 /\ mmTotal - 0 = mmTotal
      BY ProcsAssumption, MemMapAssumption
    <2> QED
      BY <2>1, FS_EmptySet DEF Sub, Add
  <1>4. /\ Run(0, mmTotal + 1) \in SUBSET (0 .. mmTotal) /\ Run(0, LowPages) \in SUBSET (0 .. mmTotal)
        /\ UsablePages \in SUBSET (0 .. mmTotal) /\ BitmapPages \in SUBSET (0 .. mmTotal)
    BY ProcsAssumption, MemMapAssumption DEF Run
  <1> HIDE DEF State, InStep, empty
  <1>5. all \in State /\ InStep(all)
    BY <1>2, <1>3, <1>4
  <1> HIDE DEF all
  <1>6. usable \in State /\ InStep(usable)
    BY <1>2, <1>4, <1>5
  <1> HIDE DEF usable
  <1>7. low \in State /\ InStep(low)
    BY <1>2, <1>4, <1>6
  <1> HIDE DEF low
  <1>8. InStep(Lock(low, BitmapPages))
    BY <1>2, <1>4, <1>7
  <1>9. Booted = Lock(low, BitmapPages)
    BY DEF Booted, all, usable, low, empty
  <1> QED
    BY <1>8, <1>9 DEF InStep

-----------------------------------------------------------------------------
(* The counters. *)

\* What the counters and the number of the pages taken are.
LEMMA CounterFacts ==
    ASSUME TypeInv
    PROVE  /\ IsFiniteSet(occupied) /\ Taken \in Int
           /\ freeMemory \in Int /\ usedMemory \in Int /\ reservedMemory \in Int
  <1>1. occupied \in SUBSET Bits /\ IsFiniteSet(Bits)
    <2>1. 0 \in Int /\ NBits - 1 \in Int /\ Bits = 0 .. NBits - 1
      BY BitmapCovers
    <2>2. IsFiniteSet(0 .. NBits - 1)
      BY <2>1, FS_Interval
    <2> QED
      BY <2>1, <2>2 DEF TypeInv, TypeOK
  <1>2. IsFiniteSet(occupied)
    BY <1>1, FS_Subset
  <1>3. Cardinality(occupied) \in Nat
    BY <1>2, FS_CardinalityType
  <1> QED
    BY <1>2, <1>3, ProcsAssumption DEF TypeInv, TypeOK, Taken

\* What a step of the only process in a call has to establish.
LEMMA SoloCounting ==
    ASSUME NEW p \in Procs, \A q \in Procs \ {p} : pc'[q] = "idle", CountersInv(p)'
    PROVE  CountingInv'
  <1> SUFFICES ASSUME NEW q \in Procs, \A r \in Procs \ {q} : pc'[r] = "idle", q # p
               PROVE  CountersInv(q)'
    BY DEF CountingInv
  <1>1. pc'[q] = "idle" /\ pc'[p] = "idle"
    OBVIOUS
  <1>2. ASSUME NEW setting, NEW clearing, "idle" \notin setting, "idle" \notin clearing
        PROVE  Uncounted(q, setting, clearing)' = Uncounted(p, setting, clearing)'
    BY <1>1, <1>2 DEF Uncounted
  <1> QED
    BY <1>1, <1>2 DEF CountersInv

\* A step that changes neither the bitmap nor a counter, and neither begins
\* nor ends the counting of a page.
LEMMA NothingCounted ==
    ASSUME NEW p \in Procs, CountersInv(p), occupied' = occupied, counters' = counters,
           pc[p] \notin {"lockFree", "lockUsed", "freeFree", "freeUsed"},
           pc'[p] \notin {"lockFree", "lockUsed", "freeFree", "freeUsed"}
    PROVE  CountersInv(p)'
  <1>1. Taken' = Taken
    BY DEF Taken
  <1>2. /\ Uncounted(p, {"lockFree"}, {"freeFree"}) = 0
        /\ Uncounted(p, {"lockFree"}, {"freeFree"})' = 0
        /\ Uncounted(p, {"lockFree", "lockUsed"}, {"freeFree", "freeUsed"}) = 0
        /\ Uncounted(p, {"lockFree", "lockUsed"}, {"freeFree", "freeUsed"})' = 0
    BY DEF Uncounted
  <1> QED
    BY <1>1, <1>2 DEF CountersInv, counters

\* A page whose bit has changed is counted twice: free, then used.
LEMMA CountingStep ==
    ASSUME TypeInv, TypeInv', SearchesInv, NEW p \in Procs, CountersInv(p),
           Allocating(p) \/ Freeing(p)
    PROVE  CountersInv(p)'
  <1> USE DEF At, Goto
  <1> DEFINE freeLag == Uncounted(p, {"lockFree"}, {"freeFree"})
             usedLag == Uncounted(p, {"lockFree", "lockUsed"}, {"freeFree", "freeUsed"})
  <1>1. p \in DOMAIN pc /\ p \in DOMAIN word
    BY DEF TypeInv, TypeOK
  <1>2. /\ IsFiniteSet(occupied) /\ Taken \in Int
        /\ freeMemory \in Int /\ usedMemory \in Int /\ reservedMemory \in Int
    BY CounterFacts
  <1>3. /\ freeMemory = Sub(mmTotal, Taken - freeLag)
        /\ Add(usedMemory, reservedMemory) = (Taken - usedLag) % WordSize
        /\ pc[p] \in {"lockFree", "freeFree"} => word[p] = freeMemory
        /\ pc[p] \in {"lockUsed", "freeUsed"} => word[p] = usedMemory
    BY DEF CountersInv
  <1>4. /\ pc[p] = "lockFree" => freeLag = 1 /\ usedLag = 1
        /\ pc[p] = "lockUsed" => freeLag = 0 /\ usedLag = 1
        /\ pc[p] = "freeFree" => freeLag = -1 /\ usedLag = -1
        /\ pc[p] = "freeUsed" => freeLag = 0 /\ usedLag = -1
        /\ pc[p] \notin {"lockFree", "lockUsed", "freeFree", "freeUsed"} => freeLag = 0 /\ usedLag = 0
    BY DEF Uncounted
  <1>5. /\ pc'[p] = "lockFree" => freeLag' = 1 /\ usedLag' = 1
        /\ pc'[p] = "lockUsed" => freeLag' = 0 /\ usedLag' = 1
        /\ pc'[p] = "freeFree" => freeLag' = -1 /\ usedLag' = -1
        /\ pc'[p] = "freeUsed" => freeLag' = 0 /\ usedLag' = -1
        /\ pc'[p] \notin {"lockFree", "lockUsed", "freeFree", "freeUsed"} => freeLag' = 0 /\ usedLag' = 0
    BY DEF Uncounted
  <1>6. SUFFICES /\ freeMemory' = Sub(mmTotal, Taken' - freeLag')
                 /\ Add(usedMemory', reservedMemory') = (Taken' - usedLag') % WordSize
                 /\ pc'[p] \in {"lockFree", "freeFree"} => word'[p] = freeMemory'
                 /\ pc'[p] \in {"lockUsed", "freeUsed"} => word'[p] = usedMemory'
    BY DEF CountersInv
  <1>7. pc[p] \in {"lockClear", "lockSet", "freeClear"} =>
          index[p] \in Bits /\ byte[p] = occupied \cap ByteOf(index[p])
    <2>1. ProcInv(p) /\ SearchInv(p) /\ index[p] \in Int /\ NBits \in Nat /\ Bits = 0 .. NBits - 1
          /\ region[p] \in Int /\ request[p] \in Nat
      BY CallFacts DEF SearchesInv
    <2> QED
      BY <2>1 DEF ProcInv, InBounds, End, SearchInv, LockStages, Locking, AllocStages, FreeStages
  <1> HIDE DEF freeLag, usedLag
  <1>8. CASE \/ Acquire(p) \/ ScanOccupied(p) \/ ScanFree(p) \/ ScanEnd(p) \/ LockInvalid(p)
             \/ LockPage(p) \/ Return(p) \/ FreePage(p) \/ FreeHint(p) \/ FreeReturn(p)
    <2>1. /\ occupied' = occupied /\ counters' = counters
          /\ pc[p] \notin {"lockFree", "lockUsed", "freeFree", "freeUsed"}
      BY <1>8 DEF Acquire, ScanOccupied, ScanFree, ScanEnd, LockInvalid, LockPage, Return, FreePage,
                  FreeHint, FreeReturn, bitmap, counters
    <2>2. pc'[p] \in {"scan", "lock", "lockClear", "idle", "free", "freeClear"}
      BY <1>1, <1>8 DEF Acquire, ScanOccupied, ScanFree, ScanEnd, LockInvalid, LockPage, Return, FreePage,
                  FreeHint, FreeReturn, NextPage, Leave
    <2>3. CountersInv(p)'
      BY <2>1, <2>2, NothingCounted
    <2> QED
      BY <2>3 DEF CountersInv, freeLag, usedLag
  <1>9. CASE LockClear(p)
    <2>1. pc[p] = "lockClear" /\ pc'[p] = "lockSet" /\ counters' = counters
      BY <1>1, <1>9 DEF LockClear, counters
    <2>2. occupied' = occupied
      <3>1. occupied' = occupied \ {index[p]} /\ index[p] \notin occupied
        BY <1>7, <1>9, <2>1, StoreOfLoaded DEF LockClear, SearchesInv, SearchInv
      <3> QED
        BY <3>1
    <2>3. CountersInv(p)'
      BY <2>1, <2>2, NothingCounted
    <2> QED
      BY <2>3 DEF CountersInv, freeLag, usedLag
  <1>10. CASE LockSet(p)
    <2>1. pc[p] = "lockSet" /\ pc'[p] = "lockFree" /\ word'[p] = freeMemory
          /\ UNCHANGED <<freeMemory, usedMemory, reservedMemory>>
      BY <1>1, <1>10 DEF LockSet, counters
    <2>2. occupied' = occupied \cup {index[p]} /\ index[p] \notin occupied
      BY <1>7, <1>10, <2>1, StoreOfLoaded DEF LockSet, SearchesInv, SearchInv
    <2>3. Taken' = Taken + 1
      BY <1>2, <2>2, FS_AddElement DEF Taken
    <2>4. Taken' - 1 = Taken /\ Taken - 0 = Taken
      BY <1>2, <2>3
    <2> QED
      BY <1>3, <1>4, <1>5, <2>1, <2>4
  <1>11. CASE LockFree(p)
    <2>1. pc[p] = "lockFree" /\ pc'[p] = "lockUsed" /\ freeMemory' = Sub(word[p], 1)
          /\ word'[p] = usedMemory /\ UNCHANGED <<occupied, usedMemory, reservedMemory>>
      BY <1>1, <1>11 DEF LockFree, bitmap
    <2>2. /\ freeMemory = Sub(mmTotal, Taken - 1) /\ Add(usedMemory, reservedMemory) = (Taken - 1) % WordSize
          /\ Taken - 1 \in Int /\ Taken' = Taken /\ 1 \in Int
      BY <1>2, <1>3, <1>4, <2>1 DEF Taken
    <2>3. Sub(freeMemory, 1) = Sub(mmTotal, (Taken - 1) + 1)
      <3> DEFINE less == Taken - 1
      <3>1. less \in Int /\ 1 \in Int /\ freeMemory = Sub(mmTotal, less)
        BY <2>2
      <3> HIDE DEF less
      <3>2. Sub(freeMemory, 1) = Sub(mmTotal, less + 1)
        BY <1>2, <3>1, FreeFollows
      <3> QED
        BY <3>2 DEF less
    <2>4. (Taken - 1) + 1 = Taken - 0
      BY <1>2
    <2> QED
      BY <1>3, <1>5, <2>1, <2>2, <2>3, <2>4
  <1>12. CASE LockUsed(p)
    <2>1. pc[p] = "lockUsed" /\ pc'[p] = "lock" /\ usedMemory' = Add(word[p], 1)
          /\ UNCHANGED <<occupied, freeMemory, reservedMemory>>
      BY <1>1, <1>12 DEF LockUsed, NextPage, bitmap
    <2>2. /\ freeMemory = Sub(mmTotal, Taken - 0) /\ Add(usedMemory, reservedMemory) = (Taken - 1) % WordSize
          /\ Taken' = Taken
      BY <1>3, <1>4, <2>1 DEF Taken
    <2>3. Add(Add(usedMemory, 1), reservedMemory) = (Taken - 0) % WordSize
      <3> DEFINE less == Taken - 1
      <3>1. less \in Int /\ less + 1 = Taken - 0 /\ 1 \in Int
        BY <1>2
      <3>2. Add(usedMemory, reservedMemory) = less % WordSize
        BY <2>2
      <3> HIDE DEF less
      <3>3. Add(Add(usedMemory, 1), reservedMemory) = (less + 1) % WordSize
        BY <1>2, <3>1, <3>2, UsedFollows
      <3> QED
        BY <3>1, <3>3
    <2> QED
      BY <1>3, <1>5, <2>1, <2>2, <2>3
  <1>13. CASE FreeClear(p)
    <2>1. pc[p] = "freeClear" /\ pc'[p] = "freeFree" /\ word'[p] = freeMemory
          /\ UNCHANGED <<freeMemory, usedMemory, reservedMemory>>
      BY <1>1, <1>13 DEF FreeClear, counters
    <2>2. occupied' = occupied \ {index[p]} /\ index[p] \in occupied
      BY <1>7, <1>13, <2>1, StoreOfLoaded DEF FreeClear, SearchesInv, SearchInv
    <2>3. Taken' = Taken - 1
      BY <1>2, <2>2, FS_RemoveElement DEF Taken
    <2>4. Taken' - (-1) = Taken /\ Taken - 0 = Taken
      BY <1>2, <2>3
    <2> QED
      BY <1>3, <1>4, <1>5, <2>1, <2>4
  <1>14. CASE FreeFree(p)
    <2>1. pc[p] = "freeFree" /\ pc'[p] = "freeUsed" /\ freeMemory' = Add(word[p], 1)
          /\ word'[p] = usedMemory /\ UNCHANGED <<occupied, usedMemory, reservedMemory>>
      BY <1>1, <1>14 DEF FreeFree, bitmap
    <2>2. /\ freeMemory = Sub(mmTotal, Taken - (-1))
          /\ Add(usedMemory, reservedMemory) = (Taken - (-1)) % WordSize /\ Taken' = Taken
      BY <1>3, <1>4, <2>1 DEF Taken
    <2>3. Add(freeMemory, 1) = Sub(mmTotal, Taken - 0)
      <3> DEFINE more == Taken - (-1)
      <3>1. more \in Int /\ more - 1 = Taken - 0 /\ 1 \in Int
        BY <1>2
      <3>2. freeMemory = Sub(mmTotal, more)
        BY <2>2
      <3> HIDE DEF more
      <3>3. Add(freeMemory, 1) = Sub(mmTotal, more - 1)
        BY <1>2, <3>1, <3>2, FreeFollowsDown
      <3> QED
        BY <3>1, <3>3
    <2> QED
      BY <1>3, <1>5, <2>1, <2>2, <2>3
  <1>15. CASE FreeUsed(p)
    <2>1. pc[p] = "freeUsed" /\ pc'[p] = "freeHint" /\ usedMemory' = Sub(word[p], 1)
          /\ UNCHANGED <<occupied, freeMemory, reservedMemory>>
      BY <1>1, <1>15 DEF FreeUsed, bitmap
    <2>2. /\ freeMemory = Sub(mmTotal, Taken - 0) /\ Taken' = Taken
          /\ Add(usedMemory, reservedMemory) = (Taken - (-1)) % WordSize
      BY <1>3, <1>4, <2>1 DEF Taken
    <2>3. Add(Sub(usedMemory, 1), reservedMemory) = (Taken - 0) % WordSize
      <3> DEFINE more == Taken - (-1)
      <3>1. more \in Int /\ more - 1 = Taken - 0 /\ 1 \in Int
        BY <1>2
      <3>2. Add(usedMemory, reservedMemory) = more % WordSize
        BY <2>2
      <3> HIDE DEF more
      <3>3. Add(Sub(usedMemory, 1), reservedMemory) = (more - 1) % WordSize
        BY <1>2, <3>1, <3>2, UsedFollowsDown
      <3> QED
        BY <3>1, <3>3
    <2> QED
      BY <1>3, <1>5, <2>1, <2>2, <2>3
  <1> QED
    BY <1>8, <1>9, <1>10, <1>11, <1>12, <1>13, <1>14, <1>15 DEF Allocating, Freeing

-----------------------------------------------------------------------------
(* The invariant and what follows from it. *)

Inv == SearchesInv /\ CountingInv

\* The boot leaves the hint at 0 and the counters in step.
LEMMA SeqInit == Init => Inv
  <1> SUFFICES ASSUME Init PROVE Inv
    OBVIOUS
  <1>1. \A p \in Procs : pc[p] = "idle"
    BY DEF Init
  <1>2. lastDeepFragmented = 0 /\ \A i \in Bits : ~ (i < 0)
    BY BitmapCovers DEF Init
  <1>3. SearchesInv
    BY <1>1, <1>2 DEF SearchesInv, HintInv, SearchInv
  <1>4. ASSUME NEW p \in Procs PROVE CountersInv(p)
    <2>1. /\ Uncounted(p, {"lockFree"}, {"freeFree"}) = 0
          /\ Uncounted(p, {"lockFree", "lockUsed"}, {"freeFree", "freeUsed"}) = 0
      BY <1>1 DEF Uncounted
    <2>2. freeMemory = Sub(mmTotal, Taken) /\ Add(usedMemory, reservedMemory) = Taken % WordSize
      BY BootedCounters DEF Init, Taken
    <2>3. Taken - 0 = Taken
      BY TypeInvInit, CounterFacts
    <2> QED
      BY <1>1, <2>1, <2>2, <2>3 DEF CountersInv
  <1> QED
    BY <1>3, <1>4 DEF Inv, CountingInv

\* A call begins with the hint and the counters as the last one left them.
LEMMA CallSteps ==
    ASSUME TypeInv, OneCallAtATime, OneCallAtATime', Inv, Call
    PROVE  Inv'
  <1> USE DEF At, Goto
  <1>1. PICK p \in Procs : (\E n \in Sizes : CallAllocate(p, n))
                          \/ (\E start \in Bits, n \in Sizes : CallFree(p, start, n))
    BY ProcsAssumption DEF Call, Procs
  <1>2. pc[p] = "idle" /\ pc'[p] \in {"spin", "free"} /\ \A q \in Procs \ {p} : pc'[q] = pc[q]
    BY <1>1 DEF CallAllocate, CallFree, TypeInv, TypeOK
  <1>3. \A q \in Procs \ {p} : pc[q] = "idle" /\ pc'[q] = "idle"
    BY <1>2, Solo
  <1>4. occupied' = occupied /\ lastDeepFragmented' = lastDeepFragmented /\ counters' = counters
    BY <1>1 DEF CallAllocate, CallFree, bitmap, counters
  <1>5. Exempt(p) = {}
    BY <1>2 DEF Exempt, LockStages, Locking, AllocStages
  <1>6. \A i \in Bits : i < lastDeepFragmented' => i \in occupied'
    BY <1>3, <1>4, <1>5, SoloHint DEF Inv, SearchesInv
  <1>7. SearchInv(p)'
    BY <1>2 DEF SearchInv
  <1>8. SearchesInv'
    BY <1>3, <1>6, <1>7, SoloSearch
  <1>9. CountersInv(p)
    BY <1>3 DEF Inv, CountingInv
  <1>10. CountersInv(p)'
    BY <1>2, <1>4, <1>9, NothingCounted
  <1> QED
    BY <1>3, <1>8, <1>10, SoloCounting DEF Inv

\* While calls do not overlap, every step keeps the invariant.
LEMMA SeqInductive ==
    TypeInv /\ TypeInv' /\ OneCallAtATime /\ OneCallAtATime' /\ Inv /\ [Next]_vars => Inv'
  <1> SUFFICES ASSUME TypeInv, TypeInv', OneCallAtATime, OneCallAtATime', Inv, [Next]_vars
               PROVE  Inv'
    OBVIOUS
  <1>1. CASE Call
    BY <1>1, CallSteps
  <1>2. ASSUME NEW p \in Procs, (p \in Tasks /\ Allocating(p)) \/ Freeing(p) PROVE Inv'
    <2>1. SearchesInv'
      <3>1. CASE Freeing(p)
        BY <3>1, FreeStep DEF Inv
      <3>2. CASE p \in Tasks /\ Allocating(p)
        BY <3>2, ScanStep, LockStep DEF Allocating, Inv
      <3> QED
        BY <1>2, <3>1, <3>2
    <2>2. pc[p] # "idle" /\ \A q \in Procs \ {p} : pc'[q] = pc[q]
      <3>1. ASSUME NEW stage, pc' = [pc EXCEPT ![p] = stage]
            PROVE  \A q \in Procs \ {p} : pc'[q] = pc[q]
        BY <3>1 DEF TypeInv, TypeOK
      <3>2. (\E stage : pc' = [pc EXCEPT ![p] = stage]) \/ pc' = pc
        BY <1>2 DEF Goto, Allocating, Acquire, ScanOccupied, ScanFree, ScanEnd, LockInvalid, LockPage,
                    LockClear, LockSet, LockFree, LockUsed, Return, Freeing, FreePage, FreeClear,
                    FreeFree, FreeUsed, FreeHint, FreeReturn, NextPage, Leave
      <3>3. pc[p] # "idle"
        BY <1>2 DEF At, Allocating, Acquire, ScanOccupied, ScanFree, ScanEnd, LockInvalid, LockPage,
                    LockClear, LockSet, LockFree, LockUsed, Return, Freeing, FreePage, FreeClear,
                    FreeFree, FreeUsed, FreeHint, FreeReturn
      <3> QED
        BY <3>1, <3>2, <3>3
    <2>3. \A q \in Procs \ {p} : pc[q] = "idle" /\ pc'[q] = "idle"
      BY <2>2, Solo
    <2>4. CountersInv(p)'
      BY <1>2, <2>3, CountingStep DEF Inv, CountingInv
    <2> QED
      BY <2>1, <2>3, <2>4, SoloCounting DEF Inv
  <1>3. CASE UNCHANGED vars
    <2>1. /\ UNCHANGED <<occupied, lastDeepFragmented, freeMemory, usedMemory, reservedMemory>>
          /\ UNCHANGED <<pc, request, region, index, byte, word>>
      BY <1>3 DEF vars, bitmap, counters
    <2>2. SearchesInv'
      BY <2>1 DEF Inv, SearchesInv, HintInv, SearchInv, Exempt, Pending, Done, End, NoRun, NoRunBefore
    <2>3. CountingInv'
      BY <2>1 DEF Inv, CountingInv, CountersInv, Uncounted, Taken
    <2> QED
      BY <2>2, <2>3 DEF Inv
  <1> QED
    BY <1>1, <1>2, <1>3, ProcsAssumption DEF Next, Procs

\* What the invariant says between calls, and when a call gives up.
LEMMA SeqImplies ==
    TypeInv /\ Inv => HintSoundWhenQuiet /\ CountersAgreeWhenQuiet /\ GivesUpOnlyWhenFull
  <1> SUFFICES ASSUME TypeInv, Inv
               PROVE  HintSoundWhenQuiet /\ CountersAgreeWhenQuiet /\ GivesUpOnlyWhenFull
    OBVIOUS
  <1>1. HintSoundWhenQuiet
    BY DEF HintSoundWhenQuiet, Quiet, Inv, SearchesInv, HintInv, Exempt, LockStages, Locking, AllocStages
  <1>2. CountersAgreeWhenQuiet
    <2> SUFFICES ASSUME Quiet
                 PROVE  Add(usedMemory, reservedMemory) = Taken % WordSize /\ freeMemory = Sub(mmTotal, Taken)
      BY DEF CountersAgreeWhenQuiet, Taken
    <2>1. Irq \in Procs /\ \A p \in Procs : pc[p] = "idle"
      BY DEF Procs, Quiet
    <2>2. CountersInv(Irq)
      BY <2>1 DEF Inv, CountingInv
    <2>3. /\ Uncounted(Irq, {"lockFree"}, {"freeFree"}) = 0
          /\ Uncounted(Irq, {"lockFree", "lockUsed"}, {"freeFree", "freeUsed"}) = 0
      BY <2>1 DEF Uncounted
    <2>4. Taken - 0 = Taken
      BY CounterFacts
    <2> QED
      BY <2>2, <2>3, <2>4 DEF CountersInv
  <1>3. GivesUpOnlyWhenFull
    BY DEF GivesUpOnlyWhenFull, Inv, SearchesInv, SearchInv, NoRun, Procs
  <1> QED
    BY <1>1, <1>2, <1>3

LEMMA SeqAlways ==
    Spec /\ []OneCallAtATime => [](TypeInv /\ Inv)
  BY TypeInvInit, TypeInvStep, SeqInit, SeqInductive, PTL DEF Spec

\* While calls do not overlap, pmm_FindFreeRegion never starts above a free page.
THEOREM HintIsSound ==
    Spec /\ []OneCallAtATime => []HintSoundWhenQuiet
  BY SeqAlways, SeqImplies, PTL

\* While calls do not overlap, usedMemory, reservedMemory and freeMemory say how
\* many bits of the bitmap are set.
THEOREM CountersAgree ==
    Spec /\ []OneCallAtATime => []CountersAgreeWhenQuiet
  BY SeqAlways, SeqImplies, PTL

\* While calls do not overlap, pmm_AllocatePages fails only when there is no run
\* of free pages as long as the one it was asked for.
THEOREM GivingUpIsRight ==
    Spec /\ []OneCallAtATime => []GivesUpOnlyWhenFull
  BY SeqAlways, SeqImplies, PTL
=============================================================================
