----------------------------- MODULE Heap_proofs -----------------------------
(***************************************************************************)
(* Theorems about Heap for any number and sizes of requests and blocks,    *)
(* any pages that others take between expansions, and both element sizes:  *)
(* nodes, blocks in use and the linked list agree until an event writes    *)
(* over a header or an element.                                            *)
(***************************************************************************)
EXTENDS Heap, Sequences, Induction, FiniteSetTheorems

-----------------------------------------------------------------------------
(* The inductive invariant. *)

Pointers == Units \cup {NULL}

NodeEnd(m, n) == n + Header + m[n].size

\* What is between n and next is no node of N.
IsNext(N, n, next) == next \in N /\ n < next /\ \A k \in N : k <= n \/ next <= k

\* The nodes N of memory m follow each other, in the order of the list, up to `end`.
InOrder(m, last, end, N) ==
    /\ N \subseteq Units /\ heapStart \in N /\ last \in N
    /\ \A n \in N : /\ NodeIn(m, n) /\ m[n].size \in Nat /\ m[n].free \in BOOLEAN
                    /\ NodeEnd(m, n) <= end /\ n <= last
    /\ \A k, n \in N : k < n => NodeEnd(m, k) <= n
    /\ \A n \in N \ {last} : IsNext(N, n, m[n + 1].next)
    /\ m[last + 1].next = NULL

\* The blocks in use are behind their nodes and end before the next one.
BlocksIn(m, h, N) ==
    /\ DOMAIN h \subseteq Units
    /\ \A b \in DOMAIN h :
         /\ b - Header \in N /\ ~m[b - Header].free
         /\ Asked(h[b]) \in Nat \ {0}
         /\ \A n \in N : b <= n => b + Asked(h[b]) <= n
    /\ \A n \in N : n + Header \in DOMAIN h \/ m[n].free \/ m[n].size = 0

\* The elements s of the list, in its order, which starts at f.
Listed(m, f, h, s) ==
    /\ s \in Seq(Units)
    /\ \A i, j \in 1 .. Len(s) : s[i] = s[j] => i = j
    /\ \A i \in 1 .. Len(s) : /\ s[i] \in DOMAIN h /\ h[s[i]].what = "list"
                              /\ m[s[i]].kind = "element"
                              /\ m[s[i]].next = IF i = Len(s) THEN NULL ELSE s[i + 1]
    /\ \A b \in DOMAIN h : h[b].what = "list" => \E i \in 1 .. Len(s) : s[i] = b
    /\ f = IF s = <<>> THEN NULL ELSE s[1]

MemOK(m) ==
    /\ DOMAIN m = Units
    /\ \A u \in Units : m[u].kind \in {"links", "element"} => m[u].next \in Pointers

\* The size of a node made by an expansion counts the node's own header.
heapEnd == top * PageUnits + Header

CallOK ==
    /\ call = [what |-> call.what, size |-> call.size, node |-> call.node]
    /\ call.what \in {"none", "malloc", "list"}
    /\ call.what # "none" => call.size \in Nat \ {0}
    /\ call.what = "list" => call.size \in 1 .. 2

\* Walks have passed no node that would do.
CallInv(N) ==
    /\ CallOK
    /\ call.what # "none" =>
         /\ call.node \in N
         /\ \A n \in N : n < call.node => ~Fits(n, MallocSize)

CountInv ==
    /\ IsFiniteSet(DOMAIN held) /\ Cardinality(DOMAIN held) <= MaxHeld
    /\ call.what # "none" => Cardinality(DOMAIN held) < MaxHeld

PagesInv ==
    /\ top \in FirstPages .. Pages
    /\ owned \subseteq 0 .. (top - 1)
    /\ outcome \in {"ok", "wild", "out of memory"}

\* What holds before a header or an element is written over ...
Shape ==
    /\ MemOK(mem)
    /\ PagesInv
    /\ CountInv
    /\ \E N : InOrder(mem, lastNode, heapEnd, N) /\ BlocksIn(mem, held, N) /\ CallInv(N)
    /\ \E s : Listed(mem, first, held, s)

\* ... and what always does.
PlainInv ==
    /\ DOMAIN mem = Units
    /\ PagesInv
    /\ CallOK
    /\ damaged \in BOOLEAN

IInv == PlainInv /\ (damaged \/ Shape)

-----------------------------------------------------------------------------
(* Numbers. *)

LastUnit == (Pages + 1) * PageUnits

LEMMA UnitsFit ==
    /\ LastUnit \in Nat /\ Units = 0 .. LastUnit
    /\ SizeMod \in Nat /\ LastUnit < SizeMod
    /\ NULL \notin Units /\ MaxHeld \in Nat /\ Header = 2
  BY SizesAssumption DEF LastUnit, Units, Header

\* The heap and the header behind it are in memory.
LEMMA HeapFits ==
    ASSUME NEW t \in FirstPages .. Pages
    PROVE  t * PageUnits \in Nat /\ t * PageUnits + Header < LastUnit
  <1> DEFINE P == Pages * PageUnits
             T == t * PageUnits
  <1>1. /\ PageUnits \in Nat /\ PageUnits > Header /\ Header = 2
        /\ Pages \in Nat /\ FirstPages \in Nat /\ t \in Nat /\ t <= Pages
    BY SizesAssumption DEF Header
  <1>2. P \in Nat /\ T \in Nat /\ T <= P /\ LastUnit = P + PageUnits
    BY <1>1 DEF LastUnit
  <1> HIDE DEF P, T
  <1>3. T + Header < LastUnit
    BY <1>1, <1>2
  <1> QED
    BY <1>2, <1>3 DEF T

LEMMA HeapEndFits ==
    ASSUME PagesInv
    PROVE  heapEnd \in Nat /\ heapEnd < LastUnit
  <1> DEFINE T == top * PageUnits
  <1>0. top \in FirstPages .. Pages
    BY DEF PagesInv
  <1>1. T \in Nat /\ T + Header < LastUnit
    BY <1>0, HeapFits
  <1>2. heapEnd = T + Header
    BY DEF heapEnd
  <1> HIDE DEF T
  <1> QED
    BY <1>1, <1>2, UnitsFit

LEMMA AskedIs ==
    ASSUME CallOK, call.what # "none"
    PROVE  /\ MallocSize \in Nat \ {0} /\ MallocSize <= call.size /\ call.size \in Nat \ {0}
           /\ call.what = "malloc" => MallocSize = call.size
           /\ call.what = "list" => MallocSize = 1
  BY DEF CallOK, MallocSize, Asked

-----------------------------------------------------------------------------
(* Nodes that follow each other. *)

LEMMA OrderFacts ==
    ASSUME NEW m, NEW last, NEW end \in Nat, NEW N, InOrder(m, last, end, N)
    PROVE  /\ \A n \in N : /\ n \in Nat /\ m[n].size \in Nat /\ NodeEnd(m, n) \in Nat
                           /\ n + Header <= NodeEnd(m, n) /\ NodeEnd(m, n) <= end
                           /\ n <= last
           /\ last \in N
  BY UnitsFit DEF InOrder, NodeEnd

\* A node's header, as far as the list sees it.
HeadIs(m, n, size) == NodeIn(m, n) /\ m[n].size = size /\ m[n].free \in BOOLEAN

SameNode(m, m2, n) == HeadIs(m2, n, m[n].size) /\ m2[n + 1].next = m[n + 1].next

\* A node may become smaller.
SmallerNode(m, m2, n) ==
    /\ NodeIn(m2, n) /\ m2[n].free \in BOOLEAN
    /\ m2[n].size \in Nat /\ m2[n].size <= m[n].size
    /\ m2[n + 1].next = m[n + 1].next

LEMMA MarkedOrder ==
    ASSUME NEW m, NEW last, NEW end \in Nat, NEW N, InOrder(m, last, end, N),
           NEW m2, \A n \in N : SmallerNode(m, m2, n)
    PROVE  InOrder(m2, last, end, N)
  <1>1. \A k \in N : /\ k \in Nat /\ m[k].size \in Nat /\ NodeEnd(m, k) \in Nat /\ NodeEnd(m, k) <= end
    BY OrderFacts
  <1>2. \A k \in N : NodeEnd(m2, k) \in Nat /\ NodeEnd(m2, k) <= NodeEnd(m, k)
    <2>1. ASSUME NEW k \in N PROVE NodeEnd(m2, k) \in Nat /\ NodeEnd(m2, k) <= NodeEnd(m, k)
      <3>1. /\ m2[k].size \in Nat /\ m2[k].size <= m[k].size
            /\ k \in Nat /\ m[k].size \in Nat
        BY <1>1 DEF SmallerNode
      <3> QED
        BY <3>1, UnitsFit DEF NodeEnd
    <2> QED
      BY <2>1
  <1>3. \A k \in N : NodeEnd(m2, k) <= end
    BY <1>1, <1>2
  <1>4. ASSUME NEW k \in N, NEW n \in N, k < n PROVE NodeEnd(m2, k) <= n
    <2>1. NodeEnd(m, k) <= n
      BY <1>4 DEF InOrder
    <2> QED
      BY <1>1, <1>2, <2>1
  <1>5. \A k \in N : /\ NodeIn(m2, k) /\ m2[k].size \in Nat /\ m2[k].free \in BOOLEAN
                     /\ m2[k + 1].next = m[k + 1].next
    BY DEF SmallerNode
  <1> QED
    BY <1>3, <1>4, <1>5 DEF InOrder

LEMMA SameIsSmaller ==
    ASSUME NEW m, NEW m2, NEW n, m[n].size \in Nat, SameNode(m, m2, n)
    PROVE  SmallerNode(m, m2, n)
  BY DEF SameNode, HeadIs, SmallerNode

\* SplitNode
LEMMA SplitOrder ==
    ASSUME NEW m, NEW last, NEW end \in Nat, NEW N, InOrder(m, last, end, N),
           NEW n \in N, NEW size \in Nat, m[n].size >= size + Header,
           NEW rest, rest = n + Header + size,
           NEW m2, \A k \in N \ {n} : SameNode(m, m2, k),
           HeadIs(m2, n, size), m2[n + 1].next = rest,
           HeadIs(m2, rest, m[n].size - size - Header), m2[rest + 1].next = m[n + 1].next
    PROVE  InOrder(m2, IF n = last THEN rest ELSE last, end, N \cup {rest})
  <1> DEFINE N2 == N \cup {rest}
             last2 == IF n = last THEN rest ELSE last
  <1>1. \A k \in N : /\ k \in Nat /\ m[k].size \in Nat /\ NodeEnd(m, k) \in Nat
                     /\ k + Header <= NodeEnd(m, k) /\ NodeEnd(m, k) <= end
                     /\ k <= last
    BY OrderFacts
  <1>2. Header = 2
    BY UnitsFit
  <1>3. /\ rest \in Nat /\ rest + Header <= NodeEnd(m, n) /\ n < rest
        /\ NodeEnd(m2, rest) = NodeEnd(m, n) /\ NodeEnd(m2, n) = rest
    BY <1>1, <1>2 DEF HeadIs, NodeEnd
  <1>4. \A k \in N \ {n} : NodeEnd(m2, k) = NodeEnd(m, k)
    BY DEF SameNode, HeadIs, NodeEnd
  <1>5. \A k \in N : k # n => k < n \/ rest < k
    BY <1>1, <1>2, <1>3 DEF InOrder
  <1>6. /\ N2 \subseteq Units /\ heapStart \in N2 /\ last2 \in N2
        /\ \A k \in N2 : /\ NodeIn(m2, k) /\ m2[k].size \in Nat /\ m2[k].free \in BOOLEAN
                         /\ NodeEnd(m2, k) <= end
    <2>1. N2 \subseteq Units /\ heapStart \in N2 /\ last2 \in N2
      BY DEF InOrder, HeadIs, NodeIn
    <2>2. ASSUME NEW k \in N2
          PROVE  /\ NodeIn(m2, k) /\ m2[k].size \in Nat /\ m2[k].free \in BOOLEAN
                 /\ NodeEnd(m2, k) <= end
      <3>1. NodeEnd(m, n) <= end
        BY <1>1
      <3>2. CASE k = n
        <4>1. NodeEnd(m2, n) <= end
          BY <1>1, <1>2, <1>3, <3>1
        <4> QED
          BY <3>2, <4>1 DEF HeadIs
      <3>3. CASE k = rest
        <4>1. m[n].size - size - Header \in Nat
          BY <1>1, <1>2
        <4> QED
          BY <1>3, <3>1, <3>3, <4>1 DEF HeadIs
      <3>4. CASE k \in N \ {n}
        BY <1>1, <1>4, <3>4 DEF HeadIs, SameNode
      <3> QED
        BY <3>2, <3>3, <3>4
    <2> QED
      BY <2>1, <2>2
  <1>7. ASSUME NEW j \in N2, NEW k \in N2, j < k PROVE NodeEnd(m2, j) <= k
    <2>1. CASE j = rest
      BY <1>1, <1>3, <1>5, <1>7, <2>1 DEF InOrder
    <2>2. CASE j = n
      BY <1>1, <1>3, <1>5, <1>7, <2>2 DEF InOrder
    <2>3. CASE j \in N \ {n} /\ k = rest
      BY <1>1, <1>2, <1>3, <1>4, <1>5, <1>7, <2>3 DEF InOrder
    <2>4. CASE j \in N \ {n} /\ k \in N
      BY <1>1, <1>4, <1>7, <2>4 DEF InOrder
    <2> QED
      BY <2>1, <2>2, <2>3, <2>4
  <1>8. ASSUME NEW k \in N2 \ {last2}
        PROVE  IsNext(N2, k, m2[k + 1].next)
    <2>1. CASE k = n
      <3>1. \A j \in N2 : j <= n \/ rest <= j
        BY <1>1, <1>3, <1>5
      <3> QED
        BY <1>3, <2>1, <3>1 DEF IsNext
    <2>2. CASE k = rest
      <3>1. n # last /\ IsNext(N, n, m[n + 1].next)
        BY <1>8, <2>2 DEF InOrder
      <3> DEFINE next == m[n + 1].next
      <3>2. next \in N /\ n < next /\ \A j \in N : j <= n \/ next <= j
        BY <3>1 DEF IsNext
      <3>3. rest < next
        BY <1>1, <1>3, <1>5, <3>2
      <3>4. \A j \in N2 : j <= rest \/ next <= j
        BY <1>1, <1>3, <3>2
      <3> QED
        BY <2>2, <3>2, <3>3, <3>4 DEF IsNext
    <2>3. CASE k \in N \ {n, rest}
      <3>1. k # last
        BY <1>1, <1>3, <1>5, <1>8, <2>3
      <3> DEFINE next == m[k + 1].next
      <3>2. next \in N /\ k < next /\ (\A j \in N : j <= k \/ next <= j) /\ m2[k + 1].next = next
        BY <2>3, <3>1 DEF InOrder, SameNode, IsNext
      <3>3. rest <= k \/ next <= rest
        <4>1. n <= k \/ next <= n
          BY <3>2
        <4> QED
          BY <1>1, <1>3, <1>5, <2>3, <3>2, <4>1
      <3> QED
        BY <3>2, <3>3 DEF IsNext
    <2> QED
      BY <2>1, <2>2, <2>3
  <1>9. m2[last2 + 1].next = NULL
    BY DEF InOrder, SameNode
  <1>10. ASSUME NEW k \in N2 PROVE k <= last2
    <2>1. last \in N /\ last \in Nat
      BY <1>1 DEF InOrder
    <2>2. CASE n = last
      <3>1. \A j \in N : j <= n
        BY <1>1, <2>2
      <3> QED
        BY <1>1, <1>3, <2>2, <3>1
    <2>3. CASE n # last
      <3>1. n < last
        BY <1>1, <2>1, <2>3
      <3>2. rest < last
        BY <1>1, <1>3, <1>5, <2>1, <2>3, <3>1
      <3> QED
        BY <1>1, <1>3, <2>1, <2>3, <3>2
    <2> QED
      BY <2>2, <2>3
  <1> QED
    BY <1>6, <1>7, <1>8, <1>9, <1>10 DEF InOrder

\* CombineForward
TookIn(m, last, N, n, next, m2, last2) ==
    /\ next = m[n + 1].next
    /\ last2 = IF next = last THEN n ELSE last
    /\ \A k \in N \ {n, next} : SameNode(m, m2, k)
    /\ HeadIs(m2, n, m[n].size + m[next].size + Header)
    /\ m2[n + 1].next = m[next + 1].next

LEMMA MergedOrder ==
    ASSUME NEW m, NEW last, NEW end \in Nat, NEW N, InOrder(m, last, end, N),
           NEW n \in N, n # last, NEW next, NEW m2, NEW last2,
           TookIn(m, last, N, n, next, m2, last2)
    PROVE  /\ InOrder(m2, last2, end, N \ {next})
           /\ next \in N /\ next # n
  <1> DEFINE N2 == N \ {next}
  <1>1. \A k \in N : /\ k \in Nat /\ m[k].size \in Nat /\ NodeEnd(m, k) \in Nat
                     /\ k + Header <= NodeEnd(m, k) /\ NodeEnd(m, k) <= end
                     /\ k <= last
    BY OrderFacts
  <1>0. /\ next = m[n + 1].next
        /\ last2 = IF next = last THEN n ELSE last
        /\ \A k \in N \ {n, next} : SameNode(m, m2, k)
        /\ HeadIs(m2, n, m[n].size + m[next].size + Header)
        /\ m2[n + 1].next = m[next + 1].next
    BY DEF TookIn
  <1>2. Header = 2
    BY UnitsFit
  <1>3. /\ next \in N /\ n < next
        /\ \A k \in N : k <= n \/ next <= k
        /\ NodeEnd(m, n) <= next
    BY <1>0, <1>1 DEF InOrder, IsNext
  <1>4. /\ NodeEnd(m2, n) \in Nat /\ NodeEnd(m2, n) <= NodeEnd(m, next)
        /\ \A k \in N2 \ {n} : NodeEnd(m2, k) = NodeEnd(m, k)
    <2>1. NodeEnd(m2, n) = NodeEnd(m, n) + (NodeEnd(m, next) - next)
      BY <1>0, <1>1, <1>2, <1>3 DEF HeadIs, NodeEnd
    <2>2. NodeEnd(m2, n) \in Nat /\ NodeEnd(m2, n) <= NodeEnd(m, next)
      BY <1>1, <1>2, <1>3, <2>1
    <2> QED
      BY <1>0, <2>2 DEF SameNode, HeadIs, NodeEnd
  <1>5. /\ N2 \subseteq Units /\ heapStart \in N2 /\ last2 \in N2
        /\ \A k \in N2 : /\ NodeIn(m2, k) /\ m2[k].size \in Nat /\ m2[k].free \in BOOLEAN
                         /\ NodeEnd(m2, k) <= end
    <2>1. heapStart # next
      BY <1>1, <1>3 DEF heapStart
    <2>2. last2 \in N2
      BY <1>0, <1>1, <1>3 DEF InOrder
    <2>3. ASSUME NEW k \in N2
          PROVE  /\ NodeIn(m2, k) /\ m2[k].size \in Nat /\ m2[k].free \in BOOLEAN
                 /\ NodeEnd(m2, k) <= end
      <3>1. CASE k = n
        <4>1. m[n].size + m[next].size + Header \in Nat
          BY <1>1, <1>2, <1>3
        <4>2. NodeEnd(m2, n) <= end
          BY <1>1, <1>3, <1>4
        <4> QED
          BY <1>0, <3>1, <4>1, <4>2 DEF HeadIs
      <3>2. CASE k # n
        BY <1>0, <1>1, <1>4, <3>2 DEF HeadIs, SameNode
      <3> QED
        BY <3>1, <3>2
    <2> QED
      BY <2>1, <2>2, <2>3 DEF InOrder
  <1>6. ASSUME NEW j \in N2, NEW k \in N2, j < k PROVE NodeEnd(m2, j) <= k
    <2>1. CASE j = n
      <3>1. next < k
        BY <1>1, <1>3, <1>6, <2>1
      <3>2. NodeEnd(m, next) <= k
        BY <1>3, <3>1 DEF InOrder
      <3> QED
        BY <1>1, <1>3, <1>4, <2>1, <3>2
    <2>2. CASE j # n
      <3>1. NodeEnd(m, j) <= k
        BY <1>6 DEF InOrder
      <3> QED
        BY <1>4, <2>2, <3>1
    <2> QED
      BY <2>1, <2>2
  <1>7. ASSUME NEW k \in N2 \ {last2}
        PROVE  IsNext(N2, k, m2[k + 1].next)
    <2>1. CASE k = n
      <3>1. next # last /\ IsNext(N, next, m[next + 1].next)
        BY <1>0, <1>3, <1>7, <2>1 DEF InOrder
      <3> DEFINE after == m[next + 1].next
      <3>2. after \in N /\ next < after /\ (\A j \in N : j <= next \/ after <= j) /\ m2[k + 1].next = after
        BY <1>0, <2>1, <3>1 DEF IsNext
      <3>3. \A j \in N2 : j <= n \/ after <= j
        BY <1>1, <1>3, <3>2
      <3>4. after \in N2 /\ n < after
        BY <1>1, <1>3, <3>2
      <3> HIDE DEF after
      <3> QED
        BY <2>1, <3>2, <3>3, <3>4 DEF IsNext
    <2>2. CASE k # n
      <3>1. k # last
        BY <1>0, <1>7, <2>2
      <3> DEFINE then == m[k + 1].next
      <3>2. then \in N /\ k < then /\ (\A j \in N : j <= k \/ then <= j) /\ m2[k + 1].next = then
        BY <1>0, <2>2, <3>1 DEF InOrder, SameNode, IsNext
      <3> HIDE DEF then
      <3>3. then # next
        BY <1>1, <1>3, <2>2, <3>2
      <3> QED
        BY <3>2, <3>3 DEF IsNext
    <2> QED
      BY <2>1, <2>2
  <1>8. m2[last2 + 1].next = NULL
    BY <1>0, <1>3 DEF InOrder, SameNode
  <1>9. \A k \in N2 : k <= last2
    BY <1>0, <1>1, <1>3
  <1>10. next \in N /\ next # n
    BY <1>1, <1>3
  <1> QED
    BY <1>5, <1>6, <1>7, <1>8, <1>9, <1>10 DEF InOrder

\* ExpandHeap
LEMMA GrownOrder ==
    ASSUME NEW m, NEW last, NEW end \in Nat, NEW N, InOrder(m, last, end, N),
           NEW size \in Nat, NEW m2, \A k \in N \ {last} : SameNode(m, m2, k),
           HeadIs(m2, last, m[last].size), m2[last + 1].next = end,
           HeadIs(m2, end, size), m2[end + 1].next = NULL
    PROVE  InOrder(m2, end, end + Header + size, N \cup {end})
  <1> DEFINE N2 == N \cup {end}
             end2 == end + Header + size
  <1>1. \A k \in N : /\ k \in Nat /\ m[k].size \in Nat /\ NodeEnd(m, k) \in Nat
                     /\ k + Header <= NodeEnd(m, k) /\ NodeEnd(m, k) <= end
                     /\ k <= last
    BY OrderFacts
  <1>2. Header = 2
    BY UnitsFit
  <1>3. (\A k \in N : NodeEnd(m2, k) = NodeEnd(m, k)) /\ NodeEnd(m2, end) = end2
    BY DEF SameNode, HeadIs, NodeEnd
  <1>4. /\ end2 \in Nat
        /\ \A k \in N : k < end /\ NodeEnd(m, k) <= end2
    BY <1>1, <1>2
  <1> HIDE DEF end2
  <1>5. /\ N2 \subseteq Units /\ heapStart \in N2 /\ end \in N2
        /\ \A k \in N2 : /\ NodeIn(m2, k) /\ m2[k].size \in Nat /\ m2[k].free \in BOOLEAN
                         /\ NodeEnd(m2, k) <= end2 /\ k <= end
    BY <1>1, <1>3, <1>4 DEF InOrder, SameNode, HeadIs, NodeIn
  <1>6. ASSUME NEW j \in N2, NEW k \in N2, j < k PROVE NodeEnd(m2, j) <= k
    <2>1. j \in N
      BY <1>1, <1>4, <1>6
    <2> QED
      BY <1>1, <1>3, <1>6, <2>1 DEF InOrder
  <1>7. ASSUME NEW k \in N2 \ {end} PROVE IsNext(N2, k, m2[k + 1].next)
    <2>1. CASE k = last
      BY <1>1, <1>4, <1>7, <2>1 DEF IsNext
    <2>2. CASE k # last
      BY <1>1, <1>4, <1>7, <2>2 DEF IsNext, InOrder, SameNode
    <2> QED
      BY <2>1, <2>2
  <1> QED
    BY <1>5, <1>6, <1>7 DEF InOrder, end2

-----------------------------------------------------------------------------
(* What the pointers in memory lead to. *)

\* f starts at s and follows the pointers g ...
Follows(f, S, s, g, n) ==
    /\ f \in [0 .. n -> S]
    /\ \A k \in 0 .. n : f[k] = IF k = 0 THEN s ELSE g[f[k - 1]]

\* ... as at and ElementAt do by their definitions, whose equations thus have a solution.
LEMMA RecursionInto ==
    ASSUME NEW S, NEW s \in S, NEW g \in [S -> S], NEW n \in Nat
    PROVE  \E f : Follows(f, S, s, g, n)
  <1> DEFINE Step(f, k) == IF k = 0 THEN s ELSE g[f[k - 1]]
             Exists(j) == \E f \in [0 .. j -> S] : f = [k \in 0 .. j |-> Step(f, k)]
             Good == {j \in Nat : Exists(j)}
  <1>1. 0 \in Good
    <2> DEFINE f == [k \in 0 .. 0 |-> s]
    <2>1. f \in [0 .. 0 -> S] /\ f = [k \in 0 .. 0 |-> Step(f, k)]
      OBVIOUS
    <2> QED
      BY <2>1
  <1>2. ASSUME NEW j \in Nat, j \in Good PROVE j + 1 \in Good
    <2>1. PICK f \in [0 .. j -> S] : f = [k \in 0 .. j |-> Step(f, k)]
      BY <1>2
    <2> DEFINE h == [k \in 0 .. j + 1 |-> IF k <= j THEN f[k] ELSE Step(f, k)]
    <2>2. ASSUME NEW k \in 0 .. j + 1 PROVE h[k] = Step(h, k) /\ h[k] \in S
      <3>1. CASE k = 0
        BY <2>1, <3>1
      <3>2. CASE k # 0
        <4>1. k - 1 \in 0 .. j /\ h[k - 1] = f[k - 1] /\ f[k - 1] \in S
          BY <3>2
        <4>2. CASE k <= j
          <5>1. k \in 0 .. j /\ h[k] = f[k]
            BY <4>2
          <5> QED
            BY <2>1, <3>2, <4>1, <5>1
        <4>3. CASE ~ (k <= j)
          BY <3>2, <4>1, <4>3
        <4> QED
          BY <4>2, <4>3
      <3> QED
        BY <3>1, <3>2
    <2>3. h \in [0 .. j + 1 -> S]
      <3> HIDE DEF Step
      <3>1. h = [k \in 0 .. j + 1 |-> h[k]]
        OBVIOUS
      <3> HIDE DEF h
      <3> QED
        BY <2>2, <3>1
    <2>4. h = [k \in 0 .. j + 1 |-> Step(h, k)]
      <3>1. h = [k \in 0 .. j + 1 |-> h[k]]
        OBVIOUS
      <3> HIDE DEF h
      <3> QED
        BY <2>2, <3>1
    <2>5. Exists(j + 1)
      <3> HIDE DEF h
      <3> QED
        BY <2>3, <2>4
    <2> HIDE DEF Exists
    <2> QED
      BY <2>5
  <1> HIDE DEF Good
  <1>3. n \in Good
    BY <1>1, <1>2, SetInduction
  <1>4. PICK f \in [0 .. n -> S] : f = [k \in 0 .. n |-> Step(f, k)]
    BY <1>3 DEF Good
  <1>5. \A k \in 0 .. n : f[k] = Step(f, k)
    <2> HIDE DEF Step
    <2> QED
      BY <1>4
  <1> QED
    BY <1>4, <1>5 DEF Follows

\* A node takes at least a header: as many as there may be find room in memory.
LEMMA FewNodes ==
    /\ MaxNodes \in Nat
    /\ \A n \in Units : n + 1 \in Units => ~(Header * MaxNodes < n)
  <1>1. LastUnit \in Nat /\ MaxNodes = LastUnit \div 2 /\ Header = 2 /\ Units = 0 .. LastUnit
    BY UnitsFit DEF MaxNodes, LastUnit
  <1> DEFINE L == LastUnit
             M == L \div 2
  <1> HIDE DEF L
  <1>2. L \in Nat => M \in Nat /\ L <= 2 * M + 1
    OBVIOUS
  <1>3. L \in Nat => \A n \in 0 .. L : n + 1 \in 0 .. L => ~(2 * (L \div 2) < n)
    BY <1>2
  <1> HIDE DEF M
  <1> QED
    BY <1>1, <1>2, <1>3 DEF L, M

\* Nodes are those that follow each other in the heap, however many there are.
LEMMA NodesAre ==
    ASSUME MemOK(mem), NEW last, NEW end \in Nat, NEW N, InOrder(mem, last, end, N)
    PROVE  Nodes = N
  <1> DEFINE K == 0 .. MaxNodes
             Solves(f) ==
                 f = [k \in K |-> IF k = 0 THEN heapStart
                                  ELSE IF Node(f[k - 1]) THEN mem[f[k - 1] + 1].next ELSE NULL]
             at == CHOOSE f : Solves(f)
  <1>0. MaxNodes \in Nat
    BY FewNodes
  <1>1. Nodes = {at[k] : k \in K} \ {NULL}
    BY DEF Nodes
  <1>2. \E f : Solves(f)
    <2> DEFINE g == [e \in Pointers |-> IF Node(e) THEN mem[e + 1].next ELSE NULL]
    <2>1. g \in [Pointers -> Pointers] /\ heapStart \in Pointers
      <3>1. ASSUME NEW e \in Pointers, Node(e) PROVE mem[e + 1].next \in Pointers
        BY <3>1 DEF MemOK, Node, NodeIn
      <3>2. heapStart \in Pointers /\ NULL \in Pointers
        BY UnitsFit DEF Pointers, heapStart
      <3> QED
        BY <3>1, <3>2
    <2>2. PICK f : Follows(f, Pointers, heapStart, g, MaxNodes)
      <3> HIDE DEF g
      <3> QED
        BY <1>0, <2>1, RecursionInto
    <2>3. ASSUME NEW k \in K
          PROVE  f[k] = IF k = 0 THEN heapStart
                        ELSE IF Node(f[k - 1]) THEN mem[f[k - 1] + 1].next ELSE NULL
      <3>1. CASE k = 0
        BY <1>0, <2>2, <3>1 DEF Follows
      <3>2. CASE k # 0
        <4>1. k \in 0 .. MaxNodes /\ k - 1 \in 0 .. MaxNodes
          BY <1>0, <3>2
        <4>2. f[k - 1] \in Pointers /\ f[k] = g[f[k - 1]]
          BY <2>2, <3>2, <4>1 DEF Follows
        <4> QED
          BY <3>2, <4>2
      <3> QED
        BY <3>1, <3>2
    <2>4. f = [k \in K |-> f[k]]
      BY <2>2 DEF Follows
    <2> HIDE DEF g
    <2> QED
      BY <2>3, <2>4
  <1>3. Solves(at)
    BY <1>2
  <1> HIDE DEF at
  <1>4. /\ at[0] = heapStart
        /\ \A k \in Nat : k + 1 <= MaxNodes =>
             /\ k <= MaxNodes
             /\ at[k + 1] = IF Node(at[k]) THEN mem[at[k] + 1].next ELSE NULL
    BY <1>0, <1>3
  <1> HIDE DEF Solves
  <1>5. \A n \in N : /\ n \in Nat /\ mem[n].size \in Nat /\ n + Header <= NodeEnd(mem, n)
                     /\ n <= last /\ Node(n) /\ n \in Units /\ n + 1 \in Units
    <2>1. \A n \in N : Node(n) /\ n \in Units /\ n + 1 \in Units
      BY DEF InOrder, NodeIn, Node
    <2>2. \A n \in N : /\ n \in Nat /\ mem[n].size \in Nat /\ n + Header <= NodeEnd(mem, n)
                       /\ n <= last
      BY OrderFacts
    <2> QED
      BY <2>1, <2>2
  <1>6. ASSUME NEW k \in K PROVE at[k] \in N \cup {NULL}
    <2> DEFINE Good == {j \in Nat : j <= MaxNodes => at[j] \in N \cup {NULL}}
    <2>1. 0 \in Good
      BY <1>4 DEF InOrder
    <2>2. ASSUME NEW j \in Nat, j \in Good PROVE j + 1 \in Good
      <3>1. SUFFICES ASSUME j + 1 <= MaxNodes PROVE at[j + 1] \in N \cup {NULL}
        OBVIOUS
      <3>2. CASE at[j] \in N
        <4>1. at[j + 1] = mem[at[j] + 1].next
          BY <1>4, <1>5, <3>1, <3>2
        <4> QED
          BY <3>2, <4>1 DEF InOrder, IsNext
      <3>3. CASE at[j] = NULL
        BY <1>4, <3>1, <3>3, UnitsFit DEF Node, NodeIn
      <3> QED
        BY <1>4, <2>2, <3>1, <3>2, <3>3
    <2> HIDE DEF Good
    <2>3. Nat \subseteq Good
      BY <2>1, <2>2, SetInduction
    <2>4. k \in Nat /\ k <= MaxNodes
      BY <1>0
    <2> QED
      BY <2>3, <2>4 DEF Good
  <1>7. ASSUME NEW c \in N, c \notin Nodes PROVE FALSE
    <2>1. c \in Units /\ c \in Nat /\ c # NULL /\ \A k \in K : at[k] # c
      BY <1>1, <1>5, <1>7, UnitsFit
    <2> DEFINE Good == {j \in Nat : j <= MaxNodes => at[j] \in N /\ Header * j <= at[j] /\ at[j] < c}
    <2>2. 0 \in Good
      <3>1. 0 \in K /\ Header * 0 <= heapStart /\ heapStart \in N /\ 0 <= c
        BY <1>0, <2>1, UnitsFit DEF InOrder, heapStart
      <3> QED
        BY <1>4, <2>1, <3>1 DEF heapStart
    <2>3. ASSUME NEW j \in Nat, j \in Good PROVE j + 1 \in Good
      <3>1. SUFFICES ASSUME j + 1 <= MaxNodes
                     PROVE at[j + 1] \in N /\ Header * (j + 1) <= at[j + 1] /\ at[j + 1] < c
        OBVIOUS
      <3> DEFINE n == at[j]
                 next == at[j + 1]
      <3>2. n \in N /\ Header * j <= n /\ n < c /\ c <= last
        BY <1>4, <1>5, <2>3, <3>1
      <3>3. next = mem[n + 1].next
        BY <1>4, <1>5, <3>1, <3>2
      <3>4. n # last
        BY <1>5, <2>1, <3>2 DEF InOrder
      <3>5. next \in N /\ n < next /\ next <= c
        <4>1. IsNext(N, n, next)
          BY <3>2, <3>3, <3>4 DEF InOrder
        <4>2. next \in N /\ n < next /\ (c <= n \/ next <= c)
          BY <4>1 DEF IsNext
        <4>3. n \in Nat /\ c \in Nat
          BY <1>5, <2>1, <3>2
        <4> HIDE DEF n, next
        <4> QED
          BY <3>2, <4>2, <4>3
      <3>6. NodeEnd(mem, n) <= next
        BY <3>2, <3>5 DEF InOrder
      <3>7. next # c
        <4>1. j + 1 \in K
          BY <1>0, <3>1
        <4> QED
          BY <2>1, <4>1
      <3>8. /\ next \in Nat /\ n \in Nat /\ n + Header <= next /\ next <= c /\ c \in Nat
        <4>1. /\ next \in Nat /\ n \in Nat /\ c \in Nat /\ NodeEnd(mem, n) = n + Header + mem[n].size
              /\ mem[n].size \in Nat
          BY <1>5, <2>1, <3>2, <3>5 DEF NodeEnd
        <4> HIDE DEF n, next
        <4> QED
          BY <3>5, <3>6, <4>1, UnitsFit
      <3>9. Header * (j + 1) <= next
        <4> HIDE DEF n, next
        <4> QED
          BY <3>2, <3>8, UnitsFit
      <3> HIDE DEF n, next
      <3>10. next < c
        BY <3>7, <3>8
      <3> QED
        BY <3>5, <3>9, <3>10 DEF next
    <2> HIDE DEF Good
    <2>4. MaxNodes \in Good
      BY <1>0, <2>2, <2>3, SetInduction
    <2> DEFINE e == at[MaxNodes]
    <2>5. e \in N /\ Header * MaxNodes <= e /\ e < c
      BY <1>0, <2>4 DEF Good
    <2>6. c \in Units /\ c + 1 \in Units /\ c \in Nat /\ e \in Nat
      BY <1>5, <2>5
    <2>7. ~(Header * MaxNodes < c)
      BY <2>6, FewNodes
    <2> HIDE DEF e
    <2> QED
      BY <1>0, <2>5, <2>6, <2>7, UnitsFit
  <1>8. Nodes \subseteq N
    BY <1>1, <1>6
  <1> QED
    BY <1>7, <1>8

\* The list has no more elements than there are blocks in use ...
LEMMA FewElements ==
    ASSUME CountInv, NEW s, Listed(mem, first, held, s)
    PROVE  s \in Seq(Units) /\ Len(s) \in Nat /\ Len(s) <= MaxHeld
  <1>1. s \in Seq(Units) /\ Len(s) \in Nat
    BY DEF Listed
  <1>2. s \in [1 .. Len(s) -> DOMAIN held]
    <2>1. s \in [1 .. Len(s) -> Units]
      BY <1>1
    <2>2. \A i \in 1 .. Len(s) : s[i] \in DOMAIN held
      BY DEF Listed
    <2> QED
      BY <2>1, <2>2
  <1>3. /\ IsFiniteSet(1 .. Len(s)) /\ Cardinality(1 .. Len(s)) = Len(s)
    <2>1. Cardinality(1 .. Len(s)) = IF 1 > Len(s) THEN 0 ELSE Len(s) - 1 + 1
      BY <1>1, FS_Interval
    <2> QED
      BY <1>1, <2>1, FS_Interval
  <1>4. ~ (Cardinality(DOMAIN held) < Cardinality(1 .. Len(s)))
    <2> SUFFICES ASSUME Cardinality(DOMAIN held) < Cardinality(1 .. Len(s)) PROVE FALSE
      OBVIOUS
    <2>1. \E i, j \in 1 .. Len(s) : i # j /\ s[i] = s[j]
      BY <1>2, <1>3, FS_PigeonHole DEF CountInv
    <2> QED
      BY <2>1 DEF Listed
  <1>5. Cardinality(DOMAIN held) \in Nat
    BY FS_CardinalityType DEF CountInv
  <1> QED
    BY <1>1, <1>3, <1>4, <1>5, UnitsFit DEF CountInv

\* ... so that the list helper's walk sees them all, and where the list ends.
LEMMA ElementsListed ==
    ASSUME MemOK(mem), CountInv, NEW s, Listed(mem, first, held, s)
    PROVE  /\ Elements = {s[i] : i \in 1 .. Len(s)}
           /\ ListIntact
           /\ s # <<>> => LastElement = s[Len(s)]
  <1> DEFINE Solves(f) ==
                 f = [k \in 0 .. MaxHeld |->
                        IF k = 0 THEN first
                        ELSE IF f[k - 1] \in Units /\ mem[f[k - 1]].kind = "element"
                             THEN mem[f[k - 1]].next ELSE NULL]
             at == CHOOSE f : Solves(f)
  <1>1. Elements = {at[k] : k \in 0 .. MaxHeld} \ {NULL}
    BY DEF Elements, ElementAt
  <1>0. /\ s \in Seq(Units) /\ Len(s) \in Nat /\ Len(s) <= MaxHeld /\ MaxHeld \in Nat
        /\ \A i \in 1 .. Len(s) : s[i] \in Units
        /\ first = IF s = <<>> THEN NULL ELSE s[1]
        /\ s = <<>> <=> Len(s) = 0
    <2>1. s \in Seq(Units) /\ Len(s) \in Nat /\ Len(s) <= MaxHeld /\ MaxHeld \in Nat
      BY FewElements, UnitsFit
    <2>2. first = IF s = <<>> THEN NULL ELSE s[1]
      BY DEF Listed
    <2>3. (\A i \in 1 .. Len(s) : s[i] \in Units) /\ (s = <<>> <=> Len(s) = 0)
      BY <2>1
    <2> QED
      BY <2>1, <2>2, <2>3
  <1>2. \E f : Solves(f)
    <2> DEFINE g == [e \in Pointers |-> IF e \in Units /\ mem[e].kind = "element"
                                        THEN mem[e].next ELSE NULL]
    <2>1. g \in [Pointers -> Pointers] /\ first \in Pointers
      BY <1>0 DEF MemOK, Pointers
    <2>2. PICK f : Follows(f, Pointers, first, g, MaxHeld)
      <3> HIDE DEF g
      <3>1. MaxHeld \in Nat
        BY <1>0
      <3> QED
        BY <2>1, <3>1, RecursionInto
    <2>3. ASSUME NEW k \in 0 .. MaxHeld
          PROVE  f[k] = IF k = 0 THEN first
                        ELSE IF f[k - 1] \in Units /\ mem[f[k - 1]].kind = "element"
                             THEN mem[f[k - 1]].next ELSE NULL
      <3>1. CASE k = 0
        BY <2>2, <3>1 DEF Follows
      <3>2. CASE k # 0
        <4>1. k - 1 \in 0 .. MaxHeld
          BY <1>0, <3>2
        <4>2. f[k - 1] \in Pointers /\ f[k] = g[f[k - 1]]
          BY <2>2, <3>2, <4>1 DEF Follows
        <4> QED
          BY <3>2, <4>2
      <3> QED
        BY <3>1, <3>2
    <2>4. f = [k \in 0 .. MaxHeld |-> f[k]]
      BY <2>2 DEF Follows
    <2> HIDE DEF g
    <2> QED
      BY <2>3, <2>4
  <1>3. Solves(at)
    BY <1>2
  <1> HIDE DEF at
  <1>4. /\ at[0] = first
        /\ \A k \in Nat : k + 1 <= MaxHeld =>
             at[k + 1] = IF at[k] \in Units /\ mem[at[k]].kind = "element"
                         THEN mem[at[k]].next ELSE NULL
    BY <1>0, <1>3
  <1> HIDE DEF Solves
  <1>5. ASSUME NEW k \in 0 .. MaxHeld PROVE at[k] = IF k < Len(s) THEN s[k + 1] ELSE NULL
    <2> DEFINE Good == {j \in Nat : j <= MaxHeld => at[j] = IF j < Len(s) THEN s[j + 1] ELSE NULL}
    <2>1. 0 \in Good
      BY <1>0, <1>4
    <2>2. ASSUME NEW j \in Nat, j \in Good PROVE j + 1 \in Good
      <3>1. SUFFICES ASSUME j + 1 <= MaxHeld
                     PROVE  at[j + 1] = IF j + 1 < Len(s) THEN s[j + 2] ELSE NULL
        OBVIOUS
      <3>2. CASE j < Len(s)
        <4>1. /\ j + 1 \in 1 .. Len(s) /\ at[j] = s[j + 1] /\ s[j + 1] \in Units
              /\ mem[s[j + 1]].kind = "element"
              /\ mem[s[j + 1]].next = IF j + 1 = Len(s) THEN NULL ELSE s[j + 1 + 1]
          BY <1>0, <2>2, <3>1, <3>2 DEF Listed
        <4> QED
          BY <1>0, <1>4, <3>1, <3>2, <4>1
      <3>3. CASE ~ (j < Len(s))
        BY <1>0, <1>4, <2>2, <3>1, <3>3, UnitsFit
      <3> QED
        BY <3>2, <3>3
    <2> HIDE DEF Good
    <2>3. k \in Good
      <3>1. k \in Nat
        BY <1>0
      <3> QED
        BY <2>1, <2>2, <3>1, SetInduction
    <2> QED
      BY <2>3 DEF Good
  <1>6. Elements = {s[i] : i \in 1 .. Len(s)}
    <2>1. ASSUME NEW i \in 1 .. Len(s) PROVE s[i] \in Elements
      <3>1. i - 1 \in 0 .. MaxHeld /\ i - 1 < Len(s) /\ i - 1 + 1 = i
        BY <1>0
      <3>2. at[i - 1] = s[i] /\ s[i] # NULL
        BY <1>0, <1>5, <3>1, UnitsFit
      <3> QED
        BY <1>1, <3>1, <3>2
    <2>2. ASSUME NEW e \in Elements PROVE \E i \in 1 .. Len(s) : s[i] = e
      <3>1. PICK k \in 0 .. MaxHeld : at[k] = e /\ e # NULL
        BY <1>1
      <3>2. k < Len(s) /\ e = s[k + 1] /\ k + 1 \in 1 .. Len(s)
        BY <1>0, <1>5, <3>1
      <3> QED
        BY <3>2
    <2> QED
      BY <2>1, <2>2
  <1>7. ListIntact
    BY <1>6 DEF ListIntact, Listed
  <1>8. ASSUME s # <<>> PROVE LastElement = s[Len(s)]
    <2>1. Len(s) \in 1 .. Len(s)
      BY <1>0, <1>8
    <2>2. s[Len(s)] \in Elements /\ mem[s[Len(s)]].next = NULL
      BY <1>6, <2>1 DEF Listed
    <2>3. ASSUME NEW e \in Elements, mem[e].next = NULL PROVE e = s[Len(s)]
      <3>1. PICK i \in 1 .. Len(s) : s[i] = e
        BY <1>6
      <3>2. i # Len(s) => i + 1 \in 1 .. Len(s)
        BY <1>0
      <3> QED
        BY <1>0, <2>3, <3>1, <3>2, UnitsFit DEF Listed
    <2> QED
      BY <2>2, <2>3 DEF LastElement
  <1> QED
    BY <1>6, <1>7, <1>8

-----------------------------------------------------------------------------
(* Writes behind the headers. *)

LEMMA Written ==
    ASSUME NEW m, NEW units, NEW cell
    PROVE  /\ DOMAIN Write(m, units, cell) = DOMAIN m
           /\ \A u \in DOMAIN m : Write(m, units, cell)[u] = IF u \in units THEN cell ELSE m[u]
  BY DEF Write

\* Blocks begin behind the headers of their nodes and end before the next header.
LEMMA BlockFacts ==
    ASSUME NEW m, NEW last, NEW end \in Nat, NEW N, InOrder(m, last, end, N),
           NEW h, BlocksIn(m, h, N), NEW b \in DOMAIN h
    PROVE  /\ b \in Units /\ b \in Nat /\ b - Header \in N /\ b - Header + Header = b
           /\ ~m[b - Header].free /\ Asked(h[b]) \in Nat \ {0}
           /\ \A k \in N : k + Header <= b \/ b + Asked(h[b]) <= k
  <1> DEFINE n == b - Header
             size == Asked(h[b])
  <1>1. /\ b \in Units /\ b \in Nat /\ n \in N /\ n + Header = b /\ n = b - Header
        /\ ~m[n].free /\ size \in Nat \ {0}
        /\ \A k \in N : b <= k => b + size <= k
    BY UnitsFit DEF BlocksIn
  <1> HIDE DEF n, size
  <1>2. ASSUME NEW k \in N PROVE k + Header <= b \/ b + size <= k
    <2>1. /\ n \in Nat /\ k \in Nat /\ NodeEnd(m, n) \in Nat /\ NodeEnd(m, k) \in Nat
          /\ n + Header <= NodeEnd(m, n) /\ k + Header <= NodeEnd(m, k) /\ Header = 2
      BY <1>1, OrderFacts, UnitsFit
    <2>2. (k < n => NodeEnd(m, k) <= n) /\ (n < k => NodeEnd(m, n) <= k)
      BY <1>1 DEF InOrder
    <2>3. b <= k => b + size <= k
      BY <1>1
    <2> QED
      BY <1>1, <2>1, <2>2, <2>3
  <1> QED
    BY <1>1, <1>2 DEF n, size

\* No header of N is at u.
Apart(N, u) == \A k \in N : u # k /\ u # k + 1

LEMMA BlocksAt ==
    ASSUME NEW m, NEW last, NEW end \in Nat, NEW N, InOrder(m, last, end, N),
           NEW h, BlocksIn(m, h, N), NEW b \in DOMAIN h,
           NEW u \in Nat, b <= u, u < b + Asked(h[b])
    PROVE  Apart(N, u)
  <1> DEFINE size == Asked(h[b])
  <1>1. b \in Nat /\ size \in Nat /\ \A k \in N : k + Header <= b \/ b + size <= k
    BY BlockFacts
  <1>2. \A k \in N : k \in Nat
    BY OrderFacts
  <1>3. b <= u /\ u < b + size /\ Header = 2
    BY UnitsFit
  <1> HIDE DEF size
  <1> QED
    BY <1>1, <1>2, <1>3 DEF Apart

LEMMA BlockAt ==
    ASSUME NEW m, NEW last, NEW end \in Nat, NEW N, InOrder(m, last, end, N),
           NEW h, BlocksIn(m, h, N), NEW b \in DOMAIN h
    PROVE  b \in Units /\ b \in Nat /\ b - Header \in N /\ b = b - Header + Header /\ Apart(N, b)
  <1>1. b \in Units /\ b \in Nat /\ b - Header \in N /\ b = b - Header + Header /\ Asked(h[b]) \in Nat \ {0}
    BY BlockFacts
  <1>2. b <= b /\ b < b + Asked(h[b])
    BY <1>1
  <1> QED
    BY <1>1, <1>2, BlocksAt

\* Another block ends before this one's header or begins behind its end.
LEMMA OtherBlocks ==
    ASSUME NEW m, NEW last, NEW end \in Nat, NEW N, InOrder(m, last, end, N),
           NEW h, BlocksIn(m, h, N), NEW b \in DOMAIN h, NEW c \in DOMAIN h, c # b
    PROVE  c < b \/ b + Asked(h[b]) + Header <= c
  <1> DEFINE size == Asked(h[b])
  <1>1. /\ b \in Nat /\ size \in Nat \ {0} /\ \A k \in N : k + Header <= b \/ b + size <= k
        /\ c \in Nat /\ c - Header \in N
    BY BlockFacts
  <1>2. c - Header \in Nat /\ (c - Header + Header <= b \/ b + size <= c - Header)
    <2>1. c - Header \in Nat
      BY <1>1, OrderFacts
    <2> QED
      BY <1>1, <2>1
  <1>3. Header = 2 /\ c # b
    BY UnitsFit
  <1>4. c < b \/ b + size + Header <= c
    <2> HIDE DEF size
    <2> QED
      BY <1>1, <1>2, <1>3
  <1> QED
    BY <1>4

\* So do blocks and a free node.
LEMMA BlocksOutside ==
    ASSUME NEW m, NEW last, NEW end \in Nat, NEW N, InOrder(m, last, end, N),
           NEW h, BlocksIn(m, h, N), NEW c \in DOMAIN h, NEW n \in N, m[n].free
    PROVE  /\ c + Asked(h[c]) <= n \/ NodeEnd(m, n) + Header <= c
           /\ c < n \/ NodeEnd(m, n) + Header <= c
  <1> DEFINE j == c - Header
             size == Asked(h[c])
             e == NodeEnd(m, n)
  <1>1. /\ c \in Nat /\ j \in N /\ ~m[j].free /\ size \in Nat \ {0} /\ j + Header = c
        /\ n + Header <= c \/ c + size <= n
    BY BlockFacts
  <1>2. /\ n \in Nat /\ j \in Nat /\ e \in Nat /\ Header = 2
    BY <1>1, OrderFacts, UnitsFit
  <1>3. n # j
    BY <1>1
  <1>4. n < j => e <= j
    BY <1>1 DEF InOrder
  <1> HIDE DEF j, size, e
  <1>5. (c + size <= n \/ e + Header <= c) /\ (c < n \/ e + Header <= c)
    BY <1>1, <1>2, <1>3, <1>4
  <1> QED
    BY <1>5 DEF size, e

\* Writes that leave the headers alone, or empty one, leave the nodes and their
\* blocks.
LEMMA InteriorWrites ==
    ASSUME NEW m, NEW last, NEW end \in Nat, NEW N, InOrder(m, last, end, N),
           NEW h, BlocksIn(m, h, N), NEW m2,
           \A u \in Units : \/ m2[u] = m[u]
                            \/ Apart(N, u)
                            \/ (u \in N /\ m2[u] = HeadCell(0, FALSE))
    PROVE  InOrder(m2, last, end, N) /\ BlocksIn(m2, h, N)
  <1>1. ASSUME NEW k \in N
        PROVE  (m2[k] = m[k] \/ m2[k] = HeadCell(0, FALSE)) /\ m2[k + 1] = m[k + 1]
    <2>1. k \in Units /\ k + 1 \in Units /\ k \in Nat /\ ~Apart(N, k) /\ ~Apart(N, k + 1)
      BY OrderFacts DEF InOrder, NodeIn, Apart
    <2>2. k + 1 \notin N
      <3>1. ASSUME k + 1 \in N PROVE FALSE
        <4>1. k < k + 1
          BY <2>1
        <4>2. NodeEnd(m, k) <= k + 1 /\ k + Header <= NodeEnd(m, k) /\ NodeEnd(m, k) \in Nat
          <5>1. NodeEnd(m, k) <= k + 1
            BY <3>1, <4>1 DEF InOrder
          <5> QED
            BY <5>1, OrderFacts
        <4> QED
          BY <2>1, <4>2, UnitsFit
      <3> QED
        BY <3>1
    <2> QED
      BY <2>1, <2>2
  <1>2. ASSUME NEW k \in N PROVE SmallerNode(m, m2, k)
    <2>1. NodeIn(m, k) /\ m[k].size \in Nat /\ m[k].free \in BOOLEAN
      BY DEF InOrder
    <2>2. CASE m2[k] = m[k]
      <3>1. SameNode(m, m2, k)
        BY <1>1, <2>1, <2>2 DEF SameNode, HeadIs, NodeIn
      <3> QED
        BY <2>1, <3>1, SameIsSmaller
    <2>3. CASE m2[k] = HeadCell(0, FALSE)
      <3>1. m2[k].kind = "head" /\ m2[k].size = 0 /\ m2[k].free = FALSE
        BY <2>3 DEF HeadCell
      <3>2. 0 \in Nat /\ 0 <= m[k].size
        BY <2>1
      <3> QED
        BY <1>1, <2>1, <3>1, <3>2 DEF SmallerNode, NodeIn
    <2> QED
      BY <1>1, <2>2, <2>3
  <1>3. InOrder(m2, last, end, N)
    BY <1>2, MarkedOrder
  <1>4. \A k \in N : /\ ~m[k].free => ~m2[k].free
                     /\ (m2[k].free = m[k].free /\ m2[k].size = m[k].size) \/ m2[k].size = 0
    BY <1>1 DEF HeadCell
  <1>5. BlocksIn(m2, h, N)
    BY <1>4 DEF BlocksIn
  <1> QED
    BY <1>3, <1>5

\* So do writes elsewhere to the list of elements.
LEMMA ListedKept ==
    ASSUME NEW m, NEW f, NEW h, NEW s, Listed(m, f, h, s),
           NEW m2, \A b \in DOMAIN h : h[b].what = "list" => m2[b] = m[b],
           NEW h2, \A b : b \in DOMAIN h2 /\ h2[b].what = "list" <=> b \in DOMAIN h /\ h[b].what = "list"
    PROVE  Listed(m2, f, h2, s)
  <1>1. \A i \in 1 .. Len(s) : /\ s[i] \in DOMAIN h2 /\ h2[s[i]].what = "list"
                               /\ m2[s[i]] = m[s[i]]
    BY DEF Listed
  <1>2. \A b \in DOMAIN h2 : h2[b].what = "list" => \E i \in 1 .. Len(s) : s[i] = b
    BY DEF Listed
  <1> QED
    BY <1>1, <1>2 DEF Listed

-----------------------------------------------------------------------------
(* malloc *)

LEMMA SmallRemainder ==
    ASSUME NEW x \in Nat, NEW y \in Nat, x < y
    PROVE  x % y = x
  OBVIOUS

LEMMA RestFits ==
    ASSUME NEW n \in Nat, NEW x \in Nat, NEW size \in Nat, x >= size + Header
    PROVE  /\ n + Header + size \in Nat /\ n + 1 < n + Header + size
           /\ (n + Header + size) + Header <= n + Header + x
           /\ x - size - Header \in Nat /\ x - size - Header <= n + Header + x
  BY DEF Header

\* What SplitNode and the marking as not free leave, before the block is written.
IsTaken(m, n, size, rest) ==
    /\ DOMAIN m = Units
    /\ m[n] = HeadCell(size, FALSE)
    /\ mem[n].size = size => \A u \in Units \ {n} : m[u] = mem[u]
    /\ mem[n].size # size =>
         /\ rest \in Units /\ rest + 1 \in Units
         /\ m[n + 1].kind = "links" /\ m[n + 1].next = rest
         /\ m[rest] = HeadCell(mem[n].size - size - Header, TRUE)
         /\ m[rest + 1].kind = "links" /\ m[rest + 1].next = mem[n + 1].next
         /\ \A u \in Units \ {n, n + 1, rest, rest + 1} : m[u] = mem[u]

LEMMA TakenMemory ==
    ASSUME MemOK(mem), NEW n \in Units, n + 1 \in Units, n \in Nat, NEW size \in Nat,
           mem[n].size \in Nat, mem[n].size = size \/ mem[n].size >= size + Header,
           n + Header + mem[n].size <= LastUnit, NEW rest, rest = n + Header + size
    PROVE  IsTaken(Taken(n, size), n, size, rest)
  <1>1. /\ Header = 2 /\ LastUnit \in Nat /\ SizeMod \in Nat /\ LastUnit < SizeMod
        /\ Units = 0 .. LastUnit /\ DOMAIN mem = Units
    BY UnitsFit DEF MemOK
  <1>2. CASE mem[n].size = size
    <2>1. Taken(n, size) = Write(mem, {n}, HeadCell(size, FALSE))
      BY <1>2 DEF Taken
    <2> QED
      BY <1>1, <1>2, <2>1 DEF Write, IsTaken
  <1>3. CASE mem[n].size # size
    <2> DEFINE left == mem[n].size - size - Header
               next == mem[n + 1].next
               m1 == Write(mem, {rest}, HeadCell(Remainder(mem[n].size, size), TRUE))
               m2 == Write(m1, {rest + 1}, Stored(m1, rest, next))
               m3 == Write(m2, {n}, HeadCell(size, FALSE))
               m4 == Write(m3, {n + 1}, Links(rest, mem[n + 1].last))
    <2>1. Taken(n, size) = m4
      BY <1>3 DEF Taken
    <2>2. /\ left \in Nat /\ left < SizeMod /\ rest \in Nat /\ rest + 1 \in Units /\ rest \in Units
          /\ n + 1 < rest
      <3> DEFINE e == n + Header + mem[n].size
      <3>1. /\ left \in Nat /\ left <= e /\ rest \in Nat /\ n + 1 < rest /\ rest + Header <= e
        BY <1>3, RestFits
      <3>2. e <= LastUnit /\ e \in Nat
        BY <1>1
      <3> HIDE DEF e, left
      <3>3. LastUnit \in Nat /\ SizeMod \in Nat /\ LastUnit < SizeMod /\ Header = 2
        BY <1>1
      <3>4. left < SizeMod /\ rest + 1 \in 0 .. LastUnit /\ rest \in 0 .. LastUnit
        BY <3>1, <3>2, <3>3
      <3> QED
        BY <1>1, <3>1, <3>4
    <2>3. Remainder(mem[n].size, size) = left
      BY <1>1, <2>2, SmallRemainder DEF Remainder
    <2>4. Stored(m1, rest, next).kind = "links" /\ Stored(m1, rest, next).next = next
      BY DEF Stored, Links
    <2> HIDE DEF left, next
    <2>5. DOMAIN m1 = Units /\ \A u \in Units : m1[u] = IF u = rest THEN HeadCell(left, TRUE) ELSE mem[u]
      BY <1>1, <2>3 DEF Write
    <2> HIDE DEF m1
    <2>6. DOMAIN m2 = Units /\ \A u \in Units : m2[u] = IF u = rest + 1 THEN Stored(m1, rest, next) ELSE m1[u]
      BY <2>5 DEF Write
    <2> HIDE DEF m2
    <2>7. DOMAIN m3 = Units /\ \A u \in Units : m3[u] = IF u = n THEN HeadCell(size, FALSE) ELSE m2[u]
      BY <2>6 DEF Write
    <2> HIDE DEF m3
    <2>8. DOMAIN m4 = Units /\ \A u \in Units : m4[u] = IF u = n + 1 THEN Links(rest, mem[n + 1].last) ELSE m3[u]
      BY <2>7 DEF Write
    <2> HIDE DEF m4
    <2>9. /\ m4[n] = HeadCell(size, FALSE) /\ m4[n + 1] = Links(rest, mem[n + 1].last)
          /\ m4[rest] = HeadCell(left, TRUE) /\ m4[rest + 1] = Stored(m1, rest, next)
          /\ \A u \in Units \ {n, n + 1, rest, rest + 1} : m4[u] = mem[u]
      <3>0. n # n + 1 /\ rest # n /\ rest # n + 1 /\ rest + 1 # n /\ rest + 1 # n + 1 /\ rest # rest + 1
        BY <2>2
      <3>1. m4[n] = HeadCell(size, FALSE) /\ m4[n + 1] = Links(rest, mem[n + 1].last)
        BY <2>7, <2>8, <3>0, Zenon
      <3>2. m4[rest] = HeadCell(left, TRUE)
        BY <2>2, <2>5, <2>6, <2>7, <2>8, <3>0, Zenon
      <3>3. m4[rest + 1] = Stored(m1, rest, next)
        BY <2>2, <2>6, <2>7, <2>8, <3>0, Zenon
      <3>4. \A u \in Units \ {n, n + 1, rest, rest + 1} : m4[u] = mem[u]
        BY <2>5, <2>6, <2>7, <2>8
      <3> QED
        BY <3>1, <3>2, <3>3, <3>4
    <2>10. m4[n + 1].kind = "links" /\ m4[n + 1].next = rest
      BY <2>9 DEF Links
    <2>11. m4[rest + 1].kind = "links" /\ m4[rest + 1].next = next
      BY <2>4, <2>9
    <2> QED
      BY <1>3, <2>1, <2>2, <2>8, <2>9, <2>10, <2>11 DEF left, next, IsTaken
  <1> QED
    BY <1>2, <1>3

\* Some nodes are in order and have the blocks in use, n among them.
SomeNodes(m, last, end, h, n) ==
    \E N : InOrder(m, last, end, N) /\ BlocksIn(m, h, N) /\ n \in N

\* The nodes and blocks then, of which the one at b is new.
LEMMA TakenNodes ==
    ASSUME MemOK(mem), NEW end \in Nat, end < LastUnit,
           NEW N, InOrder(mem, lastNode, end, N), BlocksIn(mem, held, N),
           NEW n \in N, NEW size \in Nat \ {0}, Fits(n, size),
           mem[n].size = size \/ mem[n].size >= size + Header,
           NEW b, b = n + Header,
           NEW h, DOMAIN h = DOMAIN held \cup {b},
           Asked(h[b]) = size,
           \A c \in DOMAIN held : c # b => h[c] = held[c],
           NEW m, m = Taken(n, size)
    PROVE  /\ MemOK(m)
           /\ SomeNodes(m, LastNodeAfterSplit(n, size), end, h, n)
           /\ b + size <= end
           /\ b \in Units /\ b \notin DOMAIN held
           /\ \A c \in DOMAIN held : m[c] = mem[c]
  <1> DEFINE rest == n + Header + size
  <1>1. /\ n \in Units /\ n + 1 \in Units /\ n \in Nat /\ mem[n].size \in Nat
        /\ NodeEnd(mem, n) \in Nat /\ NodeEnd(mem, n) <= end /\ Node(n) /\ NodeIn(mem, n)
        /\ n + Header + mem[n].size = NodeEnd(mem, n)
        /\ Header = 2 /\ LastUnit \in Nat /\ Units = 0 .. LastUnit
        /\ mem[n].free /\ mem[n].size >= size
    <2>1. n \in Units /\ n + 1 \in Units /\ Node(n) /\ NodeIn(mem, n) /\ mem[n].size \in Nat
      BY DEF InOrder, NodeIn, Node
    <2>2. n \in Nat /\ NodeEnd(mem, n) \in Nat /\ NodeEnd(mem, n) <= end
      BY OrderFacts
    <2>3. n + Header + mem[n].size = NodeEnd(mem, n) /\ mem[n].free /\ mem[n].size >= size
      BY DEF NodeEnd, Fits
    <2> QED
      BY <2>1, <2>2, <2>3, UnitsFit
  <1>0. \A k \in N : /\ k \in Nat /\ mem[k].size \in Nat /\ NodeEnd(mem, k) \in Nat
                     /\ k + Header <= NodeEnd(mem, k)
                     /\ k # n => NodeEnd(mem, k) <= n \/ NodeEnd(mem, n) <= k
    <2>1. \A k \in N : /\ k \in Nat /\ mem[k].size \in Nat /\ NodeEnd(mem, k) \in Nat
                       /\ k + Header <= NodeEnd(mem, k)
      BY OrderFacts
    <2>2. \A k \in N : k < n \/ n < k \/ k = n
      <3>1. n \in Nat /\ \A k \in N : k \in Nat
        BY <1>1, <2>1
      <3> QED
        BY <3>1
    <2> QED
      BY <2>1, <2>2 DEF InOrder
  <1>2. IsTaken(m, n, size, rest)
    <2>1. n + Header + mem[n].size <= LastUnit
      BY <1>1
    <2>2. rest = n + Header + size /\ size \in Nat
      OBVIOUS
    <2> HIDE DEF rest
    <2>3. IsTaken(Taken(n, size), n, size, rest)
      BY <1>1, <2>1, <2>2, TakenMemory
    <2> QED
      BY <2>3
  <1>3. b \in Units /\ b \notin DOMAIN held /\ b \in Nat
    <2>1. b \notin DOMAIN held
      BY <1>1 DEF BlocksIn
    <2> QED
      BY <1>1, <2>1
  <1>4. b + size <= end /\ rest = b + size /\ b + size <= NodeEnd(mem, n)
    BY <1>1
  <1>13. ASSUME NEW c \in DOMAIN held
         PROVE  /\ c \in Nat /\ Asked(held[c]) \in Nat \ {0}
                /\ c + Asked(held[c]) <= n \/ NodeEnd(mem, n) + Header <= c
                /\ c < n \/ NodeEnd(mem, n) + Header <= c
    BY <1>1, BlockFacts, BlocksOutside
  <1>5. ASSUME NEW c \in DOMAIN held PROVE m[c] = mem[c]
    <2>1. /\ c \in Units /\ c \in Nat /\ c # n /\ c # n + 1
          /\ ~ (n <= c /\ c < NodeEnd(mem, n))
      <3>1. c \in Units
        BY DEF BlocksIn
      <3>2. n \in Nat /\ n + Header <= NodeEnd(mem, n) /\ NodeEnd(mem, n) \in Nat /\ Header = 2
        BY <1>0, <1>1
      <3> QED
        BY <1>13, <3>1, <3>2
    <2>2. mem[n].size # size => c # rest /\ c # rest + 1
      <3>1. ASSUME mem[n].size # size PROVE rest + Header <= NodeEnd(mem, n)
        <4>1. PICK x : x = mem[n].size
          OBVIOUS
        <4>2. x \in Nat /\ x >= size + Header /\ n + Header + x = NodeEnd(mem, n)
          BY <1>1, <3>1, <4>1
        <4> QED
          BY <1>1, <4>2, RestFits
      <3>2. n <= rest /\ rest \in Nat
        BY <1>1
      <3> HIDE DEF rest
      <3> QED
        BY <1>1, <2>1, <3>1, <3>2
    <2> HIDE DEF rest
    <2> QED
      BY <1>2, <2>1, <2>2 DEF IsTaken
  <1>6. MemOK(m)
    <2>1. CASE mem[n].size = size
      BY <1>1, <1>2, <2>1 DEF MemOK, HeadCell, IsTaken
    <2>2. CASE mem[n].size # size
      <3>1. mem[n + 1].next \in Pointers /\ rest \in Pointers
        BY <1>1, <1>2, <2>2 DEF MemOK, NodeIn, Pointers, IsTaken
      <3> HIDE DEF rest
      <3>2. ASSUME NEW u \in Units, m[u].kind \in {"links", "element"} PROVE m[u].next \in Pointers
        <4>1. CASE u \in {n, rest}
          BY <1>2, <2>2, <3>2, <4>1 DEF HeadCell, IsTaken
        <4>2. CASE u \in {n + 1, rest + 1}
          <5>1. (m[n + 1]).next = rest /\ (m[rest + 1]).next = mem[n + 1].next
            BY <1>2, <2>2 DEF IsTaken
          <5> QED
            BY <3>1, <4>2, <5>1
        <4>3. CASE u \notin {n, n + 1, rest, rest + 1}
          BY <1>2, <2>2, <3>2, <4>3 DEF MemOK, IsTaken
        <4> QED
          BY <4>1, <4>2, <4>3
      <3> QED
        BY <1>2, <3>2 DEF MemOK, IsTaken
    <2> QED
      BY <2>1, <2>2
  <1>7. ASSUME NEW k \in N \ {n}
        PROVE  m[k] = mem[k] /\ m[k + 1] = mem[k + 1]
    <2>1. /\ k \in Units /\ k + 1 \in Units /\ k \in Nat
          /\ NodeEnd(mem, k) \in Nat /\ k + Header <= NodeEnd(mem, k)
      BY <1>0 DEF InOrder, NodeIn
    <2>2. NodeEnd(mem, k) <= n \/ NodeEnd(mem, n) <= k
      BY <1>0
    <2>3. k \notin {n, n + 1} /\ k + 1 \notin {n, n + 1}
      <3>1. n \in Nat /\ n + Header <= NodeEnd(mem, n) /\ NodeEnd(mem, n) \in Nat /\ Header = 2
        BY <1>0, <1>1
      <3> QED
        BY <2>1, <2>2, <3>1
    <2>4. mem[n].size # size => k \notin {rest, rest + 1} /\ k + 1 \notin {rest, rest + 1}
      <3>1. ASSUME mem[n].size # size PROVE rest + Header <= NodeEnd(mem, n)
        <4>1. PICK x : x = mem[n].size
          OBVIOUS
        <4>2. x \in Nat /\ x >= size + Header /\ n + Header + x = NodeEnd(mem, n)
          BY <1>1, <3>1, <4>1
        <4> QED
          BY <1>1, <4>2, RestFits
      <3>2. n < rest /\ rest \in Nat /\ n \in Nat /\ Header = 2 /\ NodeEnd(mem, n) \in Nat
        BY <1>1
      <3> HIDE DEF rest
      <3> QED
        BY <2>1, <2>2, <3>1, <3>2
    <2> HIDE DEF rest
    <2> QED
      BY <1>2, <2>1, <2>3, <2>4 DEF IsTaken
  <1>8. \A k \in N \ {n} : SameNode(mem, m, k)
    BY <1>7 DEF InOrder, SameNode, HeadIs, NodeIn
  <1>9. /\ DOMAIN h = DOMAIN held \cup {b}
        /\ Asked(h[b]) = size
        /\ \A c \in DOMAIN held : c # b /\ h[c] = held[c]
    BY <1>3
  <1>10. ASSUME NEW N2, n \in N2, N \subseteq N2,
                \A k \in N2 \ N : /\ m[k].free = TRUE /\ k = rest
                                  /\ rest + Header <= NodeEnd(mem, n)
         PROVE  BlocksIn(m, h, N2)
    <2>1. DOMAIN h \subseteq Units
      BY <1>3, <1>9 DEF BlocksIn
    <2>2. ASSUME NEW c \in DOMAIN h
          PROVE  /\ c - Header \in N2 /\ ~m[c - Header].free /\ Asked(h[c]) \in Nat \ {0}
                 /\ \A k \in N2 : c <= k => c + Asked(h[c]) <= k
      <3>1. CASE c = b
        <4>1. c - Header = n /\ ~m[n].free
          BY <1>1, <1>2, <3>1 DEF HeadCell, IsTaken
        <4>2. ASSUME NEW k \in N2, b <= k PROVE b + size <= k
          <5>1. CASE k \in N
            <6>1. k \in Nat /\ NodeEnd(mem, k) \in Nat /\ k + Header <= NodeEnd(mem, k)
                  /\ (k # n => NodeEnd(mem, k) <= n \/ NodeEnd(mem, n) <= k)
              BY <1>0, <5>1
            <6>2. n \in Nat /\ Header = 2 /\ NodeEnd(mem, n) \in Nat /\ b = n + Header /\ size \in Nat
              BY <1>1
            <6> QED
              BY <1>4, <4>2, <6>1, <6>2
          <5>2. CASE k \notin N
            <6>1. k = rest
              BY <1>10, <5>2
            <6> QED
              BY <1>1, <6>1
          <5> QED
            BY <5>1, <5>2
        <4> QED
          BY <1>9, <1>10, <3>1, <4>1, <4>2
      <3>2. CASE c # b
        <4>1. c \in DOMAIN held /\ h[c] = held[c]
          BY <1>9, <3>2
        <4>2. c - Header \in N /\ ~mem[c - Header].free /\ c - Header # n
          BY <1>1, <4>1 DEF BlocksIn
        <4>3. ~m[c - Header].free
          BY <1>7, <4>2
        <4>4. ASSUME NEW k \in N2, c <= k PROVE c + Asked(held[c]) <= k
          <5>1. CASE k \in N
            BY <4>1, <4>4, <5>1 DEF BlocksIn
          <5>2. CASE k \notin N
            <6>1. k = rest /\ rest + Header <= NodeEnd(mem, n)
              BY <1>10, <5>2
            <6>2. PICK e : e = NodeEnd(mem, n)
              OBVIOUS
            <6>3. PICK a : a = Asked(held[c])
              OBVIOUS
            <6>4. c \in Nat /\ a \in Nat /\ (c + a <= n \/ e + Header <= c)
              BY <1>13, <4>1, <6>2, <6>3
            <6>5. n \in Nat /\ Header = 2 /\ e \in Nat /\ size \in Nat /\ n <= rest /\ rest \in Nat
              BY <1>1, <6>2
            <6> HIDE DEF rest
            <6>6. c + a <= k
              BY <4>4, <6>1, <6>2, <6>4, <6>5
            <6> QED
              BY <6>3, <6>6
          <5> QED
            BY <5>1, <5>2
        <4> QED
          BY <1>10, <4>1, <4>2, <4>3, <4>4 DEF BlocksIn
      <3> QED
        BY <3>1, <3>2
    <2>3. ASSUME NEW k \in N2 PROVE k + Header \in DOMAIN h \/ m[k].free \/ m[k].size = 0
      <3>1. CASE k = n
        BY <1>9, <3>1
      <3>2. CASE k \in N \ {n}
        BY <1>7, <1>9, <3>2 DEF BlocksIn
      <3>3. CASE k \in N2 \ N
        BY <1>10, <3>3
      <3> QED
        BY <3>1, <3>2, <3>3
    <2> QED
      BY <2>1, <2>2, <2>3 DEF BlocksIn
  <1>11. \E N2 : /\ InOrder(m, LastNodeAfterSplit(n, size), end, N2) /\ BlocksIn(m, h, N2)
                 /\ n \in N2
    <2>1. CASE mem[n].size = size
      <3>1. SameNode(mem, m, n)
        BY <1>1, <1>2, <2>1 DEF SameNode, HeadIs, HeadCell, NodeIn, IsTaken
      <3>2. InOrder(m, lastNode, end, N)
        <4>1. \A k \in N : SameNode(mem, m, k) /\ mem[k].size \in Nat
          BY <1>0, <1>8, <3>1
        <4>2. \A k \in N : SmallerNode(mem, m, k)
          BY <4>1, SameIsSmaller
        <4> QED
          BY <4>2, MarkedOrder
      <3>3. BlocksIn(m, h, N)
        BY <1>10
      <3> QED
        BY <2>1, <3>2, <3>3 DEF LastNodeAfterSplit
    <2>2. CASE mem[n].size # size
      <3>1. mem[n].size >= size + Header /\ size \in Nat
        BY <2>2
      <3>2. /\ HeadIs(m, n, size) /\ m[n + 1].next = rest
            /\ HeadIs(m, rest, mem[n].size - size - Header) /\ m[rest + 1].next = mem[n + 1].next
        <4>1. /\ m[n].kind = "head" /\ m[n].size = size /\ m[n].free = FALSE
              /\ m[n + 1].kind = "links" /\ m[n + 1].next = rest
          BY <1>2, <2>2 DEF HeadCell, IsTaken
        <4>2. /\ m[rest].kind = "head" /\ m[rest].size = mem[n].size - size - Header
              /\ m[rest].free = TRUE
              /\ m[rest + 1].kind = "links" /\ m[rest + 1].next = mem[n + 1].next
          BY <1>2, <2>2 DEF HeadCell, IsTaken
        <4> HIDE DEF rest
        <4> QED
          BY <1>1, <1>2, <2>2, <4>1, <4>2 DEF HeadIs, NodeIn, IsTaken
      <3>3. InOrder(m, IF n = lastNode THEN rest ELSE lastNode, end, N \cup {rest})
        <4> HIDE DEF rest
        <4> QED
          BY <1>8, <3>1, <3>2, SplitOrder DEF rest
      <3>4. m[rest].free = TRUE /\ rest + Header <= NodeEnd(mem, n)
        <4>1. rest + Header <= n + Header + mem[n].size
          BY <1>1, <3>1, RestFits
        <4> QED
          BY <1>1, <1>2, <2>2, <4>1 DEF HeadCell, IsTaken
      <3> HIDE DEF rest
      <3>5. BlocksIn(m, h, N \cup {rest})
        BY <1>10, <3>4
      <3> QED
        BY <2>2, <3>3, <3>5 DEF LastNodeAfterSplit, rest
    <2> QED
      BY <2>1, <2>2
  <1> QED
    BY <1>3, <1>4, <1>5, <1>6, <1>11 DEF SomeNodes

\* LinkedListAllocate puts the element b at the end of the list.
Appended(m, f, h, s, b, m2, f2, h2) ==
    /\ DOMAIN h \subseteq Units /\ b \in Units /\ b \notin DOMAIN h
    /\ DOMAIN h2 = DOMAIN h \cup {b} /\ h2[b].what = "list"
    /\ \A c \in DOMAIN h : h2[c] = h[c]
    /\ f2 = IF f = NULL THEN b ELSE f
    /\ m2[b] = Element(NULL)
    /\ \A i \in 1 .. Len(s) : m2[s[i]] = IF i = Len(s) THEN Element(b) ELSE m[s[i]]

LEMMA AppendListed ==
    ASSUME NEW m, NEW f, NEW h, NEW s, Listed(m, f, h, s), NEW b, NEW m2, NEW f2, NEW h2,
           Appended(m, f, h, s, b, m2, f2, h2)
    PROVE  Listed(m2, f2, h2, Append(s, b))
  <1> DEFINE l == Len(s)
             t == Append(s, b)
  <1>0. /\ DOMAIN h \subseteq Units /\ b \in Units /\ b \notin DOMAIN h
        /\ DOMAIN h2 = DOMAIN h \cup {b} /\ h2[b].what = "list"
        /\ \A c \in DOMAIN h : h2[c] = h[c]
        /\ f2 = IF f = NULL THEN b ELSE f
        /\ m2[b] = Element(NULL)
        /\ \A i \in 1 .. l : m2[s[i]] = IF i = l THEN Element(b) ELSE m[s[i]]
    BY DEF Appended
  <1>1. s \in Seq(Units) /\ l \in Nat /\ \A i \in 1 .. l : s[i] \in Units /\ s[i] \in DOMAIN h
    BY <1>0 DEF Listed
  <1>2. /\ t \in Seq(Units) /\ Len(t) = l + 1 /\ t # <<>>
        /\ t[l + 1] = b /\ \A i \in 1 .. l : t[i] = s[i]
    <2>1. s \in Seq(Units) /\ b \in Units
      BY <1>0, <1>1
    <2>2. t \in Seq(Units) /\ Len(t) = Len(s) + 1
      BY <2>1
    <2>3. t[Len(s) + 1] = b /\ \A i \in 1 .. Len(s) : t[i] = s[i]
      BY <2>1
    <2> HIDE DEF t
    <2> QED
      BY <1>0, <1>1, <2>2, <2>3
  <1>3. \A i \in 1 .. l + 1 : i \in 1 .. l \/ i = l + 1
    <2>1. l \in Nat
      BY <1>0, <1>1
    <2> HIDE DEF l
    <2> QED
      BY <2>1
  <1> HIDE DEF t
  <1>4. \A i, j \in 1 .. l + 1 : t[i] = t[j] => i = j
    <2>1. ASSUME NEW i \in 1 .. l, NEW j \in 1 .. l, t[i] = t[j] PROVE i = j
      <3>1. s[i] = s[j]
        BY <1>0, <1>2, <2>1
      <3> QED
        BY <3>1 DEF Listed
    <2>2. \A i \in 1 .. l : t[i] # b
      BY <1>0, <1>1, <1>2
    <2> QED
      BY <1>0, <1>2, <1>3, <2>1, <2>2
  <1>5. ASSUME NEW i \in 1 .. l + 1
        PROVE  /\ t[i] \in DOMAIN h2 /\ h2[t[i]].what = "list"
               /\ m2[t[i]].kind = "element"
               /\ m2[t[i]].next = IF i = l + 1 THEN NULL ELSE t[i + 1]
    <2>1. CASE i = l + 1
      BY <1>0, <1>2, <2>1 DEF Element
    <2>2. CASE i \in 1 .. l
      <3>1. t[i] = s[i] /\ i # l + 1
        BY <1>1, <1>2, <2>2
      <3>2. t[i] \in DOMAIN h2 /\ h2[t[i]].what = "list"
        BY <1>0, <1>1, <2>2, <3>1 DEF Listed
      <3>3. CASE i = l
        BY <1>0, <1>2, <2>2, <3>1, <3>2, <3>3 DEF Element
      <3>4. CASE i # l
        <4>1. m2[s[i]] = m[s[i]] /\ m[s[i]].kind = "element" /\ m[s[i]].next = s[i + 1]
          BY <1>0, <2>2, <3>4 DEF Listed
        <4>2. i + 1 \in 1 .. l
          BY <1>0, <1>1, <2>2, <3>4
        <4> QED
          BY <1>0, <1>2, <3>1, <3>2, <4>1, <4>2
      <3> QED
        BY <3>3, <3>4
    <2> QED
      BY <1>3, <2>1, <2>2
  <1>6. ASSUME NEW c \in DOMAIN h2, h2[c].what = "list"
        PROVE  \E i \in 1 .. l + 1 : t[i] = c
    <2>1. CASE c = b
      <3>1. l + 1 \in 1 .. l + 1
        BY <1>0, <1>1
      <3> QED
        BY <1>0, <1>2, <2>1, <3>1
    <2>2. CASE c \in DOMAIN h
      <3>1. PICK i \in 1 .. l : s[i] = c
        BY <1>0, <1>6, <2>2 DEF Listed
      <3>2. i \in 1 .. l + 1
        BY <1>0, <1>1, <3>1
      <3> QED
        BY <1>0, <1>2, <3>1, <3>2
    <2> QED
      BY <1>0, <1>6, <2>1, <2>2
  <1>7. f2 = t[1]
    <2>1. CASE s = <<>>
      BY <1>0, <1>2, <2>1 DEF Listed
    <2>2. CASE s # <<>>
      <3>1. 1 \in 1 .. l
        BY <1>0, <1>1, <2>2
      <3>2. f = s[1] /\ f \in Units
        BY <1>0, <1>1, <2>2, <3>1 DEF Listed
      <3> QED
        BY <1>0, <1>2, <3>1, <3>2, UnitsFit
    <2> QED
      BY <2>1, <2>2
  <1>8. t \in Seq(Units) /\ Len(t) = l + 1 /\ t # <<>>
    BY <1>2
  <1> HIDE DEF l
  <1> QED
    BY <1>4, <1>5, <1>6, <1>7, <1>8 DEF Listed, t

\* What the caller of malloc and LinkedListAllocate write.
LEMMA UsedMemory ==
    ASSUME NEW m, DOMAIN m = Units, NEW b \in Units, b \in Nat,
           CallOK, call.what # "none", ListIntact
    PROVE  /\ DOMAIN Used(m, b) = Units
           /\ call.what = "malloc" =>
                \A u \in Units : Used(m, b)[u] = IF u \in Extent(b, call.size) THEN Data ELSE m[u]
           /\ call.what = "list" =>
                \A u \in Units : Used(m, b)[u] = IF first # NULL /\ u = LastElement THEN Element(b)
                                                 ELSE IF u = b THEN Element(NULL)
                                                 ELSE IF u = b + 1 /\ call.size = 2
                                                 THEN Cleared(m, b + 1) ELSE m[u]
  <1>1. CASE call.what = "malloc"
    BY <1>1 DEF Used, Write
  <1>2. CASE call.what = "list"
    <2> DEFINE behind == Extent(b + 1, call.size - 1)
               m1 == Write(m, behind, Cleared(m, b + 1))
               m2 == Write(m1, {b}, Element(NULL))
    <2>1. \A u : u \in behind <=> u = b + 1 /\ call.size = 2
      <3>1. call.size \in 1 .. 2
        BY <1>2 DEF CallOK
      <3>2. call.size = 1 \/ call.size = 2
        BY <3>1
      <3> QED
        BY <3>2 DEF Extent
    <2> HIDE DEF behind
    <2>2. DOMAIN m1 = Units /\ \A u \in Units : m1[u] = IF u = b + 1 /\ call.size = 2
                                                        THEN Cleared(m, b + 1) ELSE m[u]
      BY <2>1 DEF Write
    <2>4. Used(m, b) = IF first = NULL THEN m2 ELSE Write(m2, {LastElement}, Element(b))
      BY <1>2 DEF Used, behind
    <2> HIDE DEF m1
    <2>5. DOMAIN m2 = Units /\ \A u \in Units : m2[u] = IF u = b THEN Element(NULL) ELSE m1[u]
      BY <2>2 DEF Write
    <2> HIDE DEF m2
    <2>6. CASE first = NULL
      BY <1>2, <2>2, <2>4, <2>5, <2>6
    <2>7. CASE first # NULL
      <3>1. Used(m, b) = Write(m2, {LastElement}, Element(b))
        BY <2>4, <2>7
      <3> QED
        BY <1>2, <2>2, <2>5, <2>7, <3>1 DEF Write
    <2> QED
      BY <2>6, <2>7
  <1> QED
    BY <1>1, <1>2 DEF CallOK

LEMMA TakeStep ==
    ASSUME Shape, Take, ~damaged'
    PROVE  Shape'
  <1>1. PICK N : InOrder(mem, lastNode, heapEnd, N) /\ BlocksIn(mem, held, N) /\ CallInv(N)
    BY DEF Shape
  <1>2. PICK s : Listed(mem, first, held, s)
    BY DEF Shape
  <1> DEFINE n == call.node
             size == MallocSize
             b == n + Header
             m == Taken(n, size)
             end == heapEnd
             last2 == LastNodeAfterSplit(n, size)
  <1>3. /\ call.what \in {"malloc", "list"} /\ size \in Nat \ {0}
        /\ call.what = "malloc" => call.size = size
        /\ call.what = "list" => size = 1
        /\ n \in N /\ CallOK /\ call.what # "none"
    <2>1. CallOK /\ call.what # "none" /\ n \in N
      BY <1>1 DEF Take, Visiting, CallInv
    <2>2. call.what \in {"malloc", "list"}
      BY <2>1 DEF CallOK
    <2> QED
      BY <2>1, <2>2, AskedIs
  <1>4. /\ MemOK(mem) /\ PagesInv /\ CountInv /\ end \in Nat /\ end < LastUnit
    BY HeapEndFits DEF Shape
  <1>5. /\ Fits(n, size) /\ Node(n) /\ outcome = "ok"
        /\ mem' = Used(m, b) /\ lastNode' = last2
        /\ held' = [c \in DOMAIN held \cup {b} |-> IF c = b THEN [what |-> call.what, size |-> call.size]
                                                  ELSE held[c]]
        /\ first' = IF call.what = "list" /\ first = NULL THEN b ELSE first
        /\ call' = NoCall
        /\ outcome' = IF call.what = "malloc" \/ ListIntact THEN "ok" ELSE "wild"
        /\ top' = top /\ owned' = owned
        /\ ~NoRoomForHeader(n, size)
    BY DEF Take, Visiting
  <1>6. mem[n].size = size \/ mem[n].size >= size + Header
    <2>1. mem[n].size \in Nat /\ mem[n].size >= size
      BY <1>1, <1>3, <1>5 DEF InOrder, Fits
    <2>2. ~(size < mem[n].size /\ mem[n].size < size + Header)
      BY <1>5 DEF NoRoomForHeader
    <2> HIDE DEF n, size
    <2> QED
      BY <1>3, <2>1, <2>2, UnitsFit
  <1>7. /\ MemOK(m)
        /\ SomeNodes(m, last2, end, held', n)
        /\ b + size <= end
        /\ b \in Units /\ b \notin DOMAIN held
        /\ \A c \in DOMAIN held : m[c] = mem[c]
    <2>1. /\ DOMAIN held' = DOMAIN held \cup {b}
          /\ Asked(held'[b]) = size
          /\ \A c \in DOMAIN held : c # b => held'[c] = held[c]
      BY <1>3, <1>5 DEF MallocSize, Asked
    <2> HIDE DEF n, size, b, m, end, last2
    <2>2. b = n + Header /\ m = Taken(n, size) /\ last2 = LastNodeAfterSplit(n, size)
          /\ InOrder(mem, lastNode, end, N)
      BY <1>1 DEF b, m, last2, end
    <2> QED
      BY <1>1, <1>3, <1>4, <1>5, <1>6, <2>1, <2>2, TakenNodes
  <1>8. PICK N2 : InOrder(m, last2, end, N2) /\ BlocksIn(m, held', N2) /\ n \in N2
    BY <1>7 DEF SomeNodes
  <1>9. /\ Elements = {s[i] : i \in 1 .. Len(s)} /\ ListIntact
        /\ s # <<>> => LastElement = s[Len(s)]
        /\ first # NULL => s # <<>>
    BY <1>2, <1>4, ElementsListed DEF Listed
  <1> HIDE DEF n, size, b, m, end, last2
  <1>10. /\ DOMAIN held' = DOMAIN held \cup {b} /\ held'[b].what = call.what
         /\ Asked(held'[b]) = size
         /\ \A c \in DOMAIN held : held'[c] = held[c] /\ c # b
    <2>1. /\ DOMAIN held' = DOMAIN held \cup {b}
          /\ held'[b] = [what |-> call.what, size |-> call.size]
          /\ \A c \in DOMAIN held : held'[c] = held[c] /\ c # b
      BY <1>5, <1>7
    <2> QED
      BY <2>1 DEF Asked, MallocSize, size
  <1>11. b \in Nat /\ n \in Nat /\ b = n + Header
    <2>1. n \in Units /\ n \in Nat
      BY <1>1, <1>3, UnitsFit DEF InOrder
    <2>2. b = n + Header /\ Header = 2
      BY UnitsFit DEF b
    <2> QED
      BY <2>1, <2>2
  <1>12. /\ DOMAIN mem' = Units
         /\ call.what = "malloc" =>
              \A u \in Units : mem'[u] = IF u \in Extent(b, size) THEN Data ELSE m[u]
         /\ call.what = "list" =>
              \A u \in Units : mem'[u] = IF first # NULL /\ u = LastElement THEN Element(b)
                                         ELSE IF u = b THEN Element(NULL)
                                         ELSE IF u = b + 1 /\ call.size = 2
                                         THEN Cleared(m, b + 1) ELSE m[u]
    <2>1. DOMAIN m = Units
      BY <1>7 DEF MemOK
    <2>2. b \in Units
      BY <1>7
    <2>4. /\ DOMAIN Used(m, b) = Units
          /\ call.what = "malloc" =>
               \A u \in Units : Used(m, b)[u] = IF u \in Extent(b, call.size) THEN Data ELSE m[u]
          /\ call.what = "list" =>
               \A u \in Units : Used(m, b)[u] = IF first # NULL /\ u = LastElement THEN Element(b)
                                                ELSE IF u = b THEN Element(NULL)
                                                ELSE IF u = b + 1 /\ call.size = 2
                                                THEN Cleared(m, b + 1) ELSE m[u]
      BY <1>3, <1>9, <1>11, <2>1, <2>2, UsedMemory
    <2> QED
      BY <1>3, <1>5, <2>4
  <1>13. first # NULL => LastElement \in DOMAIN held /\ LastElement \in Units
    <2>1. ASSUME first # NULL PROVE Len(s) \in 1 .. Len(s) /\ LastElement = s[Len(s)]
      BY <1>2, <1>9, <2>1 DEF Listed
    <2> QED
      BY <1>1, <1>2, <2>1 DEF Listed, BlocksIn
  <1>14. MemOK(mem')
    <2>1. CASE call.what = "malloc"
      BY <1>7, <1>12, <2>1 DEF MemOK, Data
    <2>2. CASE call.what = "list"
      <3>1. Cleared(m, b + 1).kind \in {"head", "data"}
        BY DEF Cleared, HeadCell, Data
      <3>2. b \in Pointers /\ NULL \in Pointers
        BY <1>7 DEF Pointers
      <3>3. ASSUME NEW u \in Units, mem'[u].kind \in {"links", "element"} PROVE mem'[u].next \in Pointers
        <4>1. mem'[u] \in {Element(b), Element(NULL), m[u]}
          BY <1>12, <2>2, <3>1, <3>3
        <4> QED
          BY <1>7, <3>2, <3>3, <4>1 DEF MemOK, Element
      <3> QED
        BY <1>12, <3>3 DEF MemOK
    <2> QED
      BY <1>3, <2>1, <2>2
  <1>15. /\ InOrder(mem', last2, end, N2) /\ BlocksIn(mem', held', N2)
    <2>0. b \in DOMAIN held' /\ b \in Nat /\ size \in Nat \ {0} /\ \A c \in DOMAIN held' : Apart(N2, c)
      <3>1. ASSUME NEW c \in DOMAIN held' PROVE Apart(N2, c)
        <4>1. c \in Nat /\ Asked(held'[c]) \in Nat \ {0}
          BY <1>4, <1>8, BlockFacts
        <4>2. c <= c /\ c < c + Asked(held'[c])
          BY <4>1
        <4> QED
          BY <1>4, <1>8, <4>1, <4>2, BlocksAt
      <3> QED
        BY <1>3, <1>10, <1>11, <3>1
    <2>1. ASSUME NEW u \in Units
          PROVE  mem'[u] = m[u] \/ Apart(N2, u) \/ (u \in N2 /\ mem'[u] = HeadCell(0, FALSE))
      <3>1. CASE call.what = "malloc" /\ u \in Extent(b, size)
        <4>1. u \in Nat /\ b <= u /\ u < b + Asked(held'[b])
          <5>1. u \in Int /\ b <= u /\ u <= b + size - 1
            BY <2>0, <3>1 DEF Extent
          <5> QED
            BY <1>10, <2>0, <5>1
        <4> QED
          BY <1>4, <1>8, <2>0, <4>1, BlocksAt
      <3>2. CASE call.what = "list" /\ u \in DOMAIN held'
        BY <2>0, <3>2
      <3>3. CASE call.what = "list" /\ u \notin DOMAIN held' /\ u = b + 1 /\ u \in N2
        <4>1. m[u].kind = "head"
          BY <1>8, <3>3 DEF InOrder, NodeIn
        <4>2. Cleared(m, u) = HeadCell(0, FALSE)
          BY <4>1 DEF Cleared
        <4>3. mem'[u] = Cleared(m, u) \/ mem'[u] = m[u]
          BY <1>10, <1>12, <1>13, <3>3
        <4> QED
          BY <3>3, <4>2, <4>3
      <3>4. CASE call.what = "list" /\ u \notin DOMAIN held' /\ u = b + 1 /\ u \notin N2
        <4>1. ASSUME NEW k \in N2 PROVE u # k + 1
          <5>1. k \in Nat /\ b # k
            BY <1>4, <1>8, <2>0, OrderFacts DEF Apart
          <5> QED
            BY <1>11, <3>4, <5>1
        <4> QED
          BY <3>4, <4>1 DEF Apart
      <3>5. CASE call.what = "list" /\ u \notin DOMAIN held' /\ u # b + 1
        BY <1>10, <1>12, <1>13, <3>5
      <3>6. CASE call.what = "malloc" /\ u \notin Extent(b, size)
        BY <1>12, <3>6
      <3> QED
        BY <1>3, <3>1, <3>2, <3>3, <3>4, <3>5, <3>6
    <2> QED
      BY <1>4, <1>8, <2>1, InteriorWrites
  <1>21. ASSUME NEW c \in DOMAIN held
         PROVE  c \in Units /\ c \in Nat /\ (c < b \/ b + size + Header <= c)
    <2>1. c \in DOMAIN held' /\ c # b /\ b \in DOMAIN held'
      BY <1>10
    <2>2. c < b \/ b + Asked(held'[b]) + Header <= c
      BY <1>4, <1>8, <2>1, OtherBlocks
    <2>3. c \in Units /\ c \in Nat
      BY <1>4, <1>8, <2>1, BlockFacts
    <2> QED
      BY <1>10, <2>2, <2>3
  <1>16. \E t : Listed(mem', first', held', t)
    <2>1. CASE call.what = "malloc"
      <3>1. ASSUME NEW c \in DOMAIN held PROVE mem'[c] = mem[c]
        <4>1. c \in Units /\ c \notin Extent(b, size)
          BY <1>3, <1>11, <1>21, UnitsFit DEF Extent
        <4> QED
          BY <1>7, <1>12, <2>1, <4>1
      <3>2. \A c : c \in DOMAIN held' /\ held'[c].what = "list" <=> c \in DOMAIN held /\ held[c].what = "list"
        BY <1>10, <2>1
      <3>3. first' = first
        BY <1>5, <2>1
      <3> QED
        BY <1>2, <3>1, <3>2, <3>3, ListedKept
    <2>2. CASE call.what = "list"
      <3>1. first' = IF first = NULL THEN b ELSE first
        BY <1>5, <2>2
      <3>2. /\ DOMAIN held \subseteq Units /\ Len(s) \in Nat
            /\ \A i \in 1 .. Len(s) : s[i] \in DOMAIN held /\ s[i] # b
            /\ \A i, j \in 1 .. Len(s) : s[i] = s[j] => i = j
            /\ first = NULL <=> s = <<>>
        <4>1. \A i \in 1 .. Len(s) : s[i] \in DOMAIN held /\ s[i] # b
          BY <1>2, <1>7 DEF Listed
        <4>2. DOMAIN held \subseteq Units
          BY <1>1 DEF BlocksIn
        <4>3. s # <<>> => 1 \in 1 .. Len(s)
          BY <1>2 DEF Listed
        <4> QED
          BY <1>2, <4>1, <4>2, <4>3, UnitsFit DEF Listed
      <3>3. mem'[b] = Element(NULL)
        BY <1>7, <1>12, <1>13, <2>2
      <3>4. ASSUME NEW i \in 1 .. Len(s)
            PROVE  mem'[s[i]] = IF i = Len(s) THEN Element(b) ELSE mem[s[i]]
        <4>1. s # <<>> /\ Len(s) \in 1 .. Len(s) /\ first # NULL /\ LastElement = s[Len(s)]
          BY <1>9, <3>2
        <4>2. s[i] \in Units /\ s[i] # b /\ s[i] # b + 1 /\ m[s[i]] = mem[s[i]]
          <5>1. s[i] \in DOMAIN held /\ s[i] # b
            BY <3>2
          <5>2. s[i] \in Units /\ s[i] # b + 1
            BY <1>3, <1>11, <1>21, <2>2, <5>1, UnitsFit
          <5> QED
            BY <1>7, <5>1, <5>2
        <4>3. s[i] = LastElement <=> i = Len(s)
          BY <3>2, <4>1
        <4> QED
          BY <1>12, <2>2, <4>1, <4>2, <4>3
      <3>5. held'[b].what = "list"
        BY <1>10, <2>2
      <3> QED
        <4>1. \A c \in DOMAIN held : held'[c] = held[c]
          BY <1>10
        <4>2. b \in Units /\ b \notin DOMAIN held /\ DOMAIN held' = DOMAIN held \cup {b}
          BY <1>7, <1>10
        <4>3. DOMAIN held \subseteq Units
          BY <3>2
        <4>4. Appended(mem, first, held, s, b, mem', first', held')
          BY <3>1, <3>3, <3>4, <3>5, <4>1, <4>2, <4>3 DEF Appended
        <4>5. Listed(mem', first', held', Append(s, b))
          BY <1>2, <4>4, AppendListed
        <4> QED
          BY <4>5
    <2> QED
      BY <1>3, <2>1, <2>2
  <1>17. CountInv'
    <2>1. IsFiniteSet(DOMAIN held) /\ Cardinality(DOMAIN held) < MaxHeld
      BY <1>3, <1>4 DEF CountInv
    <2>2. /\ IsFiniteSet(DOMAIN held') /\ Cardinality(DOMAIN held) \in Nat
          /\ Cardinality(DOMAIN held') = Cardinality(DOMAIN held) + 1
      BY <1>7, <1>10, <2>1, FS_AddElement, FS_CardinalityType
    <2>3. Cardinality(DOMAIN held') <= MaxHeld
      BY <2>1, <2>2, UnitsFit
    <2> QED
      BY <1>5, <2>2, <2>3 DEF CountInv, NoCall
  <1>18. PagesInv' /\ heapEnd' = heapEnd
    BY <1>4, <1>5 DEF PagesInv, heapEnd
  <1>19. CallInv(N2)'
    BY <1>5 DEF CallInv, CallOK, NoCall
  <1>20. InOrder(mem', lastNode', heapEnd', N2)
    BY <1>5, <1>15, <1>18 DEF end
  <1> QED
    BY <1>14, <1>15, <1>16, <1>17, <1>18, <1>19, <1>20 DEF Shape

LEMMA MallocStep ==
    ASSUME Shape, NEW what, NEW size, Malloc(what, size),
           \/ what = "malloc" /\ size \in Sizes
           \/ what = "list" /\ size \in ElementSizes
    PROVE  Shape'
  <1>1. PICK N : InOrder(mem, lastNode, heapEnd, N) /\ BlocksIn(mem, held, N) /\ CallInv(N)
    BY DEF Shape
  <1>2. /\ mem' = mem /\ lastNode' = lastNode /\ top' = top /\ owned' = owned
        /\ held' = held /\ first' = first /\ outcome' = outcome
        /\ call' = [what |-> what, size |-> size, node |-> heapStart]
        /\ Cardinality(DOMAIN held) < MaxHeld
    BY DEF Malloc
  <1>3. /\ what \in {"malloc", "list"} /\ size \in Nat \ {0}
        /\ what = "list" => size \in 1 .. 2
    <2>1. Sizes \subseteq Nat \ {0} /\ ElementSizes \subseteq 1 .. 2
      BY SizesAssumption
    <2>2. CASE what = "malloc" /\ size \in Sizes
      BY <2>1, <2>2
    <2>3. CASE what = "list" /\ size \in ElementSizes
      BY <2>1, <2>3
    <2> QED
      BY <2>2, <2>3
  <1>4. /\ call'.what = what /\ call'.size = size /\ call'.node = heapStart
    BY <1>2
  <1>5. heapStart \in N /\ \A k \in N : ~(k < heapStart)
    BY <1>1, UnitsFit DEF InOrder, heapStart
  <1>6. CallInv(N)'
    <2>1. CallOK'
      BY <1>2, <1>3, <1>4 DEF CallOK
    <2> QED
      BY <1>2, <1>4, <1>5, <2>1 DEF CallInv
  <1>7. heapEnd' = heapEnd /\ PagesInv' /\ CountInv'
    BY <1>2 DEF heapEnd, PagesInv, CountInv, Shape
  <1>8. MemOK(mem') /\ \E s : Listed(mem', first', held', s)
    BY <1>2 DEF Shape
  <1>9. InOrder(mem', lastNode', heapEnd', N) /\ BlocksIn(mem', held', N)
    BY <1>1, <1>2, <1>7
  <1> QED
    BY <1>6, <1>7, <1>8, <1>9 DEF Shape

LEMMA AdvanceStep ==
    ASSUME Shape, Advance
    PROVE  Shape'
  <1>1. PICK N : InOrder(mem, lastNode, heapEnd, N) /\ BlocksIn(mem, held, N) /\ CallInv(N)
    BY DEF Shape
  <1> DEFINE n == call.node
             next == mem[n + 1].next
  <1>2. /\ mem' = mem /\ lastNode' = lastNode /\ top' = top /\ owned' = owned
        /\ held' = held /\ first' = first
        /\ call.what # "none" /\ ~Fits(n, MallocSize) /\ n # lastNode
        /\ call' = IF next = NULL THEN NoCall ELSE [call EXCEPT !.node = next]
        /\ outcome' = IF next = NULL \/ Node(next) THEN "ok" ELSE "wild"
    BY DEF Advance, Visiting
  <1>3. n \in N /\ \A k \in N : k < n => ~Fits(k, MallocSize)
    BY <1>1, <1>2 DEF CallInv
  <1>4. next \in N /\ \A k \in N : k <= n \/ next <= k
    BY <1>1, <1>2, <1>3 DEF InOrder, IsNext
  <1>5. /\ heapEnd \in Nat
        /\ \A k \in N : k \in Nat /\ k \in Units
    BY <1>1, HeapEndFits, UnitsFit DEF Shape, InOrder
  <1> HIDE DEF n, next
  <1>6. ASSUME NEW k \in N, k < next PROVE ~Fits(k, MallocSize)
    <2>1. k < n \/ k = n \/ n < k
      <3>1. k \in Nat /\ n \in Nat
        BY <1>3, <1>5
      <3> QED
        BY <3>1
    <2>2. ~(n < k)
      <3>1. k <= n \/ next <= k
        BY <1>4
      <3>2. k \in Nat /\ n \in Nat /\ next \in Nat
        BY <1>3, <1>4, <1>5
      <3> QED
        BY <1>6, <3>1, <3>2
    <2> QED
      BY <1>2, <1>3, <2>1, <2>2
  <1>7. call' = [call EXCEPT !.node = next]
    BY <1>2, <1>4, <1>5, UnitsFit
  <1>8. /\ call' = [what |-> call'.what, size |-> call'.size, node |-> call'.node]
        /\ call'.what = call.what /\ call'.size = call.size /\ call'.node = next
    BY <1>1, <1>7 DEF CallInv, CallOK
  <1>9. MallocSize' = MallocSize
    BY <1>8 DEF MallocSize, Asked
  <1>10. \A k \in N : Fits(k, MallocSize)' <=> Fits(k, MallocSize)
    BY <1>2, <1>9 DEF Fits
  <1>11. CallInv(N)'
    <2>1. CallOK'
      BY <1>1, <1>8 DEF CallInv, CallOK
    <2> QED
      BY <1>1, <1>2, <1>4, <1>6, <1>8, <1>9, <1>10, <2>1 DEF CallInv
  <1>12. heapEnd' = heapEnd /\ PagesInv' /\ CountInv'
    BY <1>2, <1>8 DEF heapEnd, PagesInv, CountInv, Shape
  <1>13. MemOK(mem') /\ \E s : Listed(mem', first', held', s)
    BY <1>2 DEF Shape
  <1>14. InOrder(mem', lastNode', heapEnd', N) /\ BlocksIn(mem', held', N)
    BY <1>1, <1>2, <1>12
  <1> QED
    BY <1>11, <1>12, <1>13, <1>14 DEF Shape

LEMMA PagesFor ==
    ASSUME NEW size \in Nat \ {0}
    PROVE  /\ (size + PageUnits - 1) \div PageUnits \in Nat \ {0}
           /\ \A t \in Nat, k \in Nat : (t + k) * PageUnits = t * PageUnits + k * PageUnits
  <1>1. PageUnits \in Nat \ {0}
    BY SizesAssumption DEF Header
  <1>2. ASSUME NEW p \in Nat \ {0}, NEW x \in Nat, x >= p PROVE x \div p \in Nat \ {0}
    <2> DEFINE q == x \div p
    <2>1. q \in Int /\ x = p * q + (x % p) /\ x % p < p
      BY <1>2
    <2>2. ASSUME q <= 0 PROVE FALSE
      <3>1. p * q <= 0
        BY <2>1, <2>2
      <3>2. p * q \in Int /\ x % p \in Int
        BY <2>1
      <3> HIDE DEF q
      <3> QED
        BY <1>2, <2>1, <3>1, <3>2
    <2> QED
      BY <2>1, <2>2
  <1>3. size + PageUnits - 1 \in Nat /\ size + PageUnits - 1 >= PageUnits
    BY <1>1
  <1>4. \A t \in Nat, k \in Nat : (t + k) * PageUnits = t * PageUnits + k * PageUnits
    BY <1>1
  <1> QED
    BY <1>1, <1>2, <1>3, <1>4

\* What ExpandHeap leaves in memory: a node at new behind n.
IsGrown(m, n, new, size) ==
    /\ DOMAIN m = Units
    /\ m[n + 1].kind = "links" /\ m[n + 1].next = new
    /\ m[new] = HeadCell(size, TRUE)
    /\ m[new + 1].kind = "links" /\ m[new + 1].next = NULL
    /\ \A u \in Units \ {n + 1, new, new + 1} : m[u] = mem[u]

LEMMA GrownMemory ==
    ASSUME MemOK(mem), NEW n \in Nat, n + 1 \in Units, NEW new \in Nat, new + 1 \in Units, new \in Units,
           n + Header <= new, NEW size, NEW last
    PROVE  IsGrown(Write(Write(Write(mem, {new}, HeadCell(size, TRUE)), {new + 1}, Links(NULL, lastNode)),
                         {n + 1}, Links(new, last)),
                   n, new, size)
  <1> DEFINE m1 == Write(mem, {new}, HeadCell(size, TRUE))
             m2 == Write(m1, {new + 1}, Links(NULL, lastNode))
             m == Write(m2, {n + 1}, Links(new, last))
  <1>0. new # new + 1 /\ n + 1 # new /\ n + 1 # new + 1
    BY UnitsFit
  <1>1. DOMAIN m1 = Units /\ \A u \in Units : m1[u] = IF u = new THEN HeadCell(size, TRUE) ELSE mem[u]
    BY DEF Write, MemOK
  <1> HIDE DEF m1
  <1>3. DOMAIN m2 = Units /\ \A u \in Units : m2[u] = IF u = new + 1 THEN Links(NULL, lastNode) ELSE m1[u]
    BY <1>1 DEF Write
  <1> HIDE DEF m2
  <1>4. DOMAIN m = Units /\ \A u \in Units : m[u] = IF u = n + 1 THEN Links(new, last) ELSE m2[u]
    BY <1>3 DEF Write
  <1> HIDE DEF m
  <1>5. m[n + 1] = Links(new, last)
    BY <1>4, Zenon
  <1>6. m[new] = HeadCell(size, TRUE)
    BY <1>0, <1>1, <1>3, <1>4, Zenon
  <1>7. m[new + 1] = Links(NULL, lastNode)
    BY <1>0, <1>3, <1>4, Zenon
  <1>8. \A u \in Units \ {n + 1, new, new + 1} : m[u] = mem[u]
    BY <1>1, <1>3, <1>4
  <1>9. /\ m[n + 1].kind = "links" /\ m[n + 1].next = new
        /\ m[new + 1].kind = "links" /\ m[new + 1].next = NULL
    <2>1. \A x, y : Links(x, y).kind = "links" /\ Links(x, y).next = x
      BY DEF Links
    <2> QED
      BY <1>5, <1>7, <2>1
  <1>10. DOMAIN m = Units
    BY <1>4
  <1> QED
    BY <1>6, <1>8, <1>9, <1>10 DEF IsGrown, m, m2, m1

\* No header but n's changes, and no block.
Kept(m, N, n) ==
    /\ \A k \in N : m[k] = mem[k]
    /\ \A k \in N \ {n} : m[k + 1] = mem[k + 1]
    /\ \A c \in DOMAIN held : m[c] = mem[c]

\* The nodes and blocks then.
LEMMA GrownNodes ==
    ASSUME MemOK(mem), NEW n \in Units, NEW new \in Nat, new + 1 < LastUnit,
           NEW N, InOrder(mem, n, new, N), BlocksIn(mem, held, N),
           \A c \in DOMAIN held : c + Asked(held[c]) <= new,
           NEW size \in Nat, NEW m, IsGrown(m, n, new, size)
    PROVE  /\ MemOK(m)
           /\ InOrder(m, new, new + Header + size, N \cup {new})
           /\ BlocksIn(m, held, N \cup {new})
           /\ Kept(m, N, n)
  <1>0. /\ DOMAIN m = Units
        /\ m[n + 1].kind = "links" /\ m[n + 1].next = new
        /\ m[new].kind = "head" /\ m[new].size = size /\ m[new].free = TRUE
        /\ m[new + 1].kind = "links" /\ m[new + 1].next = NULL
        /\ \A u \in Units \ {n + 1, new, new + 1} : m[u] = mem[u]
    BY DEF IsGrown, HeadCell
  <1>1. /\ Header = 2 /\ n \in N /\ new \in Units /\ new + 1 \in Units
        /\ \A k \in N : /\ k \in Nat /\ k \in Units /\ k + 1 \in Units
                        /\ NodeEnd(mem, k) \in Nat /\ k + Header <= NodeEnd(mem, k)
                        /\ NodeEnd(mem, k) <= new
                        /\ NodeIn(mem, k)
    <2>1. new \in Units /\ new + 1 \in Units /\ Header = 2
      BY UnitsFit
    <2>2. \A k \in N : /\ k \in Nat /\ NodeEnd(mem, k) \in Nat /\ k + Header <= NodeEnd(mem, k)
                       /\ NodeEnd(mem, k) <= new
      BY OrderFacts
    <2> QED
      BY <2>1, <2>2 DEF InOrder, NodeIn
  <1>2. ASSUME NEW k \in N, NEW l \in N PROVE k # l + 1 /\ k # new /\ k + 1 # new /\ k # new + 1
    <2>1. k < l \/ l <= k
      BY <1>1
    <2>2. CASE k < l
      BY <1>1, <2>2
    <2>3. CASE l <= k
      <3>1. l = k \/ NodeEnd(mem, l) <= k
        <4>1. l = k \/ l < k
          BY <1>1, <2>3
        <4> QED
          BY <4>1 DEF InOrder
      <3> QED
        BY <1>1, <3>1
    <2> QED
      BY <2>1, <2>2, <2>3
  <1>3. ASSUME NEW k \in N
        PROVE  m[k] = mem[k] /\ (k # n => m[k + 1] = mem[k + 1])
    <2>1. k \notin {n + 1, new, new + 1} /\ k \in Units
      BY <1>1, <1>2
    <2>2. k # n => k + 1 \notin {n + 1, new, new + 1} /\ k + 1 \in Units
      <3>1. k # new /\ k + 1 # new /\ k \in Nat /\ n \in Nat /\ k + 1 \in Units
        BY <1>1, <1>2
      <3> QED
        BY <3>1
    <2> QED
      BY <1>0, <2>1, <2>2
  <1>4. ASSUME NEW c \in DOMAIN held PROVE m[c] = mem[c]
    <2>1. /\ c \in Units /\ c \in Nat /\ Asked(held[c]) \in Nat \ {0}
          /\ \A k \in N : k + Header <= c \/ c + Asked(held[c]) <= k
      BY BlockFacts
    <2> DEFINE a == Asked(held[c])
    <2>2. a \in Nat \ {0} /\ c + a <= new /\ (n + Header <= c \/ c + a <= n)
      BY <1>1, <2>1
    <2> HIDE DEF a
    <2>3. c \notin {n + 1, new, new + 1}
      BY <1>1, <2>1, <2>2
    <2> QED
      BY <1>0, <2>1, <2>3
  <1>5. MemOK(m)
    <2>1. new \in Pointers /\ NULL \in Pointers
      BY <1>1 DEF Pointers
    <2>2. ASSUME NEW u \in Units, m[u].kind \in {"links", "element"} PROVE m[u].next \in Pointers
      <3>1. CASE u \in {n + 1, new + 1}
        BY <1>0, <2>1, <3>1
      <3>2. CASE u = new
        BY <1>0, <2>2, <3>2
      <3>3. CASE u \notin {n + 1, new, new + 1}
        BY <1>0, <2>2, <3>3 DEF MemOK
      <3> QED
        BY <3>1, <3>2, <3>3
    <2> QED
      BY <1>0, <2>2 DEF MemOK
  <1>6. InOrder(m, new, new + Header + size, N \cup {new})
    <2>1. \A k \in N \ {n} : SameNode(mem, m, k)
      BY <1>3 DEF InOrder, SameNode, HeadIs, NodeIn
    <2>2. HeadIs(m, n, mem[n].size)
      BY <1>0, <1>1, <1>3 DEF HeadIs, NodeIn, InOrder
    <2>3. HeadIs(m, new, size)
      BY <1>0, <1>1 DEF HeadIs, NodeIn
    <2> QED
      BY <1>0, <2>1, <2>2, <2>3, GrownOrder
  <1>7. BlocksIn(m, held, N \cup {new})
    <2>1. ASSUME NEW k \in N \cup {new} PROVE k + Header \in DOMAIN held \/ m[k].free \/ m[k].size = 0
      <3>1. CASE k = new
        BY <1>0, <3>1
      <3>2. CASE k \in N
        BY <1>3, <3>2 DEF BlocksIn
      <3> QED
        BY <3>1, <3>2
    <2>2. \A c \in DOMAIN held : c - Header \in N /\ m[c - Header] = mem[c - Header]
      BY <1>3 DEF BlocksIn
    <2> QED
      BY <2>1, <2>2 DEF BlocksIn
  <1> QED
    BY <1>3, <1>4, <1>5, <1>6, <1>7 DEF Kept

\* The action, with the memory, the page and the size of the new node named.
Grows(n, page, numPages, m) ==
    LET new == page * PageUnits
        last == mem[n + 1].last
    IN  /\ ~(page + numPages > Pages)
        /\ m = Write(Write(Write(mem, {new}, HeadCell(numPages * PageUnits, TRUE)),
                           {new + 1}, Links(NULL, lastNode)), {n + 1}, Links(new, last))
        /\ mem' = m
        /\ lastNode' = new
        /\ top' = page + numPages
        /\ owned' = owned \cup Extent(page, numPages)
        /\ damaged' = (damaged \/ RunsInto(new))
        /\ \/ /\ call' = [call EXCEPT !.node = new]
              /\ UNCHANGED outcome
           \/ \E k \in Nodes :
                 /\ call' = [call EXCEPT !.node = m[k + 1].next]
                 /\ UNCHANGED outcome
           \/ /\ outcome' = "wild"
              /\ UNCHANGED call

LEMMA ExpandCases ==
    ASSUME ExpandHeap
    PROVE  /\ Visiting /\ ~Fits(call.node, MallocSize) /\ call.node = lastNode
           /\ held' = held /\ first' = first
           /\ \/ /\ outcome' = "out of memory"
                 /\ UNCHANGED <<mem, lastNode, top, owned, call, damaged>>
              \/ \E gap \in Gaps : \E m :
                    Grows(call.node, top + gap, (MallocSize + PageUnits - 1) \div PageUnits, m)
  <1> DEFINE numPages == (MallocSize + PageUnits - 1) \div PageUnits
  <1>1. /\ Visiting /\ ~Fits(call.node, MallocSize) /\ call.node = lastNode
        /\ held' = held /\ first' = first
    BY DEF ExpandHeap
  <1>2. SUFFICES ASSUME ~ (/\ outcome' = "out of memory"
                           /\ UNCHANGED <<mem, lastNode, top, owned, call, damaged>>)
                 PROVE  \E gap \in Gaps : \E m : Grows(call.node, top + gap, numPages, m)
    BY <1>1
  <1>3. PICK gap \in Gaps :
             LET n == call.node
                 last == mem[n + 1].last
                 page == top + gap
                 new == page * PageUnits
                 made == Write(Write(mem, {new}, HeadCell(numPages * PageUnits, TRUE)),
                               {new + 1}, Links(NULL, lastNode))
                 linked == Write(made, {n + 1}, Links(new, last))
             IN  IF page + numPages > Pages
                 THEN /\ outcome' = "out of memory"
                      /\ UNCHANGED <<mem, lastNode, top, owned, call, damaged>>
                 ELSE /\ mem' = linked
                      /\ lastNode' = new
                      /\ top' = page + numPages
                      /\ owned' = owned \cup Extent(page, numPages)
                      /\ damaged' = (damaged \/ RunsInto(new))
                      /\ \/ /\ last = NULL \/ Stray(linked, last)
                            /\ call' = [call EXCEPT !.node = new]
                            /\ UNCHANGED outcome
                         \/ \E m \in {m \in Nodes : m = last \/ Stray(linked, last)} :
                               /\ NodeIn(linked, m)
                               /\ call' = [call EXCEPT !.node = linked[m + 1].next]
                               /\ UNCHANGED outcome
                         \/ /\ Stray(linked, last)
                            /\ outcome' = "wild"
                            /\ UNCHANGED call
    BY Zenon DEF ExpandHeap
  <1> DEFINE n == call.node
             last == mem[n + 1].last
             page == top + gap
             new == page * PageUnits
             m == Write(Write(Write(mem, {new}, HeadCell(numPages * PageUnits, TRUE)),
                              {new + 1}, Links(NULL, lastNode)), {n + 1}, Links(new, last))
  <1>4. /\ ~(page + numPages > Pages)
        /\ mem' = m
        /\ lastNode' = new
        /\ top' = page + numPages
        /\ owned' = owned \cup Extent(page, numPages)
        /\ damaged' = (damaged \/ RunsInto(new))
    BY <1>2, <1>3, Zenon
  <1>5. \/ /\ call' = [call EXCEPT !.node = new]
           /\ UNCHANGED outcome
        \/ \E k \in Nodes :
              /\ call' = [call EXCEPT !.node = m[k + 1].next]
              /\ UNCHANGED outcome
        \/ /\ outcome' = "wild"
           /\ UNCHANGED call
    <2>1. \/ /\ last = NULL \/ Stray(m, last)
             /\ call' = [call EXCEPT !.node = new]
             /\ UNCHANGED outcome
          \/ \E k \in {k \in Nodes : k = last \/ Stray(m, last)} :
                /\ NodeIn(m, k)
                /\ call' = [call EXCEPT !.node = m[k + 1].next]
                /\ UNCHANGED outcome
          \/ /\ Stray(m, last)
             /\ outcome' = "wild"
             /\ UNCHANGED call
      BY <1>2, <1>3, Zenon
    <2> HIDE DEF m, last, new
    <2> QED
      BY <2>1, Zenon
  <1>6. Grows(n, page, numPages, m)
    BY <1>4, <1>5 DEF Grows
  <1> QED
    BY <1>6

LEMMA PagesFacts ==
    ASSUME PagesInv
    PROVE  /\ top \in Nat /\ top \in FirstPages .. Pages
           /\ FirstPages \in Nat /\ Pages \in Nat
           /\ owned \subseteq 0 .. (top - 1)
  <1>1. FirstPages \in Nat /\ Pages \in Nat
    BY SizesAssumption
  <1>2. top \in FirstPages .. Pages /\ owned \subseteq 0 .. (top - 1)
    BY DEF PagesInv
  <1>3. top \in Nat
    BY <1>1, <1>2
  <1> QED
    BY <1>1, <1>2, <1>3

LEMMA WriteDomain ==
    \A m, units, cell : DOMAIN Write(m, units, cell) = DOMAIN m
  BY DEF Write

\* What holds whatever is written over.
LEMMA PlainStep ==
    ASSUME PlainInv, [Next]_vars
    PROVE  PlainInv'
  <1> USE DEF PlainInv
  <1>1. /\ top \in Nat /\ top \in FirstPages .. Pages /\ FirstPages \in Nat /\ Pages \in Nat
        /\ owned \subseteq 0 .. (top - 1)
    BY PagesFacts
  <1>11. outcome \in {"ok", "wild", "out of memory"}
    BY DEF PagesInv
  <1>2. ASSUME DOMAIN mem' = Units, CallOK', damaged' \in BOOLEAN, top' = top, owned' = owned,
               outcome' \in {"ok", "wild"} \/ outcome' = outcome
        PROVE  PlainInv'
    BY <1>1, <1>2, <1>11 DEF PagesInv
  <1>3. ASSUME NEW what, NEW size, Malloc(what, size),
               \/ what = "malloc" /\ size \in Sizes
               \/ what = "list" /\ size \in ElementSizes
        PROVE  PlainInv'
    <2>1. Sizes \subseteq Nat \ {0} /\ ElementSizes \subseteq 1 .. 2
      BY SizesAssumption
    <2>2. what \in {"malloc", "list"} /\ size \in Nat \ {0} /\ (what = "list" => size \in 1 .. 2)
      <3>1. CASE what = "malloc" /\ size \in Sizes
        BY <2>1, <3>1
      <3>2. CASE what = "list" /\ size \in ElementSizes
        BY <2>1, <3>2
      <3> QED
        BY <1>3, <3>1, <3>2
    <2>3. CallOK'
      BY <1>3, <2>2 DEF Malloc, CallOK
    <2> QED
      BY <1>2, <1>3, <2>3 DEF Malloc
  <1>4. ASSUME NEW b, Free(b) \/ LinkedListRemove(b) PROVE PlainInv'
    <2>1. PICK relinked, cell : Release(b, relinked, cell)
      BY <1>4 DEF Free, LinkedListRemove
    <2>2. DOMAIN Freed(b - Header) = DOMAIN mem
      <3> DEFINE n == b - Header
                 next == mem[n + 1].next
                 after == mem[next + 1].next
                 size == mem[n].size + mem[next].size + Header
                 gone == Write(mem, {next, next + 1}, Data)
                 sized == Write(gone, {n}, HeadCell(size, TRUE))
                 merged == Write(sized, {n + 1}, Links(after, mem[n + 1].last))
                 back == Write(merged, {after + 1}, Links(mem[after + 1].next, n))
                 marked == Write(mem, {n}, HeadCell(mem[n].size, TRUE))
      <3>1. Freed(n) \in {marked, merged, back}
        BY DEF Freed
      <3>2. DOMAIN gone = DOMAIN mem /\ DOMAIN marked = DOMAIN mem
        BY WriteDomain
      <3> HIDE DEF gone, marked
      <3>5. DOMAIN sized = DOMAIN mem
        BY <3>2, WriteDomain
      <3> HIDE DEF sized
      <3>3. DOMAIN merged = DOMAIN mem
        BY <3>5, WriteDomain
      <3> HIDE DEF merged
      <3>4. DOMAIN back = DOMAIN mem
        BY <3>3, WriteDomain
      <3> HIDE DEF back
      <3> QED
        BY <3>1, <3>2, <3>3, <3>4
    <2>3. DOMAIN mem' = Units
      BY <2>1, <2>2, WriteDomain DEF Release
    <2> QED
      BY <1>2, <2>1, <2>3 DEF Release, CallOK
  <1>5. ASSUME NEW b, FreeLost(b) PROVE PlainInv'
    BY <1>2, <1>5 DEF FreeLost, Wild, CallOK
  <1>6. ASSUME Take PROVE PlainInv'
    <2>1. ASSUME NEW n, NEW size PROVE DOMAIN Taken(n, size) = DOMAIN mem
      <3> DEFINE rest == n + Header + size
                 split == Write(mem, {rest}, HeadCell(Remainder(mem[n].size, size), TRUE))
                 linked == Write(split, {rest + 1}, Stored(split, rest, mem[n + 1].next))
                 headed == Write(linked, {n}, HeadCell(size, FALSE))
                 whole == Write(mem, {n}, HeadCell(size, FALSE))
                 cut == Write(headed, {n + 1}, Links(rest, mem[n + 1].last))
      <3>1. Taken(n, size) \in {whole, cut}
        BY DEF Taken
      <3>2. DOMAIN split = DOMAIN mem /\ DOMAIN whole = DOMAIN mem
        BY WriteDomain
      <3> HIDE DEF split, whole
      <3>3. DOMAIN linked = DOMAIN mem
        BY <3>2, WriteDomain
      <3> HIDE DEF linked
      <3>4. DOMAIN headed = DOMAIN mem
        BY <3>3, WriteDomain
      <3> HIDE DEF headed
      <3>5. DOMAIN cut = DOMAIN mem
        BY <3>4, WriteDomain
      <3> HIDE DEF cut
      <3> QED
        BY <3>1, <3>2, <3>5
    <2>2. \A m, b : DOMAIN Used(m, b) = DOMAIN m
      BY WriteDomain DEF Used
    <2>3. DOMAIN mem' = Units
      BY <1>6, <2>1, <2>2 DEF Take
    <2>4. CallOK'
      BY <1>6 DEF Take, CallOK, NoCall
    <2> QED
      BY <1>2, <1>6, <2>3, <2>4 DEF Take
  <1>7. ASSUME Advance PROVE PlainInv'
    <2>1. PICK next : /\ call' = IF next = NULL THEN NoCall ELSE [call EXCEPT !.node = next]
                      /\ outcome' \in {"ok", "wild"}
      BY <1>7 DEF Advance
    <2>2. CallOK'
      BY <2>1 DEF CallOK, NoCall
    <2> QED
      BY <1>2, <1>7, <2>1, <2>2 DEF Advance
  <1>8. ASSUME ExpandHeap PROVE PlainInv'
    <2> DEFINE numPages == (MallocSize + PageUnits - 1) \div PageUnits
    <2>1. CASE outcome' = "out of memory" /\ UNCHANGED <<mem, lastNode, top, owned, call, damaged>>
      BY <1>1, <1>11, <2>1 DEF PagesInv, CallOK
    <2>2. CASE \E gap \in Gaps : \E m : Grows(call.node, top + gap, numPages, m)
      <3>1. PICK gap \in Gaps : \E m : Grows(call.node, top + gap, numPages, m)
        BY <2>2
      <3>2. PICK m : Grows(call.node, top + gap, numPages, m)
        BY <3>1
      <3>3. gap \in Nat /\ numPages \in Nat \ {0}
        <4>1. MallocSize \in Nat \ {0}
          BY <1>8, ExpandCases, AskedIs DEF Visiting
        <4> QED
          BY <4>1, PagesFor, SizesAssumption
      <3> HIDE DEF numPages
      <3>4. PICK page, new, last : /\ page = top + gap
                                   /\ m = Write(Write(Write(mem, {new}, HeadCell(numPages * PageUnits, TRUE)),
                                                      {new + 1}, Links(NULL, lastNode)),
                                                {call.node + 1}, Links(new, last))
                                   /\ mem' = m /\ top' = page + numPages /\ ~(page + numPages > Pages)
                                   /\ owned' = owned \cup Extent(page, numPages)
                                   /\ damaged' = (damaged \/ RunsInto(new))
        BY <3>2, Zenon DEF Grows
      <3>5. \/ call' = call
            \/ \E node : call' = [call EXCEPT !.node = node]
        BY <3>2, Zenon DEF Grows
      <3>6. outcome' \in {"ok", "wild", "out of memory"}
        BY <1>11, <3>2, Zenon DEF Grows
      <3>7. DOMAIN mem' = Units
        <4>1. \A m1, m2, m3 : \A a, c, d, e, f, g :
                m3 = Write(m2, a, c) /\ m2 = Write(m1, d, e) /\ m1 = Write(mem, f, g) => DOMAIN m3 = DOMAIN mem
          BY WriteDomain
        <4>2. DOMAIN m = DOMAIN mem
          BY <3>4, <4>1, Zenon
        <4> QED
          BY <3>4, <4>2
      <3>13. /\ page = top + gap /\ top' = page + numPages /\ ~(page + numPages > Pages)
             /\ owned' = owned \cup Extent(page, numPages)
        BY <3>4
      <3>8. CallOK'
        <4>1. CASE call' = call
          BY <4>1 DEF CallOK
        <4>2. CASE \E node : call' = [call EXCEPT !.node = node]
          BY <4>2 DEF CallOK
        <4> QED
          BY <3>5, <4>1, <4>2
      <3>9. top' \in FirstPages .. Pages
        BY <1>1, <3>3, <3>13
      <3>10. owned' \subseteq 0 .. (top' - 1)
        <4>1. /\ 0 .. (top - 1) \subseteq 0 .. (page + numPages - 1)
              /\ page .. (page + numPages - 1) \subseteq 0 .. (page + numPages - 1)
          BY <1>1, <3>3, <3>13
        <4>2. owned' = owned \cup (page .. (page + numPages - 1)) /\ top' - 1 = page + numPages - 1
          <5>1. page \in Nat
            BY <1>1, <3>3, <3>13
          <5>2. owned' = owned \cup (page .. (page + numPages - 1))
            BY <3>4 DEF Extent
          <5>3. top' - 1 = page + numPages - 1
            BY <3>3, <3>4, <5>1
          <5> QED
            BY <5>2, <5>3
        <4> QED
          BY <1>1, <4>1, <4>2, Zenon
      <3>11. damaged' \in BOOLEAN
        BY <3>4
      <3>12. PagesInv'
        BY <3>6, <3>9, <3>10 DEF PagesInv
      <3> QED
        BY <3>7, <3>8, <3>11, <3>12
    <2> QED
      BY <1>8, <2>1, <2>2, ExpandCases
  <1>9. ASSUME OthersWrite PROVE PlainInv'
    <2>1. PICK units : /\ mem' = Write(mem, units, Data)
                       /\ damaged' = (damaged \/ \E u \in units : mem[u] # Data)
      BY <1>9 DEF OthersWrite
    <2>2. DOMAIN mem' = Units
      BY <2>1, WriteDomain
    <2>3. CallOK'
      BY <1>9 DEF OthersWrite, CallOK
    <2> QED
      BY <1>2, <1>9, <2>1, <2>2, <2>3 DEF OthersWrite
  <1>10. ASSUME UNCHANGED vars PROVE PlainInv'
    BY <1>2, <1>10 DEF vars, CallOK
  <1> QED
    BY <1>3, <1>4, <1>5, <1>6, <1>7, <1>8, <1>9, <1>10 DEF Next, Calls, Walk

\* A node that does not run into the heap is behind all of it.
LEMMA BehindTheHeap ==
    ASSUME NEW end \in Nat, NEW N, InOrder(mem, lastNode, end, N), BlocksIn(mem, held, N),
           NEW new \in Nat, ~RunsInto(new)
    PROVE  /\ InOrder(mem, lastNode, new, N)
           /\ \A b \in DOMAIN held : b + Asked(held[b]) <= new
  <1>1. /\ lastNode \in N
        /\ \A n \in N : /\ n \in Nat /\ NodeEnd(mem, n) \in Nat /\ n + Header <= NodeEnd(mem, n)
                        /\ n <= lastNode
    BY OrderFacts
  <1>2. NodeEnd(mem, lastNode) <= new
    <2>1. ~(new < NodeEnd(mem, lastNode))
      BY DEF RunsInto, NodeEnd
    <2> QED
      BY <1>1, <2>1
  <1>3. ASSUME NEW n \in N PROVE NodeEnd(mem, n) <= new
    <2>1. CASE n = lastNode
      BY <1>2, <2>1
    <2>2. CASE n # lastNode
      <3>1. n < lastNode
        BY <1>1, <2>2
      <3>2. NodeEnd(mem, n) <= lastNode
        BY <1>1, <3>1 DEF InOrder
      <3> QED
        BY <1>1, <1>2, <3>2, UnitsFit
    <2> QED
      BY <2>1, <2>2
  <1>4. ASSUME NEW b \in DOMAIN held PROVE b + Asked(held[b]) <= new
    <2> DEFINE a == Asked(held[b])
    <2>1. ~(new < b + a)
      BY DEF RunsInto
    <2>2. b \in Nat /\ a \in Nat
      BY BlockFacts
    <2> HIDE DEF a
    <2>3. b + a <= new
      BY <2>1, <2>2
    <2> QED
      BY <2>3 DEF a
  <1> QED
    BY <1>3, <1>4 DEF InOrder

LEMMA ExpandStep ==
    ASSUME Shape, ~damaged', PlainInv', ExpandHeap
    PROVE  Shape'
  <1>1. PICK N : InOrder(mem, lastNode, heapEnd, N) /\ BlocksIn(mem, held, N) /\ CallInv(N)
    BY DEF Shape
  <1>2. PICK s : Listed(mem, first, held, s)
    BY DEF Shape
  <1> DEFINE n == call.node
             numPages == (MallocSize + PageUnits - 1) \div PageUnits
  <1>3. /\ MemOK(mem) /\ PagesInv /\ CountInv /\ heapEnd \in Nat /\ heapEnd < LastUnit
    BY HeapEndFits DEF Shape
  <1>4. /\ call.what # "none" /\ ~Fits(n, MallocSize) /\ n = lastNode /\ outcome = "ok"
        /\ held' = held /\ first' = first
    BY ExpandCases DEF Visiting
  <1>5. CASE outcome' = "out of memory" /\ UNCHANGED <<mem, lastNode, top, owned, call, damaged>>
    <2>1. heapEnd' = heapEnd /\ PagesInv' /\ CountInv' /\ CallInv(N)'
      BY <1>1, <1>3, <1>4, <1>5 DEF PlainInv, heapEnd, CountInv, CallInv, Fits, MallocSize
    <2>2. MemOK(mem') /\ Listed(mem', first', held', s)
      BY <1>2, <1>3, <1>4, <1>5
    <2>3. InOrder(mem', lastNode', heapEnd', N) /\ BlocksIn(mem', held', N)
      BY <1>1, <1>4, <1>5, <2>1
    <2> QED
      BY <2>1, <2>2, <2>3 DEF Shape
  <1>6. CASE \E gap \in Gaps : \E m : Grows(n, top + gap, numPages, m)
    <2>A. PICK gap \in Gaps : \E m : Grows(n, top + gap, numPages, m)
      BY <1>6
    <2>1. PICK m : Grows(n, top + gap, numPages, m)
      BY <2>A
    <2> DEFINE page == top + gap
    <2>2. /\ page \in Nat /\ FirstPages <= page /\ FirstPages \in Nat /\ Pages \in Nat
      <3>1. gap \in Nat
        BY SizesAssumption
      <3>2. top \in FirstPages .. Pages /\ FirstPages \in Nat /\ Pages \in Nat
        BY <1>3, PagesFacts
      <3> QED
        BY <3>1, <3>2
    <2>3. /\ CallOK
          /\ n \in N /\ \A k \in N : k < n => ~Fits(k, MallocSize)
          /\ call = [what |-> call.what, size |-> call.size, node |-> call.node]
      BY <1>1, <1>4 DEF CallInv, CallOK
    <2>0. PICK new, size : new = page * PageUnits /\ size = numPages * PageUnits
      OBVIOUS
    <2>4. numPages \in Nat \ {0} /\ (page + numPages) * PageUnits = new + size
          /\ size \in Nat
      <3>1. MallocSize \in Nat \ {0}
        BY <1>4, <2>3, AskedIs
      <3>2. numPages \in Nat \ {0} /\ PageUnits \in Nat
        BY <3>1, PagesFor, SizesAssumption
      <3> HIDE DEF page, numPages
      <3>3. (page + numPages) * PageUnits = new + size
        BY <2>0, <2>2, <3>2, PagesFor
      <3> QED
        BY <2>0, <3>2, <3>3
    <2> HIDE DEF n, numPages, page
    <2>5. /\ mem' = m /\ lastNode' = new
          /\ top' = page + numPages /\ ~(page + numPages > Pages)
          /\ ~RunsInto(new)
          /\ \/ /\ call' = [call EXCEPT !.node = new]
                /\ UNCHANGED outcome
             \/ \E k \in Nodes :
                   /\ call' = [call EXCEPT !.node = m[k + 1].next]
                   /\ UNCHANGED outcome
             \/ /\ outcome' = "wild"
                /\ UNCHANGED call
      <3>1. Grows(n, page, numPages, m)
        BY <2>1 DEF page
      <3> QED
        BY <2>0, <3>1, Zenon DEF Grows
    <2>6. m = Write(Write(Write(mem, {new}, HeadCell(size, TRUE)),
                          {new + 1}, Links(NULL, lastNode)), {n + 1}, Links(new, mem[n + 1].last))
      <3>1. Grows(n, page, numPages, m)
        BY <2>1 DEF page
      <3> QED
        BY <2>0, <3>1, Zenon DEF Grows
    <2>7. /\ heapEnd' = new + Header + size
          /\ new \in Nat /\ new + Header < LastUnit /\ Header = 2
      <3>2. page \in FirstPages .. Pages
        BY <2>2, <2>4, <2>5
      <3>4. heapEnd' = (page + numPages) * PageUnits + Header
        BY <2>5 DEF heapEnd
      <3>5. new \in Nat /\ new + Header < LastUnit /\ Header = 2
        BY <2>0, <3>2, HeapFits, UnitsFit
      <3>6. heapEnd' = new + Header + size
        BY <2>4, <3>4, <3>5
      <3> QED
        BY <3>5, <3>6
    <2>8. /\ n \in Units /\ n \in Nat /\ n + 1 \in Units /\ n + Header <= new
          /\ new \in Units /\ new + 1 \in Units /\ new + 1 < LastUnit
          /\ n = lastNode /\ InOrder(mem, n, new, N)
          /\ \A c \in DOMAIN held : c + Asked(held[c]) <= new
      <3>0. InOrder(mem, lastNode, new, N) /\ \A c \in DOMAIN held : c + Asked(held[c]) <= new
        BY <1>1, <1>3, <2>5, <2>7, BehindTheHeap
      <3>1. InOrder(mem, n, new, N) /\ n = lastNode
        BY <1>4, <3>0 DEF n
      <3>2. n \in N /\ n \in Units /\ n + 1 \in Units
        BY <3>1 DEF InOrder, NodeIn
      <3>3. n \in Nat /\ NodeEnd(mem, n) \in Nat /\ n + Header <= NodeEnd(mem, n) /\ NodeEnd(mem, n) <= new
        BY <2>7, <3>1, <3>2, OrderFacts
      <3>4. new \in Units /\ new + 1 \in Units /\ new + 1 < LastUnit
        BY <2>7, UnitsFit
      <3> QED
        BY <2>7, <3>0, <3>1, <3>2, <3>3, <3>4
    <2>9. IsGrown(m, n, new, size)
      BY <1>3, <2>6, <2>7, <2>8, GrownMemory
    <2>10. /\ MemOK(m)
           /\ InOrder(m, new, new + Header + size, N \cup {new})
           /\ BlocksIn(m, held, N \cup {new})
           /\ \A k \in N : m[k] = mem[k]
           /\ \A k \in N \ {n} : m[k + 1] = mem[k + 1]
           /\ \A c \in DOMAIN held : m[c] = mem[c]
      <3>1. new \in Nat /\ new + 1 < LastUnit /\ size \in Nat /\ n \in Units
        BY <2>4, <2>7, <2>8
      <3>2. /\ InOrder(mem, n, new, N) /\ BlocksIn(mem, held, N) /\ MemOK(mem)
            /\ \A c \in DOMAIN held : c + Asked(held[c]) <= new
        BY <1>1, <1>3, <2>8
      <3> QED
        <4>1. MemOK(m) /\ InOrder(m, new, new + Header + size, N \cup {new})
          BY <2>9, <3>1, <3>2, GrownNodes
        <4>2. BlocksIn(m, held, N \cup {new})
          BY <2>9, <3>1, <3>2, GrownNodes
        <4>3. Kept(m, N, n)
          BY <2>9, <3>1, <3>2, GrownNodes
        <4> QED
          BY <4>1, <4>2, <4>3 DEF Kept
    <2>11. Nodes = N
      BY <1>1, <1>3, NodesAre
    <2>12. \A k \in N : ~Fits(k, MallocSize)
      <3>1. ASSUME NEW k \in N PROVE k < n \/ k = n
        <4>1. k \in Nat /\ k <= n /\ n \in Nat
          BY <2>7, <2>8, OrderFacts
        <4> QED
          BY <4>1
      <3> QED
        BY <1>4, <2>3, <3>1 DEF n
    <2>13. /\ call' = [what |-> call'.what, size |-> call'.size, node |-> call'.node]
           /\ call'.what = call.what /\ call'.size = call.size
           /\ call'.node \in N \cup {new}
      <3>1. CASE call' = [call EXCEPT !.node = new]
        BY <2>3, <3>1
      <3>2. CASE \E k \in Nodes : call' = [call EXCEPT !.node = m[k + 1].next]
        <4>1. PICK k \in N : call' = [call EXCEPT !.node = m[k + 1].next]
          BY <2>11, <3>2
        <4>2. m[k + 1].next \in N \cup {new}
          <5>1. CASE k = n
            BY <2>9, <5>1 DEF IsGrown
          <5>2. CASE k # n
            BY <2>8, <2>10, <5>2 DEF InOrder, IsNext
          <5> QED
            BY <5>1, <5>2
        <4> QED
          BY <2>3, <4>1, <4>2
      <3>3. CASE UNCHANGED call
        BY <2>3, <3>3 DEF n
      <3> QED
        BY <2>5, <3>1, <3>2, <3>3
    <2>14. MallocSize' = MallocSize
      BY <2>13 DEF MallocSize, Asked
    <2>15. \A k \in N : ~Fits(k, MallocSize)'
      BY <2>5, <2>10, <2>12, <2>14 DEF Fits
    <2>16. ASSUME NEW k \in N \cup {new}, k < call'.node PROVE ~Fits(k, MallocSize)'
      <3>1. CASE k \in N
        BY <2>15, <3>1
      <3>2. CASE k = new
        <4>1. call'.node \in Nat /\ call'.node <= new /\ new \in Nat
          <5>1. \A l \in N : l \in Nat /\ NodeEnd(mem, l) \in Nat /\ l + Header <= NodeEnd(mem, l) /\ NodeEnd(mem, l) <= new
            BY <2>7, <2>8, OrderFacts
          <5> QED
            BY <2>7, <2>13, <5>1
        <4> QED
          BY <2>16, <3>2, <4>1
      <3> QED
        BY <3>1, <3>2
    <2>17. CallInv(N \cup {new})'
      <3>1. \A k \in N \cup {new} : k < call'.node => ~Fits(k, MallocSize)'
        BY <2>16
      <3> QED
        BY <2>13, <3>1 DEF CallInv, PlainInv
    <2>18. CountInv'
      BY <1>3, <1>4, <2>13 DEF CountInv
    <2>19. PagesInv'
      BY DEF PlainInv
    <2>20. Listed(mem', first', held', s)
      <3>1. \A c : c \in DOMAIN held' /\ held'[c].what = "list" <=> c \in DOMAIN held /\ held[c].what = "list"
        BY <1>4
      <3>2. \A c \in DOMAIN held : held[c].what = "list" => mem'[c] = mem[c]
        BY <2>5, <2>10
      <3> QED
        BY <1>2, <1>4, <3>1, <3>2, ListedKept
    <2>21. InOrder(mem', lastNode', heapEnd', N \cup {new}) /\ BlocksIn(mem', held', N \cup {new}) /\ MemOK(mem')
      BY <1>4, <2>5, <2>7, <2>10
    <2> DEFINE N2 == N \cup {new}
    <2>22. InOrder(mem', lastNode', heapEnd', N2) /\ BlocksIn(mem', held', N2) /\ CallInv(N2)'
      BY <2>17, <2>21
    <2> HIDE DEF N2
    <2>23. MemOK(mem')
      BY <2>21
    <2> QED
      BY <2>18, <2>19, <2>20, <2>22, <2>23 DEF Shape
  <1> QED
    BY <1>5, <1>6, ExpandCases

-----------------------------------------------------------------------------
(* free *)

\* What the marking as free leaves, and CombineForward when it takes `next` in.
IsMarked(m, n) ==
    /\ DOMAIN m = Units
    /\ m[n] = HeadCell(mem[n].size, TRUE)
    /\ \A u \in Units \ {n} : m[u] = mem[u]

IsMerged(m, n, next, after) ==
    /\ DOMAIN m = Units
    /\ m[n] = HeadCell(mem[n].size + mem[next].size + Header, TRUE)
    /\ m[n + 1].kind = "links" /\ m[n + 1].next = after
    /\ \A u \in {next, next + 1} : m[u] = Data
    /\ after # NULL => m[after + 1].kind = "links" /\ m[after + 1].next = mem[after + 1].next
    /\ \A u \in Units \ ({n, n + 1, next, next + 1} \cup {after + 1}) : m[u] = mem[u]
    /\ after = NULL => \A u \in Units \ {n, n + 1, next, next + 1} : m[u] = mem[u]

LEMMA MarkedMemory ==
    ASSUME DOMAIN mem = Units, NEW n \in Units,
           mem[n + 1].next = NULL \/ ~Merges(mem[n + 1].next)
    PROVE  IsMarked(Freed(n), n) /\ LastNodeAfterFree(n) = lastNode
  <1> DEFINE m == Write(mem, {n}, HeadCell(mem[n].size, TRUE))
  <1>1. Freed(n) = m
    BY DEF Freed
  <1>2. IsMarked(m, n)
    BY DEF IsMarked, Write
  <1>3. LastNodeAfterFree(n) = lastNode
    BY DEF LastNodeAfterFree
  <1> QED
    BY <1>1, <1>2, <1>3

LEMMA MergedMemory ==
    ASSUME DOMAIN mem = Units, NEW n \in Units, n + 1 \in Units, n \in Nat,
           NEW next, next = mem[n + 1].next, next \in Nat, next \in Units, next + 1 \in Units,
           n + 1 < next, Merges(next),
           NEW after, after = mem[next + 1].next,
           after = NULL \/ (after \in Nat /\ after + 1 \in Units /\ next + 1 < after)
    PROVE  /\ IsMerged(Freed(n), n, next, after)
           /\ LastNodeAfterFree(n) = IF next = lastNode THEN n ELSE lastNode
  <1> DEFINE size == mem[n].size + mem[next].size + Header
             m1 == Write(mem, {next, next + 1}, Data)
             m2 == Write(m1, {n}, HeadCell(size, TRUE))
             m3 == Write(m2, {n + 1}, Links(after, mem[n + 1].last))
             m4 == Write(m3, {after + 1}, Links(mem[after + 1].next, n))
  <1>0. next # NULL
    BY UnitsFit
  <1>1. Freed(n) = IF after = NULL THEN m3 ELSE m4
    BY <1>0 DEF Freed
  <1>2. LastNodeAfterFree(n) = IF next = lastNode THEN n ELSE lastNode
    BY <1>0 DEF LastNodeAfterFree
  <1> HIDE DEF size
  <1>3. DOMAIN m1 = Units /\ \A u \in Units : m1[u] = IF u \in {next, next + 1} THEN Data ELSE mem[u]
    BY DEF Write
  <1> HIDE DEF m1
  <1>4. DOMAIN m2 = Units /\ \A u \in Units : m2[u] = IF u = n THEN HeadCell(size, TRUE) ELSE m1[u]
    BY <1>3 DEF Write
  <1> HIDE DEF m2
  <1>5. DOMAIN m3 = Units /\ \A u \in Units : m3[u] = IF u = n + 1 THEN Links(after, mem[n + 1].last) ELSE m2[u]
    BY <1>4 DEF Write
  <1> HIDE DEF m3
  <1>6. DOMAIN m4 = Units /\ \A u \in Units :
           m4[u] = IF u = after + 1 THEN Links(mem[after + 1].next, n) ELSE m3[u]
    BY <1>5 DEF Write
  <1> HIDE DEF m4
  <1>7. n # n + 1 /\ n # next /\ n # next + 1 /\ n + 1 # next /\ n + 1 # next + 1
    OBVIOUS
  <1>8. /\ m3[n] = HeadCell(size, TRUE) /\ m3[n + 1] = Links(after, mem[n + 1].last)
        /\ m3[next] = Data /\ m3[next + 1] = Data
        /\ \A u \in Units \ {n, n + 1, next, next + 1} : m3[u] = mem[u]
    <2>1. m3[n] = HeadCell(size, TRUE)
      BY <1>4, <1>5, <1>7, Zenon
    <2>2. m3[n + 1] = Links(after, mem[n + 1].last)
      BY <1>5, Zenon
    <2>3. m3[next] = Data
      BY <1>3, <1>4, <1>5, <1>7, Zenon
    <2>4. m3[next + 1] = Data
      BY <1>3, <1>4, <1>5, <1>7, Zenon
    <2>5. \A u \in Units \ {n, n + 1, next, next + 1} : m3[u] = mem[u]
      BY <1>3, <1>4, <1>5
    <2> QED
      BY <2>1, <2>2, <2>3, <2>4, <2>5
  <1>9. \A x, y : Links(x, y).kind = "links" /\ Links(x, y).next = x
    BY DEF Links
  <1>10. CASE after = NULL
    <2>1. Freed(n) = m3
      BY <1>1, <1>10
    <2>2. m3[n + 1].kind = "links" /\ m3[n + 1].next = after
      BY <1>8, <1>9
    <2>3. IsMerged(m3, n, next, after)
      BY <1>5, <1>8, <1>10, <2>2 DEF IsMerged, size
    <2> QED
      BY <1>2, <2>1, <2>3
  <1>11. CASE after # NULL
    <2>1. Freed(n) = m4
      BY <1>1, <1>11
    <2>2. after + 1 # n /\ after + 1 # n + 1 /\ after + 1 # next /\ after + 1 # next + 1
      BY <1>11
    <2>3. m4[after + 1] = Links(mem[after + 1].next, n)
      BY <1>6, <1>11, Zenon
    <2>4. /\ m4[n] = m3[n] /\ m4[n + 1] = m3[n + 1] /\ m4[next] = m3[next] /\ m4[next + 1] = m3[next + 1]
      BY <1>6, <2>2, Zenon
    <2>5. \A u \in Units \ ({n, n + 1, next, next + 1} \cup {after + 1}) : m4[u] = mem[u]
      BY <1>6, <1>8
    <2>6. /\ m4[n + 1].kind = "links" /\ m4[n + 1].next = after
          /\ m4[after + 1].kind = "links" /\ m4[after + 1].next = mem[after + 1].next
      <3>1. m4[n + 1] = Links(after, mem[n + 1].last)
        BY <1>8, <2>4
      <3>2. m4[n + 1].kind = "links" /\ m4[n + 1].next = after
        BY <1>9, <3>1
      <3>3. m4[after + 1].kind = "links" /\ m4[after + 1].next = mem[after + 1].next
        <4>1. PICK c : c = Links(mem[after + 1].next, n)
          OBVIOUS
        <4>2. c.kind = "links" /\ c.next = mem[after + 1].next
          BY <4>1 DEF Links
        <4> QED
          BY <2>3, <4>1, <4>2
      <3> QED
        BY <3>2, <3>3
    <2>7. IsMerged(m4, n, next, after)
      BY <1>6, <1>8, <1>11, <2>4, <2>5, <2>6 DEF IsMerged, size
    <2> QED
      BY <1>2, <2>1, <2>7
  <1> QED
    BY <1>10, <1>11

\* The blocks when n is free, and larger at most, and other free nodes may be gone.
FreedBlock(N, n, b, N2, m, h) ==
    /\ b = n + Header
    /\ DOMAIN h = DOMAIN held \ {b}
    /\ \A c \in DOMAIN h : h[c] = held[c]
    /\ N2 \subseteq N /\ n \in N2
    /\ \A k \in N \ N2 : mem[k].free
    /\ m[n].free = TRUE
    /\ \A k \in N2 \ {n} : m[k] = mem[k]

LEMMA FreedBlocks ==
    ASSUME NEW N, \A k \in N : k \in Nat, BlocksIn(mem, held, N), NEW n, NEW b,
           NEW N2, NEW m, NEW h, FreedBlock(N, n, b, N2, m, h)
    PROVE  BlocksIn(m, h, N2)
  <1>0. /\ n + Header = b /\ Header = 2
        /\ DOMAIN h = DOMAIN held \ {b}
        /\ \A c \in DOMAIN h : h[c] = held[c]
        /\ N2 \subseteq N /\ n \in N2
        /\ \A k \in N \ N2 : mem[k].free
        /\ m[n].free = TRUE
        /\ \A k \in N2 \ {n} : m[k] = mem[k]
    BY UnitsFit DEF FreedBlock
  <1>1. DOMAIN h \subseteq Units
    BY <1>0 DEF BlocksIn
  <1>2. ASSUME NEW c \in DOMAIN h
        PROVE  /\ c - Header \in N2 /\ ~m[c - Header].free /\ Asked(h[c]) \in Nat \ {0}
               /\ \A k \in N2 : c <= k => c + Asked(h[c]) <= k
    <2>1. c \in DOMAIN held /\ c # b /\ h[c] = held[c]
      BY <1>0
    <2>2. c \in Units /\ c - Header \in N /\ c - Header + Header = c /\ ~mem[c - Header].free
      BY <2>1, UnitsFit DEF BlocksIn
    <2>3. c - Header # n
      BY <1>0, <2>1, <2>2
    <2>5. c - Header \in N2 \ {n}
      BY <1>0, <2>2, <2>3
    <2>6. ~m[c - Header].free
      BY <1>0, <2>2, <2>5
    <2>7. Asked(h[c]) \in Nat \ {0} /\ \A k \in N2 : c <= k => c + Asked(h[c]) <= k
      BY <1>0, <2>1 DEF BlocksIn
    <2> QED
      BY <2>5, <2>6, <2>7
  <1>3. ASSUME NEW k \in N2 PROVE k + Header \in DOMAIN h \/ m[k].free \/ m[k].size = 0
    <2>1. CASE k = n
      BY <1>0, <2>1
    <2>2. CASE k # n
      <3>1. m[k] = mem[k] /\ k + Header # b /\ k \in N
        <4>1. k \in Nat /\ n \in Nat
          BY <1>0
        <4> QED
          BY <1>0, <2>2, <4>1
      <3> QED
        BY <1>0, <3>1 DEF BlocksIn
    <2> QED
      BY <2>1, <2>2
  <1> QED
    BY <1>1, <1>2, <1>3 DEF BlocksIn

\* Some nodes are in order and have the blocks in use, n among them; b is apart from them.
SomeApart(m, last, end, h, n, b) ==
    \E N : InOrder(m, last, end, N) /\ BlocksIn(m, h, N) /\ n \in N /\ Apart(N, b)

LEMMA FreedMarked ==
    ASSUME MemOK(mem), NEW end \in Nat, end < LastUnit,
           NEW N, InOrder(mem, lastNode, end, N), BlocksIn(mem, held, N),
           NEW b \in DOMAIN held, NEW n, n = b - Header,
           NEW h, DOMAIN h = DOMAIN held \ {b}, \A c \in DOMAIN h : h[c] = held[c],
           NEW m, IsMarked(m, n)
    PROVE  /\ MemOK(m)
           /\ SomeApart(m, lastNode, end, h, n, b)
           /\ \A c \in DOMAIN held : m[c] = mem[c]
  <1>1. /\ b \in Nat /\ b \in Units /\ n \in N /\ Apart(N, b)
        /\ \A c \in DOMAIN held : c \in Units /\ c # n
    <2>1. \A c \in DOMAIN held : c \in Units /\ c \in Nat /\ c - Header \in N /\ Apart(N, c)
      BY BlockAt
    <2> QED
      BY <2>1 DEF Apart
  <1>2. /\ DOMAIN m = Units /\ m[n].kind = "head" /\ m[n].size = mem[n].size /\ m[n].free = TRUE
        /\ \A u \in Units \ {n} : m[u] = mem[u]
    BY DEF IsMarked, HeadCell
  <1>3. \A k \in N : /\ k \in Nat /\ k \in Units /\ k + 1 \in Units /\ k + 1 # n /\ NodeIn(mem, k)
    <2>1. \A k \in N : k \in Nat /\ k + Header <= NodeEnd(mem, k) /\ NodeEnd(mem, k) \in Nat
      BY OrderFacts
    <2>2. ASSUME NEW k \in N PROVE k + 1 # n
      <3>1. k < n => NodeEnd(mem, k) <= n
        BY <1>1 DEF InOrder
      <3> QED
        BY <1>1, <2>1, <3>1, UnitsFit
    <2> QED
      BY <2>1, <2>2 DEF InOrder, NodeIn
  <1>4. MemOK(m)
    BY <1>2 DEF MemOK
  <1>5. \A k \in N : SameNode(mem, m, k)
    <2>1. ASSUME NEW k \in N
          PROVE  /\ m[k].kind = mem[k].kind /\ m[k].size = mem[k].size /\ m[k].free \in BOOLEAN
                 /\ m[k + 1] = mem[k + 1]
      <3>1. m[k + 1] = mem[k + 1] /\ mem[k].kind = "head" /\ mem[k].free \in BOOLEAN
        BY <1>2, <1>3 DEF NodeIn, InOrder
      <3>2. CASE k = n
        BY <1>2, <3>1, <3>2
      <3>3. CASE k # n
        BY <1>2, <1>3, <3>1, <3>3
      <3> QED
        BY <3>2, <3>3
    <2> QED
      BY <1>3, <2>1 DEF SameNode, HeadIs, NodeIn
  <1>6. InOrder(m, lastNode, end, N)
    <2>1. \A k \in N : mem[k].size \in Nat
      BY DEF InOrder
    <2>2. \A k \in N : SmallerNode(mem, m, k)
      BY <1>5, <2>1, SameIsSmaller
    <2> QED
      BY <2>2, MarkedOrder
  <1>7. BlocksIn(m, h, N)
    <2>1. \A k \in N \ {n} : m[k] = mem[k]
      BY <1>2, <1>3
    <2>2. b = n + Header
      BY <1>1, UnitsFit
    <2>3. FreedBlock(N, n, b, N, m, h)
      BY <1>1, <1>2, <2>1, <2>2 DEF FreedBlock
    <2> QED
      BY <1>3, <2>3, FreedBlocks
  <1>9. \A c \in DOMAIN held : m[c] = mem[c]
    BY <1>1, <1>2
  <1> QED
    BY <1>1, <1>4, <1>6, <1>7, <1>9 DEF SomeApart

\* What CombineForward finds behind n, and lastNode then.
MergeAt(n, next, after, last2) ==
    /\ next = mem[n + 1].next /\ after = mem[next + 1].next
    /\ last2 = IF next = lastNode THEN n ELSE lastNode

\* The node behind n is free too, `after` is the one behind it.
Absorbs(N, n, next, after) ==
    /\ n # lastNode /\ n # next /\ next \in N /\ mem[next].free
    /\ after = NULL \/ after \in N

LEMMA FreedMerged ==
    ASSUME MemOK(mem), NEW end \in Nat, end < LastUnit,
           NEW N, InOrder(mem, lastNode, end, N), BlocksIn(mem, held, N),
           NEW n \in N, NEW b \in DOMAIN held, n = b - Header,
           NEW h, DOMAIN h = DOMAIN held \ {b}, \A c \in DOMAIN h : h[c] = held[c],
           NEW next, NEW after, Absorbs(N, n, next, after),
           NEW last2, MergeAt(n, next, after, last2), NEW m, IsMerged(m, n, next, after)
    PROVE  /\ MemOK(m)
           /\ SomeApart(m, last2, end, h, n, b)
           /\ \A c \in DOMAIN held : m[c] = mem[c]
  <1>1. /\ b \in Nat /\ b \in Units /\ n \in N /\ Apart(N, b)
        /\ \A c \in DOMAIN held : c \in Units /\ \A k \in N : c # k /\ c # k + 1
    <2>1. \A c \in DOMAIN held : c \in Units /\ c \in Nat /\ Apart(N, c)
      BY BlockAt
    <2> QED
      BY <2>1 DEF Apart
  <1>0. b = n + Header
    BY <1>1, UnitsFit
  <1>10. n # lastNode /\ n # next /\ next \in N /\ mem[next].free /\ (after = NULL \/ after \in N)
    BY DEF Absorbs
  <1>2. /\ DOMAIN m = Units
        /\ m[n].kind = "head" /\ m[n].size = mem[n].size + mem[next].size + Header /\ m[n].free = TRUE
        /\ m[n + 1].kind = "links" /\ m[n + 1].next = after
        /\ \A u \in {next, next + 1} : m[u].kind = "data"
        /\ after # NULL => m[after + 1].kind = "links" /\ m[after + 1].next = mem[after + 1].next
        /\ \A u \in Units \ ({n, n + 1, next, next + 1} \cup {after + 1}) : m[u] = mem[u]
        /\ after = NULL => \A u \in Units \ {n, n + 1, next, next + 1} : m[u] = mem[u]
    BY DEF IsMerged, HeadCell, Data
  <1>3. /\ \A k \in N : /\ k \in Nat /\ k \in Units /\ k + 1 \in Units /\ NodeIn(mem, k)
                        /\ mem[k].size \in Nat
        /\ \A k, l \in N : k + 1 # l
    <2>1. \A k \in N : /\ k \in Nat /\ k + Header <= NodeEnd(mem, k) /\ NodeEnd(mem, k) \in Nat
                       /\ mem[k].size \in Nat
      BY OrderFacts
    <2>2. ASSUME NEW k \in N, NEW l \in N PROVE k + 1 # l
      <3>1. k < l => NodeEnd(mem, k) <= l
        BY DEF InOrder
      <3>2. k \in Nat /\ l \in Nat /\ NodeEnd(mem, k) \in Nat /\ k + Header <= NodeEnd(mem, k) /\ Header = 2
        BY <2>1, UnitsFit
      <3> QED
        BY <3>1, <3>2
    <2> QED
      BY <2>1, <2>2 DEF InOrder, NodeIn
  <1>4. ASSUME NEW k \in N \ {n, next}
        PROVE  m[k] = mem[k] /\ m[k + 1].kind = "links" /\ m[k + 1].next = mem[k + 1].next
    <2>1. k # n + 1 /\ k # next + 1 /\ k \in Units /\ k + 1 \in Units
      BY <1>10, <1>1, <1>3
    <2>2. k + 1 # n /\ k + 1 # next /\ k + 1 # n + 1 /\ k + 1 # next + 1
      BY <1>10, <1>1, <1>3
    <2>3. mem[k + 1].kind = "links"
      BY <1>10, <1>3 DEF NodeIn
    <2>4. CASE after = NULL
      BY <1>10, <1>2, <2>1, <2>2, <2>3, <2>4
    <2>5. CASE after # NULL
      <3>1. after \in N /\ k # after + 1
        BY <1>10, <1>3, <2>5
      <3>2. m[k] = mem[k]
        BY <1>10, <1>2, <2>1, <3>1
      <3>3. CASE k = after
        BY <1>10, <1>2, <2>3, <2>5, <3>2, <3>3
      <3>4. CASE k # after
        <4>1. k + 1 # after + 1
          BY <1>10, <1>3, <3>1, <3>4
        <4> QED
          BY <1>10, <1>2, <2>1, <2>2, <2>3, <3>2, <4>1
      <3> QED
        BY <3>3, <3>4
    <2> QED
      BY <2>4, <2>5
  <1>5. MemOK(m)
    <2>2. ASSUME NEW u \in Units, m[u].kind \in {"links", "element"} PROVE m[u].next \in Pointers
      <3>0. after \in Pointers
        BY <1>10, <1>3 DEF NodeIn, MemOK, MergeAt
      <3>1. CASE u \in {n, next, next + 1}
        BY <1>10, <1>2, <2>2, <3>1
      <3>2. CASE u = n + 1
        BY <1>10, <1>2, <3>0, <3>2
      <3>3. CASE u \notin {n, n + 1, next, next + 1} /\ ~(after # NULL /\ u = after + 1)
        BY <1>10, <1>2, <2>2, <3>3 DEF MemOK
      <3>4. CASE u \notin {n, n + 1, next, next + 1} /\ after # NULL /\ u = after + 1
        <4>1. mem[after + 1].next \in Pointers
          BY <1>10, <1>3, <3>4 DEF NodeIn, MemOK
        <4> QED
          BY <1>10, <1>2, <3>4, <4>1
      <3> QED
        BY <3>1, <3>2, <3>3, <3>4
    <2> QED
      BY <1>10, <1>2, <2>2 DEF MemOK
  <1>6. InOrder(m, last2, end, N \ {next})
    <2>1. \A k \in N \ {n, next} : SameNode(mem, m, k)
      BY <1>10, <1>3, <1>4 DEF SameNode, HeadIs, NodeIn, InOrder
    <2>2. HeadIs(m, n, mem[n].size + mem[next].size + Header) /\ m[n + 1].next = mem[next + 1].next
      BY <1>10, <1>1, <1>2, <1>3 DEF HeadIs, NodeIn, MergeAt
    <2> QED
      <3>1. TookIn(mem, lastNode, N, n, next, m, last2)
        BY <1>10, <2>1, <2>2 DEF TookIn, MergeAt
      <3> QED
        BY <1>10, <3>1, MergedOrder
  <1>7. BlocksIn(m, h, N \ {next})
    <2> DEFINE N2 == N \ {next}
    <2>1. FreedBlock(N, n, b, N2, m, h)
      BY <1>10, <1>0, <1>2, <1>4 DEF FreedBlock
    <2> HIDE DEF N2
    <2>2. BlocksIn(m, h, N2)
      BY <1>10, <1>3, <2>1, FreedBlocks
    <2> QED
      BY <2>2 DEF N2
  <1>8. Apart(N \ {next}, b)
    BY <1>1 DEF Apart
  <1>9. ASSUME NEW c \in DOMAIN held PROVE m[c] = mem[c]
    <2>1. c \in Units \ {n, n + 1, next, next + 1}
      BY <1>10, <1>1
    <2>2. CASE after = NULL
      BY <1>10, <1>2, <2>1, <2>2
    <2>3. CASE after \in N
      BY <1>10, <1>1, <1>2, <2>1, <2>3
    <2> QED
      BY <1>10, <2>2, <2>3
  <1> QED
    BY <1>10, <1>5, <1>6, <1>7, <1>8, <1>9 DEF SomeApart

\* free up to CombineForward, however it goes.
AfterFree(n, b, end, h) ==
    /\ MemOK(Freed(n))
    /\ SomeApart(Freed(n), LastNodeAfterFree(n), end, h, n, b)
    /\ \A c \in DOMAIN held : Freed(n)[c] = mem[c]

LEMMA FreedNodes ==
    ASSUME MemOK(mem), NEW end \in Nat, end < LastUnit,
           NEW N, InOrder(mem, lastNode, end, N), BlocksIn(mem, held, N),
           NEW n \in N, NEW b \in DOMAIN held, n = b - Header,
           NEW h, DOMAIN h = DOMAIN held \ {b}, \A c \in DOMAIN h : h[c] = held[c]
    PROVE  AfterFree(n, b, end, h)
  <1>1. DOMAIN mem = Units /\ Header = 2
    BY UnitsFit DEF MemOK
  <1>2. \A k \in N : /\ k \in Nat /\ k \in Units /\ k + 1 \in Units /\ NodeEnd(mem, k) \in Nat
                     /\ k + Header <= NodeEnd(mem, k)
    <2>1. \A k \in N : k \in Nat /\ NodeEnd(mem, k) \in Nat /\ k + Header <= NodeEnd(mem, k)
      BY OrderFacts
    <2> QED
      BY <2>1 DEF InOrder, NodeIn
  <1>3. CASE mem[n + 1].next = NULL \/ ~Merges(mem[n + 1].next)
    <2>1. IsMarked(Freed(n), n) /\ LastNodeAfterFree(n) = lastNode
      BY <1>1, <1>2, <1>3, MarkedMemory
    <2>2. /\ MemOK(Freed(n)) /\ SomeApart(Freed(n), lastNode, end, h, n, b)
          /\ \A c \in DOMAIN held : Freed(n)[c] = mem[c]
      <3>1. PICK m : m = Freed(n)
        OBVIOUS
      <3>2. IsMarked(m, n)
        BY <2>1, <3>1
      <3>3. /\ MemOK(m) /\ SomeApart(m, lastNode, end, h, n, b)
            /\ \A c \in DOMAIN held : m[c] = mem[c]
        BY <3>2, FreedMarked
      <3> QED
        BY <3>1, <3>3
    <2> QED
      BY <2>1, <2>2 DEF AfterFree
  <1>4. CASE mem[n + 1].next # NULL /\ Merges(mem[n + 1].next)
    <2>1. PICK next, after : next = mem[n + 1].next /\ after = mem[next + 1].next
      OBVIOUS
    <2>2. n # lastNode /\ next \in N /\ NodeEnd(mem, n) <= next
      <3>1. n # lastNode /\ next \in N /\ n < next
        BY <1>4, <2>1 DEF InOrder, IsNext
      <3> QED
        BY <3>1 DEF InOrder
    <2>3. after = NULL \/ (after \in N /\ NodeEnd(mem, next) <= after)
      <3>1. CASE next = lastNode
        BY <2>1, <3>1 DEF InOrder
      <3>2. CASE next # lastNode
        <4>1. after \in N /\ next < after
          BY <2>1, <2>2, <3>2 DEF InOrder, IsNext
        <4> QED
          BY <2>2, <4>1 DEF InOrder
      <3> QED
        BY <3>1, <3>2
    <2>4. mem[next].free /\ Merges(next)
      BY <1>4, <2>1 DEF Merges
    <2>5. /\ n \in Units /\ n + 1 \in Units /\ n \in Nat
          /\ next \in Nat /\ next \in Units /\ next + 1 \in Units /\ n + 1 < next /\ n # next
          /\ after = NULL \/ (after \in Nat /\ after + 1 \in Units /\ next + 1 < after)
      <3>1. /\ n \in Units /\ n + 1 \in Units /\ n \in Nat
            /\ next \in Nat /\ next \in Units /\ next + 1 \in Units
            /\ n + Header <= next
        BY <1>1, <1>2, <2>2
      <3>2. ASSUME after # NULL
            PROVE  after \in Nat /\ after + 1 \in Units /\ next + Header <= after
        <4>1. after \in N /\ NodeEnd(mem, next) <= after
          BY <2>3, <3>2
        <4>2. /\ next \in Nat /\ NodeEnd(mem, next) \in Nat /\ next + Header <= NodeEnd(mem, next)
              /\ after \in Nat /\ after + 1 \in Units
          BY <1>2, <2>2, <4>1
        <4> QED
          BY <1>1, <4>1, <4>2
      <3>3. n + 1 < next /\ n # next
        BY <1>1, <3>1
      <3>4. after # NULL => next + 1 < after
        BY <1>1, <3>1, <3>2
      <3>5. after = NULL \/ (after \in Nat /\ after + 1 \in Units /\ next + 1 < after)
        BY <3>2, <3>4, Zenon
      <3> QED
        BY <3>1, <3>3, <3>5, Zenon
    <2>6. /\ IsMerged(Freed(n), n, next, after)
          /\ LastNodeAfterFree(n) = IF next = lastNode THEN n ELSE lastNode
      BY <1>1, <2>1, <2>4, <2>5, MergedMemory
    <2>7. MergeAt(n, next, after, LastNodeAfterFree(n))
      BY <2>1, <2>6 DEF MergeAt
    <2>9. /\ MemOK(Freed(n)) /\ SomeApart(Freed(n), LastNodeAfterFree(n), end, h, n, b)
          /\ \A c \in DOMAIN held : Freed(n)[c] = mem[c]
      <3>1. Absorbs(N, n, next, after)
        BY <2>2, <2>3, <2>4, <2>5 DEF Absorbs
      <3>3. PICK m, last2 : m = Freed(n) /\ last2 = LastNodeAfterFree(n)
        OBVIOUS
      <3>4. IsMerged(m, n, next, after) /\ MergeAt(n, next, after, last2)
        BY <2>6, <2>7, <3>3
      <3>5. /\ MemOK(m) /\ SomeApart(m, last2, end, h, n, b)
            /\ \A c \in DOMAIN held : m[c] = mem[c]
        BY <3>1, <3>4, FreedMerged
      <3> QED
        BY <3>3, <3>5
    <2> QED
      BY <2>9 DEF AfterFree
  <1> QED
    BY <1>3, <1>4

NodesInv == \E N : InOrder(mem, lastNode, heapEnd, N) /\ BlocksIn(mem, held, N) /\ CallInv(N)

\* free as a whole, the list's pointers included.
LEMMA ReleaseStep ==
    ASSUME Shape, NEW b \in DOMAIN held, NEW relinked \in SUBSET (DOMAIN held \ {b}),
           NEW cell, cell = Data \/ \E x \in Pointers : cell = Element(x),
           Release(b, relinked, cell)
    PROVE  /\ MemOK(mem') /\ PagesInv' /\ CountInv' /\ NodesInv'
           /\ DOMAIN held' = DOMAIN held \ {b}
           /\ \A c \in DOMAIN held' : /\ held'[c] = held[c]
                                      /\ mem'[c] = IF c \in relinked THEN cell ELSE mem[c]
  <1>1. PICK N : InOrder(mem, lastNode, heapEnd, N) /\ BlocksIn(mem, held, N) /\ CallInv(N)
    BY DEF Shape
  <1>2. /\ MemOK(mem) /\ PagesInv /\ CountInv /\ heapEnd \in Nat /\ heapEnd < LastUnit
    BY HeapEndFits DEF Shape
  <1>3. PICK n, m, h, last2 : n = b - Header /\ m = Freed(n) /\ h = held' /\ last2 = LastNodeAfterFree(n)
    OBVIOUS
  <1>4. /\ outcome = "ok" /\ call.what = "none"
        /\ mem' = Write(Write(m, {b}, Data), relinked, cell)
        /\ lastNode' = last2
        /\ held' = [c \in DOMAIN held \ {b} |-> held[c]]
        /\ top' = top /\ owned' = owned /\ call' = call /\ outcome' = outcome
    BY <1>3 DEF Release
  <1>5. /\ DOMAIN held' = DOMAIN held \ {b}
        /\ \A c \in DOMAIN held' : held'[c] = held[c]
    BY <1>4
  <1>6. n \in N /\ b \in Units /\ b \in Nat /\ b = n + Header /\ n + Header <= b
    <2>1. b \in Units /\ b - Header \in N
      BY <1>1 DEF BlocksIn
    <2> QED
      BY <1>3, <2>1, UnitsFit
  <1>7. AfterFree(n, b, heapEnd, h)
    <2>1. DOMAIN h = DOMAIN held \ {b} /\ \A c \in DOMAIN h : h[c] = held[c]
      BY <1>3, <1>5
    <2>2. n \in N /\ n = b - Header
      BY <1>3, <1>6
    <2> QED
      BY <1>1, <1>2, <2>1, <2>2, FreedNodes
  <1>8. /\ MemOK(m) /\ SomeApart(m, last2, heapEnd, h, n, b)
        /\ \A c \in DOMAIN held : m[c] = mem[c]
    BY <1>3, <1>7 DEF AfterFree
  <1>9. PICK N2 : InOrder(m, last2, heapEnd, N2) /\ BlocksIn(m, h, N2) /\ n \in N2 /\ Apart(N2, b)
    BY <1>8 DEF SomeApart
  <1>10. /\ DOMAIN mem' = Units
         /\ \A u \in Units : mem'[u] = IF u \in relinked THEN cell ELSE IF u = b THEN Data ELSE m[u]
    <2>1. DOMAIN m = Units
      BY <1>8 DEF MemOK
    <2> QED
      BY <1>4, <2>1 DEF Write
  <1>11. DOMAIN held \subseteq Units
    BY <1>1 DEF BlocksIn
  <1>12. \A c \in DOMAIN held' : mem'[c] = IF c \in relinked THEN cell ELSE mem[c]
    BY <1>5, <1>8, <1>10, <1>11
  <1>13. MemOK(mem')
    <2>1. /\ Data.kind = "data"
          /\ \A x : Element(x).next = x
      BY DEF Data, Element
    <2>2. cell.kind \in {"links", "element"} => cell.next \in Pointers
      BY <2>1
    <2>3. ASSUME NEW u \in Units, mem'[u].kind \in {"links", "element"}
          PROVE  mem'[u].next \in Pointers
      <3>1. CASE u \in relinked
        BY <1>10, <2>2, <2>3, <3>1
      <3>2. CASE u \notin relinked /\ u = b
        BY <1>10, <2>1, <2>3, <3>2
      <3>3. CASE u \notin relinked /\ u # b
        BY <1>8, <1>10, <2>3, <3>3 DEF MemOK
      <3> QED
        BY <3>1, <3>2, <3>3
    <2> QED
      BY <1>10, <2>3 DEF MemOK
  <1>14. InOrder(mem', last2, heapEnd, N2) /\ BlocksIn(mem', h, N2)
    <2>1. \A c \in DOMAIN h : Apart(N2, c)
      BY <1>2, <1>9, BlockAt
    <2>2. ASSUME NEW u \in Units
          PROVE  mem'[u] = m[u] \/ Apart(N2, u)
      <3>1. CASE u \in relinked
        BY <1>3, <1>5, <2>1, <3>1
      <3>2. CASE u = b
        BY <1>9, <3>2
      <3>3. CASE u \notin relinked /\ u # b
        BY <1>10, <3>3
      <3> QED
        BY <3>1, <3>2, <3>3
    <2> QED
      BY <1>2, <1>9, <2>2, InteriorWrites
  <1>15. PagesInv' /\ heapEnd' = heapEnd
    BY <1>2, <1>4 DEF PagesInv, heapEnd
  <1>16. CountInv'
    <2>1. IsFiniteSet(DOMAIN held) /\ Cardinality(DOMAIN held) <= MaxHeld
      BY <1>2 DEF CountInv
    <2>2. /\ IsFiniteSet(DOMAIN held') /\ Cardinality(DOMAIN held) \in Nat
          /\ Cardinality(DOMAIN held') = Cardinality(DOMAIN held) - 1
      BY <1>5, <2>1, FS_RemoveElement, FS_CardinalityType
    <2>3. Cardinality(DOMAIN held') <= MaxHeld
      BY <2>1, <2>2, UnitsFit
    <2> QED
      BY <1>4, <2>2, <2>3 DEF CountInv
  <1>17. CallInv(N2)'
    BY <1>1, <1>4 DEF CallInv, CallOK
  <1>18. InOrder(mem', lastNode', heapEnd', N2) /\ BlocksIn(mem', held', N2)
    BY <1>3, <1>4, <1>14, <1>15
  <1>19. NodesInv'
    BY <1>17, <1>18 DEF NodesInv
  <1> QED
    BY <1>5, <1>12, <1>13, <1>15, <1>16, <1>19

LEMMA FreeStep ==
    ASSUME Shape, NEW b \in DOMAIN held, Free(b)
    PROVE  Shape'
  <1>1. PICK s : Listed(mem, first, held, s)
    BY DEF Shape
  <1>2. Release(b, {}, Data) /\ first' = first /\ held[b].what = "malloc"
    BY DEF Free
  <1>3. {} \in SUBSET (DOMAIN held \ {b}) /\ (Data = Data \/ \E x \in Pointers : Data = Element(x))
    OBVIOUS
  <1>4. /\ MemOK(mem') /\ PagesInv' /\ CountInv' /\ NodesInv'
        /\ DOMAIN held' = DOMAIN held \ {b}
        /\ \A c \in DOMAIN held' : /\ held'[c] = held[c]
                                   /\ mem'[c] = IF c \in {} THEN Data ELSE mem[c]
    BY <1>2, <1>3, ReleaseStep
  <1>5. \A c \in DOMAIN held : held[c].what = "list" => mem'[c] = mem[c]
    BY <1>2, <1>4
  <1>6. \A c : c \in DOMAIN held' /\ held'[c].what = "list" <=> c \in DOMAIN held /\ held[c].what = "list"
    BY <1>2, <1>4
  <1>7. Listed(mem', first', held', s)
    BY <1>1, <1>2, <1>5, <1>6, ListedKept
  <1> QED
    BY <1>4, <1>7 DEF Shape, NodesInv

\* LinkedListRemove takes the k-th element out of the list.
Unlinked(m, f, h, s, k, m2, f2, h2) ==
    /\ k \in 1 .. Len(s)
    /\ DOMAIN h2 = DOMAIN h \ {s[k]}
    /\ \A c \in DOMAIN h2 : /\ h2[c] = h[c]
                            /\ m2[c] = IF \E i \in 1 .. Len(s) : s[i] = c /\ i + 1 = k
                                       THEN Element(m[s[k]].next) ELSE m[c]
    /\ f2 = IF s[k] = f THEN m[s[k]].next ELSE f

LEMMA UnlinkListed ==
    ASSUME NEW m, NEW f, NEW h, NEW s, Listed(m, f, h, s),
           NEW k, NEW m2, NEW f2, NEW h2, Unlinked(m, f, h, s, k, m2, f2, h2)
    PROVE  Listed(m2, f2, h2, [i \in 1 .. Len(s) - 1 |-> IF i < k THEN s[i] ELSE s[i + 1]])
  <1> DEFINE l == Len(s)
             t == [i \in 1 .. l - 1 |-> IF i < k THEN s[i] ELSE s[i + 1]]
             old(i) == IF i < k THEN i ELSE i + 1
  <1>0. /\ k \in 1 .. l /\ DOMAIN h2 = DOMAIN h \ {s[k]}
        /\ \A c \in DOMAIN h2 : /\ h2[c] = h[c]
                                /\ m2[c] = IF \E i \in 1 .. l : s[i] = c /\ i + 1 = k
                                           THEN Element(m[s[k]].next) ELSE m[c]
        /\ f2 = IF s[k] = f THEN m[s[k]].next ELSE f
    BY DEF Unlinked
  <1>1. /\ s \in Seq(Units) /\ l \in Nat
        /\ \A i \in 1 .. l : s[i] \in Units /\ s[i] \in DOMAIN h /\ h[s[i]].what = "list"
        /\ \A i \in 1 .. l : /\ m[s[i]].kind = "element"
                             /\ m[s[i]].next = IF i = l THEN NULL ELSE s[i + 1]
        /\ \A i, j \in 1 .. l : s[i] = s[j] => i = j
        /\ \A c \in DOMAIN h : h[c].what = "list" => \E i \in 1 .. l : s[i] = c
        /\ f = IF s = <<>> THEN NULL ELSE s[1]
    BY DEF Listed
  <1> HIDE DEF l
  <1>2. /\ k \in Nat /\ 1 <= k /\ k <= l /\ l \in Nat /\ l - 1 \in Nat
        /\ \A i \in 1 .. l - 1 : /\ old(i) \in 1 .. l /\ old(i) # k /\ i \in Nat
                                 /\ i < k \/ k < i + 1
    BY <1>0, <1>1
  <1>3. \A i \in 1 .. l - 1 : t[i] = s[old(i)]
    OBVIOUS
  <1>4. t \in Seq(Units) /\ Len(t) = l - 1
    <2>1. t \in [1 .. l - 1 -> Units]
      <3>1. \A i \in 1 .. l - 1 : (IF i < k THEN s[i] ELSE s[i + 1]) \in Units
        BY <1>1, <1>2
      <3> QED
        BY <3>1
    <2> HIDE DEF t
    <2> QED
      BY <1>2, <2>1
  <1> HIDE DEF t
  <1>5. \A i, j \in 1 .. l - 1 : t[i] = t[j] => i = j
    <2>1. ASSUME NEW i \in 1 .. l - 1, NEW j \in 1 .. l - 1, t[i] = t[j] PROVE i = j
      <3>1. old(i) = old(j)
        <4>1. old(i) \in 1 .. l /\ old(j) \in 1 .. l
          BY <1>2
        <4>2. s[old(i)] = s[old(j)]
          BY <1>3, <2>1
        <4> HIDE DEF old
        <4> QED
          BY <1>1, <4>1, <4>2
      <3> QED
        BY <1>2, <3>1
    <2> QED
      BY <2>1
  <1>6. ASSUME NEW i \in 1 .. l - 1
        PROVE  /\ t[i] \in DOMAIN h2 /\ h2[t[i]].what = "list"
               /\ m2[t[i]].kind = "element"
               /\ m2[t[i]].next = IF i = l - 1 THEN NULL ELSE t[i + 1]
    <2>1. PICK o : o = old(i)
      OBVIOUS
    <2>2. o \in 1 .. l /\ o # k /\ t[i] = s[o]
      BY <1>2, <1>3, <2>1
    <2>3. t[i] \in DOMAIN h2 /\ h2[t[i]] = h[t[i]] /\ h2[t[i]].what = "list"
      BY <1>0, <1>1, <2>2
    <2>4. (\E j \in 1 .. l : s[j] = t[i] /\ j + 1 = k) <=> o + 1 = k
      <3>1. ASSUME NEW j \in 1 .. l, s[j] = t[i] PROVE j = o
        <4>1. s[j] = s[o]
          BY <2>2, <3>1
        <4> QED
          BY <1>1, <2>2, <4>1
      <3> QED
        BY <2>2, <3>1
    <2>5. CASE o + 1 = k
      <3>1. m2[t[i]] = Element(m[s[k]].next)
        BY <1>0, <2>3, <2>4, <2>5
      <3>2. m2[t[i]].kind = "element" /\ m2[t[i]].next = m[s[k]].next
        BY <3>1 DEF Element
      <3>3. i = o /\ i + 1 = k
        BY <1>2, <2>1, <2>5
      <3>4. m[s[k]].next = IF k = l THEN NULL ELSE s[k + 1]
        BY <1>0, <1>1
      <3>5. CASE k = l
        <4>1. i = l - 1
          BY <1>2, <3>3, <3>5
        <4> QED
          BY <2>3, <3>2, <3>4, <3>5, <4>1
      <3>6. CASE k # l
        <4>1. i # l - 1 /\ i + 1 \in 1 .. l - 1 /\ old(i + 1) = k + 1
          BY <1>2, <3>3, <3>6
        <4>2. t[i + 1] = s[k + 1]
          BY <1>3, <4>1
        <4> QED
          BY <2>3, <3>2, <3>4, <3>6, <4>1, <4>2
      <3> QED
        BY <3>5, <3>6
    <2>6. CASE o + 1 # k
      <3>1. m2[t[i]] = m[s[o]]
        BY <1>0, <2>2, <2>3, <2>4, <2>6
      <3>2. m[s[o]].kind = "element" /\ m[s[o]].next = IF o = l THEN NULL ELSE s[o + 1]
        BY <1>1, <2>2
      <3>3. CASE i = l - 1
        <4>1. o = l
          BY <1>2, <2>1, <2>2, <2>6, <3>3
        <4> QED
          BY <2>3, <3>1, <3>2, <3>3, <4>1
      <3>4. CASE i # l - 1
        <4>1. o # l /\ i + 1 \in 1 .. l - 1 /\ old(i + 1) = o + 1
          BY <1>2, <2>1, <2>2, <2>6, <3>4
        <4>2. t[i + 1] = s[o + 1]
          BY <1>3, <4>1
        <4> QED
          BY <2>3, <3>1, <3>2, <3>4, <4>1, <4>2
      <3> QED
        BY <3>3, <3>4
    <2> QED
      BY <2>5, <2>6
  <1>7. ASSUME NEW c \in DOMAIN h2, h2[c].what = "list"
        PROVE  \E i \in 1 .. l - 1 : t[i] = c
    <2>1. c \in DOMAIN h /\ h[c].what = "list" /\ c # s[k]
      BY <1>0, <1>7
    <2>2. PICK j \in 1 .. l : s[j] = c
      BY <1>1, <2>1
    <2>3. j # k /\ j \in Nat
      BY <2>1, <2>2
    <2>4. CASE j < k
      <3>1. j \in 1 .. l - 1 /\ old(j) = j
        BY <1>2, <2>3, <2>4
      <3> QED
        BY <1>3, <2>2, <3>1
    <2>5. CASE k < j
      <3>1. j - 1 \in 1 .. l - 1 /\ old(j - 1) = j
        BY <1>2, <2>2, <2>3, <2>5
      <3> QED
        BY <1>3, <2>2, <3>1
    <2> QED
      BY <1>2, <2>3, <2>4, <2>5
  <1>8. f2 = IF t = <<>> THEN NULL ELSE t[1]
    <2>1. f = s[1] /\ 1 \in 1 .. l /\ s # <<>>
      BY <1>1, <1>2 DEF l
    <2>2. CASE k = 1
      <3>1. f2 = IF l = 1 THEN NULL ELSE s[2]
        BY <1>0, <1>1, <2>1, <2>2
      <3>2. CASE l = 1
        BY <1>4, <3>1, <3>2
      <3>3. CASE l # 1
        <4>1. 1 \in 1 .. l - 1 /\ old(1) = 2 /\ t # <<>>
          BY <1>2, <1>4, <2>2, <3>3
        <4> QED
          BY <1>3, <3>1, <3>3, <4>1
      <3> QED
        BY <3>2, <3>3
    <2>3. CASE k # 1
      <3>1. s[k] # f
        BY <1>0, <1>1, <2>1, <2>3
      <3>2. 1 \in 1 .. l - 1 /\ old(1) = 1 /\ t # <<>>
        BY <1>2, <1>4, <2>3
      <3>3. t[1] = s[1]
        BY <1>3, <3>2
      <3> QED
        BY <1>0, <2>1, <3>1, <3>2, <3>3
    <2> QED
      BY <2>2, <2>3
  <1>9. Listed(m2, f2, h2, t)
    BY <1>4, <1>5, <1>6, <1>7, <1>8 DEF Listed
  <1> QED
    BY <1>9 DEF t, l

LEMMA RemoveStep ==
    ASSUME Shape, NEW e \in DOMAIN held, LinkedListRemove(e)
    PROVE  Shape'
  <1>1. PICK s : Listed(mem, first, held, s)
    BY DEF Shape
  <1> DEFINE relinked == {p \in Elements : mem[p].next = e}
             cell == Element(mem[e].next)
  <1>2. Release(e, relinked, cell) /\ first' = Unregister(e) /\ e \in Elements
    BY DEF LinkedListRemove
  <1>3. Elements = {s[i] : i \in 1 .. Len(s)}
    BY <1>1, ElementsListed DEF Shape
  <1>4. PICK k \in 1 .. Len(s) : s[k] = e
    BY <1>2, <1>3
  <1>5. /\ Len(s) \in Nat /\ k \in Nat
        /\ \A i \in 1 .. Len(s) : s[i] \in Units /\ s[i] \in DOMAIN held
        /\ \A i \in 1 .. Len(s) : /\ mem[s[i]].kind = "element"
                                  /\ mem[s[i]].next = IF i = Len(s) THEN NULL ELSE s[i + 1]
        /\ \A i, j \in 1 .. Len(s) : s[i] = s[j] => i = j
    BY <1>1 DEF Listed
  <1>6. ASSUME NEW i \in 1 .. Len(s) PROVE mem[s[i]].next = e <=> i + 1 = k
    <2>1. CASE i = Len(s)
      BY <1>4, <1>5, <2>1, UnitsFit
    <2>2. CASE i # Len(s)
      <3>1. i + 1 \in 1 .. Len(s) /\ mem[s[i]].next = s[i + 1]
        BY <1>5, <2>2
      <3> QED
        BY <1>4, <1>5, <3>1
    <2> QED
      BY <2>1, <2>2
  <1>7. \A c : c \in relinked <=> \E i \in 1 .. Len(s) : s[i] = c /\ i + 1 = k
    BY <1>3, <1>6
  <1>8. relinked \in SUBSET (DOMAIN held \ {e})
    <2>1. ASSUME NEW c \in relinked PROVE c \in DOMAIN held /\ c # e
      BY <1>4, <1>5, <1>7
    <2> QED
      BY <2>1
  <1>9. cell = Data \/ \E x \in Pointers : cell = Element(x)
    <2>1. mem[e].next \in Pointers
      BY <1>4, <1>5 DEF Shape, MemOK
    <2> QED
      BY <2>1
  <1> HIDE DEF relinked, cell
  <1>10. /\ MemOK(mem') /\ PagesInv' /\ CountInv' /\ NodesInv'
         /\ DOMAIN held' = DOMAIN held \ {e}
         /\ \A c \in DOMAIN held' : /\ held'[c] = held[c]
                                    /\ mem'[c] = IF c \in relinked THEN cell ELSE mem[c]
    BY <1>2, <1>8, <1>9, ReleaseStep
  <1>11. first' = IF e = first THEN mem[e].next ELSE first
    BY <1>2 DEF Unregister
  <1>12. Unlinked(mem, first, held, s, k, mem', first', held')
    BY <1>4, <1>7, <1>10, <1>11 DEF Unlinked, cell
  <1>13. \E t : Listed(mem', first', held', t)
    BY <1>1, <1>12, UnlinkListed
  <1> QED
    BY <1>10, <1>13 DEF Shape, NodesInv

-----------------------------------------------------------------------------
(* The invariant and what follows from it. *)

LEMMA InitInv ==
    ASSUME Init
    PROVE  IInv
  <1> DEFINE T == FirstPages * PageUnits
             size == T - Header
             cell(u) == CASE u = heapStart     -> HeadCell(size, TRUE)
                          [] u = heapStart + 1 -> Links(NULL, NULL)
                          [] OTHER             -> Data
             m == [u \in Units |-> cell(u)]
  <1>1. /\ mem = m
        /\ lastNode = 0 /\ top = FirstPages /\ owned = 0 .. (FirstPages - 1)
        /\ held = [b \in {} |-> 0] /\ first = NULL /\ call = NoCall /\ outcome = "ok"
        /\ damaged = FALSE
    BY DEF Init, heapStart
  <1>2. /\ FirstPages \in FirstPages .. Pages /\ FirstPages \in Nat /\ FirstPages >= 1 /\ Pages \in Nat
        /\ PageUnits \in Nat /\ PageUnits > Header /\ Header = 2
    BY SizesAssumption DEF Header
  <1>3. T \in Nat /\ T + Header < LastUnit /\ T >= PageUnits
    BY <1>2, HeapFits
  <1> HIDE DEF T
  <1>4. size \in Nat /\ Header + size = T /\ 0 \in Units /\ 1 \in Units
    BY <1>2, <1>3, UnitsFit
  <1> HIDE DEF size
  <1>5. /\ cell(0) = HeadCell(size, TRUE) /\ cell(1) = Links(NULL, NULL)
        /\ \A u : u # 0 /\ u # 1 => cell(u) = Data
    BY DEF heapStart
  <1> HIDE DEF cell
  <1>6. /\ DOMAIN mem = Units /\ mem[0] = HeadCell(size, TRUE) /\ mem[1] = Links(NULL, NULL)
        /\ \A u \in Units \ {0, 1} : mem[u] = Data
    BY <1>1, <1>4, <1>5
  <1>7. MemOK(mem)
    <2>1. ASSUME NEW u \in Units, mem[u].kind \in {"links", "element"} PROVE mem[u].next \in Pointers
      <3>1. CASE u = 0
        BY <1>6, <2>1, <3>1 DEF HeadCell
      <3>2. CASE u = 1
        BY <1>6, <3>2 DEF Links, Pointers
      <3>3. CASE u \notin {0, 1}
        BY <1>6, <2>1, <3>3 DEF Data
      <3> QED
        BY <3>1, <3>2, <3>3
    <2> QED
      BY <1>6, <2>1 DEF MemOK
  <1>8. heapEnd = T + Header
    BY <1>1 DEF heapEnd, T
  <1>9. PagesInv
    BY <1>1, <1>2 DEF PagesInv
  <1>10. CountInv
    <2>1. DOMAIN held = {}
      BY <1>1
    <2>2. IsFiniteSet({}) /\ Cardinality({}) = 0
      BY FS_EmptySet
    <2>3. call.what = "none"
      BY <1>1 DEF NoCall
    <2> QED
      BY <2>1, <2>2, <2>3, UnitsFit DEF CountInv
  <1>11. InOrder(mem, lastNode, heapEnd, {0})
    <2>1. NodeIn(mem, 0) /\ mem[0].size = size /\ mem[0].free = TRUE /\ mem[0 + 1].next = NULL
      BY <1>4, <1>6 DEF NodeIn, HeadCell, Links
    <2>2. NodeEnd(mem, 0) = T
      BY <1>2, <1>4, <2>1 DEF NodeEnd
    <2>3. T <= T + Header
      BY <1>2, <1>3
    <2>4. mem[0].size \in Nat /\ mem[0].free \in BOOLEAN /\ NodeEnd(mem, 0) <= heapEnd
      BY <1>4, <1>8, <2>1, <2>2, <2>3
    <2>5. {0} \subseteq Units /\ heapStart = 0 /\ lastNode = 0 /\ {0} \ {lastNode} = {}
      BY <1>1, <1>4 DEF heapStart
    <2>6. \A n \in {0} : /\ NodeIn(mem, n) /\ mem[n].size \in Nat /\ mem[n].free \in BOOLEAN
                         /\ NodeEnd(mem, n) <= heapEnd /\ n <= lastNode
      BY <2>1, <2>4, <2>5
    <2>7. \A k, n \in {0} : k < n => NodeEnd(mem, k) <= n
      OBVIOUS
    <2>8. mem[lastNode + 1].next = NULL
      BY <2>1, <2>5
    <2> QED
      BY <2>5, <2>6, <2>7, <2>8 DEF InOrder
  <1>12. BlocksIn(mem, held, {0})
    <2>1. DOMAIN held = {} /\ mem[0].free = TRUE
      BY <1>1, <1>6 DEF HeadCell
    <2> QED
      BY <2>1 DEF BlocksIn
  <1>13. CallInv({0})
    BY <1>1 DEF CallInv, CallOK, NoCall
  <1>14. Listed(mem, first, held, <<>>)
    <2>1. DOMAIN held = {} /\ first = NULL
      BY <1>1
    <2>2. << >> \in Seq(Units) /\ Len(<< >>) = 0
      OBVIOUS
    <2> QED
      BY <2>1, <2>2 DEF Listed
  <1>15. Shape
    BY <1>7, <1>9, <1>10, <1>11, <1>12, <1>13, <1>14 DEF Shape
  <1>16. CallOK
    BY <1>1 DEF CallOK, NoCall
  <1> QED
    BY <1>1, <1>6, <1>9, <1>15, <1>16 DEF IInv, PlainInv

\* Nothing but the outcome changes.
LEMMA SameStep ==
    ASSUME Shape, PlainInv', UNCHANGED <<mem, lastNode, top, owned, held, first, call>>
    PROVE  Shape'
  <1>1. PICK N : InOrder(mem, lastNode, heapEnd, N) /\ BlocksIn(mem, held, N) /\ CallInv(N)
    BY DEF Shape
  <1>2. MemOK(mem) /\ CountInv /\ \E s : Listed(mem, first, held, s)
    BY DEF Shape
  <1>3. heapEnd' = heapEnd /\ CountInv' /\ CallInv(N)'
    BY <1>1, <1>2 DEF heapEnd, CountInv, CallInv, CallOK, Fits, MallocSize
  <1>4. MemOK(mem') /\ \E s : Listed(mem', first', held', s)
    BY <1>2
  <1>5. InOrder(mem', lastNode', heapEnd', N) /\ BlocksIn(mem', held', N)
    BY <1>1, <1>3
  <1> QED
    BY <1>3, <1>4, <1>5 DEF Shape, PlainInv

\* Others write where neither a header nor an element is.
LEMMA OthersStep ==
    ASSUME Shape, PlainInv', ~damaged', OthersWrite
    PROVE  Shape'
  <1>1. PICK N : InOrder(mem, lastNode, heapEnd, N) /\ BlocksIn(mem, held, N) /\ CallInv(N)
    BY DEF Shape
  <1>2. PICK s : Listed(mem, first, held, s)
    BY DEF Shape
  <1>3. MemOK(mem) /\ CountInv /\ heapEnd \in Nat
    BY HeapEndFits DEF Shape
  <1>4. /\ lastNode' = lastNode /\ top' = top /\ owned' = owned /\ held' = held
        /\ first' = first /\ call' = call
    BY DEF OthersWrite
  <1>5. DOMAIN mem' = Units /\ \A u \in Units : mem'[u] = mem[u]
    <2>1. PICK units : /\ mem' = Write(mem, units, Data)
                       /\ damaged' = (damaged \/ \E u \in units : mem[u] # Data)
      BY DEF OthersWrite
    <2>2. \A u \in units : mem[u] = Data
      BY <2>1
    <2>3. DOMAIN mem = Units
      BY <1>3 DEF MemOK
    <2>4. /\ DOMAIN mem' = Units
          /\ \A u \in Units : mem'[u] = IF u \in units THEN Data ELSE mem[u]
      BY <2>1, <2>3, Written
    <2> QED
      BY <2>2, <2>4
  <1>6. InOrder(mem', lastNode, heapEnd, N) /\ BlocksIn(mem', held, N)
    BY <1>1, <1>3, <1>5, InteriorWrites
  <1>7. MemOK(mem')
    BY <1>3, <1>5 DEF MemOK
  <1>8. heapEnd' = heapEnd /\ CountInv'
    BY <1>3, <1>4 DEF heapEnd, CountInv
  <1>9. CallInv(N)'
    <2>1. N \subseteq Units
      BY <1>1 DEF InOrder
    <2>2. MallocSize' = MallocSize
      BY <1>4 DEF MallocSize
    <2>3. \A n \in N : Fits(n, MallocSize)' <=> Fits(n, MallocSize)
      BY <1>5, <2>1, <2>2 DEF Fits
    <2> QED
      BY <1>1, <1>4, <2>2, <2>3 DEF CallInv, PlainInv
  <1>10. Listed(mem', first', held', s)
    <2>1. DOMAIN held \subseteq Units
      BY <1>1 DEF BlocksIn
    <2>2. \A b \in DOMAIN held : held[b].what = "list" => mem'[b] = mem[b]
      BY <1>5, <2>1
    <2>3. \A b : b \in DOMAIN held' /\ held'[b].what = "list" <=> b \in DOMAIN held /\ held[b].what = "list"
      BY <1>4
    <2> QED
      BY <1>2, <1>4, <2>2, <2>3, ListedKept
  <1> QED
    BY <1>4, <1>6, <1>7, <1>8, <1>9, <1>10 DEF Shape, PlainInv

LEMMA ShapeKept ==
    ASSUME Shape, PlainInv', ~damaged', [Next]_vars
    PROVE  Shape'
  <1>1. CASE Take
    BY <1>1, TakeStep
  <1>2. CASE Advance
    BY <1>2, AdvanceStep
  <1>3. CASE ExpandHeap
    BY <1>3, ExpandStep
  <1>4. ASSUME NEW size \in Sizes, Malloc("malloc", size) PROVE Shape'
    BY <1>4, MallocStep
  <1>5. ASSUME NEW size \in ElementSizes, Malloc("list", size) PROVE Shape'
    BY <1>5, MallocStep
  <1>6. ASSUME NEW b \in DOMAIN held, Free(b) PROVE Shape'
    BY <1>6, FreeStep
  <1>7. ASSUME NEW b \in DOMAIN held, LinkedListRemove(b) PROVE Shape'
    BY <1>7, RemoveStep
  <1>8. ASSUME NEW b, FreeLost(b) PROVE Shape'
    BY <1>8, SameStep DEF FreeLost, Wild
  <1>9. CASE OthersWrite
    BY <1>9, OthersStep
  <1>10. CASE UNCHANGED vars
    BY <1>10, SameStep DEF vars
  <1> QED
    BY <1>1, <1>2, <1>3, <1>4, <1>5, <1>6, <1>7, <1>8, <1>9, <1>10 DEF Next, Calls, Walk

LEMMA DamageStays ==
    ASSUME damaged, damaged \in BOOLEAN, [Next]_vars
    PROVE  damaged'
  <1>1. CASE ExpandHeap
    <2>1. CASE damaged' = damaged
      BY <2>1
    <2>2. CASE \E new : damaged' = (damaged \/ RunsInto(new))
      BY <2>2
    <2>3. damaged' = damaged \/ \E new : damaged' = (damaged \/ RunsInto(new))
      BY <1>1, ExpandCases, Zenon DEF Grows
    <2> QED
      BY <2>1, <2>2, <2>3
  <1>2. CASE Take
    BY <1>2 DEF Take
  <1>3. CASE OthersWrite
    BY <1>3 DEF OthersWrite
  <1>4. CASE ~ExpandHeap /\ ~Take /\ ~OthersWrite
    BY <1>4 DEF Next, Calls, Walk, Advance, Malloc, Free, FreeLost, Wild,
                LinkedListRemove, Release, vars
  <1> QED
    BY <1>1, <1>2, <1>3, <1>4

LEMMA IInvKept ==
    ASSUME IInv, [Next]_vars
    PROVE  IInv'
  <1>1. PlainInv /\ PlainInv'
    BY PlainStep DEF IInv
  <1>2. CASE damaged
    BY <1>1, <1>2, DamageStays DEF IInv, PlainInv
  <1>3. CASE ~damaged
    BY <1>1, <1>3, ShapeKept DEF IInv
  <1> QED
    BY <1>2, <1>3

LEMMA Invariance == Spec => []IInv
  <1>1. Init => IInv
    BY InitInv
  <1>2. IInv /\ [Next]_vars => IInv'
    BY IInvKept
  <1> QED
    BY <1>1, <1>2, PTL DEF Spec

LEMMA TypeFollows ==
    ASSUME Shape, damaged \in BOOLEAN
    PROVE  TypeOK
  <1>1. PICK N : InOrder(mem, lastNode, heapEnd, N) /\ BlocksIn(mem, held, N) /\ CallInv(N)
    BY DEF Shape
  <1>2. PICK s : Listed(mem, first, held, s)
    BY DEF Shape
  <1>3. MemOK(mem) /\ PagesInv /\ heapEnd \in Nat /\ heapEnd < LastUnit
    BY HeapEndFits DEF Shape
  <1>4. Nodes = N
    BY <1>1, <1>3, NodesAre
  <1>5. ASSUME NEW n \in N PROVE Node(n) /\ mem[n].size \in Units /\ mem[n].free \in BOOLEAN
    <2>1. n \in Nat /\ mem[n].size \in Nat /\ NodeEnd(mem, n) <= heapEnd
      BY <1>1, <1>3, OrderFacts
    <2>2. mem[n].size \in Units
      BY <1>3, <2>1, UnitsFit DEF NodeEnd
    <2>3. Node(n) /\ mem[n].free \in BOOLEAN
      BY <1>1 DEF InOrder, Node
    <2> QED
      BY <2>2, <2>3
  <1>6. first \in Units \cup {NULL}
    <2>1. s # <<>> => 1 \in 1 .. Len(s)
      BY <1>2 DEF Listed
    <2> QED
      BY <1>2, <2>1 DEF Listed
  <1>7. top \in 0 .. Pages /\ owned \subseteq 0 .. (top - 1)
    <2>1. /\ top \in Nat /\ top \in FirstPages .. Pages /\ FirstPages \in Nat /\ Pages \in Nat
          /\ owned \subseteq 0 .. (top - 1)
      BY <1>3, PagesFacts
    <2> QED
      BY <2>1
  <1>8. /\ lastNode \in N /\ DOMAIN held \subseteq Units
        /\ call.what \in {"none", "malloc", "list"}
    BY <1>1 DEF InOrder, BlocksIn, CallInv, CallOK
  <1>9. DOMAIN mem = Units /\ outcome \in {"ok", "wild", "out of memory"}
    BY <1>3 DEF MemOK, PagesInv
  <1> QED
    BY <1>4, <1>5, <1>6, <1>7, <1>8, <1>9 DEF TypeOK

LEMMA OrderFollows ==
    ASSUME Shape
    PROVE  NodesInOrder
  <1>1. PICK N : InOrder(mem, lastNode, heapEnd, N)
    BY DEF Shape
  <1>2. MemOK(mem) /\ heapEnd \in Nat
    BY HeapEndFits DEF Shape
  <1>3. Nodes = N
    BY <1>1, <1>2, NodesAre
  <1>4. ASSUME NEW n \in N
        PROVE  IF mem[n + 1].next = NULL
               THEN n = lastNode /\ n + Header + mem[n].size <= heapEnd
               ELSE n + Header + mem[n].size <= mem[n + 1].next
    <2>1. NodeEnd(mem, n) = n + Header + mem[n].size
      BY DEF NodeEnd
    <2>2. CASE n = lastNode
      BY <1>1, <2>1, <2>2 DEF InOrder
    <2>3. CASE n # lastNode
      <3>1. /\ mem[n + 1].next \in N /\ n < mem[n + 1].next
        BY <1>1, <2>3 DEF InOrder, IsNext
      <3>2. NodeEnd(mem, n) <= mem[n + 1].next
        BY <1>1, <3>1 DEF InOrder
      <3>3. mem[n + 1].next # NULL
        BY <1>1, <3>1, UnitsFit DEF InOrder
      <3> QED
        BY <2>1, <3>2, <3>3
    <2> QED
      BY <2>2, <2>3
  <1> QED
    BY <1>3, <1>4 DEF NodesInOrder, heapEnd

LEMMA HeldFollows ==
    ASSUME Shape
    PROVE  UsedNodesAreHeld
  <1>1. PICK N : InOrder(mem, lastNode, heapEnd, N) /\ BlocksIn(mem, held, N)
    BY DEF Shape
  <1>2. MemOK(mem) /\ heapEnd \in Nat
    BY HeapEndFits DEF Shape
  <1>3. Nodes = N
    BY <1>1, <1>2, NodesAre
  <1> QED
    BY <1>1, <1>3 DEF UsedNodesAreHeld, BlocksIn

LEMMA LinkedFollows ==
    ASSUME Shape
    PROVE  ElementsStayLinked
  <1>1. PICK s : Listed(mem, first, held, s)
    BY DEF Shape
  <1>2. Elements = {s[i] : i \in 1 .. Len(s)}
    BY <1>1, ElementsListed DEF Shape
  <1>3. \A b : (\E i \in 1 .. Len(s) : s[i] = b) <=> (b \in DOMAIN held /\ held[b].what = "list")
    BY <1>1 DEF Listed
  <1> QED
    BY <1>2, <1>3 DEF ElementsStayLinked

\* The walk has passed every node, lastNode being the last one.
LEMMA FullFollows ==
    ASSUME Shape, [Next]_vars
    PROVE  top' # top => \A n \in Nodes : ~(mem[n].free /\ mem[n].size >= MallocSize)
  <1>1. CASE ExpandHeap
    <2>1. PICK N : InOrder(mem, lastNode, heapEnd, N) /\ CallInv(N)
      BY DEF Shape
    <2>2. MemOK(mem) /\ heapEnd \in Nat
      BY HeapEndFits DEF Shape
    <2>3. Nodes = N
      BY <2>1, <2>2, NodesAre
    <2>4. call.what # "none" /\ ~Fits(call.node, MallocSize) /\ call.node = lastNode
      BY <1>1, ExpandCases DEF Visiting
    <2>5. \A n \in N : n < call.node => ~Fits(n, MallocSize)
      BY <2>1, <2>4 DEF CallInv
    <2>6. ASSUME NEW n \in N PROVE n < call.node \/ n = call.node
      <3>1. n \in Nat /\ lastNode \in Nat /\ n <= lastNode
        BY <2>1, <2>2, OrderFacts
      <3> QED
        BY <2>4, <3>1
    <2> QED
      BY <2>3, <2>4, <2>5, <2>6 DEF Fits
  <1>2. CASE ~ExpandHeap
    <2>1. top' = top
      BY <1>2 DEF Next, Calls, Walk, Take, Advance, Malloc, Free, FreeLost, Wild,
                  LinkedListRemove, Release, OthersWrite, vars
    <2> QED
      BY <2>1
  <1> QED
    BY <1>1, <1>2

-----------------------------------------------------------------------------
(* The theorems.  The properties end with the first event that writes over a
   header or an element: see Heap. *)

\* Until something is written over a header or an element (`damaged`): whatever the
\* callers of malloc, free and the list helper do and others take in between,
\* the list leads to intact headers only, the first element is in memory (heap.c).
THEOREM HeapTypeOK == Spec => []TypeOK
  <1>1. IInv => TypeOK
    <2>1. ASSUME IInv, damaged PROVE TypeOK
      <3>1. PagesInv /\ CallOK /\ DOMAIN mem = Units /\ damaged \in BOOLEAN
        BY <2>1 DEF IInv, PlainInv
      <3>2. top \in 0 .. Pages /\ owned \subseteq 0 .. (top - 1)
        <4>1. /\ top \in Nat /\ top \in FirstPages .. Pages /\ FirstPages \in Nat /\ Pages \in Nat
              /\ owned \subseteq 0 .. (top - 1)
          BY <3>1, PagesFacts
        <4> QED
          BY <4>1
      <3>3. call.what \in {"none", "malloc", "list"} /\ outcome \in {"ok", "wild", "out of memory"}
        BY <3>1 DEF PagesInv, CallOK
      <3> QED
        BY <2>1, <3>1, <3>2, <3>3, Zenon DEF TypeOK
    <2>2. ASSUME IInv, ~damaged PROVE TypeOK
      BY <2>2, TypeFollows DEF IInv, PlainInv
    <2> QED
      BY <2>1, <2>2
  <1> QED
    BY <1>1, Invariance, PTL

\* Until then SplitNode, CombineForward and ExpandHeap leave nodes that follow each
\* other without overlap up to the end of the heap, lastNode last.
THEOREM TheNodesKeepTheirOrder == Spec => []NodesInOrder
  <1>1. IInv => NodesInOrder
    <2>1. damaged => NodesInOrder
      BY DEF NodesInOrder
    <2> QED
      BY <2>1, OrderFollows DEF IInv
  <1> QED
    BY <1>1, Invariance, PTL

\* Until then the nodes malloc marked and free did not are those of the blocks in
\* use, and no call puts a header into what another's caller asked for.
THEOREM NoCallTakesAnothersBlock == Spec => []UsedNodesAreHeld
  <1>1. IInv => UsedNodesAreHeld
    <2>1. damaged => UsedNodesAreHeld
      BY DEF UsedNodesAreHeld
    <2> QED
      BY <2>1, HeldFollows DEF IInv
  <1> QED
    BY <1>1, Invariance, PTL

\* Until then LinkedListAllocate and LinkedListRemove keep the list exact, whatever
\* other callers take, write and free in between.
THEOREM TheListIsExact == Spec => []ElementsStayLinked
  <1>1. IInv => ElementsStayLinked
    <2>1. damaged => ElementsStayLinked
      BY DEF ElementsStayLinked
    <2> QED
      BY <2>1, LinkedFollows DEF IInv
  <1> QED
    BY <1>1, Invariance, PTL

\* Until then malloc calls ExpandHeap only after it has seen that no node would do.
THEOREM TheHeapGrowsOnlyWhenFull == Spec => ExpandsOnlyWhenFull
  <1>1. IInv /\ [Next]_vars =>
          [top' # top /\ ~damaged =>
             \A n \in Nodes : ~(mem[n].free /\ mem[n].size >= MallocSize)]_vars
    BY FullFollows DEF IInv
  <1> QED
    BY <1>1, Invariance, PTL DEF Spec, ExpandsOnlyWhenFull

=============================================================================
