----------------------------- MODULE Induction -----------------------------
(***************************************************************************)
(* The least number principle and induction over the natural numbers, for  *)
(* sets instead of predicates, so that the provers can instantiate them,   *)
(* and what follows from them: Min of FiniteSetsExt is the least element,  *)
(* and a function that a recursion defines exists.                         *)
(***************************************************************************)
EXTENDS Integers, FiniteSetsExt, WellFoundedInduction, TLAPS

\* Every set of natural numbers that is not empty has a least element.
LEMMA LeastNumber ==
    ASSUME NEW S \in SUBSET Nat, S # {}
    PROVE  \E n \in S : \A m \in S : n <= m
  <1> DEFINE R == OpToRel(<, Nat)
  <1>1. IsWellFoundedOn(R, Nat)
    BY NatLessThanWellFounded
  <1>2. \A x, y \in Nat : x < y => <<x, y>> \in R
    BY DEF OpToRel
  <1> HIDE DEF R
  <1>3. PICK n \in S : \A m \in S : <<m, n>> \notin R
    BY <1>1, WFMin
  <1>4. n \in Nat /\ \A m \in S : m \in Nat
    OBVIOUS
  <1>5. \A m \in S : ~ (m < n)
    BY <1>2, <1>3, <1>4, Zenon
  <1> QED
    BY <1>4, <1>5, SMT

\* Min of such a set is that element.
LEMMA MinIsLeast ==
    ASSUME NEW S \in SUBSET Nat, S # {}
    PROVE  Min(S) \in S /\ \A m \in S : Min(S) <= m
  BY LeastNumber DEF Min

\* A set that contains 0 and with every number the next one contains them all.
LEMMA SetInduction ==
    ASSUME NEW S, 0 \in S, \A n \in Nat : n \in S => n + 1 \in S
    PROVE  Nat \subseteq S
  <1> SUFFICES ASSUME Nat \ S # {} PROVE FALSE
    OBVIOUS
  <1>1. PICK n \in Nat \ S : \A m \in Nat \ S : n <= m
    BY LeastNumber
  <1>2. n - 1 \in Nat /\ n - 1 \in S
    BY <1>1
  <1> QED
    BY <1>1, <1>2

\* A function on 0 .. n whose values come each from the one before.
Iterates(f, base, n, F) == f[0] = base /\ \A k \in 1 .. n : f[k] = F[k][f[k - 1]]

\* There is one.
LEMMA Recursion ==
    ASSUME NEW V, NEW base \in V, NEW n \in Nat, NEW F \in [1 .. n -> [V -> V]]
    PROVE  \E f \in [0 .. n -> V] : Iterates(f, base, n, F)
  <1> DEFINE Until(f, m) == f \in [0 .. n -> V] /\ f[0] = base /\ \A k \in 1 .. n : k <= m => f[k] = F[k][f[k - 1]]
             Good == {m \in Nat : m <= n => \E f : Until(f, m)}
  <1>1. 0 \in Good
    <2>1. Until([k \in 0 .. n |-> base], 0)
      OBVIOUS
    <2> QED
      BY <2>1
  <1>2. ASSUME NEW m \in Nat, m \in Good PROVE m + 1 \in Good
    <2> SUFFICES ASSUME m + 1 <= n PROVE \E f : Until(f, m + 1)
      OBVIOUS
    <2>1. PICK f : Until(f, m)
      BY <1>2
    <2>2. f \in [0 .. n -> V] /\ f[0] = base /\ \A k \in 1 .. n : k <= m => f[k] = F[k][f[k - 1]]
      BY <2>1
    <2> DEFINE next == F[m + 1][f[m]]
               g == [k \in 0 .. n |-> IF k = m + 1 THEN next ELSE f[k]]
    <2>3. next \in V
      <3>1. m + 1 \in 1 .. n /\ f[m] \in V
        BY <2>2
      <3> QED
        BY <3>1
    <2> HIDE DEF next
    <2>4. g \in [0 .. n -> V] /\ g[0] = base
      BY <2>2, <2>3
    <2>5. \A k \in 0 .. n : k # m + 1 => g[k] = f[k]
      OBVIOUS
    <2>6. g[m + 1] = next
      OBVIOUS
    <2> HIDE DEF g
    <2>7. ASSUME NEW k \in 1 .. n, k <= m + 1 PROVE g[k] = F[k][g[k - 1]]
      <3>1. k - 1 \in 0 .. n /\ k \in 0 .. n /\ k - 1 # m + 1
        BY <2>7
      <3>2. g[k - 1] = f[k - 1]
        BY <2>5, <3>1
      <3>3. CASE k = m + 1
        BY <2>6, <3>2, <3>3 DEF next
      <3>4. CASE k # m + 1
        <4>1. k <= m
          BY <2>7, <3>4
        <4> QED
          BY <2>2, <2>5, <3>1, <3>2, <3>4, <4>1
      <3> QED
        BY <3>3, <3>4
    <2>8. Until(g, m + 1)
      BY <2>4, <2>7
    <2> QED
      BY <2>8
  <1> HIDE DEF Good
  <1>3. n \in Good
    BY <1>1, <1>2, SetInduction
  <1>4. PICK f : Until(f, n)
    BY <1>3 DEF Good
  <1>5. f \in [0 .. n -> V] /\ f[0] = base /\ \A k \in 1 .. n : f[k] = F[k][f[k - 1]]
    BY <1>4
  <1> QED
    BY <1>5 DEF Iterates

\* Induction over a set whose members have a size.
LEMMA SizeInduction ==
    ASSUME NEW D, NEW size \in [D -> Nat], NEW S,
           \A d \in D : (\A e \in D : size[e] < size[d] => e \in S) => d \in S
    PROVE  D \subseteq S
  <1> SUFFICES ASSUME NEW b \in D \ S PROVE FALSE
    OBVIOUS
  <1> DEFINE Sizes == {size[d] : d \in D \ S}
  <1>1. Sizes \in SUBSET Nat /\ Sizes # {}
    OBVIOUS
  <1>2. PICK n \in Sizes : \A m \in Sizes : n <= m
    BY <1>1, LeastNumber
  <1>3. PICK d \in D \ S : n = size[d]
    OBVIOUS
  <1>4. ASSUME NEW e \in D \ S PROVE ~ (size[e] < size[d])
    <2>1. size[e] \in Sizes /\ size[e] \in Nat /\ n \in Nat
      BY <1>1
    <2> HIDE DEF Sizes
    <2>2. n <= size[e]
      BY <1>2, <2>1
    <2> QED
      BY <1>3, <2>1, <2>2
  <1> QED
    BY <1>3, <1>4

\* What F makes of g at d depends on g at what is smaller than d only.
Lessens(D, size, Fs, F) ==
    \A g, h \in Fs, d \in D : (\A e \in D : size[e] < size[d] => g[e] = h[e]) => F[g][d] = F[h][d]

Fixes(F, f) == F[f] = f

\* A function can be defined by such an F.
LEMMA Fixpoint ==
    ASSUME NEW D, NEW V, NEW size \in [D -> Nat], NEW base \in [D -> V],
           NEW F \in [[D -> V] -> [D -> V]], Lessens(D, size, [D -> V], F)
    PROVE  \E f \in [D -> V] : Fixes(F, f)
  <1> DEFINE Fs == [D -> V]
             Solves(g, n) == g \in Fs /\ \A d \in D : size[d] < n => F[g][d] = g[d]
             Solved == {n \in Nat : \E g : Solves(g, n)}
  <1>0. F \in [Fs -> Fs] /\ base \in Fs /\ \A g \in Fs, d \in D : g[d] \in V
    OBVIOUS
  <1>1. ASSUME NEW g, NEW h, NEW n \in Nat, Solves(g, n), Solves(h, n), NEW d \in D, size[d] < n
        PROVE  g[d] = h[d]
    <2> DEFINE S == {e \in D : size[e] < n => g[e] = h[e]}
    <2>1. ASSUME NEW e \in D, \A c \in D : size[c] < size[e] => c \in S PROVE e \in S
      <3> SUFFICES ASSUME size[e] < n PROVE g[e] = h[e]
        OBVIOUS
      <3>1. \A c \in D : size[c] < size[e] => g[c] = h[c]
        BY <2>1
      <3>2. F[g][e] = F[h][e]
        BY <1>1, <3>1 DEF Lessens
      <3> QED
        BY <1>1, <3>2
    <2> HIDE DEF S
    <2>2. D \subseteq S
      BY <2>1, SizeInduction
    <2> QED
      BY <1>1, <2>2 DEF S
  <1>2. 0 \in Solved
    <2>1. Solves(base, 0)
      OBVIOUS
    <2> QED
      BY <2>1
  <1>3. ASSUME NEW n \in Nat, n \in Solved PROVE n + 1 \in Solved
    <2>1. PICK g : Solves(g, n)
      BY <1>3
    <2>2. F[g] \in Fs
      BY <1>0, <2>1
    <2>3. ASSUME NEW d \in D, size[d] < n + 1 PROVE F[F[g]][d] = F[g][d]
      <3>1. \A e \in D : size[e] < size[d] => F[g][e] = g[e]
        BY <2>1, <2>3
      <3> QED
        BY <2>1, <2>2, <3>1 DEF Lessens
    <2>4. Solves(F[g], n + 1)
      BY <2>2, <2>3
    <2> QED
      BY <2>4
  <1> HIDE DEF Solved
  <1>4. Nat \subseteq Solved
    BY <1>2, <1>3, SetInduction
  <1> DEFINE Best(d) == CHOOSE g : Solves(g, size[d] + 1)
             f == [d \in D |-> Best(d)[d]]
  <1>5. ASSUME NEW d \in D PROVE Solves(Best(d), size[d] + 1)
    <2>1. size[d] + 1 \in Solved
      BY <1>4
    <2> QED
      BY <2>1 DEF Solved
  <1>6. f \in Fs
    BY <1>0, <1>5
  <1>7. ASSUME NEW d \in D PROVE F[f][d] = f[d]
    <2>1. ASSUME NEW e \in D, size[e] <= size[d] PROVE f[e] = Best(d)[e]
      <3>1. Solves(Best(e), size[e] + 1) /\ Solves(Best(d), size[d] + 1)
        BY <1>5
      <3>2. Solves(Best(d), size[e] + 1) /\ size[e] + 1 \in Nat /\ size[e] < size[e] + 1
        BY <2>1, <3>1
      <3> HIDE DEF Solves, Best
      <3>3. Best(e)[e] = Best(d)[e]
        BY <1>1, <3>1, <3>2
      <3> QED
        BY <3>3
    <2>2. Best(d) \in Fs /\ F[Best(d)][d] = Best(d)[d]
      <3>1. Solves(Best(d), size[d] + 1)
        BY <1>5
      <3>2. size[d] \in Nat /\ size[d] < size[d] + 1
        OBVIOUS
      <3> HIDE DEF Best
      <3> QED
        BY <3>1, <3>2
    <2> HIDE DEF f, Best
    <2>3. F[f][d] = F[Best(d)][d]
      BY <1>6, <2>1, <2>2 DEF Lessens
    <2> QED
      BY <2>1, <2>2, <2>3
  <1>8. F[f] = f
    <2>1. F[f] \in Fs
      BY <1>0, <1>6
    <2> HIDE DEF f
    <2> QED
      BY <1>6, <1>7, <2>1
  <1> QED
    BY <1>6, <1>8 DEF Fixes
=============================================================================
