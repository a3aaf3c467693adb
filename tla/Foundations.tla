------------------------------ MODULE Foundations ----------------------------
(***************************************************************************)
(* Induction in set form, for the proof modules: the library states it for *)
(* a predicate, here it is stated for the set of numbers that satisfy it.  *)
(* Everything follows from the well-foundedness of < on the naturals.  It  *)
(* gives recursive functions their values: iterations, folds and what can  *)
(* be reached in a finite graph; and it finds the first check that fails.  *)
(* Finite sets: what functions take them to, unions, and lists of them.    *)
(***************************************************************************)
EXTENDS Integers, FiniteSetTheorems, WellFoundedInduction, Reachability, Checks, TLAPS

\* A set of naturals that is not empty has a least element.
LEMMA LeastNatural ==
  ASSUME NEW T \in SUBSET Nat, T # {}
  PROVE  \E x \in T : \A y \in T : x <= y
<1> DEFINE Less == {ss \in Nat \X Nat : ss[1] < ss[2]}
<1>1. OpToRel(<, Nat) = Less
  BY DEF OpToRel
<1>2. IsWellFoundedOn(Less, Nat)
  BY <1>1, NatLessThanWellFounded
<1>3. \E x \in T : \A y \in T : <<y, x>> \notin Less
  <2> HIDE DEF Less
  <2>1. QED
    BY <1>2, WFMin
<1>4. \A x, y \in Nat : <<y, x>> \notin Less => x <= y
  OBVIOUS
<1>5. QED
  BY <1>3, <1>4

\* A set that holds 0 and the successor of each of its members holds every
\* natural.
LEMMA NaturalInduction ==
  ASSUME NEW T, 0 \in T, \A n \in Nat : n \in T => n + 1 \in T
  PROVE  \A n \in Nat : n \in T
<1>1. SUFFICES ASSUME {n \in Nat : n \notin T} # {} PROVE FALSE
  OBVIOUS
<1>2. PICK m \in {n \in Nat : n \notin T} : \A y \in {n \in Nat : n \notin T} : m <= y
  BY <1>1, LeastNatural
<1>3. m - 1 \in Nat /\ m - 1 \in T
  BY <1>2
<1>4. QED
  BY <1>2, <1>3

\* A family of subsets of U that holds the empty set, and with a set also the
\* set with one more element, holds U.
LEMMA FiniteSetInduction ==
  ASSUME NEW U, IsFiniteSet(U), NEW F, {} \in F,
         \A A \in SUBSET U : \A x \in U \ A : A \in F => A \cup {x} \in F
  PROVE  U \in F
<1> DEFINE Sized(n) == \A A \in SUBSET U : Cardinality(A) = n => A \in F
           T == {n \in Nat : Sized(n)}
<1>1. \A A \in SUBSET U : IsFiniteSet(A) /\ Cardinality(A) \in Nat
  BY FS_Subset, FS_CardinalityType
<1>2. Sized(0)
  BY <1>1, FS_EmptySet
<1>3. ASSUME NEW n \in Nat, Sized(n) PROVE Sized(n + 1)
  <2>1. SUFFICES ASSUME NEW A \in SUBSET U, Cardinality(A) = n + 1 PROVE A \in F
    OBVIOUS
  <2>2. A # {}
    BY <2>1, FS_EmptySet
  <2>3. PICK x \in A : TRUE
    BY <2>2
  <2>4. Cardinality(A \ {x}) = n
    <3>1. Cardinality(A \ {x}) = Cardinality(A) - 1
      BY <1>1, FS_RemoveElement
    <3>2. QED
      BY <2>1, <3>1
  <2>5. A \ {x} \in F
    BY <1>3, <2>4
  <2>6. (A \ {x}) \cup {x} \in F
    BY <2>5
  <2>7. QED
    BY <2>6
<1>4. \A n \in Nat : n \in T
  <2>1. 0 \in T /\ \A n \in Nat : n \in T => n + 1 \in T
    BY <1>2, <1>3
  <2> HIDE DEF T
  <2>2. QED
    BY <2>1, NaturalInduction
<1>5. QED
  BY <1>1, <1>4

\* A fold over a finite set is well defined: step[x][b] folds x into b, and
\* next[s] is the element of s that is folded last.
IsFold(S, base, step, next, iter) ==
  iter = [s \in SUBSET S |-> IF s = {} THEN base ELSE step[next[s]][iter[s \ {next[s]}]]]

LEMMA FoldExists ==
  ASSUME NEW S, IsFiniteSet(S), NEW B, NEW base \in B, NEW step \in [S -> [B -> B]],
         NEW next, \A s \in SUBSET S : s # {} => next[s] \in s
  PROVE  \E iter \in [SUBSET S -> B] : IsFold(S, base, step, next, iter)
<1> DEFINE Up(n) == {s \in SUBSET S : Cardinality(s) <= n}
           Folds(D, iter) ==
             iter \in [D -> B] /\ iter = [s \in D |-> IF s = {} THEN base ELSE step[next[s]][iter[s \ {next[s]}]]]
           T == {n \in Nat : \E iter : Folds(Up(n), iter)}
<1>1. /\ Cardinality(S) \in Nat
      /\ \A s \in SUBSET S : IsFiniteSet(s) /\ Cardinality(s) \in Nat /\ Cardinality(s) <= Cardinality(S)
  BY FS_Subset, FS_CardinalityType
<1>2. \A n \in Nat, s \in SUBSET S : s # {} /\ s \in Up(n + 1) => s \ {next[s]} \in Up(n)
  <2>1. SUFFICES ASSUME NEW n \in Nat, NEW s \in SUBSET S, s # {}, Cardinality(s) <= n + 1
                 PROVE  Cardinality(s \ {next[s]}) <= n
    OBVIOUS
  <2>2. Cardinality(s \ {next[s]}) = Cardinality(s) - 1
    BY <1>1, <2>1, FS_RemoveElement
  <2>3. QED
    BY <1>1, <2>1, <2>2
<1>3. 0 \in T
  <2> DEFINE iter == [s \in Up(0) |-> base]
  <2>1. \A s \in Up(0) : s = {}
    <3>1. SUFFICES ASSUME NEW s \in SUBSET S, Cardinality(s) <= 0 PROVE s = {}
      OBVIOUS
    <3>2. Cardinality(s) = 0
      BY <1>1, <3>1
    <3>3. QED
      BY <1>1, <3>2, FS_EmptySet
  <2> HIDE DEF Up
  <2>2. Folds(Up(0), iter)
    BY <2>1
  <2> HIDE DEF iter, Folds
  <2>3. QED
    BY <2>2
<1>4. ASSUME NEW n \in Nat, n \in T PROVE n + 1 \in T
  <2>1. PICK g : Folds(Up(n), g)
    BY <1>4
  <2> DEFINE h == [s \in Up(n + 1) |-> IF s = {} THEN base ELSE step[next[s]][g[s \ {next[s]}]]]
  <2>2. Up(n) \subseteq Up(n + 1)
    BY <1>1
  <2>3. \A s \in Up(n + 1) : s \in SUBSET S
    OBVIOUS
  <2> HIDE DEF Up
  <2>4. \A t \in Up(n) : h[t] = g[t]
    BY <2>1, <2>2
  <2>5. \A s \in Up(n + 1) : s # {} => h[s \ {next[s]}] = g[s \ {next[s]}]
    BY <1>2, <2>3, <2>4
  <2>6. h \in [Up(n + 1) -> B]
    <3>1. \A s \in Up(n + 1) : s # {} => next[s] \in S /\ g[s \ {next[s]}] \in B
      BY <1>2, <2>1, <2>3
    <3>2. \A s \in Up(n + 1) : s # {} => step[next[s]][g[s \ {next[s]}]] \in B
      BY <3>1
    <3>3. QED
      BY <3>2
  <2>7. Folds(Up(n + 1), h)
    <3>1. \A s \in Up(n + 1) : h[s] = IF s = {} THEN base ELSE step[next[s]][h[s \ {next[s]}]]
      BY <2>5
    <3>2. h = [s \in Up(n + 1) |-> h[s]]
      OBVIOUS
    <3> HIDE DEF h
    <3>3. QED
      BY <2>6, <3>1, <3>2
  <2> HIDE DEF h, Folds
  <2>8. QED
    BY <2>7
<1>5. Cardinality(S) \in T
  <2> HIDE DEF T
  <2>1. QED
    BY <1>1, <1>3, <1>4, NaturalInduction
<1>6. Up(Cardinality(S)) = SUBSET S
  BY <1>1
<1>7. PICK iter : Folds(Up(Cardinality(S)), iter)
  BY <1>5
<1>8. iter \in [SUBSET S -> B] /\ IsFold(S, base, step, next, iter)
  <2> HIDE DEF Up
  <2>1. QED
    BY <1>6, <1>7 DEF IsFold
<1>9. QED
  BY <1>8

\* A step can be repeated any number of times.
IsIteration(base, step, g) == g[0] = base /\ \A n \in Nat : g[n + 1] = step[g[n]]

LEMMA IterationExists ==
  ASSUME NEW B, NEW base \in B, NEW step \in [B -> B]
  PROVE  \E g \in [Nat -> B] : IsIteration(base, step, g)
<1> DEFINE Upto(n, g) == g \in [0..n -> B] /\ g[0] = base /\ \A k \in 0..(n - 1) : g[k + 1] = step[g[k]]
           Has(n) == \E g : Upto(n, g)
           One(n) == \A g, h : Upto(n, g) /\ Upto(n, h) => g[n] = h[n]
           T == {n \in Nat : Has(n) /\ One(n)}
<1>1. ASSUME NEW n \in Nat, NEW g, Upto(n + 1, g)
      PROVE  \E h : Upto(n, h) /\ h[n] = g[n] /\ g[n + 1] = step[h[n]]
  <2> DEFINE h == [k \in 0..n |-> g[k]]
  <2>1. h[n] = g[n] /\ g[n + 1] = step[g[n]]
    BY <1>1
  <2>2. Upto(n, h)
    <3>1. \A k \in 0..(n - 1) : k \in 0..n /\ k + 1 \in 0..n /\ k \in 0..(n + 1 - 1)
      OBVIOUS
    <3>2. \A k \in 0..n : k \in 0..(n + 1)
      OBVIOUS
    <3>3. QED
      BY <1>1, <3>1, <3>2
  <2> HIDE DEF Upto, h
  <2>3. QED
    BY <2>1, <2>2
<1>2. 0 \in T
  <2> DEFINE g == [k \in 0..0 |-> base]
  <2>1. Upto(0, g)
    OBVIOUS
  <2>2. Has(0)
    <3> HIDE DEF Upto
    <3>1. QED
      BY <2>1
  <2>3. One(0)
    OBVIOUS
  <2>4. QED
    BY <2>2, <2>3
<1>3. ASSUME NEW n \in Nat, n \in T PROVE n + 1 \in T
  <2>1. PICK g : Upto(n, g)
    BY <1>3
  <2> DEFINE h == [k \in 0..(n + 1) |-> IF k = n + 1 THEN step[g[n]] ELSE g[k]]
  <2>2. Upto(n + 1, h)
    <3>1. h \in [0..(n + 1) -> B] /\ h[0] = base
      <4>1. \A k \in 0..(n + 1) : k # n + 1 => k \in 0..n
        OBVIOUS
      <4>2. g[n] \in B
        BY <2>1
      <4>3. QED
        BY <2>1, <4>1, <4>2
    <3>2. ASSUME NEW k \in 0..(n + 1 - 1) PROVE h[k + 1] = step[h[k]]
      <4>1. k \in 0..n /\ h[k] = g[k]
        OBVIOUS
      <4>2. CASE k = n
        BY <4>1, <4>2
      <4>3. CASE k # n
        <5>1. k \in 0..(n - 1) /\ h[k + 1] = g[k + 1]
          BY <4>1, <4>3
        <5>2. QED
          BY <2>1, <4>1, <5>1
      <4>4. QED
        BY <4>2, <4>3
    <3> HIDE DEF h
    <3>3. QED
      BY <3>1, <3>2
  <2>3. Has(n + 1)
    <3> HIDE DEF Upto, h
    <3>1. QED
      BY <2>2
  <2>4. One(n + 1)
    <3> HIDE DEF Upto
    <3>1. SUFFICES ASSUME NEW p, NEW q, Upto(n + 1, p), Upto(n + 1, q) PROVE p[n + 1] = q[n + 1]
      OBVIOUS
    <3>2. PICK p1 : Upto(n, p1) /\ p[n + 1] = step[p1[n]]
      BY <1>1, <3>1
    <3>3. PICK q1 : Upto(n, q1) /\ q[n + 1] = step[q1[n]]
      BY <1>1, <3>1
    <3>4. QED
      BY <1>3, <3>2, <3>3
  <2>5. QED
    BY <2>3, <2>4
<1>4. \A n \in Nat : Has(n) /\ One(n)
  <2>1. \A n \in Nat : n \in T
    <3> HIDE DEF T
    <3>1. QED
      BY <1>2, <1>3, NaturalInduction
  <2>2. QED
    BY <2>1
<1> DEFINE g == [n \in Nat |-> (CHOOSE h : Upto(n, h))[n]]
<1>5. \A n \in Nat : \A h : Upto(n, h) => g[n] = h[n]
  <2> HIDE DEF Upto
  <2>1. QED
    BY <1>4
<1>6. g \in [Nat -> B]
  <2>1. SUFFICES ASSUME NEW n \in Nat PROVE g[n] \in B
    OBVIOUS
  <2>2. PICK h : Upto(n, h)
    BY <1>4
  <2>3. g[n] = h[n]
    <3> HIDE DEF Upto, g
    <3>1. QED
      BY <1>5, <2>2
  <2>4. h[n] \in B
    BY <2>2
  <2>5. QED
    BY <2>3, <2>4
<1>7. g[0] = base
  <2>1. PICK h : Upto(0, h)
    BY <1>4
  <2>2. g[0] = h[0]
    <3> HIDE DEF Upto, g
    <3>1. QED
      BY <1>5, <2>1
  <2>3. QED
    BY <2>1, <2>2
<1>8. ASSUME NEW n \in Nat PROVE g[n + 1] = step[g[n]]
  <2> HIDE DEF Upto, g
  <2>1. PICK h : Upto(n + 1, h)
    BY <1>4
  <2>2. PICK k : Upto(n, k) /\ k[n] = h[n] /\ h[n + 1] = step[k[n]]
    BY <1>1, <2>1
  <2>3. g[n] = k[n] /\ g[n + 1] = h[n + 1]
    BY <1>5, <2>1, <2>2
  <2>4. QED
    BY <2>2, <2>3
<1>9. QED
  BY <1>6, <1>7, <1>8 DEF IsIteration

\* What is reached in a finite graph: the least set that holds the roots and
\* the successors of its members.  As many rounds as there are vertices find it
\* all, because each but the last adds a vertex.
LEMMA ReachableFacts ==
  ASSUME NEW V, IsFiniteSet(V), NEW succ \in [V -> SUBSET V], NEW roots \in SUBSET V
  PROVE  LET R == Reachable(succ, roots)
         IN  /\ roots \subseteq R /\ R \subseteq V /\ \A v \in R : succ[v] \subseteq R
             /\ \A T : roots \subseteq T /\ (\A v \in T \cap V : succ[v] \subseteq T) => R \subseteq T
<1> DEFINE step == [S \in SUBSET V |-> S \cup UNION {succ[v] : v \in S}]
           Is(g) == g = [n \in Nat |-> IF n = 0 THEN roots
                                       ELSE LET closer == g[n - 1] IN closer \cup UNION {succ[v] : v \in closer}]
           within == CHOOSE g : Is(g)
           N == Cardinality(V)
<1>1. \E g : Is(g)
  <2>1. step \in [SUBSET V -> SUBSET V]
    OBVIOUS
  <2>2. PICK g \in [Nat -> SUBSET V] : IsIteration(roots, step, g)
    <3> DEFINE B == SUBSET V
    <3>1. step \in [B -> B] /\ roots \in B
      BY <2>1
    <3> HIDE DEF step, B
    <3>2. \E g \in [Nat -> B] : IsIteration(roots, step, g)
      BY <3>1, IterationExists
    <3>3. QED
      BY <3>2 DEF B
  <2>3. \A n \in Nat : g[n] = IF n = 0 THEN roots ELSE g[n - 1] \cup UNION {succ[v] : v \in g[n - 1]}
    <3>1. SUFFICES ASSUME NEW n \in Nat, n # 0 PROVE g[n] = g[n - 1] \cup UNION {succ[v] : v \in g[n - 1]}
      BY <2>2 DEF IsIteration
    <3>2. n - 1 \in Nat /\ n - 1 + 1 = n
      BY <3>1
    <3>3. g[n] = step[g[n - 1]] /\ g[n - 1] \in SUBSET V
      BY <2>2, <3>2 DEF IsIteration
    <3>4. QED
      BY <3>3
  <2>4. Is(g)
    BY <2>3
  <2>5. QED
    BY <2>4
<1>2. Is(within)
  BY <1>1
<1>3. Reachable(succ, roots) = within[N] /\ N \in Nat
  BY FS_CardinalityType DEF Reachable
<1> HIDE DEF within, N
<1>4. /\ within[0] = roots
      /\ \A n \in Nat : within[n + 1] = within[n] \cup UNION {succ[v] : v \in within[n]}
  <2>1. within[0] = roots
    BY <1>2
  <2>2. SUFFICES ASSUME NEW n \in Nat PROVE within[n + 1] = within[n] \cup UNION {succ[v] : v \in within[n]}
    BY <2>1
  <2>3. n + 1 \in Nat /\ n + 1 # 0 /\ n + 1 - 1 = n
    OBVIOUS
  <2>4. QED
    BY <1>2, <2>3
<1> HIDE DEF Is
<1>5. \A n \in Nat : within[n] \subseteq V
  <2> DEFINE T == {n \in Nat : within[n] \subseteq V}
  <2>1. 0 \in T /\ \A n \in Nat : n \in T => n + 1 \in T
    BY <1>4
  <2> HIDE DEF T
  <2>2. \A n \in Nat : n \in T
    BY <2>1, NaturalInduction
  <2>3. QED
    BY <2>2 DEF T
<1>6. \A n \in Nat : roots \subseteq within[n]
  <2> DEFINE T == {n \in Nat : roots \subseteq within[n]}
  <2>1. 0 \in T /\ \A n \in Nat : n \in T => n + 1 \in T
    BY <1>4
  <2> HIDE DEF T
  <2>2. \A n \in Nat : n \in T
    BY <2>1, NaturalInduction
  <2>3. QED
    BY <2>2 DEF T
<1>7. ASSUME NEW W, roots \subseteq W, \A v \in W \cap V : succ[v] \subseteq W
      PROVE  \A n \in Nat : within[n] \subseteq W
  <2> DEFINE T == {n \in Nat : within[n] \subseteq W}
  <2>1. 0 \in T
    BY <1>4, <1>7
  <2>2. \A n \in Nat : n \in T => n + 1 \in T
    BY <1>4, <1>5, <1>7
  <2> HIDE DEF T
  <2>3. \A n \in Nat : n \in T
    BY <2>1, <2>2, NaturalInduction
  <2>4. QED
    BY <2>3 DEF T
<1>8. \A n \in Nat : IsFiniteSet(within[n]) /\ Cardinality(within[n]) \in Nat /\ Cardinality(within[n]) <= N
  BY <1>5, FS_Subset, FS_CardinalityType DEF N
<1>9. \A n \in Nat : within[n] # within[n + 1] => Cardinality(within[n]) + 1 <= Cardinality(within[n + 1])
  <2>1. SUFFICES ASSUME NEW n \in Nat, within[n] # within[n + 1]
                 PROVE  Cardinality(within[n]) + 1 <= Cardinality(within[n + 1])
    OBVIOUS
  <2>2. within[n] \subseteq within[n + 1] /\ n + 1 \in Nat
    BY <1>4
  <2>3. /\ IsFiniteSet(within[n + 1])
        /\ Cardinality(within[n]) \in Nat /\ Cardinality(within[n + 1]) \in Nat
    BY <1>8, <2>2
  <2>4. Cardinality(within[n]) < Cardinality(within[n + 1])
    BY <2>1, <2>2, <2>3, FS_Subset
  <2>5. QED
    BY <2>3, <2>4
<1>10. \A n \in Nat : within[n] # within[n + 1] => Cardinality(within[n + 1]) >= n + 1
  <2> DEFINE T == {n \in Nat : within[n] # within[n + 1] => Cardinality(within[n + 1]) >= n + 1}
  <2>1. 0 \in T
    BY <1>8, <1>9
  <2>2. ASSUME NEW n \in Nat, n \in T PROVE n + 1 \in T
    <3>1. SUFFICES ASSUME within[n + 1] # within[n + 1 + 1] PROVE Cardinality(within[n + 1 + 1]) >= n + 1 + 1
      OBVIOUS
    <3>2. within[n] # within[n + 1]
      <4>1. n + 1 \in Nat
        OBVIOUS
      <4>2. QED
        BY <1>4, <3>1, <4>1
    <3>3. Cardinality(within[n + 1]) >= n + 1
      BY <2>2, <3>2
    <3>4. Cardinality(within[n + 1]) + 1 <= Cardinality(within[n + 1 + 1])
      BY <1>9, <3>1
    <3>5. Cardinality(within[n + 1]) \in Nat /\ Cardinality(within[n + 1 + 1]) \in Nat
      BY <1>8
    <3>6. QED
      BY <3>3, <3>4, <3>5
  <2> HIDE DEF T
  <2>3. \A n \in Nat : n \in T
    BY <2>1, <2>2, NaturalInduction
  <2>4. QED
    BY <2>3 DEF T
<1>11. within[N] = within[N + 1]
  <2>1. N \in Nat /\ N + 1 \in Nat
    BY <1>3
  <2>2. Cardinality(within[N + 1]) <= N /\ Cardinality(within[N + 1]) \in Nat
    BY <1>8, <2>1
  <2>3. QED
    BY <1>10, <2>1, <2>2
<1>12. \A v \in within[N] : succ[v] \subseteq within[N]
  BY <1>3, <1>4, <1>11
<1>13. \A W : roots \subseteq W /\ (\A v \in W \cap V : succ[v] \subseteq W) => within[N] \subseteq W
  BY <1>3, <1>7
<1>14. roots \subseteq within[N] /\ within[N] \subseteq V
  BY <1>3, <1>5, <1>6
<1>15. QED
  BY <1>3, <1>12, <1>13, <1>14

\* What a function takes a finite set to is finite, and so is the union of
\* finitely many finite sets.
LEMMA RangeIsFinite ==
  ASSUME NEW f, IsFiniteSet(DOMAIN f) PROVE IsFiniteSet(Range(f))
<1> DEFINE D == DOMAIN f
           T == Range(f)
           g == [x \in D |-> f[x]]
<1>1. g \in [D -> T] /\ \A y \in T : \E x \in D : g[x] = y
  BY DEF Range
<1> HIDE DEF g, T, D
<1>2. g \in Surjection(D, T)
  BY <1>1 DEF Surjection
<1>3. IsFiniteSet(D)
  BY DEF D
<1>4. QED
  BY <1>2, <1>3, FS_Surjection DEF T

LEMMA ImageIsFinite ==
  ASSUME NEW S, IsFiniteSet(S), NEW f, S = DOMAIN f, f = [x \in S |-> f[x]]
  PROVE  IsFiniteSet({f[x] : x \in S})
<1>1. Range(f) = {f[x] : x \in S}
  BY DEF Range
<1>2. QED
  BY <1>1, RangeIsFinite

LEMMA UnionIsFinite ==
  ASSUME NEW S, IsFiniteSet(S), NEW f, f = [x \in S |-> f[x]], \A x \in S : IsFiniteSet(f[x])
  PROVE  IsFiniteSet(UNION {f[x] : x \in S})
<1> DEFINE F == {A \in SUBSET S : IsFiniteSet(UNION {f[x] : x \in A})}
<1>1. {} \in F
  <2>1. UNION {f[x] : x \in {}} = {}
    OBVIOUS
  <2>2. QED
    BY <2>1, FS_EmptySet
<1>2. ASSUME NEW A \in SUBSET S, NEW y \in S \ A, A \in F PROVE A \cup {y} \in F
  <2>1. UNION {f[x] : x \in A \cup {y}} = (UNION {f[x] : x \in A}) \cup f[y]
    OBVIOUS
  <2>2. IsFiniteSet((UNION {f[x] : x \in A}) \cup f[y])
    BY <1>2, FS_Union
  <2>3. QED
    BY <2>1, <2>2
<1> HIDE DEF F
<1>3. S \in F
  BY <1>1, <1>2, FiniteSetInduction
<1>4. QED
  BY <1>3 DEF F

\* The elements of a finite set can be listed.
LEMMA SomeOrder ==
  ASSUME NEW S, IsFiniteSet(S) PROVE SetToSeq(S) \in SetToSeqs(S)
<1> DEFINE n == Cardinality(S)
           Orders == {f \in [1..n -> S] : \A a, b \in 1..n : f[a] = f[b] => a = b}
<1>1. n \in Nat /\ ExistsBijection(1..n, S)
  BY FS_CardinalityType
<1>2. PICK f \in Bijection(1..n, S) : TRUE
  BY <1>1 DEF ExistsBijection
<1>3. f \in [1..n -> S] /\ IsInjective(f)
  BY DEF Bijection, Injection
<1>4. SetToSeq(S) \in [1..n -> S] /\ IsInjective(SetToSeq(S))
  BY <1>3 DEF SetToSeq
<1>5. QED
  BY <1>4 DEF SetToSeqs, IsInjective

\* Recursion along 1..N has a value, whatever each number's step is.
Follows(base, N, step, g) == \A n \in 0..N : g[n] = IF n = 0 THEN base ELSE step[n][g[n - 1]]

LEMMA RecursionExists ==
  ASSUME NEW B, NEW base \in B, NEW N \in Nat, NEW step \in [1..N -> [B -> B]]
  PROVE  \E g \in [0..N -> B] : Follows(base, N, step, g)
<1> DEFINE P == Nat \X B
           move == [p \in P |-> <<p[1] + 1, IF p[1] + 1 \in 1..N THEN step[p[1] + 1][p[2]] ELSE p[2]>>]
           start == <<0, base>>
<1>1. start \in P
  OBVIOUS
<1>2. move \in [P -> P]
  <2>1. ASSUME NEW k \in Nat, NEW b \in B PROVE (IF k + 1 \in 1..N THEN step[k + 1][b] ELSE b) \in B
    <3> DEFINE m == k + 1
    <3> HIDE DEF m
    <3>1. (IF m \in 1..N THEN step[m][b] ELSE b) \in B
      OBVIOUS
    <3>2. QED
      BY <3>1 DEF m
  <2>2. ASSUME NEW p \in P PROVE <<p[1] + 1, IF p[1] + 1 \in 1..N THEN step[p[1] + 1][p[2]] ELSE p[2]>> \in P
    <3>1. p[1] \in Nat /\ p[2] \in B
      OBVIOUS
    <3> DEFINE v == IF p[1] + 1 \in 1..N THEN step[p[1] + 1][p[2]] ELSE p[2]
    <3>2. v \in B
      BY <2>1, <3>1
    <3> HIDE DEF v
    <3>3. <<p[1] + 1, v>> \in P
      BY <3>1, <3>2
    <3>4. QED
      BY <3>3 DEF v
  <2>3. QED
    BY <2>2
<1>3. PICK it \in [Nat -> P] : IsIteration(start, move, it)
  <2> HIDE DEF P, start, move
  <2>1. QED
    BY <1>1, <1>2, IterationExists
<1>4. it[0] = start /\ \A n \in Nat : it[n + 1] = move[it[n]]
  BY <1>3 DEF IsIteration
<1> DEFINE T == {n \in Nat : it[n][1] = n}
<1>5. \A n \in Nat : n \in T
  <2>1. 0 \in T
    BY <1>4
  <2>2. ASSUME NEW n \in Nat, n \in T PROVE n + 1 \in T
    <3>1. it[n + 1] = move[it[n]] /\ it[n] \in P /\ it[n][1] = n
      BY <1>4, <2>2
    <3>2. it[n + 1][1] = n + 1
      BY <3>1
    <3>3. QED
      BY <3>2
  <2> HIDE DEF T
  <2>3. QED
    BY <2>1, <2>2, NaturalInduction
<1> DEFINE g == [n \in 0..N |-> it[n][2]]
<1>6. g \in [0..N -> B]
  <2>1. \A n \in 0..N : it[n] \in P
    OBVIOUS
  <2>2. QED
    BY <2>1
<1>7. ASSUME NEW n \in 0..N PROVE g[n] = IF n = 0 THEN base ELSE step[n][g[n - 1]]
  <2>1. CASE n = 0
    BY <1>4, <2>1
  <2>2. CASE n # 0
    <3> DEFINE k == n - 1
    <3>1. k \in Nat /\ k + 1 = n /\ k \in 0..N /\ n \in 1..N
      BY <2>2
    <3>2. it[k][1] = k /\ it[k] \in P /\ g[k] = it[k][2] /\ g[n] = it[n][2]
      BY <1>5, <3>1
    <3>3. it[n] = move[it[k]]
      BY <1>4, <3>1
    <3> HIDE DEF g
    <3>4. it[n][2] = step[n][it[k][2]]
      <4> HIDE DEF k
      <4>1. move[it[k]] = <<k + 1, IF k + 1 \in 1..N THEN step[k + 1][it[k][2]] ELSE it[k][2]>>
        BY <3>2
      <4> HIDE DEF move, P
      <4> DEFINE q == it[k][2]
      <4>2. it[n] = <<n, step[n][q]>>
        <5> HIDE DEF q
        <5>1. it[n] = <<k + 1, IF k + 1 \in 1..N THEN step[k + 1][q] ELSE q>>
          BY <3>3, <4>1 DEF q
        <5> DEFINE m == k + 1
        <5>2. it[n] = <<m, IF m \in 1..N THEN step[m][q] ELSE q>> /\ m = n
          BY <3>1, <5>1
        <5> HIDE DEF m
        <5>3. QED
          BY <3>1, <5>2
      <4>3. QED
        BY <4>2
    <3>5. QED
      BY <2>2, <3>2, <3>4
  <2>3. QED
    BY <2>1, <2>2
<1> HIDE DEF g
<1>8. QED
  BY <1>6, <1>7 DEF Follows

\* One concatenation of all sequences of a sequence.
LEMMA FlattenLength ==
  ASSUME NEW S, NEW groups \in Seq(Seq(S))
  PROVE  Len(FlattenSeq(groups)) \in Nat
<1> DEFINE N == Len(groups)
           B == Seq(S)
           step == [n \in 1..N |-> [s \in B |-> IF n = 1 THEN groups[n] ELSE s \o groups[n]]]
           Is(f) == f = [i \in 1..N |-> IF i = 1 THEN groups[i] ELSE f[i - 1] \o groups[i]]
           flat == CHOOSE f : Is(f)
<1>1. N \in Nat /\ \A n \in 1..N : groups[n] \in B
  OBVIOUS
<1>2. FlattenSeq(groups) = IF N = 0 THEN groups ELSE flat[N]
  BY Zenon DEF FlattenSeq
<1>3. PICK g \in [0..N -> B] : \A n \in 0..N : g[n] = IF n = 0 THEN <<>> ELSE step[n][g[n - 1]]
  <2>1. <<>> \in B /\ step \in [1..N -> [B -> B]]
    <3>1. ASSUME NEW n \in 1..N, NEW s \in B PROVE (IF n = 1 THEN groups[n] ELSE s \o groups[n]) \in B
      <4>1. groups[n] \in B
        BY <1>1
      <4> DEFINE h == groups[n]
      <4> HIDE DEF h
      <4>2. h \in B => s \o h \in B
        OBVIOUS
      <4>3. QED
        BY <4>1, <4>2 DEF h
    <3> HIDE DEF B
    <3>2. step \in [1..N -> [B -> B]]
      BY <3>1
    <3>3. <<>> \in B
      BY DEF B
    <3>4. QED
      BY <3>2, <3>3
  <2> DEFINE none == <<>>
  <2>2. none \in B
    BY <2>1
  <2> HIDE DEF step, B, N, none
  <2>3. \E g \in [0..N -> B] : Follows(none, N, step, g)
    BY <1>1, <2>1, <2>2, RecursionExists
  <2>4. QED
    BY <2>3 DEF none, Follows
<1> DEFINE f0 == [i \in 1..N |-> g[i]]
<1>4. Is(f0)
  <2> DEFINE h == [i \in 1..N |-> IF i = 1 THEN groups[i] ELSE f0[i - 1] \o groups[i]]
  <2>1. ASSUME NEW i \in 1..N PROVE f0[i] = h[i]
    <3>1. i \in 0..N /\ i # 0 /\ i - 1 \in 0..N /\ (i # 1 => i - 1 \in 1..N)
      BY <1>1
    <3>2. g[i] = step[i][g[i - 1]] /\ g[i - 1] \in B
      BY <1>3, <3>1
    <3>3. step[i][g[i - 1]] = IF i = 1 THEN groups[i] ELSE g[i - 1] \o groups[i]
      <4> HIDE DEF B
      <4>1. QED
        BY <3>2
    <3>4. i # 1 => f0[i - 1] = g[i - 1]
      BY <3>1
    <3>5. QED
      BY <3>2, <3>3, <3>4
  <2>2. f0 = [i \in 1..N |-> f0[i]] /\ h = [i \in 1..N |-> h[i]]
    OBVIOUS
  <2> HIDE DEF f0, h
  <2>3. f0 = h
    BY <2>1, <2>2
  <2>4. QED
    BY <2>3 DEF h
<1>5. Is(flat)
  <2> HIDE DEF Is
  <2>1. QED
    BY <1>4
<1> HIDE DEF flat
<1>6. \A i \in 1..N : flat[i] = IF i = 1 THEN groups[i] ELSE flat[i - 1] \o groups[i]
  BY <1>5
<1> DEFINE T == {n \in Nat : n + 1 <= N => flat[n + 1] \in B}
<1>7. \A n \in Nat : n \in T
  <2>1. 0 \in T
    <3>1. 1 <= N => flat[1] = groups[1] /\ groups[1] \in B
      BY <1>1, <1>6
    <3> HIDE DEF B
    <3>2. QED
      BY <3>1
  <2>2. ASSUME NEW n \in Nat, n \in T PROVE n + 1 \in T
    <3> DEFINE m == n + 1
               k == m + 1
    <3>1. SUFFICES ASSUME k <= N PROVE flat[k] \in B
      OBVIOUS
    <3>2. k \in 1..N /\ k # 1 /\ k - 1 = m /\ m <= N
      BY <1>1, <3>1
    <3>3. flat[m] \in B
      BY <2>2, <3>2
    <3> HIDE DEF m, k
    <3>4. flat[k] = flat[k - 1] \o groups[k]
      BY <1>6, <3>2
    <3>5. groups[k] \in B
      BY <1>1, <3>2
    <3>6. QED
      BY <3>2, <3>3, <3>4, <3>5
  <2> HIDE DEF T
  <2>3. QED
    BY <2>1, <2>2, NaturalInduction
<1>8. CASE N = 0
  BY <1>2, <1>8
<1>9. CASE N # 0
  <2> DEFINE n == N - 1
  <2>1. n \in Nat /\ n + 1 = N /\ n + 1 <= N
    BY <1>1, <1>9
  <2>2. flat[n + 1] \in B
    BY <1>7, <2>1
  <2>3. FlattenSeq(groups) \in B
    BY <1>2, <1>9, <2>1, <2>2
  <2> HIDE DEF N
  <2>4. QED
    BY <2>3
<1>10. QED
  BY <1>8, <1>9

\* Least and greatest elements.
LEMMA MinFacts ==
  ASSUME NEW S \in SUBSET Nat, S # {} PROVE Min(S) \in S /\ \A x \in S : Min(S) <= x
BY LeastNatural DEF Min

LEMMA MaxFromZero ==
  ASSUME NEW n \in Nat, NEW S \in SUBSET (0..n), S # {} PROVE Max(S) \in S /\ \A x \in S : x <= Max(S)
<1> DEFINE Down == {d \in 0..n : n - d \in S}
<1>1. PICK x \in S : TRUE
  OBVIOUS
<1>2. n - x \in Down
  BY <1>1
<1>3. PICK d \in Down : \A e \in Down : d <= e
  <2>1. Down \subseteq Nat
    OBVIOUS
  <2>2. n - x \in Down
    BY <1>2
  <2> HIDE DEF Down
  <2>3. QED
    BY <2>1, <2>2, LeastNatural
<1>4. n - d \in S /\ \A y \in S : y <= n - d
  <2>1. SUFFICES ASSUME NEW y \in S PROVE y <= n - d
    BY <1>3
  <2>2. y \in 0..n /\ n - y \in Down
    <3>1. y \in 0..n
      OBVIOUS
    <3>2. n - y \in 0..n /\ n - (n - y) = y
      BY <3>1
    <3>3. QED
      BY <3>1, <3>2
  <2>3. d <= n - y /\ d \in 0..n
    BY <1>3, <2>2
  <2> HIDE DEF Down
  <2>4. QED
    BY <2>2, <2>3
<1>5. \E m \in S : \A y \in S : m >= y
  BY <1>4
<1>6. QED
  BY <1>5 DEF Max

LEMMA MaxFacts ==
  ASSUME NEW n \in Nat, NEW S \in SUBSET (1..n), S # {} PROVE Max(S) \in S /\ \A x \in S : x <= Max(S)
<1>1. S \in SUBSET (0..n)
  OBVIOUS
<1>2. QED
  BY <1>1, MaxFromZero

\* Checks pass when no condition is true.
Reasons(checks, n) == Len(checks) = n /\ \A i \in 1..n : checks[i][2] # Passed
NoneTrue(checks, n) == \A i \in 1..n : ~checks[i][1]

LEMMA ChecksPass ==
  ASSUME NEW n \in Nat, NEW checks, Reasons(checks, n)
  PROVE  FirstFailure(checks) = Passed <=> NoneTrue(checks, n)
<1> DEFINE failing == {i \in 1..Len(checks) : checks[i][1]}
           first == IF failing # {} THEN Min(failing) ELSE 0
<1>1. FirstFailure(checks) = IF first = 0 THEN Passed ELSE checks[first][2]
  BY Zenon DEF FirstFailure, SelectInSeq
<1>2. failing \subseteq 1..n /\ (failing = {} <=> NoneTrue(checks, n))
  BY Zenon DEF Reasons, NoneTrue
<1> HIDE DEF failing
<1>3. CASE failing = {}
  BY <1>1, <1>2, <1>3
<1>4. CASE failing # {}
  <2>1. failing \in SUBSET Nat
    BY <1>2
  <2>2. Min(failing) \in failing
    BY <1>4, <2>1, MinFacts
  <2>3. first \in 1..n /\ first # 0
    <3>1. first = Min(failing)
      BY <1>4
    <3>2. Min(failing) \in 1..n
      BY <1>2, <2>2
    <3> HIDE DEF first
    <3>3. QED
      BY <3>1, <3>2
  <2> HIDE DEF first
  <2>4. checks[first][2] # Passed
    BY <2>3 DEF Reasons
  <2>5. QED
    BY <1>1, <1>2, <1>4, <2>3, <2>4
<1>5. QED
  BY <1>3, <1>4

\* The first condition that is true gives the reason.
FailsFirst(checks, i) ==
  i \in 1..Len(checks) /\ checks[i][1] /\ \A j \in 1..(i - 1) : ~checks[j][1]

LEMMA FirstCheck ==
  ASSUME NEW checks, Len(checks) \in Nat, NEW i, FailsFirst(checks, i)
  PROVE  FirstFailure(checks) = checks[i][2]
<1> DEFINE failing == {j \in 1..Len(checks) : checks[j][1]}
           first == IF failing # {} THEN Min(failing) ELSE 0
<1>1. FirstFailure(checks) = IF first = 0 THEN Passed ELSE checks[first][2]
  BY Zenon DEF FirstFailure, SelectInSeq
<1>2. i \in failing /\ failing \subseteq 1..Len(checks) /\ \A j \in failing : j \notin 1..(i - 1)
  BY Zenon DEF FailsFirst
<1> HIDE DEF failing
<1>3. Min(failing) \in failing /\ Min(failing) <= i
  <2>1. failing \in SUBSET Nat /\ failing # {}
    BY <1>2
  <2>2. QED
    BY <1>2, <2>1, MinFacts
<1>4. Min(failing) \in 1..Len(checks) /\ Min(failing) \notin 1..(i - 1) /\ i \in 1..Len(checks)
  BY <1>2, <1>3
<1>5. first = i
  BY <1>2, <1>3, <1>4
<1> HIDE DEF first
<1>6. first # 0
  BY <1>4, <1>5
<1>7. QED
  BY <1>1, <1>5, <1>6

LEMMA TwoReasons ==
  ASSUME NEW a1, NEW a2, NEW x1, NEW x2
  PROVE  LET f == FirstFailure(<< <<a1, x1>>, <<a2, x2>> >>)
         IN  (a1 => f = x1) /\ (~a1 /\ a2 => f = x2)
<1> DEFINE checks == << <<a1, x1>>, <<a2, x2>> >>
<1>1. Len(checks) = 2 /\ checks[1] = <<a1, x1>> /\ checks[2] = <<a2, x2>>
  OBVIOUS
<1> HIDE DEF checks
<1>2. checks[1][1] = a1 /\ checks[2][1] = a2 /\ checks[1][2] = x1 /\ checks[2][2] = x2
  BY <1>1
<1>3. ASSUME a1 PROVE FirstFailure(checks) = x1
  <2>1. FailsFirst(checks, 1)
    <3>1. 1 \in 1..Len(checks) /\ \A j \in 1..(1 - 1) : FALSE
      BY <1>1
    <3>2. QED
      BY <1>2, <1>3, <3>1, Zenon DEF FailsFirst
  <2>2. QED
    BY <1>1, <1>2, <2>1, FirstCheck
<1>4. ASSUME ~a1, a2 PROVE FirstFailure(checks) = x2
  <2>1. FailsFirst(checks, 2)
    <3>1. 2 \in 1..Len(checks) /\ \A j \in 1..(2 - 1) : j = 1
      BY <1>1
    <3>2. QED
      BY <1>2, <1>4, <3>1, Zenon DEF FailsFirst
  <2>2. QED
    BY <1>1, <1>2, <2>1, FirstCheck
<1>5. QED
  BY <1>3, <1>4 DEF checks

LEMMA ThreeReasons ==
  ASSUME NEW a1, NEW a2, NEW a3, NEW x1, NEW x2, NEW x3
  PROVE  LET f == FirstFailure(<< <<a1, x1>>, <<a2, x2>>, <<a3, x3>> >>)
         IN  (a1 => f = x1) /\ (~a1 /\ a2 => f = x2) /\ (~a1 /\ ~a2 /\ a3 => f = x3)
<1> DEFINE checks == << <<a1, x1>>, <<a2, x2>>, <<a3, x3>> >>
<1>1. Len(checks) = 3 /\ checks[1] = <<a1, x1>> /\ checks[2] = <<a2, x2>> /\ checks[3] = <<a3, x3>>
  OBVIOUS
<1> HIDE DEF checks
<1>2. /\ checks[1][1] = a1 /\ checks[2][1] = a2 /\ checks[3][1] = a3
      /\ checks[1][2] = x1 /\ checks[2][2] = x2 /\ checks[3][2] = x3
  BY <1>1
<1>3. ASSUME a1 PROVE FirstFailure(checks) = x1
  <2>1. FailsFirst(checks, 1)
    <3>1. 1 \in 1..Len(checks) /\ \A j \in 1..(1 - 1) : FALSE
      BY <1>1
    <3>2. QED
      BY <1>2, <1>3, <3>1, Zenon DEF FailsFirst
  <2>2. QED
    BY <1>1, <1>2, <2>1, FirstCheck
<1>4. ASSUME ~a1, a2 PROVE FirstFailure(checks) = x2
  <2>1. FailsFirst(checks, 2)
    <3>1. 2 \in 1..Len(checks) /\ \A j \in 1..(2 - 1) : j = 1
      BY <1>1
    <3>2. QED
      BY <1>2, <1>4, <3>1, Zenon DEF FailsFirst
  <2>2. QED
    BY <1>1, <1>2, <2>1, FirstCheck
<1>5. ASSUME ~a1, ~a2, a3 PROVE FirstFailure(checks) = x3
  <2>1. FailsFirst(checks, 3)
    <3>1. 3 \in 1..Len(checks) /\ \A j \in 1..(3 - 1) : j = 1 \/ j = 2
      BY <1>1
    <3>2. QED
      BY <1>2, <1>5, <3>1, Zenon DEF FailsFirst
  <2>2. QED
    BY <1>1, <1>2, <2>1, FirstCheck
<1>6. QED
  BY <1>3, <1>4, <1>5 DEF checks

LEMMA TwoChecks ==
  ASSUME NEW a1, NEW a2, NEW x1, NEW x2, x1 # Passed, x2 # Passed
  PROVE  FirstFailure(<< <<a1, x1>>, <<a2, x2>> >>) = Passed <=> ~a1 /\ ~a2
<1> DEFINE checks == << <<a1, x1>>, <<a2, x2>> >>
<1>1. Len(checks) = 2 /\ checks[1] = <<a1, x1>> /\ checks[2] = <<a2, x2>>
  OBVIOUS
<1> HIDE DEF checks
<1>2. Reasons(checks, 2)
  <2>1. \A i \in 1..2 : i = 1 \/ i = 2
    OBVIOUS
  <2>2. QED
    BY <1>1, <2>1 DEF Reasons
<1>3. NoneTrue(checks, 2) <=> ~a1 /\ ~a2
  <2>1. checks[1][1] = a1 /\ checks[2][1] = a2
    BY <1>1
  <2>2. NoneTrue(checks, 2) <=> ~checks[1][1] /\ ~checks[2][1]
    <3>1. \A i \in 1..2 : i = 1 \/ i = 2
      OBVIOUS
    <3>2. 1 \in 1..2 /\ 2 \in 1..2
      OBVIOUS
    <3>3. QED
      BY <3>1, <3>2, Zenon DEF NoneTrue
  <2>3. QED
    BY <2>1, <2>2, Zenon
<1>4. QED
  BY <1>2, <1>3, ChecksPass DEF checks

LEMMA ThreeChecks ==
  ASSUME NEW a1, NEW a2, NEW a3, NEW x1, NEW x2, NEW x3, x1 # Passed, x2 # Passed, x3 # Passed
  PROVE  FirstFailure(<< <<a1, x1>>, <<a2, x2>>, <<a3, x3>> >>) = Passed <=> ~a1 /\ ~a2 /\ ~a3
<1> DEFINE checks == << <<a1, x1>>, <<a2, x2>>, <<a3, x3>> >>
<1>1. Len(checks) = 3 /\ checks[1] = <<a1, x1>> /\ checks[2] = <<a2, x2>> /\ checks[3] = <<a3, x3>>
  OBVIOUS
<1> HIDE DEF checks
<1>2. Reasons(checks, 3)
  <2>1. \A i \in 1..3 : i = 1 \/ i = 2 \/ i = 3
    OBVIOUS
  <2>2. QED
    BY <1>1, <2>1 DEF Reasons
<1>3. NoneTrue(checks, 3) <=> ~a1 /\ ~a2 /\ ~a3
  <2>1. checks[1][1] = a1 /\ checks[2][1] = a2 /\ checks[3][1] = a3
    BY <1>1
  <2>2. NoneTrue(checks, 3) <=> ~checks[1][1] /\ ~checks[2][1] /\ ~checks[3][1]
    <3>1. \A i \in 1..3 : i = 1 \/ i = 2 \/ i = 3
      OBVIOUS
    <3>2. 1 \in 1..3 /\ 2 \in 1..3 /\ 3 \in 1..3
      OBVIOUS
    <3>3. QED
      BY <3>1, <3>2, Zenon DEF NoneTrue
  <2>3. QED
    BY <2>1, <2>2, Zenon
<1>4. QED
  BY <1>2, <1>3, ChecksPass DEF checks

LEMMA SevenChecks ==
  ASSUME NEW a1, NEW a2, NEW a3, NEW a4, NEW a5, NEW a6, NEW a7,
         NEW x1, NEW x2, NEW x3, NEW x4, NEW x5, NEW x6, NEW x7,
         x1 # Passed, x2 # Passed, x3 # Passed, x4 # Passed, x5 # Passed, x6 # Passed, x7 # Passed
  PROVE  FirstFailure(<< <<a1, x1>>, <<a2, x2>>, <<a3, x3>>, <<a4, x4>>, <<a5, x5>>, <<a6, x6>>, <<a7, x7>> >>) = Passed
           <=> ~a1 /\ ~a2 /\ ~a3 /\ ~a4 /\ ~a5 /\ ~a6 /\ ~a7
<1> DEFINE checks == << <<a1, x1>>, <<a2, x2>>, <<a3, x3>>, <<a4, x4>>, <<a5, x5>>, <<a6, x6>>, <<a7, x7>> >>
<1>1. /\ Len(checks) = 7 /\ checks[1] = <<a1, x1>> /\ checks[2] = <<a2, x2>> /\ checks[3] = <<a3, x3>>
      /\ checks[4] = <<a4, x4>> /\ checks[5] = <<a5, x5>> /\ checks[6] = <<a6, x6>> /\ checks[7] = <<a7, x7>>
  OBVIOUS
<1> HIDE DEF checks
<1>2. Reasons(checks, 7)
  <2>1. \A i \in 1..7 : i = 1 \/ i = 2 \/ i = 3 \/ i = 4 \/ i = 5 \/ i = 6 \/ i = 7
    OBVIOUS
  <2>2. QED
    BY <1>1, <2>1 DEF Reasons
<1>3. NoneTrue(checks, 7) <=> ~a1 /\ ~a2 /\ ~a3 /\ ~a4 /\ ~a5 /\ ~a6 /\ ~a7
  <2>1. /\ checks[1][1] = a1 /\ checks[2][1] = a2 /\ checks[3][1] = a3 /\ checks[4][1] = a4
        /\ checks[5][1] = a5 /\ checks[6][1] = a6 /\ checks[7][1] = a7
    BY <1>1
  <2>2. NoneTrue(checks, 7) <=> /\ ~checks[1][1] /\ ~checks[2][1] /\ ~checks[3][1] /\ ~checks[4][1]
                             /\ ~checks[5][1] /\ ~checks[6][1] /\ ~checks[7][1]
    <3>1. \A i \in 1..7 : i = 1 \/ i = 2 \/ i = 3 \/ i = 4 \/ i = 5 \/ i = 6 \/ i = 7
      OBVIOUS
    <3>2. 1 \in 1..7 /\ 2 \in 1..7 /\ 3 \in 1..7 /\ 4 \in 1..7 /\ 5 \in 1..7 /\ 6 \in 1..7 /\ 7 \in 1..7
      OBVIOUS
    <3>3. QED
      BY <3>1, <3>2, Zenon DEF NoneTrue
  <2>3. QED
    BY <2>1, <2>2, Zenon
<1>4. QED
  BY <1>2, <1>3, ChecksPass DEF checks

\* The reason given is that of one of the checks.
LEMMA FailureIsGiven ==
  ASSUME NEW n \in Nat, NEW checks, Len(checks) = n
  PROVE  FirstFailure(checks) = Passed \/ \E i \in 1..n : FirstFailure(checks) = checks[i][2]
<1> DEFINE failing == {i \in 1..Len(checks) : checks[i][1]}
           first == IF failing # {} THEN Min(failing) ELSE 0
<1>1. FirstFailure(checks) = IF first = 0 THEN Passed ELSE checks[first][2]
  BY Zenon DEF FirstFailure, SelectInSeq
<1>2. failing \in SUBSET (1..n)
  BY Zenon
<1> HIDE DEF failing
<1>3. CASE failing = {}
  BY <1>1, <1>3
<1>4. CASE failing # {}
  <2>1. failing \in SUBSET Nat
    BY <1>2
  <2>2. Min(failing) \in failing
    BY <1>4, <2>1, MinFacts
  <2>3. QED
    BY <1>1, <1>2, <1>4, <2>2
<1>5. QED
  BY <1>3, <1>4
=============================================================================
