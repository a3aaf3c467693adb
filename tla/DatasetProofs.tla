---------------------------- MODULE DatasetProofs ----------------------------
(***************************************************************************)
(* Theorems about datasets, for every set of graphs, every digest and all  *)
(* limits.  First the union-find of _component_indexes is shown to compute *)
(* the leakage groups, then what validation accepts is followed through    *)
(* the actions, then stacking, ancestry and the counting of payloads.      *)
(***************************************************************************)
EXTENDS Dataset, Foundations

(***************************************************************************)
(* The forest of positions.                                                *)
(***************************************************************************)
\* Parents come before their children.
Forests(n) == {f \in [1..n -> 1..n] : \A j \in 1..n : f[j] <= j}

LEMMA FindExists ==
  ASSUME NEW n \in Nat, NEW f \in Forests(n)
  PROVE  \E g : g = [j \in 1..n |-> IF f[j] = j THEN j ELSE g[f[j]]]
<1> DEFINE Rooted(m, g) == g = [j \in 1..m |-> IF f[j] = j THEN j ELSE g[f[j]]]
           T == {m \in Nat : m <= n => \E g : Rooted(m, g)}
<1>1. 0 \in T
  <2> DEFINE g == [j \in 1..0 |-> j]
  <2>1. Rooted(0, g)
    OBVIOUS
  <2>2. QED
    BY <2>1
<1>2. ASSUME NEW m \in Nat, m \in T PROVE m + 1 \in T
  <2>1. SUFFICES ASSUME m + 1 <= n PROVE \E g : Rooted(m + 1, g)
    OBVIOUS
  <2>2. PICK g : Rooted(m, g)
    BY <1>2, <2>1
  <2> DEFINE h == [j \in 1..(m + 1) |-> IF j = m + 1 THEN IF f[j] = j THEN j ELSE g[f[j]] ELSE g[j]]
  <2>3. \A j \in 1..(m + 1) : f[j] \in 1..j
    BY <2>1 DEF Forests
  <2>4. \A j \in 1..(m + 1) : h[j] = IF f[j] = j THEN j ELSE h[f[j]]
    <3>1. SUFFICES ASSUME NEW j \in 1..(m + 1) PROVE h[j] = IF f[j] = j THEN j ELSE h[f[j]]
      OBVIOUS
    <3>2. f[j] # j => f[j] \in 1..m /\ h[f[j]] = g[f[j]]
      BY <2>3, <3>1
    <3>3. h[j] = IF f[j] = j THEN j ELSE g[f[j]]
      <4>1. CASE j = m + 1
        BY <4>1
      <4>2. CASE j # m + 1
        <5>1. j \in 1..m
          BY <4>2
        <5>2. g[j] = IF f[j] = j THEN j ELSE g[f[j]]
          BY <2>2, <5>1
        <5>3. QED
          BY <4>2, <5>2
      <4>3. QED
        BY <4>1, <4>2
    <3>4. QED
      BY <3>2, <3>3
  <2>5. h = [j \in 1..(m + 1) |-> IF f[j] = j THEN j ELSE h[f[j]]]
    <3>1. h = [j \in 1..(m + 1) |-> h[j]]
      OBVIOUS
    <3> HIDE DEF h
    <3>2. QED
      BY <2>4, <3>1
  <2> HIDE DEF h
  <2>6. QED
    BY <2>5
<1>3. n \in T
  <2> HIDE DEF T
  <2>1. QED
    BY <1>1, <1>2, NaturalInduction
<1>4. QED
  BY <1>3

LEMMA FindFacts ==
  ASSUME NEW n \in Nat, NEW f \in Forests(n)
  PROVE  \A j \in 1..n : /\ Find(f, j) = IF f[j] = j THEN j ELSE Find(f, f[j])
                         /\ Find(f, j) \in 1..j /\ f[Find(f, j)] = Find(f, j)
<1> DEFINE Rooted(g) == g = [j \in DOMAIN f |-> IF f[j] = j THEN j ELSE g[f[j]]]
           root == CHOOSE g : Rooted(g)
<1>1. DOMAIN f = 1..n /\ \A j \in 1..n : f[j] \in 1..j
  BY DEF Forests
<1>2. \E g : Rooted(g)
  BY <1>1, FindExists
<1>3. Rooted(root)
  BY <1>2
<1>4. \A j \in 1..n : Find(f, j) = root[j]
  BY DEF Find
<1> HIDE DEF root
<1>5. \A j \in 1..n : root[j] = IF f[j] = j THEN j ELSE root[f[j]]
  BY <1>1, <1>3
<1> DEFINE Well(j) == root[j] \in 1..j /\ f[root[j]] = root[j]
           T == {m \in Nat : \A j \in 1..m : j <= n => Well(j)}
<1>6. n \in T
  <2>1. 0 \in T
    OBVIOUS
  <2>2. ASSUME NEW m \in Nat, m \in T PROVE m + 1 \in T
    <3>1. SUFFICES ASSUME m + 1 <= n PROVE Well(m + 1)
      <4>1. \A j \in 1..(m + 1) : j \in 1..m \/ j = m + 1
        OBVIOUS
      <4>2. QED
        BY <2>2, <4>1
    <3>2. m + 1 \in 1..n
      BY <3>1
    <3>3. CASE f[m + 1] = m + 1
      BY <1>5, <3>2, <3>3
    <3>4. CASE f[m + 1] # m + 1
      <4>1. f[m + 1] \in 1..m /\ f[m + 1] <= n
        BY <1>1, <3>2, <3>4
      <4>2. Well(f[m + 1]) /\ root[m + 1] = root[f[m + 1]]
        BY <1>5, <2>2, <3>2, <3>4, <4>1
      <4>3. QED
        BY <4>1, <4>2
    <3>5. QED
      BY <3>3, <3>4
  <2> HIDE DEF T
  <2>3. QED
    BY <2>1, <2>2, NaturalInduction
<1>7. \A j \in 1..n : Well(j)
  BY <1>6
<1>8. QED
  BY <1>1, <1>4, <1>5, <1>7

\* Uniting two positions merges their classes and nothing else.
LEMMA UniteFacts ==
  ASSUME NEW n \in Nat, NEW f \in Forests(n), NEW i \in 1..n, NEW j \in 1..n
  PROVE  LET u == Unite(f, i, j)
             l == Find(f, i)
             r == Find(f, j)
         IN  /\ u \in Forests(n)
             /\ \A k \in 1..n : Find(u, k) = IF Find(f, k) \in {l, r} THEN Min({l, r}) ELSE Find(f, k)
<1> DEFINE l == Find(f, i)
           r == Find(f, j)
           low == Min({l, r})
           high == Max({l, r})
           u == Unite(f, i, j)
<1>1. l \in 1..n /\ r \in 1..n /\ f[l] = l /\ f[r] = r
  BY FindFacts
<1>2. low \in {l, r} /\ high \in {l, r} /\ low <= high /\ {l, r} = {low, high}
  <2> HIDE DEF l, r
  <2>1. CASE l <= r
    <3>1. \E x \in {l, r} : \A y \in {l, r} : x <= y
      BY <1>1, <2>1
    <3>2. \E x \in {l, r} : \A y \in {l, r} : x >= y
      BY <1>1, <2>1
    <3>3. QED
      BY <1>1, <3>1, <3>2 DEF Min, Max
  <2>2. CASE r <= l
    <3>1. \E x \in {l, r} : \A y \in {l, r} : x <= y
      BY <1>1, <2>2
    <3>2. \E x \in {l, r} : \A y \in {l, r} : x >= y
      BY <1>1, <2>2
    <3>3. QED
      BY <1>1, <3>1, <3>2 DEF Min, Max
  <2>3. QED
    BY <1>1, <2>1, <2>2
<1>3. u = [f EXCEPT ![high] = low]
  BY DEF Unite
<1> HIDE DEF l, r, low, high, u
<1>4. low \in 1..n /\ high \in 1..n /\ f[low] = low /\ f[high] = high
  BY <1>1, <1>2
<1>5. u \in Forests(n) /\ u[high] = low /\ \A k \in 1..n \ {high} : u[k] = f[k]
  BY <1>2, <1>3, <1>4 DEF Forests
<1> DEFINE Moved(k) == Find(u, k) = IF Find(f, k) \in {l, r} THEN low ELSE Find(f, k)
           T == {m \in Nat : \A k \in 1..m : k <= n => Moved(k)}
<1>6. n \in T
  <2>1. 0 \in T
    OBVIOUS
  <2>2. ASSUME NEW m \in Nat, m \in T PROVE m + 1 \in T
    <3>1. SUFFICES ASSUME m + 1 <= n PROVE Moved(m + 1)
      <4>1. \A k \in 1..(m + 1) : k \in 1..m \/ k = m + 1
        OBVIOUS
      <4>2. QED
        BY <2>2, <4>1
    <3>2. m + 1 \in 1..n
      BY <3>1
    <3>3. /\ Find(f, m + 1) = IF f[m + 1] = m + 1 THEN m + 1 ELSE Find(f, f[m + 1])
          /\ Find(u, m + 1) = IF u[m + 1] = m + 1 THEN m + 1 ELSE Find(u, u[m + 1])
      BY <1>5, <3>2, FindFacts
    <3>4. CASE m + 1 = high
      <4>1. Find(u, low) = low
        <5>1. u[low] = low
          BY <1>3, <1>4, <1>5
        <5>2. QED
          BY <1>4, <1>5, <5>1, FindFacts
      <4>2. Find(f, m + 1) = high
        BY <1>4, <3>3, <3>4
      <4>3. Find(u, m + 1) = low
        BY <1>5, <3>3, <3>4, <4>1
      <4>4. QED
        BY <1>2, <4>2, <4>3
    <3>5. CASE m + 1 # high /\ f[m + 1] = m + 1
      <4>1. Find(f, m + 1) = m + 1 /\ Find(u, m + 1) = m + 1
        BY <1>5, <3>2, <3>3, <3>5
      <4>2. m + 1 \in {l, r} => m + 1 = low
        BY <1>2, <3>5
      <4>3. QED
        BY <4>1, <4>2
    <3>6. CASE m + 1 # high /\ f[m + 1] # m + 1
      <4>1. u[m + 1] = f[m + 1]
        BY <1>5, <3>2, <3>6
      <4>2. f[m + 1] \in 1..m /\ f[m + 1] <= n
        BY <3>2, <3>6 DEF Forests
      <4>3. Moved(f[m + 1])
        BY <2>2, <4>2
      <4>4. QED
        BY <3>3, <3>6, <4>1, <4>3
    <3>7. QED
      BY <3>4, <3>5, <3>6
  <2> HIDE DEF T
  <2>3. QED
    BY <2>1, <2>2, NaturalInduction
<1>7. \A k \in 1..n : Moved(k)
  BY <1>6
<1>8. QED
  BY <1>5, <1>7 DEF u, low, l, r

Same(f, a, b) == Find(f, a) = Find(f, b)

JoinAll(f, i, J) == FoldSet(LAMBDA j, forest : Unite(forest, i, j), f, J)

\* One record joined to others: it is with each of them, whoever was together
\* stays so, and whatever tells classes apart but not the joined still does.
LEMMA JoinFacts ==
  ASSUME NEW n \in Nat, NEW f \in Forests(n), NEW i \in 1..n, NEW J \in SUBSET (1..n),
         NEW class, \A a \in 1..n : class[a] = class[Find(f, a)], \A j \in J : class[j] = class[i]
  PROVE  LET u == JoinAll(f, i, J)
         IN  /\ u \in Forests(n)
             /\ \A a, b \in 1..n : Same(f, a, b) => Same(u, a, b)
             /\ \A j \in J : Same(u, i, j)
             /\ \A a \in 1..n : class[a] = class[Find(u, a)]
<1> DEFINE next == [s \in SUBSET J |-> CHOOSE x \in s : TRUE]
           step == [x \in J |-> [g \in Forests(n) |-> Unite(g, i, x)]]
           Folds(iter) == iter = [s \in SUBSET J |-> IF s = {} THEN f
                                                     ELSE LET x == CHOOSE x \in s : TRUE IN Unite(iter[s \ {x}], i, x)]
           u == JoinAll(f, i, J)
           iter == CHOOSE g : Folds(g)
           Good(g, s) ==
             /\ g \in Forests(n)
             /\ \A a, b \in 1..n : Same(f, a, b) => Same(g, a, b)
             /\ \A j \in s : Same(g, i, j)
             /\ \A a \in 1..n : class[a] = class[Find(g, a)]
<1>1. u = iter[J]
  BY DEF JoinAll, FoldSet, MapThenFoldSet
<1>2. \E g : Folds(g)
  <2>1. IsFiniteSet(J)
    <3>1. IsFiniteSet(1..n)
      BY FS_Interval
    <3>2. QED
      BY <3>1, FS_Subset
  <2>2. step \in [J -> [Forests(n) -> Forests(n)]]
    BY UniteFacts
  <2>3. \A s \in SUBSET J : s # {} => next[s] \in s
    OBVIOUS
  <2>4. PICK g \in [SUBSET J -> Forests(n)] : IsFold(J, f, step, next, g)
    <3> HIDE DEF step, next
    <3>1. QED
      BY <2>1, <2>2, <2>3, FoldExists
  <2>5. \A s \in SUBSET J : s # {} => step[next[s]][g[s \ {next[s]}]] = Unite(g[s \ {next[s]}], i, next[s])
    <3> HIDE DEF next
    <3>1. QED
      BY <2>3
  <2>6. g = [s \in SUBSET J |-> IF s = {} THEN f ELSE Unite(g[s \ {next[s]}], i, next[s])]
    <3> HIDE DEF step, next
    <3>1. QED
      BY <2>4, <2>5 DEF IsFold
  <2>7. Folds(g)
    BY <2>6
  <2>8. QED
    BY <2>7
<1>3. Folds(iter)
  BY <1>2
<1> DEFINE T == {m \in Nat : \A s \in SUBSET J : Cardinality(s) <= m => Good(iter[s], s)}
<1>4. IsFiniteSet(J) /\ Cardinality(J) \in Nat
      /\ \A s \in SUBSET J : IsFiniteSet(s) /\ Cardinality(s) \in Nat /\ Cardinality(s) <= Cardinality(J)
  <2>1. IsFiniteSet(1..n)
    BY FS_Interval
  <2>2. QED
    BY <2>1, FS_Subset, FS_CardinalityType
<1>5. Good(f, {})
  OBVIOUS
<1>6. ASSUME NEW g, NEW s \in SUBSET J, NEW x \in s, Good(g, s \ {x}) PROVE Good(Unite(g, i, x), s)
  <2> DEFINE v == Unite(g, i, x)
             low == Min({Find(g, i), Find(g, x)})
  <2>1. x \in 1..n /\ g \in Forests(n)
    BY <1>6
  <2>2. /\ v \in Forests(n)
        /\ \A k \in 1..n : Find(v, k) = IF Find(g, k) \in {Find(g, i), Find(g, x)} THEN low ELSE Find(g, k)
    BY <2>1, UniteFacts
  <2> HIDE DEF v
  <2>3. \A a, b \in 1..n : Same(g, a, b) => Same(v, a, b)
    BY <2>2 DEF Same
  <2>4. Same(v, i, x)
    BY <2>1, <2>2 DEF Same
  <2>5. \A j \in s : Same(v, i, j)
    BY <1>6, <2>3, <2>4
  <2>6. low \in {Find(g, i), Find(g, x)}
    <3>1. Find(g, i) \in Nat /\ Find(g, x) \in Nat
      BY <2>1, FindFacts
    <3>2. \E y \in {Find(g, i), Find(g, x)} : \A z \in {Find(g, i), Find(g, x)} : y <= z
      BY <3>1
    <3>3. QED
      BY <3>2 DEF Min
  <2>7. class[Find(g, i)] = class[i] /\ class[Find(g, x)] = class[i]
    BY <1>6, <2>1
  <2> HIDE DEF low
  <2>8. \A a \in 1..n : class[a] = class[Find(v, a)]
    BY <1>6, <2>2, <2>6, <2>7
  <2>9. QED
    BY <1>6, <2>2, <2>3, <2>5, <2>8 DEF v
<1>7. \A s \in SUBSET J : IF s = {} THEN iter[s] = f
                          ELSE \E x \in s : iter[s] = Unite(iter[s \ {x}], i, x)
  <2> HIDE DEF iter
  <2>1. SUFFICES ASSUME NEW s \in SUBSET J
                 PROVE  IF s = {} THEN iter[s] = f ELSE \E x \in s : iter[s] = Unite(iter[s \ {x}], i, x)
    OBVIOUS
  <2>2. iter[s] = IF s = {} THEN f ELSE LET x == CHOOSE x \in s : TRUE IN Unite(iter[s \ {x}], i, x)
    BY <1>3
  <2>3. QED
    BY <2>2
<1> HIDE DEF iter, Good
<1>8. \A m \in Nat : m \in T
  <2>1. 0 \in T
    <3>1. SUFFICES ASSUME NEW s \in SUBSET J, Cardinality(s) <= 0 PROVE Good(iter[s], s)
      OBVIOUS
    <3>2. s = {}
      <4>1. Cardinality(s) = 0
        BY <1>4, <3>1
      <4>2. QED
        BY <1>4, <4>1, FS_EmptySet
    <3>3. QED
      BY <1>5, <1>7, <3>2
  <2>2. ASSUME NEW m \in Nat, m \in T PROVE m + 1 \in T
    <3>1. SUFFICES ASSUME NEW s \in SUBSET J, Cardinality(s) <= m + 1 PROVE Good(iter[s], s)
      OBVIOUS
    <3>2. CASE s = {}
      BY <1>5, <1>7, <3>2
    <3>3. CASE s # {}
      <4>1. PICK x \in s : iter[s] = Unite(iter[s \ {x}], i, x)
        BY <1>7, <3>3
      <4>2. Cardinality(s \ {x}) = Cardinality(s) - 1
        BY <1>4, FS_RemoveElement
      <4>3. s \ {x} \in SUBSET J /\ Cardinality(s \ {x}) <= m
        BY <1>4, <3>1, <4>2
      <4>4. Good(iter[s \ {x}], s \ {x})
        BY <2>2, <4>3
      <4>5. QED
        BY <1>6, <4>1, <4>4
    <3>4. QED
      BY <3>2, <3>3
  <2> HIDE DEF T
  <2>3. QED
    BY <2>1, <2>2, NaturalInduction
<1>9. Good(u, J)
  BY <1>1, <1>4, <1>8
<1>10. QED
  BY <1>9 DEF Good

\* The positions one record is joined to.
Joins(list, i) ==
  {j \in DOMAIN list : list[j].id = list[i].parent}
    \cup {Min({j \in 1..i : key \in Keys(list[j])}) : key \in Keys(list[i])}

LEMMA JoinsFacts ==
  ASSUME NEW n \in Nat, NEW list, DOMAIN list = 1..n, NEW i \in 1..n
  PROVE  Joins(list, i) \subseteq 1..n
<1>1. SUFFICES ASSUME NEW key \in Keys(list[i]) PROVE Min({j \in 1..i : key \in Keys(list[j])}) \in 1..n
  BY DEF Joins
<1> DEFINE S == {j \in 1..i : key \in Keys(list[j])}
<1>2. S \in SUBSET Nat /\ i \in S /\ S \subseteq 1..n
  BY <1>1
<1> HIDE DEF S
<1>3. Min(S) \in S
  BY <1>2, MinFacts
<1>4. QED
  BY <1>2, <1>3 DEF S

\* One turn of the loop over the records.
LEMMA JoinRecordFacts ==
  ASSUME NEW n \in Nat, NEW list, DOMAIN list = 1..n, NEW i \in 1..n, NEW f \in Forests(n)
  PROVE  LET u == JoinRecord(list, f, i)
         IN  /\ u \in Forests(n)
             /\ \A a, b \in 1..n : Same(f, a, b) => Same(u, a, b)
             /\ \A j \in Joins(list, i) : Same(u, i, j)
<1> DEFINE none == [a \in 1..n |-> 0]
           u == JoinRecord(list, f, i)
<1>1. Joins(list, i) \in SUBSET (1..n)
  BY JoinsFacts
<1>2. /\ \A a \in 1..n : none[a] = none[Find(f, a)]
      /\ \A j \in Joins(list, i) : none[j] = none[i]
  BY <1>1, FindFacts
<1>3. u = JoinAll(f, i, Joins(list, i))
  BY DEF JoinRecord, Joins, JoinAll
<1> HIDE DEF none, u
<1>4. /\ u \in Forests(n)
      /\ \A a, b \in 1..n : Same(f, a, b) => Same(u, a, b)
      /\ \A j \in Joins(list, i) : Same(u, i, j)
  BY <1>1, <1>2, <1>3, JoinFacts
<1>5. QED
  BY <1>4 DEF u

\* It keeps apart what a class keeps apart.
LEMMA JoinRecordKeeps ==
  ASSUME NEW n \in Nat, NEW list, DOMAIN list = 1..n, NEW i \in 1..n, NEW f \in Forests(n),
         NEW class, \A a \in 1..n : class[a] = class[Find(f, a)], \A j \in Joins(list, i) : class[j] = class[i]
  PROVE  \A a \in 1..n : class[a] = class[Find(JoinRecord(list, f, i), a)]
<1> DEFINE u == JoinRecord(list, f, i)
<1>1. Joins(list, i) \in SUBSET (1..n)
  BY JoinsFacts
<1>2. u = JoinAll(f, i, Joins(list, i))
  BY DEF JoinRecord, Joins, JoinAll
<1> HIDE DEF u
<1>3. \A a \in 1..n : class[a] = class[Find(u, a)]
  BY <1>1, <1>2, JoinFacts
<1>4. QED
  BY <1>3 DEF u

LEMMA JoinedFacts ==
  ASSUME NEW n \in Nat, NEW list, DOMAIN list = 1..n,
         NEW class, \A i \in 1..n : \A j \in Joins(list, i) : class[j] = class[i]
  PROVE  LET u == Joined(list)
         IN  /\ u \in Forests(n)
             /\ \A i \in 1..n : \A j \in Joins(list, i) : Same(u, i, j)
             /\ \A a \in 1..n : class[a] = class[Find(u, a)]
<1> DEFINE P == 1..n
           start == [i \in P |-> i]
           next == [s \in SUBSET P |-> Max(s)]
           step == [i \in P |-> [g \in Forests(n) |-> JoinRecord(list, g, i)]]
           Folds(iter) == iter = [s \in SUBSET P |-> IF s = {} THEN start
                                                     ELSE LET x == Max(s) IN JoinRecord(list, iter[s \ {x}], start[x])]
           u == Joined(list)
           iter == CHOOSE g : Folds(g)
           Good(g, m) ==
             /\ g \in Forests(n)
             /\ \A i \in 1..m : \A j \in Joins(list, i) : Same(g, i, j)
             /\ \A a \in 1..n : class[a] = class[Find(g, a)]
<1>1. u = iter[P]
  BY DEF Joined, FoldLeft, MapThenFoldSet
<1>3. \A s \in SUBSET P : s # {} => next[s] \in s
  BY MaxFacts
<1>4. \A g \in Forests(n) : \A i \in P : JoinRecord(list, g, i) \in Forests(n)
  BY JoinRecordFacts
<1>6. start \in Forests(n) /\ \A a \in 1..n : Find(start, a) = a
  <2>1. start \in Forests(n) /\ \A a \in 1..n : start[a] = a
    BY DEF Forests
  <2> HIDE DEF start
  <2>2. QED
    BY <2>1, FindFacts
<1>7. \E g : Folds(g)
  <2>1. IsFiniteSet(P)
    BY FS_Interval
  <2>2. step \in [P -> [Forests(n) -> Forests(n)]]
    BY <1>4
  <2>3. PICK g \in [SUBSET P -> Forests(n)] : IsFold(P, start, step, next, g)
    <3> HIDE DEF step, next, start, P
    <3>1. QED
      BY <1>3, <1>6, <2>1, <2>2, FoldExists
  <2>4. \A s \in SUBSET P : s # {} => step[next[s]][g[s \ {next[s]}]] = JoinRecord(list, g[s \ {next[s]}], next[s])
    <3> HIDE DEF next
    <3>1. QED
      BY <1>3
  <2>5. g = [s \in SUBSET P |-> IF s = {} THEN start ELSE JoinRecord(list, g[s \ {next[s]}], next[s])]
    <3> HIDE DEF step, next
    <3>1. QED
      BY <2>3, <2>4 DEF IsFold
  <2>6. \A s \in SUBSET P : s # {} => next[s] = Max(s) /\ start[next[s]] = next[s]
    BY <1>3
  <2>7. \A s \in SUBSET P : g[s] = IF s = {} THEN start
                                  ELSE LET x == Max(s) IN JoinRecord(list, g[s \ {x}], start[x])
    <3>1. SUFFICES ASSUME NEW s \in SUBSET P
                   PROVE  g[s] = IF s = {} THEN start ELSE JoinRecord(list, g[s \ {Max(s)}], start[Max(s)])
      OBVIOUS
    <3>2. g[s] = IF s = {} THEN start ELSE JoinRecord(list, g[s \ {next[s]}], next[s])
      BY <2>5
    <3>3. s # {} => next[s] = Max(s) /\ start[Max(s)] = next[s]
      BY <2>6
    <3> HIDE DEF start, next
    <3>4. QED
      BY <3>2, <3>3
  <2>8. Folds(g)
    <3> HIDE DEF start
    <3>1. DOMAIN g = SUBSET P
      OBVIOUS
    <3>2. g = [s \in SUBSET P |-> g[s]]
      OBVIOUS
    <3>3. QED
      BY <2>7, <3>2
  <2> HIDE DEF Folds
  <2>9. QED
    BY <2>8
<1>8. Folds(iter)
  BY <1>7
<1>9. iter[{}] = start /\ \A m \in 1..n : iter[1..m] = JoinRecord(list, iter[1..(m - 1)], m)
  <2> HIDE DEF iter
  <2>1. {} \in SUBSET P /\ iter[{}] = start
    BY <1>8
  <2>2. SUFFICES ASSUME NEW m \in 1..n PROVE iter[1..m] = JoinRecord(list, iter[1..(m - 1)], m)
    BY <2>1
  <2>3. 1..m \in SUBSET P /\ 1..m # {} /\ m \in 1..m
    OBVIOUS
  <2>4. Max(1..m) = m
    <3>1. Max(1..m) \in 1..m /\ m <= Max(1..m)
      BY <2>3, MaxFacts
    <3>2. QED
      BY <3>1
  <2>5. (1..m) \ {m} = 1..(m - 1) /\ start[m] = m
    OBVIOUS
  <2>6. iter[1..m] = LET x == Max(1..m) IN JoinRecord(list, iter[(1..m) \ {x}], start[x])
    BY <1>8, <2>3
  <2> HIDE DEF start
  <2>7. QED
    BY <2>4, <2>5, <2>6
<1> DEFINE T == {m \in Nat : m <= n => Good(iter[1..m], m)}
<1>10. n \in T
  <2>1. 0 \in T
    <3>1. 1..0 = {}
      OBVIOUS
    <3> HIDE DEF iter, start
    <3>2. QED
      BY <1>6, <1>9, <3>1
  <2>2. ASSUME NEW m \in Nat, m \in T PROVE m + 1 \in T
    <3> HIDE DEF iter
    <3> DEFINE g == iter[1..m]
               v == iter[1..(m + 1)]
    <3>1. SUFFICES ASSUME m + 1 <= n PROVE Good(v, m + 1)
      OBVIOUS
    <3>2. Good(g, m) /\ m + 1 \in P /\ m + 1 - 1 = m
      BY <2>2, <3>1
    <3>3. v = JoinRecord(list, g, m + 1)
      BY <1>9, <3>2
    <3> HIDE DEF g, v
    <3>4. /\ v \in Forests(n)
          /\ \A a, b \in 1..n : Same(g, a, b) => Same(v, a, b)
          /\ \A j \in Joins(list, m + 1) : Same(v, m + 1, j)
      BY <3>2, <3>3, JoinRecordFacts
    <3>5. \A a \in 1..n : class[a] = class[Find(v, a)]
      BY <3>2, <3>3, JoinRecordKeeps
    <3>6. ASSUME NEW i \in 1..(m + 1), NEW j \in Joins(list, i) PROVE Same(v, i, j)
      <4>1. CASE i = m + 1
        BY <3>4, <3>6, <4>1
      <4>2. CASE i # m + 1
        <5>1. i \in 1..m /\ i \in 1..n
          BY <3>1, <4>2
        <5>2. j \in 1..n
          BY <3>6, <5>1, JoinsFacts
        <5>3. Same(g, i, j)
          BY <3>2, <3>6, <5>1
        <5>4. QED
          BY <3>4, <5>1, <5>2, <5>3
      <4>3. QED
        BY <4>1, <4>2
    <3>7. QED
      BY <3>4, <3>5, <3>6
  <2> HIDE DEF T
  <2>3. QED
    BY <2>1, <2>2, NaturalInduction
<1>11. Good(u, n)
  <2> HIDE DEF Good, u, iter
  <2>1. Good(iter[1..n], n)
    BY <1>10
  <2>2. QED
    BY <1>1, <2>1
<1>12. QED
  BY <1>11

(***************************************************************************)
(* Groups: what holds records together, however long the chain.            *)
(***************************************************************************)
Neighbours(S) == [s \in S |-> {q \in S : Related(s, q)}]

LEMMA RelatedIsMutual == \A r, q : Related(r, q) => Related(q, r)
  BY DEF Related

LEMMA GroupFacts ==
  ASSUME NEW S, IsFiniteSet(S), NEW r \in S
  PROVE  LET G == Group(r, S)
         IN  /\ r \in G /\ G \subseteq S
             /\ \A s \in G : \A q \in S : Related(s, q) => q \in G
             /\ \A T : r \in T /\ (\A s \in T \cap S : \A q \in S : Related(s, q) => q \in T) => G \subseteq T
<1> DEFINE succ == Neighbours(S)
           G == Reachable(succ, {r})
<1>1. succ \in [S -> SUBSET S] /\ \A s \in S : succ[s] = {q \in S : Related(s, q)}
  BY DEF Neighbours
<1>2. Group(r, S) = G
  BY DEF Group, Neighbours
<1> HIDE DEF succ
<1>3. /\ {r} \subseteq G /\ G \subseteq S /\ \A v \in G : succ[v] \subseteq G
      /\ \A T : {r} \subseteq T /\ (\A v \in T \cap S : succ[v] \subseteq T) => G \subseteq T
  BY <1>1, ReachableFacts
<1> HIDE DEF G
<1>4. r \in G /\ G \subseteq S /\ \A s \in G : \A q \in S : Related(s, q) => q \in G
  BY <1>1, <1>3
<1>5. ASSUME NEW T, r \in T, \A s \in T \cap S : \A q \in S : Related(s, q) => q \in T PROVE G \subseteq T
  <2>1. \A v \in T \cap S : succ[v] \subseteq T
    BY <1>1, <1>5
  <2>2. QED
    BY <1>3, <1>5, <2>1
<1>6. QED
  BY <1>2, <1>4, <1>5

\* Groups are classes: a record has the group of any record in its group.
LEMMA GroupsAreClasses ==
  ASSUME NEW S, IsFiniteSet(S), NEW r \in S, NEW q \in Group(r, S)
  PROVE  q \in S /\ Group(q, S) = Group(r, S)
<1>1. q \in S
  BY GroupFacts
<1> DEFINE T == {s \in S : r \in Group(s, S)}
<1>2. r \in T
  BY GroupFacts
<1>3. ASSUME NEW s \in T, NEW t \in S, Related(s, t) PROVE t \in T
  <2>1. Related(t, s)
    BY <1>3, RelatedIsMutual
  <2>2. s \in Group(t, S)
    BY <1>3, <2>1, GroupFacts
  <2>3. Group(s, S) \subseteq Group(t, S)
    <3>1. \A u \in Group(t, S) \cap S : \A v \in S : Related(u, v) => v \in Group(t, S)
      BY <1>3, GroupFacts
    <3>2. QED
      BY <1>3, <2>2, <3>1, GroupFacts
  <2>4. QED
    BY <1>3, <2>3
<1>4. q \in T
  <2>1. \A s \in T \cap S : \A t \in S : Related(s, t) => t \in T
    BY <1>3
  <2> HIDE DEF T
  <2>2. QED
    BY <1>2, <2>1, GroupFacts
<1>5. Group(q, S) \subseteq Group(r, S)
  <2>1. \A u \in Group(r, S) \cap S : \A v \in S : Related(u, v) => v \in Group(r, S)
    BY GroupFacts
  <2>2. QED
    BY <1>1, <2>1, GroupFacts
<1>6. Group(r, S) \subseteq Group(q, S)
  <2>1. \A u \in Group(q, S) \cap S : \A v \in S : Related(u, v) => v \in Group(q, S)
    BY <1>1, GroupFacts
  <2>2. r \in Group(q, S)
    BY <1>4
  <2>3. QED
    BY <2>1, <2>2, GroupFacts
<1>7. QED
  BY <1>1, <1>5, <1>6

\* Two records that share a key, or are child and parent, are related; and the
\* other way round.
LEMMA SharedKeys ==
  ASSUME NEW r, NEW q
  PROVE  Related(r, q) <=> r.parent = q.id \/ q.parent = r.id \/ Keys(r) \cap Keys(q) # {}
<1> DEFINE Alike == \/ r.root = q.root \/ r.root_evidence = q.root_evidence
                    \/ r.graph = q.graph \/ r.bucket = q.bucket
<1>1. Alike => Keys(r) \cap Keys(q) # {}
  BY DEF Keys
<1>2. ASSUME NEW key \in Keys(r), key \in Keys(q) PROVE Alike
  <2>1. CASE key = <<"root-lineage", r.root>>
    BY <1>2, <2>1 DEF Keys
  <2>2. CASE key = <<"root-evidence", r.root_evidence>>
    BY <1>2, <2>2 DEF Keys
  <2>3. CASE key = <<"immediate-graph", r.graph>>
    BY <1>2, <2>3 DEF Keys
  <2>4. CASE key = <<"leakage-bucket", r.bucket>>
    BY <1>2, <2>4 DEF Keys
  <2>5. QED
    BY <1>2, <2>1, <2>2, <2>3, <2>4 DEF Keys
<1>3. Related(r, q) <=> r.parent = q.id \/ q.parent = r.id \/ Alike
  BY DEF Related
<1>4. QED
  BY <1>1, <1>2, <1>3

LEMMA JoinsAreRelated ==
  ASSUME NEW n \in Nat, NEW list, DOMAIN list = 1..n, NEW i \in 1..n, NEW j \in Joins(list, i)
  PROVE  j \in 1..n /\ Related(list[i], list[j])
<1>1. j \in 1..n
  BY JoinsFacts
<1>2. CASE list[j].id = list[i].parent
  BY <1>1, <1>2, SharedKeys
<1>3. ASSUME NEW key \in Keys(list[i]), j = Min({k \in 1..i : key \in Keys(list[k])})
      PROVE  Related(list[i], list[j])
  <2> DEFINE S == {k \in 1..i : key \in Keys(list[k])}
  <2>1. S \in SUBSET Nat /\ i \in S
    BY <1>3
  <2> HIDE DEF S
  <2>2. Min(S) \in S
    BY <2>1, MinFacts
  <2>3. key \in Keys(list[j])
    BY <1>3, <2>2 DEF S
  <2>4. QED
    BY <1>3, <2>3, SharedKeys
<1>4. QED
  BY <1>1, <1>2, <1>3 DEF Joins

LEMMA RelatedAreJoined ==
  ASSUME NEW n \in Nat, NEW list, DOMAIN list = 1..n, NEW a \in 1..n, NEW b \in 1..n, Related(list[a], list[b])
  PROVE  Same(Joined(list), a, b)
<1> DEFINE u == Joined(list)
           none == [i \in 1..n |-> 0]
<1>1. \A i \in 1..n : \A j \in Joins(list, i) : Same(u, i, j)
  <2>1. \A i \in 1..n : \A j \in Joins(list, i) : none[j] = none[i]
    BY JoinsFacts
  <2> HIDE DEF none
  <2>2. QED
    BY <2>1, JoinedFacts
<1> HIDE DEF u
<1>2. ASSUME list[a].parent = list[b].id PROVE Same(u, a, b)
  <2>1. b \in Joins(list, a)
    BY <1>2 DEF Joins
  <2>2. QED
    BY <1>1, <2>1
<1>3. ASSUME list[b].parent = list[a].id PROVE Same(u, a, b)
  <2>1. a \in Joins(list, b)
    BY <1>3 DEF Joins
  <2>2. Same(u, b, a)
    BY <1>1, <2>1
  <2>3. QED
    BY <2>2 DEF Same
<1>4. ASSUME NEW key \in Keys(list[a]) \cap Keys(list[b]) PROVE Same(u, a, b)
  <2> DEFINE S(m) == {k \in 1..m : key \in Keys(list[k])}
  <2>1. \A m \in 1..n : S(m) \in SUBSET Nat /\ S(m) \subseteq S(n)
    OBVIOUS
  <2>2. \A m \in 1..n : m \in S(m) => Min(S(m)) \in S(m) /\ \A k \in S(m) : Min(S(m)) <= k
    BY <2>1, MinFacts
  <2>3. a \in S(a) /\ b \in S(b) /\ S(n) \in SUBSET Nat /\ a \in S(n)
    BY <1>4
  <2>4. Min(S(n)) \in S(n) /\ \A k \in S(n) : Min(S(n)) <= k
    <3> HIDE DEF S
    <3>1. QED
      BY <2>3, MinFacts
  <2>5. \A m \in 1..n : m \in S(m) => Min(S(m)) = Min(S(n))
    <3>1. SUFFICES ASSUME NEW m \in 1..n, m \in S(m) PROVE Min(S(m)) = Min(S(n))
      OBVIOUS
    <3> DEFINE x == Min(S(m))
               y == Min(S(n))
    <3>2. x \in S(m) /\ (\A k \in S(m) : x <= k) /\ y \in S(n) /\ \A k \in S(n) : y <= k
      BY <2>2, <2>4, <3>1
    <3> HIDE DEF x, y
    <3>3. y <= x /\ x <= m
      BY <2>1, <3>1, <3>2
    <3>4. y \in S(m)
      BY <3>2, <3>3
    <3>5. x <= y /\ x \in Nat /\ y \in Nat
      BY <3>2, <3>4
    <3>6. x = y
      BY <3>3, <3>5
    <3>7. QED
      BY <3>6 DEF x, y
  <2>6. Min(S(a)) = Min(S(b))
    BY <2>3, <2>5
  <2>7. Min(S(a)) \in Joins(list, a) /\ Min(S(b)) \in Joins(list, b)
    BY <1>4 DEF Joins
  <2>8. QED
    BY <1>1, <2>6, <2>7 DEF Same
<1>5. QED
  BY <1>2, <1>3, <1>4, SharedKeys DEF u

\* The components of the records in any order are the groups.
LEMMA ComponentsAreGroups ==
  ASSUME NEW S, IsFiniteSet(S), NEW n \in Nat, NEW list \in [1..n -> S], \A r \in S : \E i \in 1..n : list[i] = r
  PROVE  Components(list) = {Group(r, S) : r \in S}
<1> DEFINE u == Joined(list)
           class == [i \in 1..n |-> Group(list[i], S)]
<1>1. \A a \in 1..n : class[a] = class[Find(u, a)] /\ Find(u, a) \in 1..n
  <2>1. ASSUME NEW i \in 1..n, NEW j \in Joins(list, i) PROVE class[j] = class[i]
    <3>1. j \in 1..n /\ Related(list[i], list[j]) /\ list[i] \in S /\ list[j] \in S
      BY <2>1, JoinsAreRelated
    <3>2. list[j] \in Group(list[i], S)
      BY <3>1, GroupFacts
    <3>3. Group(list[j], S) = Group(list[i], S)
      BY <3>1, <3>2, GroupsAreClasses
    <3>4. QED
      BY <3>1, <3>3
  <2> HIDE DEF class
  <2>2. u \in Forests(n) /\ \A a \in 1..n : class[a] = class[Find(u, a)]
    BY <2>1, JoinedFacts
  <2> HIDE DEF u
  <2>3. \A a \in 1..n : Find(u, a) \in 1..n
    BY <2>2, FindFacts
  <2>4. QED
    BY <2>2, <2>3
<1>2. ASSUME NEW a \in 1..n, NEW b \in 1..n, Related(list[a], list[b]) PROVE Find(u, a) = Find(u, b)
  BY <1>2, RelatedAreJoined DEF Same
<1>3. ASSUME NEW i \in 1..n PROVE Component(list, u, i) = Group(list[i], S)
  <2> DEFINE T == Component(list, u, i)
  <2> HIDE DEF u
  <2>1. T = {list[j] : j \in {k \in 1..n : Find(u, k) = Find(u, i)}}
    BY DEF Component
  <2>2. T \subseteq Group(list[i], S)
    <3>1. SUFFICES ASSUME NEW j \in 1..n, Find(u, j) = Find(u, i) PROVE list[j] \in Group(list[i], S)
      BY <2>1
    <3>2. Group(list[j], S) = Group(list[i], S)
      BY <1>1, <3>1
    <3>3. QED
      BY <3>2, GroupFacts
  <2> HIDE DEF T
  <2>3. list[i] \in T
    BY <2>1
  <2>4. ASSUME NEW s \in T \cap S, NEW q \in S, Related(s, q) PROVE q \in T
    <3>1. PICK a \in 1..n : s = list[a] /\ Find(u, a) = Find(u, i)
      BY <2>1
    <3>2. PICK b \in 1..n : q = list[b]
      OBVIOUS
    <3>3. Find(u, b) = Find(u, i)
      BY <1>2, <2>4, <3>1, <3>2
    <3>4. QED
      BY <2>1, <3>2, <3>3
  <2>5. Group(list[i], S) \subseteq T
    BY <2>3, <2>4, GroupFacts
  <2>6. QED
    BY <2>2, <2>5 DEF T
<1>4. Components(list) = {Component(list, u, i) : i \in 1..n}
  BY DEF Components
<1> HIDE DEF u
<1>5. QED
  BY <1>3, <1>4

LEMMA AnyOrder ==
  ASSUME NEW S, IsFiniteSet(S), NEW order \in SetToSeqs(S)
  PROVE  Components(order) = {Group(r, S) : r \in S}
<1> DEFINE n == Cardinality(S)
<1>1. n \in Nat
  BY FS_CardinalityType
<1>2. order \in [1..n -> S] /\ \A i, j \in 1..n : i # j => order[i] # order[j]
  BY DEF SetToSeqs
<1>3. \A r \in S : \E i \in 1..n : order[i] = r
  <2>1. order \in Injection(1..n, S)
    BY <1>2 DEF Injection, IsInjective
  <2>2. IsFiniteSet(1..n) /\ Cardinality(1..n) = n
    BY <1>1, FS_Interval
  <2>3. order \in Surjection(1..n, S)
    BY <2>1, <2>2, FS_Injection
  <2>4. QED
    BY <2>3 DEF Surjection
<1> HIDE DEF n
<1>4. QED
  BY <1>1, <1>2, <1>3, ComponentsAreGroups

(***************************************************************************)
(* Splits.                                                                 *)
(***************************************************************************)
Disjoint(split) == \A p, q \in Partitions : p # q => split.parts[p] \cap split.parts[q] = {}
Within(split, U) == split.parts \in [Partitions -> SUBSET U]

LEMMA PartsFacts ==
  ASSUME NEW U, NEW split, Within(split, U)
  PROVE  /\ RecordsOf(split) \subseteq U
         /\ \A r : r \in RecordsOf(split) <=> \E p \in Partitions : r \in split.parts[p]
<1>1. DOMAIN split.parts = Partitions /\ \A p \in Partitions : split.parts[p] \subseteq U
  BY DEF Within
<1>2. Range(split.parts) = {split.parts[p] : p \in Partitions}
  BY <1>1 DEF Range
<1>3. QED
  BY <1>1, <1>2 DEF RecordsOf

\* A dataset without a failure has as many entries as identities.
LEMMA EntriesCounted ==
  ASSUME NEW S, NEW n, DatasetFailure(n, S) = Passed PROVE n = Cardinality({r.id : r \in S})
<1>1. PreflightFailure(n, S) = Passed
  BY DEF DatasetFailure
<1> DEFINE a1 == n \notin 1..MaxRecords
           a2 == Cardinality({r.id : r \in S}) # n
           a3 == Vertices(S) > MaxVertices
<1>2. FirstFailure(<< <<a1, "count">>, <<a2, "duplicate">>, <<a3, "vertices">> >>) = Passed
  BY <1>1, Zenon DEF PreflightFailure
<1> HIDE DEF a1, a2, a3
<1>3. "count" # Passed /\ "duplicate" # Passed /\ "vertices" # Passed
  BY DEF Passed
<1>4. ~a2
  BY <1>2, <1>3, ThreeChecks
<1>5. QED
  BY <1>4 DEF a2

\* A record in two partitions is counted twice.
LEMMA CountFacts ==
  ASSUME NEW U, IsFiniteSet(U), NEW split, Within(split, U)
  PROVE  /\ CountOf(split) \in Nat /\ Cardinality(RecordsOf(split)) \in Nat
         /\ Cardinality(RecordsOf(split)) <= CountOf(split)
         /\ Disjoint(split) <=> Cardinality(RecordsOf(split)) = CountOf(split)
<1> DEFINE A == split.parts[1]
           B == split.parts[2]
           C == split.parts[3]
<1>1. IsFiniteSet(A) /\ IsFiniteSet(B) /\ IsFiniteSet(C)
  BY FS_Subset DEF Within, Partitions
<1>2. RecordsOf(split) = (A \cup B) \cup C
  <2>1. \A r : r \in RecordsOf(split) <=> r \in A \/ r \in B \/ r \in C
    BY PartsFacts DEF Partitions
  <2>2. QED
    BY <2>1
<1>3. Disjoint(split) <=> A \cap B = {} /\ (A \cup B) \cap C = {}
  BY DEF Disjoint, Partitions
<1>4. CountOf(split) = Cardinality(A) + Cardinality(B) + Cardinality(C)
  BY DEF CountOf
<1> HIDE DEF A, B, C
<1>5. IsFiniteSet(A \cup B) /\ IsFiniteSet(A \cap B) /\ IsFiniteSet((A \cup B) \cap C) /\ IsFiniteSet((A \cup B) \cup C)
  BY <1>1, FS_Union, FS_Intersection
<1>6. /\ Cardinality(A \cup B) = Cardinality(A) + Cardinality(B) - Cardinality(A \cap B)
      /\ Cardinality((A \cup B) \cup C) = Cardinality(A \cup B) + Cardinality(C) - Cardinality((A \cup B) \cap C)
  BY <1>1, <1>5, FS_Union
<1>7. \A S : IsFiniteSet(S) => Cardinality(S) \in Nat /\ (S = {} <=> Cardinality(S) = 0)
  BY FS_CardinalityType, FS_EmptySet
<1>8. /\ Cardinality(A) \in Nat /\ Cardinality(B) \in Nat /\ Cardinality(C) \in Nat
      /\ Cardinality((A \cup B) \cup C) \in Nat /\ Cardinality(A \cup B) \in Nat
      /\ Cardinality(A \cap B) \in Nat /\ (A \cap B = {} <=> Cardinality(A \cap B) = 0)
      /\ Cardinality((A \cup B) \cap C) \in Nat /\ ((A \cup B) \cap C = {} <=> Cardinality((A \cup B) \cap C) = 0)
  BY <1>1, <1>5, <1>7
<1>9. QED
  BY <1>2, <1>3, <1>4, <1>6, <1>8

\* What _validate_split accepts: counting every entry refuses repeated records.
LEMMA SplitVerdict ==
  ASSUME NEW U, IsFiniteSet(U), NEW split, Within(split, U)
  PROVE  SplitFailure(split) = Passed
           <=> /\ DatasetFailure(Cardinality(RecordsOf(split)), RecordsOf(split)) = Passed
               /\ Disjoint(split) /\ ~Leaks(split)
<1> DEFINE S == RecordsOf(split)
           Scattered == \E c \in Components(SetToSeq(S)) : \A p \in Partitions : ~(c \subseteq split.parts[p])
<1>1. IsFiniteSet(S)
  BY PartsFacts, FS_Subset
<1>2. Components(SetToSeq(S)) = {Group(r, S) : r \in S}
  <2> HIDE DEF S
  <2>1. QED
    BY <1>1, SomeOrder, AnyOrder
<1>3. \A r : r \in S <=> \E p \in Partitions : r \in split.parts[p]
  BY PartsFacts
<1>4. SplitFailure(split) = Passed <=> /\ DatasetFailure(CountOf(split), S) = Passed
                                       /\ Cardinality({r.id : r \in S}) = CountOf(split) /\ ~Scattered
  BY DEF SplitFailure, Passed
<1>11. \A n : DatasetFailure(n, S) = Passed => n = Cardinality({r.id : r \in S})
  <2> HIDE DEF S
  <2>1. QED
    BY EntriesCounted
<1>12. CountOf(split) \in Nat /\ Cardinality(S) \in Nat /\ Cardinality(S) <= CountOf(split)
       /\ (Disjoint(split) <=> Cardinality(S) = CountOf(split))
  BY CountFacts
<1> HIDE DEF S
<1>13. IsFiniteSet({r.id : r \in S}) /\ Cardinality({r.id : r \in S}) \in Nat
       /\ Cardinality({r.id : r \in S}) <= Cardinality(S)
  <2> DEFINE f == [r \in S |-> r.id]
  <2>1. f \in Surjection(S, {r.id : r \in S})
    BY DEF Surjection
  <2>2. QED
    BY <1>1, <2>1, FS_Surjection, FS_CardinalityType
<1>14. SplitFailure(split) = Passed => Disjoint(split)
  BY <1>4, <1>12, <1>13
<1>5. \A r \in S : r \in Group(r, S)
  BY <1>1, GroupFacts
<1>6. Leaks(split) = \E p \in Partitions : \E r \in split.parts[p] : ~(Group(r, S) \subseteq split.parts[p])
  BY DEF Leaks, S
<1>7. Scattered => Leaks(split)
  BY <1>2, <1>3, <1>6
<1>8. ASSUME Disjoint(split), NEW p \in Partitions, NEW r \in split.parts[p], ~(Group(r, S) \subseteq split.parts[p])
      PROVE  Scattered
  <2>1. r \in S /\ r \in Group(r, S)
    BY <1>3, <1>5
  <2>2. \A q \in Partitions : ~(Group(r, S) \subseteq split.parts[q])
    BY <1>8, <2>1 DEF Disjoint
  <2>3. QED
    BY <1>2, <2>1, <2>2
<1>9. Disjoint(split) => (Scattered <=> Leaks(split))
  BY <1>6, <1>7, <1>8
<1> HIDE DEF Scattered
<1>10. QED
  BY <1>4, <1>9, <1>11, <1>12, <1>14 DEF S

\* Whole groups are assigned.
LEMMA AssignedFacts ==
  ASSUME NEW S, IsFiniteSet(S), NEW order \in SetToSeqs(S), NEW seed, NEW weights, NEW digests,
         NEW split, split.parts = Assigned(Components(order), seed, weights, digests)
  PROVE  Within(split, S) /\ RecordsOf(split) = S /\ Disjoint(split) /\ ~Leaks(split)
<1> DEFINE C == Components(order)
           part(c) == PartitionOf(weights, digests[<<seed, c>>])
<1>1. C = {Group(r, S) : r \in S}
  BY AnyOrder
<1>2. \A c : part(c) \in Partitions
  BY DEF PartitionOf, Partitions
<1>3. split.parts = [p \in Partitions |-> UNION {c \in C : part(c) = p}]
  BY DEF Assigned
<1> HIDE DEF C, part
<1>4. \A r \in S : Group(r, S) \in C /\ r \in Group(r, S) /\ Group(r, S) \subseteq S
  BY <1>1, GroupFacts
<1>5. \A c \in C : c \subseteq S /\ \A r \in c : r \in S /\ c = Group(r, S)
  BY <1>1, <1>4, GroupsAreClasses
<1>6. Within(split, S)
  BY <1>3, <1>5 DEF Within
<1>7. \A p \in Partitions : \A r : r \in split.parts[p] <=> r \in S /\ part(Group(r, S)) = p
  <2>1. SUFFICES ASSUME NEW p \in Partitions, NEW r
                 PROVE  r \in split.parts[p] <=> r \in S /\ part(Group(r, S)) = p
    OBVIOUS
  <2>2. r \in split.parts[p] <=> \E c \in C : part(c) = p /\ r \in c
    BY <1>3
  <2>3. QED
    BY <1>4, <1>5, <2>2
<1>8. RecordsOf(split) = S
  <2>1. \A r : r \in RecordsOf(split) <=> r \in S
    BY <1>2, <1>6, <1>7, PartsFacts
  <2>2. QED
    BY <2>1
<1>9. Disjoint(split)
  BY <1>7 DEF Disjoint
<1>10. ~Leaks(split)
  <2>1. SUFFICES ASSUME NEW p \in Partitions, NEW r \in split.parts[p] PROVE Group(r, S) \subseteq split.parts[p]
    BY <1>8 DEF Leaks
  <2>2. r \in S /\ part(Group(r, S)) = p
    BY <1>7
  <2>3. \A q \in Group(r, S) : q \in S /\ Group(q, S) = Group(r, S)
    BY <2>2, GroupsAreClasses
  <2>4. QED
    BY <1>7, <2>2, <2>3
<1>11. QED
  BY <1>6, <1>8, <1>9, <1>10

(***************************************************************************)
(* The invariant: records are whole, every split is of records made before *)
(* the first of them, is a valid dataset and lets no group leak.           *)
(***************************************************************************)
RecordFields ==
  {"kind", "root", "root_evidence", "graph", "evidence", "bucket", "parent", "seed", "derivation", "payload", "id"}
Whole(r) == DOMAIN r = RecordFields /\ r = [f \in RecordFields |-> r[f]]
Sized(g) == "design" \in DOMAIN g /\ SizeOf[g.design] \in Nat

Splits(known) == [seed : Seeds, weights : Weights, taken : BOOLEAN, parts : [Partitions -> SUBSET known]]

CuratorType ==
  /\ IsFiniteSet(made) /\ \A r \in made : Whole(r) /\ Sized(r.payload.graph)
  /\ splits \in Seq(Splits(made))

Sound(split) == DatasetFailure(Cardinality(RecordsOf(split)), RecordsOf(split)) = Passed /\ Disjoint(split) /\ ~Leaks(split)
SplitsSound == \A i \in 1..Len(splits) : Sound(splits[i])

LEMMA MadeWhole ==
  ASSUME NEW content, NEW parent
  PROVE  Whole(MakeRecord(content, parent)) /\ MakeRecord(content, parent).payload = content
<1>1. Whole(MakeRecord(content, parent))
  BY SMT DEF MakeRecord, WithIdentity, Whole, RecordFields
<1>2. MakeRecord(content, parent).payload = content
  BY SMT DEF MakeRecord, WithIdentity
<1>3. QED
  BY <1>1, <1>2

LEMMA RenamedSized ==
  ASSUME NEW g, Sized(g), NEW seed PROVE Sized(RenameDevices(g, seed))
BY SMT DEF Sized, RenameDevices

LEMMA CuratorStart == CuratorInit => CuratorType /\ SplitsSound
BY FS_EmptySet DEF CuratorInit, CuratorType, SplitsSound

LEMMA TypeKept == CuratorType /\ [Curate]_curatorVars => CuratorType'
<1> SUFFICES ASSUME CuratorType, [Curate]_curatorVars PROVE CuratorType'
  OBVIOUS
<1> USE DEF CuratorType
<1>1. ASSUME NEW record, Whole(record), Sized(record.payload.graph), Make(record) PROVE CuratorType'
  <2>1. splits' = <<>> /\ made' = made \cup {record}
    BY <1>1 DEF Make
  <2>2. IsFiniteSet(made')
    BY <2>1, FS_AddElement
  <2>3. QED
    BY <1>1, <2>1, <2>2
<1>2. CASE RootRecord
  <2>1. PICK g \in Graphs : Make(MakeRecord(Payload("root", g, g, None), None))
    BY <1>2 DEF RootRecord
  <2>2. Payload("root", g, g, None).graph = g
    BY DEF Payload
  <2>3. Sized(g)
    BY GraphsAssumption DEF Sized
  <2>4. QED
    BY <1>1, <2>1, <2>2, <2>3, MadeWhole
<1>3. CASE RenamedRecord
  <2>1. PICK parent \in made, seed \in Seeds :
          Make(MakeRecord(Payload("device_rename", RenameDevices(parent.payload.graph, seed),
                                  parent.payload.graph, seed), parent))
    BY <1>3 DEF RenamedRecord
  <2> DEFINE content == Payload("device_rename", RenameDevices(parent.payload.graph, seed), parent.payload.graph, seed)
  <2>2. content.graph = RenameDevices(parent.payload.graph, seed)
    BY DEF Payload
  <2>3. Make(MakeRecord(content, parent))
    BY <2>1
  <2> HIDE DEF content
  <2>4. Sized(content.graph)
    BY <2>2, RenamedSized
  <2>5. QED
    BY <1>1, <2>3, <2>4, MadeWhole
<1>4. CASE TraversalRecord
  <2>1. PICK parent \in made, seed \in Seeds :
          Make(MakeRecord(Payload("euler_traversal", parent.payload.graph, parent.payload.graph, seed), parent))
    BY <1>4 DEF TraversalRecord
  <2> DEFINE content == Payload("euler_traversal", parent.payload.graph, parent.payload.graph, seed)
  <2>2. content.graph = parent.payload.graph
    BY DEF Payload
  <2>3. Make(MakeRecord(content, parent))
    BY <2>1
  <2> HIDE DEF content
  <2>4. QED
    BY <1>1, <2>2, <2>3, MadeWhole
<1>5. CASE FalseRecord
  <2>1. PICK r \in made, q \in made, field \in Rewritten :
          \E record \in {[r EXCEPT ![field] = q[field]], WithIdentity([r EXCEPT ![field] = q[field]])} :
            made' = (made \ {r}) \cup {record}
    BY <1>5 DEF FalseRecord
  <2> DEFINE changed == [r EXCEPT ![field] = q[field]]
  <2>2. Whole(changed) /\ Sized(changed.payload.graph)
    <3>1. Whole(r) /\ changed.payload \in {r.payload, q.payload}
      BY DEF Whole
    <3>2. QED
      BY <3>1 DEF Whole
  <2> HIDE DEF changed
  <2>3. PICK record \in {changed, WithIdentity(changed)} : made' = (made \ {r}) \cup {record}
    BY <2>1 DEF changed
  <2>4. Whole(record) /\ Sized(record.payload.graph)
    <3>1. Whole(WithIdentity(changed)) /\ WithIdentity(changed).payload = changed.payload
      BY <2>2 DEF WithIdentity, Whole
    <3>2. QED
      BY <2>2, <3>1
  <2>5. splits' = <<>>
    BY <1>5 DEF FalseRecord
  <2>6. IsFiniteSet(made')
    BY <2>3, FS_AddElement, FS_RemoveElement
  <2>7. QED
    BY <2>3, <2>4, <2>5, <2>6
<1>6. CASE Split
  <2>1. made' = made
    BY <1>6 DEF Split
  <2>2. PICK chosen \in SUBSET made, seed \in Seeds, weights \in Weights :
          \E order \in SetToSeqs(chosen) :
            splits' = Append(splits, [seed |-> seed, weights |-> weights, taken |-> FALSE,
                                      parts |-> Assigned(Components(order), seed, weights, digest')])
    BY <1>6 DEF Split
  <2>3. PICK order \in SetToSeqs(chosen) :
          splits' = Append(splits, [seed |-> seed, weights |-> weights, taken |-> FALSE,
                                    parts |-> Assigned(Components(order), seed, weights, digest')])
    BY <2>2
  <2> DEFINE split == [seed |-> seed, weights |-> weights, taken |-> FALSE,
                       parts |-> Assigned(Components(order), seed, weights, digest')]
  <2>4. IsFiniteSet(chosen)
    BY FS_Subset
  <2>5. Within(split, chosen)
    <3>1. split.parts = Assigned(Components(order), seed, weights, digest')
      OBVIOUS
    <3> HIDE DEF split
    <3>2. QED
      BY <2>4, <3>1, AssignedFacts
  <2>6. split \in Splits(made)
    BY <2>5 DEF Within, Splits
  <2> HIDE DEF split
  <2>7. QED
    BY <2>1, <2>3, <2>6 DEF split
<1>7. CASE TakeSplit
  <2>1. made' = made
    BY <1>7 DEF TakeSplit
  <2>2. PICK i \in DOMAIN splits, r \in made, p \in Partitions, moves \in BOOLEAN :
          splits' = Append(splits, [splits[i] EXCEPT !.taken = TRUE,
                       !.parts = [q \in Partitions |-> IF q = p THEN splits[i].parts[q] \cup {r}
                                                       ELSE IF moves THEN splits[i].parts[q] \ {r} ELSE splits[i].parts[q]]])
    BY <1>7 DEF TakeSplit
  <2>3. splits[i] \in Splits(made)
    OBVIOUS
  <2>4. [splits[i] EXCEPT !.taken = TRUE,
           !.parts = [q \in Partitions |-> IF q = p THEN splits[i].parts[q] \cup {r}
                                           ELSE IF moves THEN splits[i].parts[q] \ {r} ELSE splits[i].parts[q]]]
          \in Splits(made)
    BY <2>3 DEF Splits
  <2>5. QED
    BY <2>1, <2>2, <2>4
<1>8. CASE Stack
  BY <1>8 DEF Stack
<1>9. CASE UNCHANGED curatorVars
  BY <1>9 DEF curatorVars
<1>10. QED
  BY <1>2, <1>3, <1>4, <1>5, <1>6, <1>7, <1>8, <1>9 DEF Curate

LEMMA SoundKept == CuratorType /\ SplitsSound /\ [Curate]_curatorVars => SplitsSound'
<1> SUFFICES ASSUME CuratorType, SplitsSound, [Curate]_curatorVars PROVE SplitsSound'
  OBVIOUS
<1>1. splits \in Seq(Splits(made)) /\ IsFiniteSet(made)
  BY DEF CuratorType
<1>2. ASSUME NEW split, Sound(split), splits' = Append(splits, split) PROVE SplitsSound'
  <2>1. Len(splits') = Len(splits) + 1 /\ Len(splits) \in Nat
        /\ \A i \in 1..Len(splits') : splits'[i] = IF i = Len(splits) + 1 THEN split ELSE splits[i]
    BY <1>1, <1>2
  <2>2. \A i \in 1..Len(splits') : Sound(splits'[i])
    BY <1>2, <2>1 DEF SplitsSound
  <2>3. QED
    BY <2>2 DEF SplitsSound
<1>3. ASSUME splits' = splits PROVE SplitsSound'
  BY <1>3 DEF SplitsSound
<1>4. CASE RootRecord \/ RenamedRecord \/ TraversalRecord \/ FalseRecord \/ Stack \/ UNCHANGED curatorVars
  BY <1>3, <1>4 DEF RootRecord, RenamedRecord, TraversalRecord, Make, FalseRecord, Stack, curatorVars
<1>5. CASE Split
  <2>1. PICK chosen \in SUBSET made, seed \in Seeds, weights \in Weights :
          /\ DatasetFailure(Cardinality(chosen), chosen) = Passed
          /\ \E order \in SetToSeqs(chosen) :
               splits' = Append(splits, [seed |-> seed, weights |-> weights, taken |-> FALSE,
                                         parts |-> Assigned(Components(order), seed, weights, digest')])
    BY <1>5 DEF Split
  <2>2. PICK order \in SetToSeqs(chosen) :
          splits' = Append(splits, [seed |-> seed, weights |-> weights, taken |-> FALSE,
                                    parts |-> Assigned(Components(order), seed, weights, digest')])
    BY <2>1
  <2> DEFINE split == [seed |-> seed, weights |-> weights, taken |-> FALSE,
                       parts |-> Assigned(Components(order), seed, weights, digest')]
  <2>3. IsFiniteSet(chosen)
    BY <1>1, FS_Subset
  <2>4. split.parts = Assigned(Components(order), seed, weights, digest')
    OBVIOUS
  <2>5. splits' = Append(splits, split)
    BY <2>2
  <2> HIDE DEF split
  <2>6. RecordsOf(split) = chosen /\ Disjoint(split) /\ ~Leaks(split)
    BY <2>3, <2>4, AssignedFacts
  <2>7. Sound(split)
    BY <2>1, <2>6 DEF Sound
  <2>8. QED
    BY <1>2, <2>5, <2>7
<1>6. CASE TakeSplit
  <2>1. PICK i \in DOMAIN splits, r \in made, p \in Partitions, moves \in BOOLEAN :
          LET other == [splits[i] EXCEPT !.taken = TRUE,
                          !.parts = [q \in Partitions |-> IF q = p THEN splits[i].parts[q] \cup {r}
                                                          ELSE IF moves THEN splits[i].parts[q] \ {r} ELSE splits[i].parts[q]]]
          IN SplitFailure(other) = Passed /\ splits' = Append(splits, other)
    BY <1>6 DEF TakeSplit
  <2> DEFINE old == splits[i].parts
             new == [q \in Partitions |-> IF q = p THEN old[q] \cup {r} ELSE IF moves THEN old[q] \ {r} ELSE old[q]]
             other == [splits[i] EXCEPT !.taken = TRUE, !.parts = new]
  <2>2. SplitFailure(other) = Passed /\ splits' = Append(splits, other)
    BY <2>1
  <2>3. splits[i] \in Splits(made)
    BY <1>1
  <2>4. old \in [Partitions -> SUBSET made]
    BY <2>3 DEF Splits
  <2>5. other.parts = new
    BY <2>3 DEF Splits
  <2> HIDE DEF old
  <2>6. new \in [Partitions -> SUBSET made]
    BY <2>4
  <2> HIDE DEF new, other
  <2>7. Within(other, made)
    BY <2>5, <2>6 DEF Within
  <2>8. Sound(other)
    BY <1>1, <2>2, <2>7, SplitVerdict DEF Sound
  <2>9. QED
    BY <1>2, <2>2, <2>8
<1>7. QED
  BY <1>4, <1>5, <1>6 DEF Curate

LEMMA CuratorAlways == DatasetSpec => [](CuratorType /\ SplitsSound)
<1>1. DatasetInit => CuratorType /\ SplitsSound
  BY CuratorStart DEF DatasetInit
<1>2. CuratorType /\ SplitsSound /\ [DatasetNext]_datasetVars => CuratorType' /\ SplitsSound'
  <2>1. [DatasetNext]_datasetVars => [Curate]_curatorVars
    BY DEF DatasetNext, Count, Convert, Curating, datasetVars
  <2>2. QED
    BY <2>1, TypeKept, SoundKept
<1>3. QED
  BY <1>1, <1>2, PTL DEF DatasetSpec

\* No split the package returns, or accepts from elsewhere, lets a leakage
\* group span partitions: whatever the graphs, the digests and the limits, and
\* however long the chain that holds a group together.  The union-find of
\* _component_indexes is shown to compute the groups.
THEOREM LeakageNever == DatasetSpec => []NoLeakage
<1>1. CuratorType /\ SplitsSound => NoLeakage
  <2>1. SUFFICES ASSUME CuratorType, SplitsSound, NEW split \in Range(splits)
                 PROVE  ~Leaks(split) /\ \A p, q \in Partitions : p # q => split.parts[p] \cap split.parts[q] = {}
    BY DEF NoLeakage
  <2>2. PICK i \in 1..Len(splits) : split = splits[i]
    BY <2>1 DEF Range, CuratorType
  <2>3. QED
    BY <2>1, <2>2 DEF SplitsSound, Sound, Disjoint
<1>2. QED
  BY <1>1, CuratorAlways, PTL

(***************************************************************************)
(* What the checks of a dataset tell.                                      *)
(***************************************************************************)
LEMMA PayloadVerdict ==
  ASSUME NEW p
  PROVE  PayloadFailure(p) = Passed <=>
           p.graph = IF p.kind = "device_rename" THEN RenameDevices(p.source, p.seed) ELSE p.source
<1> DEFINE a1 == p.kind = "device_rename" /\ RenameDevices(p.source, p.seed) # p.graph
           a2 == p.kind # "device_rename" /\ p.source # p.graph
<1>1. PayloadFailure(p) = FirstFailure(<< <<a1, "derivation">>, <<a2, "derivation">> >>)
  BY Zenon DEF PayloadFailure
<1> HIDE DEF a1, a2
<1>2. "derivation" # Passed
  BY DEF Passed
<1>3. FirstFailure(<< <<a1, "derivation">>, <<a2, "derivation">> >>) = Passed <=> ~a1 /\ ~a2
  BY <1>2, TwoChecks
<1>4. PayloadFailure(p) = Passed <=> ~a1 /\ ~a2
  BY <1>1, <1>3
<1>5. QED
  BY <1>4 DEF a1, a2

LEMMA RecordVerdict ==
  ASSUME NEW r, RecordFailure(r) = Passed
  PROVE  /\ r.kind = r.payload.kind /\ PayloadFailure(r.payload) = Passed
         /\ r.graph = GraphId(r.payload.graph) /\ r.evidence = r.payload.graph
         /\ r.derivation = r.payload /\ r.seed = r.payload.seed /\ r.id = Identity(r)
<1> DEFINE a1 == r.kind # r.payload.kind
           a2 == PayloadFailure(r.payload) # Passed
           a3 == r.graph # GraphId(r.payload.graph)
           a4 == r.evidence # r.payload.graph
           a5 == r.derivation # r.payload \/ r.seed # r.payload.seed
           a6 == r.bucket # BucketOf[r.payload.graph.design]
           a7 == r.id # Identity(r)
           x1 == "payload"
           x2 == "derivation"
           x3 == "graph"
           x4 == "evidence"
           x5 == "derivation evidence"
           x6 == "bucket"
           x7 == "identity"
<1>1. RecordFailure(r)
      = FirstFailure(<< <<a1, x1>>, <<a2, x2>>, <<a3, x3>>, <<a4, x4>>, <<a5, x5>>, <<a6, x6>>, <<a7, x7>> >>)
  BY Zenon DEF RecordFailure
<1> HIDE DEF a1, a2, a3, a4, a5, a6, a7
<1>2. x1 # Passed /\ x2 # Passed /\ x3 # Passed /\ x4 # Passed /\ x5 # Passed /\ x6 # Passed /\ x7 # Passed
  BY DEF Passed
<1> HIDE DEF x1, x2, x3, x4, x5, x6, x7
<1>3. FirstFailure(<< <<a1, x1>>, <<a2, x2>>, <<a3, x3>>, <<a4, x4>>, <<a5, x5>>, <<a6, x6>>, <<a7, x7>> >>) = Passed
        <=> ~a1 /\ ~a2 /\ ~a3 /\ ~a4 /\ ~a5 /\ ~a6 /\ ~a7
  BY <1>2, SevenChecks
<1>4. RecordFailure(r) = Passed
        <=> ~a1 /\ ~a2 /\ ~a3 /\ ~a4 /\ ~a5 /\ ~a6 /\ ~a7
  BY <1>1, <1>3
<1>5. QED
  BY <1>4 DEF a1, a2, a3, a4, a5, a6, a7

LEMMA RootVerdict ==
  ASSUME NEW r
  PROVE  RootFailure(r) = Passed <=>
           r.parent = None /\ r.seed = None /\ r.root = r.graph /\ r.root_evidence = r.evidence
<1> DEFINE a1 == r.parent # None \/ r.seed # None
           a2 == r.root # r.graph \/ r.root_evidence # r.evidence
           x1 == "root has parent"
           x2 == "root lineage"
<1>1. RootFailure(r) = FirstFailure(<< <<a1, x1>>, <<a2, x2>> >>)
  BY Zenon DEF RootFailure
<1> HIDE DEF a1, a2
<1>2. x1 # Passed /\ x2 # Passed
  BY DEF Passed
<1> HIDE DEF x1, x2
<1>3. FirstFailure(<< <<a1, x1>>, <<a2, x2>> >>) = Passed <=> ~a1 /\ ~a2
  BY <1>2, TwoChecks
<1>4. RootFailure(r) = Passed <=> ~a1 /\ ~a2
  BY <1>1, <1>3
<1>5. QED
  BY <1>4 DEF a1, a2

LEMMA DerivedVerdict ==
  ASSUME NEW r, NEW S
  PROVE  DerivedFailure(r, S) = Passed <=>
           /\ r.parent # None /\ \E q \in S : q.id = r.parent
           /\ \A q \in S : q.id = r.parent =>
                r.root = q.root /\ r.root_evidence = q.root_evidence /\ r.payload.source = q.payload.graph
<1> DEFINE parents == {q \in S : q.id = r.parent}
           a1 == r.parent = None \/ parents = {}
           a2 == \E q \in parents : r.root # q.root \/ r.root_evidence # q.root_evidence
           a3 == \E q \in parents : r.payload.source # q.payload.graph
           x1 == "missing parent"
           x2 == "lineage"
           x3 == "parent graph"
<1>1. DerivedFailure(r, S) = FirstFailure(<< <<a1, x1>>, <<a2, x2>>, <<a3, x3>> >>)
  BY Zenon DEF DerivedFailure
<1> HIDE DEF a1, a2, a3
<1>2. x1 # Passed /\ x2 # Passed /\ x3 # Passed
  BY DEF Passed
<1> HIDE DEF x1, x2, x3
<1>3. FirstFailure(<< <<a1, x1>>, <<a2, x2>>, <<a3, x3>> >>) = Passed <=> ~a1 /\ ~a2 /\ ~a3
  BY <1>2, ThreeChecks
<1>4. DerivedFailure(r, S) = Passed <=> ~a1 /\ ~a2 /\ ~a3
  BY <1>1, <1>3
<1>5. QED
  BY <1>4 DEF a1, a2, a3

Ancestry(r, S) == Reachable(Parents(S), {r.id})
Circular(r, S) == \E id \in Ancestry(r, S) : id \in Reachable(Parents(S), Parents(S)[id])

LEMMA AncestryVerdict ==
  ASSUME NEW r, NEW S
  PROVE  AncestryFailure(r, S) = Passed <=>
           ~Circular(r, S) /\ ~(Cardinality(Ancestry(r, S)) - 1 > MaxAncestryDepth)
<1> DEFINE a1 == \E id \in Ancestry(r, S) : id \in Reachable(Parents(S), Parents(S)[id])
           a2 == Cardinality(Ancestry(r, S)) - 1 > MaxAncestryDepth
<1>1. AncestryFailure(r, S) = FirstFailure(<< <<a1, "cycle">>, <<a2, "depth">> >>)
  BY Zenon DEF AncestryFailure, Ancestry
<1> HIDE DEF a1, a2
<1>2. "cycle" # Passed /\ "depth" # Passed
  BY DEF Passed
<1>3. FirstFailure(<< <<a1, "cycle">>, <<a2, "depth">> >>) = Passed <=> ~a1 /\ ~a2
  BY <1>2, TwoChecks
<1>4. AncestryFailure(r, S) = Passed <=> ~a1 /\ ~a2
  BY <1>1, <1>3
<1>5. QED
  BY <1>4 DEF a1, a2, Circular

LEMMA PreflightVerdict ==
  ASSUME NEW count, NEW S
  PROVE  PreflightFailure(count, S) = Passed <=>
           count \in 1..MaxRecords /\ Cardinality({r.id : r \in S}) = count /\ ~(Vertices(S) > MaxVertices)
<1> DEFINE a1 == count \notin 1..MaxRecords
           a2 == Cardinality({r.id : r \in S}) # count
           a3 == Vertices(S) > MaxVertices
<1>1. PreflightFailure(count, S) = FirstFailure(<< <<a1, "count">>, <<a2, "duplicate">>, <<a3, "vertices">> >>)
  BY Zenon DEF PreflightFailure
<1> HIDE DEF a1, a2, a3
<1>2. "count" # Passed /\ "duplicate" # Passed /\ "vertices" # Passed
  BY DEF Passed
<1>3. FirstFailure(<< <<a1, "count">>, <<a2, "duplicate">>, <<a3, "vertices">> >>) = Passed <=> ~a1 /\ ~a2 /\ ~a3
  BY <1>2, ThreeChecks
<1>4. PreflightFailure(count, S) = Passed <=> ~a1 /\ ~a2 /\ ~a3
  BY <1>1, <1>3
<1>5. QED
  BY <1>4 DEF a1, a2, a3

\* A record after its own checks has its place in the lineage.
Descends(r, S) == (IF r.kind = "root" THEN RootFailure(r) ELSE DerivedFailure(r, S)) = Passed

LEMMA DatasetVerdict ==
  ASSUME NEW S
  PROVE  DatasetFailure(Cardinality(S), S) = Passed <=>
           /\ PreflightFailure(Cardinality(S), S) = Passed
           /\ \A r \in S : RecordFailure(r) = Passed /\ Descends(r, S) /\ AncestryFailure(r, S) = Passed
BY DEF DatasetFailure, Passed, Descends

\* Records with their checks passed are told apart by their identities.
LEMMA IdsTell ==
  ASSUME NEW r, Whole(r), RecordFailure(r) = Passed, NEW q, Whole(q), RecordFailure(q) = Passed, r.id = q.id
  PROVE  r = q
<1>1. /\ r.id = Identity(r) /\ q.id = Identity(q) /\ r.derivation = r.payload /\ q.derivation = q.payload
  BY RecordVerdict
<1>2. [r EXCEPT !.id = None, !.payload = None] = [q EXCEPT !.id = None, !.payload = None]
  BY <1>1 DEF Identity
<1>3. /\ DOMAIN r = RecordFields /\ DOMAIN q = RecordFields
      /\ r = [f \in RecordFields |-> r[f]] /\ q = [f \in RecordFields |-> q[f]]
  BY DEF Whole
<1>4. \A f \in RecordFields \ {"id", "payload"} : r[f] = q[f]
  <2>1. SUFFICES ASSUME NEW f \in RecordFields, f # "id", f # "payload" PROVE r[f] = q[f]
    OBVIOUS
  <2>2. [r EXCEPT !.id = None, !.payload = None][f] = r[f] /\ [q EXCEPT !.id = None, !.payload = None][f] = q[f]
    BY <1>3, <2>1
  <2>3. QED
    BY <1>2, <2>2
<1>5. r.payload = q.payload
  BY <1>1, <1>4 DEF RecordFields
<1>6. \A f \in RecordFields : r[f] = q[f]
  BY <1>4, <1>5
<1>7. QED
  BY <1>3, <1>6

\* A set of records in which every parent is found.
Rooted(S) ==
  /\ IsFiniteSet(S)
  /\ \A r \in S : Whole(r) /\ RecordFailure(r) = Passed /\ (r.parent # None => \E q \in S : q.id = r.parent)

Ids(S) == {r.id : r \in S}

LEMMA ParentsFacts ==
  ASSUME NEW S, Rooted(S)
  PROVE  /\ IsFiniteSet(Ids(S)) /\ Parents(S) \in [Ids(S) -> SUBSET Ids(S)]
         /\ Cardinality(Ids(S)) = Cardinality(S)
         /\ \A r \in S : Parents(S)[r.id] = {r.parent} \ {None}
<1>1. \A r, q \in S : r.id = q.id => r = q
  BY IdsTell DEF Rooted
<1>2. \A r \in S : Parents(S)[r.id] = {r.parent} \ {None}
  <2>1. SUFFICES ASSUME NEW r \in S PROVE Parents(S)[r.id] = {r.parent} \ {None}
    OBVIOUS
  <2>2. {q \in S : q.id = r.id} = {r}
    BY <1>1
  <2>3. Parents(S)[r.id] = {t.parent : t \in {q \in S : q.id = r.id}} \ {None}
    BY DEF Parents
  <2>4. QED
    BY <2>2, <2>3
<1>3. Parents(S) \in [Ids(S) -> SUBSET Ids(S)]
  <2>1. \A id \in Ids(S) : {r.parent : r \in {q \in S : q.id = id}} \ {None} \subseteq Ids(S)
    BY DEF Ids, Rooted
  <2>2. Parents(S) = [id \in Ids(S) |-> {r.parent : r \in {q \in S : q.id = id}} \ {None}]
    BY DEF Parents, Ids
  <2>3. QED
    BY <2>1, <2>2
<1>4. IsFiniteSet(Ids(S)) /\ Cardinality(Ids(S)) = Cardinality(S)
  <2> DEFINE f == [r \in S |-> r.id]
  <2>1. f \in [S -> Ids(S)] /\ (\A r, q \in S : f[r] = f[q] => r = q) /\ \A id \in Ids(S) : \E r \in S : f[r] = id
    BY <1>1 DEF Ids
  <2>2. f \in Bijection(S, Ids(S))
    <3> HIDE DEF f
    <3>1. QED
      BY <2>1 DEF Bijection, Injection, Surjection, IsInjective
  <2>3. ExistsBijection(S, Ids(S))
    BY <2>2 DEF ExistsBijection
  <2>4. QED
    BY <2>3, FS_Bijection DEF Rooted
<1>5. QED
  BY <1>2, <1>3, <1>4

LEMMA ParentsKeep ==
  ASSUME NEW S, Rooted(S), NEW W, Rooted(W), S \subseteq W
  PROVE  \A id \in Ids(S) : Parents(W)[id] = Parents(S)[id] /\ Parents(S)[id] \in SUBSET Ids(S)
<1>1. SUFFICES ASSUME NEW r \in S PROVE Parents(W)[r.id] = Parents(S)[r.id] /\ Parents(S)[r.id] \in SUBSET Ids(S)
  BY DEF Ids
<1>2. r \in W /\ r.id \in Ids(S)
  BY DEF Ids
<1>3. Parents(W)[r.id] = {r.parent} \ {None}
  BY <1>2, ParentsFacts
<1>4. Parents(S)[r.id] = {r.parent} \ {None} /\ Parents(S) \in [Ids(S) -> SUBSET Ids(S)]
  BY ParentsFacts
<1>5. QED
  BY <1>2, <1>3, <1>4

\* Ancestry does not change when records are added.
LEMMA AncestryKeeps ==
  ASSUME NEW S, Rooted(S), NEW W, Rooted(W), S \subseteq W, NEW ids \in SUBSET Ids(S)
  PROVE  Reachable(Parents(W), ids) = Reachable(Parents(S), ids) /\ Reachable(Parents(S), ids) \subseteq Ids(S)
<1> DEFINE small == Reachable(Parents(S), ids)
           large == Reachable(Parents(W), ids)
<1>1. Ids(S) \subseteq Ids(W)
  BY DEF Ids
<1>2. \A id \in Ids(S) : Parents(W)[id] = Parents(S)[id]
  BY ParentsKeep
<1>3. /\ ids \subseteq small /\ small \subseteq Ids(S) /\ \A v \in small : Parents(S)[v] \subseteq small
      /\ \A T : ids \subseteq T /\ (\A v \in T \cap Ids(S) : Parents(S)[v] \subseteq T) => small \subseteq T
  BY ParentsFacts, ReachableFacts
<1>4. /\ ids \subseteq large /\ large \subseteq Ids(W) /\ \A v \in large : Parents(W)[v] \subseteq large
      /\ \A T : ids \subseteq T /\ (\A v \in T \cap Ids(W) : Parents(W)[v] \subseteq T) => large \subseteq T
  BY <1>1, ParentsFacts, ReachableFacts
<1> HIDE DEF small, large
<1>5. small \subseteq large
  BY <1>2, <1>3, <1>4
<1>6. large \subseteq small
  BY <1>2, <1>3, <1>4
<1>7. QED
  BY <1>3, <1>5, <1>6 DEF small, large

LEMMA AncestryVerdictKeeps ==
  ASSUME NEW S, Rooted(S), NEW W, Rooted(W), S \subseteq W, NEW r \in S
  PROVE  AncestryFailure(r, W) = Passed <=> AncestryFailure(r, S) = Passed
<1>1. {r.id} \in SUBSET Ids(S)
  BY DEF Ids
<1>2. Ancestry(r, W) = Ancestry(r, S) /\ Ancestry(r, S) \subseteq Ids(S)
  BY <1>1, AncestryKeeps DEF Ancestry
<1>3. \A id \in Ancestry(r, S) : Parents(W)[id] = Parents(S)[id] /\ Parents(S)[id] \in SUBSET Ids(S)
  BY <1>2, ParentsKeep
<1>4. \A id \in Ancestry(r, S) : Reachable(Parents(W), Parents(W)[id]) = Reachable(Parents(S), Parents(S)[id])
  BY <1>3, AncestryKeeps
<1>5. Circular(r, W) <=> Circular(r, S)
  BY <1>2, <1>4 DEF Circular
<1>6. QED
  BY <1>2, <1>5, AncestryVerdict

\* What a valid dataset is, record by record.
LEMMA ValidFacts ==
  ASSUME NEW S, IsFiniteSet(S), \A r \in S : Whole(r), DatasetFailure(Cardinality(S), S) = Passed
  PROVE  Rooted(S)
<1>1. \A r \in S : RecordFailure(r) = Passed /\ Descends(r, S)
  BY DatasetVerdict
<1>2. ASSUME NEW r \in S, r.parent # None PROVE \E q \in S : q.id = r.parent
  <2>1. CASE r.kind = "root"
    BY <1>1, <1>2, <2>1, RootVerdict DEF Descends
  <2>2. CASE r.kind # "root"
    BY <1>1, <2>2, DerivedVerdict DEF Descends
  <2>3. QED
    BY <2>1, <2>2
<1>3. QED
  BY <1>1, <1>2 DEF Rooted

\* Two valid datasets together are valid when they are not too large.
LEMMA TogetherValid ==
  ASSUME NEW L, IsFiniteSet(L), \A r \in L : Whole(r), DatasetFailure(Cardinality(L), L) = Passed,
         NEW R, IsFiniteSet(R), \A r \in R : Whole(r), DatasetFailure(Cardinality(R), R) = Passed
  PROVE  /\ Rooted(L \cup R)
         /\ DatasetFailure(Cardinality(L \cup R), L \cup R) = Passed
              <=> PreflightFailure(Cardinality(L \cup R), L \cup R) = Passed
<1> DEFINE W == L \cup R
<1>1. Rooted(L) /\ Rooted(R)
  BY ValidFacts
<1>2. Rooted(W)
  <2>1. IsFiniteSet(W)
    BY FS_Union
  <2>2. QED
    BY <1>1, <2>1 DEF Rooted
<1>3. ASSUME NEW S, Rooted(S), DatasetFailure(Cardinality(S), S) = Passed, S \subseteq W, NEW r \in S
      PROVE  RecordFailure(r) = Passed /\ Descends(r, W) /\ AncestryFailure(r, W) = Passed
  <2>1. RecordFailure(r) = Passed /\ Descends(r, S) /\ AncestryFailure(r, S) = Passed
    BY <1>3, DatasetVerdict
  <2>2. AncestryFailure(r, W) = Passed
    <3> HIDE DEF W
    <3>1. QED
      BY <1>2, <1>3, <2>1, AncestryVerdictKeeps
  <2>3. CASE r.kind = "root"
    BY <2>1, <2>2, <2>3 DEF Descends
  <2>4. CASE r.kind # "root"
    <3>1. DerivedFailure(r, S) = Passed
      BY <2>1, <2>4 DEF Descends
    <3>2. PICK q \in S : q.id = r.parent
      BY <3>1, DerivedVerdict
    <3>3. \A t \in W : t.id = r.parent => t = q
      BY <1>2, <1>3, <3>2, IdsTell DEF Rooted
    <3>4. DerivedFailure(r, W) = Passed
      BY <1>3, <3>1, <3>2, <3>3, DerivedVerdict
    <3>5. QED
      BY <2>1, <2>2, <2>4, <3>4 DEF Descends
  <2>5. QED
    BY <2>3, <2>4
<1>4. \A r \in W : RecordFailure(r) = Passed /\ Descends(r, W) /\ AncestryFailure(r, W) = Passed
  BY <1>1, <1>3
<1>5. QED
  BY <1>2, <1>4, DatasetVerdict

\* The vertices of records are counted in numbers.
LEMMA VerticesAreNumbers ==
  ASSUME NEW S, IsFiniteSet(S), \A r \in S : Sized(r.payload.graph) PROVE Vertices(S) \in Nat
<1> DEFINE size(r) == SizeOf[r.payload.graph.design]
           next == [s \in SUBSET S |-> CHOOSE x \in s : TRUE]
           step == [x \in S |-> [k \in Nat |-> size(x) + k]]
           Folds(iter) == iter = [s \in SUBSET S |-> IF s = {} THEN 0
                                    ELSE LET x == CHOOSE x \in s : TRUE IN size(x) + iter[s \ {x}]]
           iter == CHOOSE g : Folds(g)
<1>1. Vertices(S) = iter[S]
  BY DEF Vertices, MapThenSumSet, MapThenFoldSet
<1>2. \E g : Folds(g) /\ g \in [SUBSET S -> Nat]
  <2>1. step \in [S -> [Nat -> Nat]]
    BY DEF Sized
  <2>2. \A s \in SUBSET S : s # {} => next[s] \in s
    OBVIOUS
  <2>3. PICK g \in [SUBSET S -> Nat] : IsFold(S, 0, step, next, g)
    <3> HIDE DEF step, next
    <3>1. QED
      BY <2>1, <2>2, FoldExists
  <2>4. \A s \in SUBSET S : s # {} => step[next[s]][g[s \ {next[s]}]]
                                     = size(next[s]) + g[s \ {next[s]}]
    <3> HIDE DEF next
    <3>1. QED
      BY <2>2
  <2>5. g = [s \in SUBSET S |-> IF s = {} THEN 0 ELSE size(next[s]) + g[s \ {next[s]}]]
    <3> HIDE DEF step, next
    <3>1. QED
      BY <2>3, <2>4 DEF IsFold
  <2>6. Folds(g)
    BY <2>5
  <2>7. QED
    BY <2>6
<1>3. \A s \in SUBSET S : IF s = {} THEN iter[s] = 0
                          ELSE \E x \in s : iter[s] = size(x) + iter[s \ {x}]
  <2>1. Folds(iter)
    <3> HIDE DEF Folds
    <3>1. QED
      BY <1>2
  <2> HIDE DEF iter
  <2>2. SUFFICES ASSUME NEW s \in SUBSET S
                 PROVE  IF s = {} THEN iter[s] = 0
                        ELSE \E x \in s : iter[s] = size(x) + iter[s \ {x}]
    OBVIOUS
  <2>3. iter[s] = IF s = {} THEN 0
                  ELSE LET x == CHOOSE x \in s : TRUE IN size(x) + iter[s \ {x}]
    BY <2>1
  <2>4. QED
    BY <2>3
<1> HIDE DEF iter
<1> DEFINE T == {m \in Nat : \A s \in SUBSET S : Cardinality(s) <= m => iter[s] \in Nat}
<1>4. \A m \in Nat : m \in T
  <2>1. 0 \in T
    <3>1. \A s \in SUBSET S : Cardinality(s) <= 0 => s = {}
      BY FS_Subset, FS_EmptySet, FS_CardinalityType
    <3>2. QED
      BY <1>3, <3>1
  <2>2. ASSUME NEW m \in Nat, m \in T PROVE m + 1 \in T
    <3>1. SUFFICES ASSUME NEW s \in SUBSET S, Cardinality(s) <= m + 1 PROVE iter[s] \in Nat
      OBVIOUS
    <3>2. CASE s = {}
      BY <1>3, <3>2
    <3>3. CASE s # {}
      <4>1. PICK x \in s : iter[s] = size(x) + iter[s \ {x}]
        BY <1>3, <3>3
      <4>2. IsFiniteSet(s) /\ Cardinality(s \ {x}) = Cardinality(s) - 1 /\ Cardinality(s) \in Nat
        BY FS_Subset, FS_RemoveElement, FS_CardinalityType
      <4>3. iter[s \ {x}] \in Nat
        BY <2>2, <3>1, <4>2
      <4>4. size(x) \in Nat
        BY DEF Sized
      <4>5. QED
        BY <4>1, <4>3, <4>4
    <3>4. QED
      BY <3>2, <3>3
  <2> HIDE DEF T
  <2>3. QED
    BY <2>1, <2>2, NaturalInduction
<1>5. QED
  BY <1>1, <1>4, FS_CardinalityType

(***************************************************************************)
(* Stacking.                                                               *)
(***************************************************************************)
StackInv ==
  \A done \in stacked : \E i, j \in 1..Len(splits) :
    /\ i < j /\ done.of = {i, j} /\ done.result = Union(splits[i], splits[j])
    /\ done.verdict = StackFailure(splits[i], splits[j])

Stackable(left, right) ==
  /\ left.seed = right.seed /\ left.weights = right.weights
  /\ RecordsOf(left) \cap RecordsOf(right) = {}
  /\ Cardinality(RecordsOf(Union(left, right))) <= MaxRecords /\ Vertices(RecordsOf(Union(left, right))) <= MaxVertices
  /\ ~Leaks(Union(left, right))

LEMMA StackTrue ==
  ASSUME CuratorType, NEW left \in Splits(made), Sound(left), NEW right \in Splits(made), Sound(right)
  PROVE  StackFailure(left, right) = Passed <=> Stackable(left, right)
<1> DEFINE L == RecordsOf(left)
           R == RecordsOf(right)
           U == Union(left, right)
           W == L \cup R
           both == PreflightFailure(Cardinality(L) + Cardinality(R), W)
<1>1. IsFiniteSet(made) /\ \A r \in made : Whole(r) /\ Sized(r.payload.graph)
  BY DEF CuratorType
<1>2. Within(left, made) /\ Within(right, made)
  BY DEF Splits, Within
<1>3. /\ U.parts = [p \in Partitions |-> left.parts[p] \cup right.parts[p]]
      /\ Within(U, made)
  BY <1>2 DEF Union, Splits, Within
<1>19. CountOf(left) = Cardinality(L) /\ CountOf(right) = Cardinality(R)
  BY <1>1, <1>2, CountFacts DEF Sound
<1>4. StackFailure(left, right) = Passed <=>
        left.seed = right.seed /\ left.weights = right.weights /\ both = Passed /\ SplitFailure(U) = Passed
  BY <1>19 DEF StackFailure, Passed
<1> HIDE DEF U
<1>5. RecordsOf(U) = W
  <2>1. \A r : r \in RecordsOf(U) <=> r \in W
    BY <1>2, <1>3, PartsFacts
  <2>2. QED
    BY <2>1
<1>6. L \subseteq made /\ R \subseteq made /\ W \subseteq made
  BY <1>2, PartsFacts
<1>7. DatasetFailure(Cardinality(L), L) = Passed /\ DatasetFailure(Cardinality(R), R) = Passed
  BY DEF Sound
<1>8. Stackable(left, right) <=>
        /\ left.seed = right.seed /\ left.weights = right.weights /\ L \cap R = {}
        /\ Cardinality(W) <= MaxRecords /\ Vertices(W) <= MaxVertices /\ ~Leaks(U)
  BY <1>5 DEF Stackable, U
<1>9. L \cap R = {} => Disjoint(U)
  <2>1. \A p \in Partitions : left.parts[p] \subseteq L /\ right.parts[p] \subseteq R
    BY <1>2, PartsFacts
  <2>2. \A p, q \in Partitions :
          p # q => left.parts[p] \cap left.parts[q] = {} /\ right.parts[p] \cap right.parts[q] = {}
    BY DEF Sound, Disjoint
  <2> HIDE DEF L, R
  <2>3. QED
    BY <1>3, <2>1, <2>2 DEF Disjoint
<1> HIDE DEF L, R
<1>10. IsFiniteSet(L) /\ IsFiniteSet(R) /\ IsFiniteSet(W)
  BY <1>1, <1>6, FS_Subset
<1>11. Rooted(W) /\ (DatasetFailure(Cardinality(W), W) = Passed <=> PreflightFailure(Cardinality(W), W) = Passed)
  BY <1>1, <1>6, <1>7, <1>10, TogetherValid
<1> HIDE DEF W
<1>12. /\ Cardinality(L) \in Nat /\ Cardinality(R) \in Nat /\ Cardinality(L \cap R) \in Nat /\ Cardinality(W) \in Nat
       /\ Cardinality(W) = Cardinality(L) + Cardinality(R) - Cardinality(L \cap R)
       /\ (L \cap R = {} <=> Cardinality(L \cap R) = 0)
  <2>1. IsFiniteSet(L \cap R)
    BY <1>10, FS_Intersection
  <2>2. QED
    BY <1>10, <2>1, FS_Union, FS_EmptySet, FS_CardinalityType DEF W
<1>13. Cardinality({r.id : r \in W}) = Cardinality(W)
  BY <1>11, ParentsFacts DEF Ids
<1>14. Vertices(W) \in Nat /\ MaxVertices \in Nat /\ MaxRecords \in Nat
  BY <1>1, <1>6, <1>10, VerticesAreNumbers, RecordsAssumption
<1>15. Cardinality(L) \in 1..MaxRecords
  BY <1>7, DatasetVerdict, PreflightVerdict
<1>16. both = Passed <=> L \cap R = {} /\ Cardinality(W) <= MaxRecords /\ Vertices(W) <= MaxVertices
  <2>1. both = Passed <=> /\ Cardinality(L) + Cardinality(R) \in 1..MaxRecords
                          /\ Cardinality({r.id : r \in W}) = Cardinality(L) + Cardinality(R)
                          /\ ~(Vertices(W) > MaxVertices)
    BY PreflightVerdict
  <2> HIDE DEF both
  <2>2. QED
    BY <1>12, <1>13, <1>14, <1>15, <2>1
<1>17. ASSUME both = Passed PROVE SplitFailure(U) = Passed <=> ~Leaks(U)
  <2>1. L \cap R = {} /\ Cardinality(W) = Cardinality(L) + Cardinality(R)
    BY <1>12, <1>16, <1>17
  <2>2. PreflightFailure(Cardinality(W), W) = Passed
    BY <1>17, <2>1
  <2>3. QED
    BY <1>1, <1>3, <1>5, <1>9, <1>11, <2>1, <2>2, SplitVerdict
<1> HIDE DEF both
<1>18. QED
  BY <1>4, <1>8, <1>16, <1>17

LEMMA StackKept == CuratorType /\ StackInv /\ [Curate]_curatorVars => StackInv'
<1> SUFFICES ASSUME CuratorType, StackInv, [Curate]_curatorVars PROVE StackInv'
  OBVIOUS
<1>1. splits \in Seq(Splits(made))
  BY DEF CuratorType
<1>2. ASSUME stacked' = stacked, splits' = splits PROVE StackInv'
  BY <1>2 DEF StackInv
<1>3. ASSUME NEW split, stacked' = stacked, splits' = Append(splits, split) PROVE StackInv'
  <2>1. \A i \in 1..Len(splits) : i \in 1..Len(splits') /\ splits'[i] = splits[i]
    BY <1>1, <1>3
  <2>2. \A done \in stacked' : \E i, j \in 1..Len(splits') :
          /\ i < j /\ done.of = {i, j} /\ done.result = Union(splits'[i], splits'[j])
          /\ done.verdict = StackFailure(splits'[i], splits'[j])
    <3>1. SUFFICES ASSUME NEW done \in stacked
                   PROVE  \E i, j \in 1..Len(splits') :
                            /\ i < j /\ done.of = {i, j} /\ done.result = Union(splits'[i], splits'[j])
                            /\ done.verdict = StackFailure(splits'[i], splits'[j])
      BY <1>3
    <3>2. PICK i \in 1..Len(splits), j \in 1..Len(splits) :
            /\ i < j /\ done.of = {i, j} /\ done.result = Union(splits[i], splits[j])
            /\ done.verdict = StackFailure(splits[i], splits[j])
      BY DEF StackInv
    <3>3. i \in 1..Len(splits') /\ j \in 1..Len(splits') /\ splits'[i] = splits[i] /\ splits'[j] = splits[j]
      BY <2>1
    <3>4. QED
      BY <3>2, <3>3
  <2>3. QED
    BY <2>2 DEF StackInv
<1>4. CASE RootRecord \/ RenamedRecord \/ TraversalRecord \/ FalseRecord \/ UNCHANGED curatorVars
  BY <1>2, <1>4 DEF RootRecord, RenamedRecord, TraversalRecord, Make, FalseRecord, curatorVars
<1>5. CASE Split
  BY <1>3, <1>5 DEF Split
<1>6. CASE TakeSplit
  BY <1>3, <1>6 DEF TakeSplit
<1>7. CASE Stack
  <2>1. splits' = splits
    BY <1>7 DEF Stack
  <2>2. PICK i \in DOMAIN splits, j \in DOMAIN splits :
          i < j /\ stacked' = stacked \cup {[of |-> {i, j}, verdict |-> StackFailure(splits[i], splits[j]),
                                             result |-> Union(splits[i], splits[j])]}
    BY <1>7 DEF Stack
  <2>3. i \in 1..Len(splits) /\ j \in 1..Len(splits)
    BY <1>1
  <2>4. \A done \in stacked' : \E a, b \in 1..Len(splits) :
          /\ a < b /\ done.of = {a, b} /\ done.result = Union(splits[a], splits[b])
          /\ done.verdict = StackFailure(splits[a], splits[b])
    <3>1. SUFFICES ASSUME NEW done \in stacked', done \notin stacked
                   PROVE  \E a, b \in 1..Len(splits) :
                            /\ a < b /\ done.of = {a, b} /\ done.result = Union(splits[a], splits[b])
                            /\ done.verdict = StackFailure(splits[a], splits[b])
      BY DEF StackInv
    <3>2. /\ done.of = {i, j} /\ done.result = Union(splits[i], splits[j])
          /\ done.verdict = StackFailure(splits[i], splits[j])
      BY <2>2, <3>1
    <3>3. QED
      BY <2>2, <2>3, <3>2
  <2>5. QED
    BY <2>1, <2>4 DEF StackInv
<1>8. QED
  BY <1>4, <1>5, <1>6, <1>7 DEF Curate

\* Two valid splits are stacked exactly when they agree on seed and weights,
\* share no record, stay within the limits, and no group spans partitions in
\* their union: stack_dataset_splits refuses nothing else and nothing less.
THEOREM StackVerdictAlways == DatasetSpec => []StackVerdict
<1>1. DatasetInit => StackInv
  BY DEF DatasetInit, CuratorInit, StackInv
<1>2. CuratorType /\ StackInv /\ [DatasetNext]_datasetVars => StackInv'
  <2>1. [DatasetNext]_datasetVars => [Curate]_curatorVars
    BY DEF DatasetNext, Count, Convert, Curating, datasetVars
  <2>2. QED
    BY <2>1, StackKept
<1>3. CuratorType /\ SplitsSound /\ StackInv => StackVerdict
  <2>1. SUFFICES ASSUME CuratorType, SplitsSound, StackInv, NEW done \in stacked
                 PROVE  LET left == splits[Min(done.of)]  right == splits[Max(done.of)]
                        IN (done.verdict = Passed) =
                             (/\ left.seed = right.seed /\ left.weights = right.weights
                              /\ RecordsOf(left) \cap RecordsOf(right) = {}
                              /\ Cardinality(RecordsOf(done.result)) <= MaxRecords
                              /\ Vertices(RecordsOf(done.result)) <= MaxVertices
                              /\ ~Leaks(done.result))
    BY DEF StackVerdict
  <2>2. PICK i \in 1..Len(splits), j \in 1..Len(splits) :
          /\ i < j /\ done.of = {i, j} /\ done.result = Union(splits[i], splits[j])
          /\ done.verdict = StackFailure(splits[i], splits[j])
    BY <2>1 DEF StackInv
  <2>3. splits \in Seq(Splits(made)) /\ Len(splits) \in Nat
    BY <2>1 DEF CuratorType
  <2>4. Min(done.of) = i /\ Max(done.of) = j
    <3>1. {i, j} \in SUBSET Nat /\ {i, j} \in SUBSET (1..Len(splits)) /\ {i, j} # {}
      OBVIOUS
    <3>2. Min({i, j}) \in {i, j} /\ \A x \in {i, j} : Min({i, j}) <= x
      BY <3>1, MinFacts
    <3>3. Max({i, j}) \in {i, j} /\ \A x \in {i, j} : x <= Max({i, j})
      BY <2>3, <3>1, MaxFacts
    <3>4. QED
      BY <2>2, <3>2, <3>3
  <2>5. splits[i] \in Splits(made) /\ splits[j] \in Splits(made) /\ Sound(splits[i]) /\ Sound(splits[j])
    BY <2>1, <2>3 DEF SplitsSound
  <2>6. done.verdict = Passed <=> Stackable(splits[i], splits[j])
    BY <2>1, <2>2, <2>5, StackTrue
  <2>7. QED
    BY <2>2, <2>4, <2>6 DEF Stackable
<1>4. QED
  BY <1>1, <1>2, <1>3, CuratorAlways, PTL DEF DatasetSpec

(***************************************************************************)
(* Ancestry.                                                               *)
(***************************************************************************)
Path(r, S, path, k) ==
  /\ k \in Nat \ {0} /\ path \in [1..k -> S] /\ path[1] = r
  /\ path[k].payload.kind = "root"
  /\ GraphId(path[k].payload.graph) = r.root /\ path[k].payload.graph = r.root_evidence
  /\ \A i \in 1..(k - 1) :
       path[i].payload.graph = IF path[i].payload.kind = "device_rename"
                               THEN RenameDevices(path[i + 1].payload.graph, path[i].payload.seed)
                               ELSE path[i + 1].payload.graph

\* One step of a derivation can be replayed, and brings the root no nearer by
\* less than one record.
LEMMA ParentStep ==
  ASSUME NEW S, Rooted(S), DatasetFailure(Cardinality(S), S) = Passed, NEW r \in S, r.kind # "root"
  PROVE  \E q \in S :
           /\ r.root = q.root /\ r.root_evidence = q.root_evidence
           /\ r.payload.graph = IF r.payload.kind = "device_rename"
                                THEN RenameDevices(q.payload.graph, r.payload.seed) ELSE q.payload.graph
           /\ Cardinality(Ancestry(q, S)) < Cardinality(Ancestry(r, S))
<1>1. RecordFailure(r) = Passed /\ DerivedFailure(r, S) = Passed /\ AncestryFailure(r, S) = Passed
  BY DatasetVerdict DEF Descends
<1>2. PICK q \in S : q.id = r.parent
  BY <1>1, DerivedVerdict
<1>3. /\ r.parent # None /\ r.root = q.root /\ r.root_evidence = q.root_evidence
      /\ r.payload.source = q.payload.graph
  BY <1>1, <1>2, DerivedVerdict
<1>4. r.payload.graph = IF r.payload.kind = "device_rename" THEN RenameDevices(r.payload.source, r.payload.seed)
                        ELSE r.payload.source
  BY <1>1, RecordVerdict, PayloadVerdict
<1>5. Parents(S)[r.id] = {q.id} /\ {q.id} \in SUBSET Ids(S) /\ {r.id} \in SUBSET Ids(S)
  <2>1. Parents(S)[r.id] = {r.parent} \ {None}
    BY ParentsFacts
  <2>2. {r.parent} \ {None} = {q.id}
    BY <1>2, <1>3
  <2>3. QED
    BY <2>1, <2>2 DEF Ids
<1> DEFINE up == Ancestry(q, S)
           all == Ancestry(r, S)
<1>6. /\ {r.id} \subseteq all /\ all \subseteq Ids(S) /\ \A v \in all : Parents(S)[v] \subseteq all
  BY <1>5, ParentsFacts, ReachableFacts DEF Ancestry
<1>7. \A T : {q.id} \subseteq T /\ (\A v \in T \cap Ids(S) : Parents(S)[v] \subseteq T) => up \subseteq T
  BY <1>5, ParentsFacts, ReachableFacts DEF Ancestry
<1>8. r.id \notin up
  <2>1. ~Circular(r, S)
    BY <1>1, AncestryVerdict
  <2>2. r.id \in all
    BY <1>6
  <2>3. up = Reachable(Parents(S), Parents(S)[r.id])
    BY <1>5 DEF Ancestry
  <2> HIDE DEF up
  <2>4. QED
    BY <2>1, <2>2, <2>3 DEF Circular
<1> HIDE DEF up, all
<1>9. up \subseteq all
  BY <1>5, <1>6, <1>7
<1>10. Cardinality(up) < Cardinality(all)
  <2>1. IsFiniteSet(all)
    BY <1>6, ParentsFacts, FS_Subset
  <2>2. /\ IsFiniteSet(up) /\ Cardinality(up) <= Cardinality(all)
        /\ (Cardinality(all) = Cardinality(up) => all = up)
    BY <1>9, <2>1, FS_Subset
  <2>3. up # all
    BY <1>6, <1>8
  <2>4. Cardinality(up) \in Nat /\ Cardinality(all) \in Nat
    BY <2>1, <2>2, FS_CardinalityType
  <2>5. QED
    BY <2>2, <2>3, <2>4
<1>11. QED
  BY <1>2, <1>3, <1>4, <1>10 DEF up, all

LEMMA AncestryPath ==
  ASSUME NEW S, Rooted(S), DatasetFailure(Cardinality(S), S) = Passed, NEW r \in S
  PROVE  \E k \in 1..(MaxAncestryDepth + 1) : \E path : Path(r, S, path, k)
<1> DEFINE size(q) == Cardinality(Ancestry(q, S))
           Short(q) == \E k \in 1..size(q) : \E path : Path(q, S, path, k)
           T == {m \in Nat : \A q \in S : size(q) <= m => Short(q)}
<1>1. \A q \in S : size(q) \in Nat /\ size(q) >= 1 /\ size(q) <= MaxAncestryDepth + 1
  <2>1. SUFFICES ASSUME NEW q \in S PROVE size(q) \in Nat /\ size(q) >= 1 /\ size(q) <= MaxAncestryDepth + 1
    OBVIOUS
  <2>2. {q.id} \in SUBSET Ids(S)
    BY DEF Ids
  <2>3. q.id \in Ancestry(q, S) /\ Ancestry(q, S) \subseteq Ids(S)
    BY <2>2, ParentsFacts, ReachableFacts DEF Ancestry
  <2>4. IsFiniteSet(Ancestry(q, S))
    BY <2>3, ParentsFacts, FS_Subset
  <2>5. size(q) \in Nat /\ size(q) # 0
    BY <2>3, <2>4, FS_CardinalityType, FS_EmptySet
  <2>6. ~(size(q) - 1 > MaxAncestryDepth)
    BY DatasetVerdict, AncestryVerdict
  <2>7. QED
    BY <2>5, <2>6, RecordsAssumption
<1>2. ASSUME NEW q \in S, q.kind = "root" PROVE Short(q)
  <2> DEFINE path == [i \in 1..1 |-> q]
  <2>1. RecordFailure(q) = Passed /\ RootFailure(q) = Passed
    BY <1>2, DatasetVerdict DEF Descends
  <2>2. /\ q.payload.kind = "root" /\ GraphId(q.payload.graph) = q.root /\ q.payload.graph = q.root_evidence
    BY <1>2, <2>1, RecordVerdict, RootVerdict
  <2>3. path \in [1..1 -> S] /\ path[1] = q
    OBVIOUS
  <2> HIDE DEF path
  <2>4. Path(q, S, path, 1)
    BY <2>2, <2>3 DEF Path
  <2>5. 1 \in 1..size(q)
    BY <1>1
  <2> HIDE DEF size
  <2>6. QED
    BY <2>4, <2>5
<1>3. \A m \in Nat : m \in T
  <2>1. 0 \in T
    BY <1>1
  <2>2. ASSUME NEW m \in Nat, m \in T PROVE m + 1 \in T
    <3>1. SUFFICES ASSUME NEW q \in S, size(q) <= m + 1 PROVE Short(q)
      OBVIOUS
    <3>2. CASE q.kind = "root"
      BY <1>2, <3>2
    <3>3. CASE q.kind # "root"
      <4>1. PICK p \in S :
              /\ q.root = p.root /\ q.root_evidence = p.root_evidence
              /\ q.payload.graph = IF q.payload.kind = "device_rename"
                                   THEN RenameDevices(p.payload.graph, q.payload.seed) ELSE p.payload.graph
              /\ size(p) < size(q)
        BY <3>3, ParentStep
      <4>2. size(p) \in Nat /\ size(q) \in Nat
        BY <1>1
      <4> HIDE DEF size
      <4>3. Short(p)
        BY <2>2, <3>1, <4>1, <4>2
      <4>4. PICK k \in 1..size(p) : \E path : Path(p, S, path, k)
        BY <4>3
      <4>5. PICK path : Path(p, S, path, k)
        BY <4>4
      <4> DEFINE new == [i \in 1..(k + 1) |-> IF i = 1 THEN q ELSE path[i - 1]]
      <4>6. /\ k \in Nat \ {0} /\ path \in [1..k -> S] /\ path[1] = p
            /\ path[k].payload.kind = "root"
            /\ GraphId(path[k].payload.graph) = p.root /\ path[k].payload.graph = p.root_evidence
            /\ \A i \in 1..(k - 1) :
                 path[i].payload.graph = IF path[i].payload.kind = "device_rename"
                                         THEN RenameDevices(path[i + 1].payload.graph, path[i].payload.seed)
                                         ELSE path[i + 1].payload.graph
        BY <4>5 DEF Path
      <4>7. new \in [1..(k + 1) -> S]
        BY <4>6
      <4>8. new[1] = q /\ \A i \in 1..k : new[i + 1] = path[i]
        BY <4>6
      <4> HIDE DEF new
      <4>9. \A i \in 1..k :
              new[i].payload.graph = IF new[i].payload.kind = "device_rename"
                                     THEN RenameDevices(new[i + 1].payload.graph, new[i].payload.seed)
                                     ELSE new[i + 1].payload.graph
        <5>1. SUFFICES ASSUME NEW i \in 1..k
                       PROVE  new[i].payload.graph = IF new[i].payload.kind = "device_rename"
                                                     THEN RenameDevices(new[i + 1].payload.graph, new[i].payload.seed)
                                                     ELSE new[i + 1].payload.graph
          OBVIOUS
        <5>2. CASE i = 1
          BY <4>1, <4>6, <4>8, <5>2
        <5>3. CASE i # 1
          <6>1. i - 1 \in 1..(k - 1) /\ i - 1 \in 1..k /\ (i - 1) + 1 = i
            BY <5>3
          <6>2. new[i] = path[i - 1] /\ new[i + 1] = path[i]
            BY <4>8, <6>1
          <6>3. QED
            BY <4>6, <6>1, <6>2
        <5>4. QED
          BY <5>2, <5>3
      <4>10. new[k + 1] = path[k] /\ (k + 1) - 1 = k /\ k + 1 \in Nat \ {0}
        BY <4>6, <4>8
      <4>11. Path(q, S, new, k + 1)
        BY <4>1, <4>6, <4>7, <4>8, <4>9, <4>10 DEF Path
      <4>12. k + 1 \in 1..size(q)
        BY <4>1, <4>2
      <4>13. QED
        BY <4>11, <4>12
    <3>4. QED
      BY <3>2, <3>3
  <2> HIDE DEF T
  <2>3. QED
    BY <2>1, <2>2, NaturalInduction
<1>4. Short(r)
  BY <1>1, <1>3
<1>5. size(r) \in Nat /\ size(r) <= MaxAncestryDepth + 1
  BY <1>1
<1> HIDE DEF size
<1>6. QED
  BY <1>4, <1>5, RecordsAssumption

\* Every record in a split really descends, in at most MaxAncestryDepth
\* replayable steps, from the root graph it names, wherever the record and its
\* ancestors came from: validate_graph_dataset believes no identity it did not
\* compute.
THEOREM AncestryIsTrueAlways == DatasetSpec => []AncestryIsTrue
<1>1. CuratorType /\ SplitsSound => AncestryIsTrue
  <2>1. SUFFICES ASSUME CuratorType, SplitsSound, NEW split \in Range(splits), NEW r \in RecordsOf(split)
                 PROVE  \E path \in BoundedSeq(RecordsOf(split), MaxAncestryDepth + 1) :
                          /\ path # <<>> /\ path[1] = r
                          /\ LET origin == path[Len(path)].payload
                             IN origin.kind = "root" /\ GraphId(origin.graph) = r.root /\ origin.graph = r.root_evidence
                          /\ \A i \in 1..Len(path) - 1 :
                               LET p == path[i].payload  from == path[i + 1].payload.graph
                               IN p.graph = IF p.kind = "device_rename" THEN RenameDevices(from, p.seed) ELSE from
    BY DEF AncestryIsTrue
  <2> DEFINE S == RecordsOf(split)
  <2>2. PICK i \in 1..Len(splits) : split = splits[i]
    BY <2>1 DEF Range, CuratorType
  <2>3. split \in Splits(made) /\ Sound(split)
    BY <2>1, <2>2 DEF CuratorType, SplitsSound
  <2>4. Within(split, made)
    BY <2>3 DEF Splits, Within
  <2>5. S \subseteq made /\ DatasetFailure(Cardinality(S), S) = Passed
    BY <2>3, <2>4, PartsFacts DEF Sound
  <2> HIDE DEF S
  <2>6. Rooted(S)
    BY <2>1, <2>5, ValidFacts, FS_Subset DEF CuratorType
  <2>7. r \in S
    BY DEF S
  <2>8. PICK k \in 1..(MaxAncestryDepth + 1) : \E path : Path(r, S, path, k)
    BY <2>5, <2>6, <2>7, AncestryPath
  <2>9. PICK path : Path(r, S, path, k)
    BY <2>8
  <2>10. k \in Nat \ {0} /\ path \in [1..k -> S] /\ k \in 0..(MaxAncestryDepth + 1)
    BY <2>9, RecordsAssumption DEF Path
  <2>11. path \in BoundedSeq(S, MaxAncestryDepth + 1)
    BY <2>10 DEF BoundedSeq, SeqOf
  <2>12. path # <<>> /\ Len(path) = k
    BY <2>10
  <2>13. QED
    BY <2>9, <2>11, <2>12 DEF Path, S
<1>2. QED
  BY <1>1, CuratorAlways, PTL

(***************************************************************************)
(* The counting that precedes every conversion of a payload bounds the     *)
(* payload, and the work done to find out, whatever the limits.            *)
(***************************************************************************)
\* Every count is a number and only sequences have trails.
CountType ==
  /\ kind \in Kinds
  /\ scopes \in Nat /\ owners \in Nat /\ nets \in Nat /\ edges \in Nat /\ pairs \in Nat /\ text \in Nat
  /\ trails \in Nat /\ parts \in Nat /\ pending \in Nat /\ walks \in Nat
  /\ records \in Nat /\ allVertices \in Nat /\ allEdges \in Nat /\ allPairs \in Nat /\ allText \in Nat

\* While nothing was refused: every limit holds but the one on edges, which
\* ports of a graph, and trails of a sequence until they are walked, may exceed.
ReadingInv ==
  /\ scopes <= MaxScopes /\ owners <= MaxOwners /\ nets <= MaxNets /\ pairs <= MaxPairs /\ text <= MaxText
  /\ kind # "sequence" => edges <= MaxEdges + owners /\ pending = 0 /\ walks = 0
  /\ kind = "sequence" => edges <= MaxEdges + MaxCount /\ (walks = 0 => edges <= MaxEdges) /\ (pending > 0 => walks = 0)
                           /\ pending <= MaxCount
  /\ allVertices <= MaxAllVertices /\ allEdges <= MaxAllEdges /\ allPairs <= MaxAllPairs /\ allText <= MaxAllText

CountInv == CountType /\ WorkIsBounded /\ (verdict = "reading" => ReadingInv)

\* Nothing is counted at the start.
LEMMA CountStart == Init => CountInv
  BY LimitsAssumption, SMT
  DEF Init, Cleared, CountInv, CountType, WorkIsBounded, ReadingInv, Kinds

\* Every item read keeps the books, whatever it holds.
LEMMA CountKept == CountInv /\ [Next]_vars => CountInv'
<1> SUFFICES ASSUME CountInv, [Next]_vars PROVE CountInv'
  OBVIOUS
<1> USE LimitsAssumption DEF CountInv, CountType, WorkIsBounded, ReadingInv, Kinds, Counts, Check, IsAtScopeEnd, aggregate
<1>1. ASSUME NEW ports \in Counts, NEW others \in Counts, NEW net \in Counts, NEW walk \in Counts,
             NEW pair \in Counts, NEW bytes \in Counts, ReadScope(ports, others, net, walk, pair, bytes)
      PROVE CountInv'
  BY <1>1, SMT DEF ReadScope
<1>2. ASSUME NEW terminals \in Counts, NEW parameters \in Counts, NEW bytes \in Counts,
             ReadDevice(terminals, parameters, bytes)
      PROVE CountInv'
  BY <1>2, SMT DEF ReadDevice
<1>3. ASSUME NEW connections \in Counts, NEW parameters \in Counts, NEW effective \in Counts, NEW bytes \in Counts,
              ReadInstance(connections, parameters, effective, bytes)
       PROVE CountInv'
  BY <1>3, SMT DEF ReadInstance
<1>4. ASSUME NEW parameters \in Counts, NEW effective \in Counts, NEW bytes \in Counts,
             ReadOwner(parameters, effective, bytes)
      PROVE CountInv'
  BY <1>4, SMT DEF ReadOwner
<1>5. CASE CountTrails
  BY <1>5, SMT DEF CountTrails
<1>6. ASSUME NEW steps \in Counts, NEW bytes \in Counts, ReadTrail(steps, bytes) PROVE CountInv'
  BY <1>6, SMT DEF ReadTrail
<1>7. ASSUME NEW entries \in Counts, NEW bytes \in Counts, ReadManifest(entries, bytes) PROVE CountInv'
  BY <1>7, SMT DEF ReadManifest
<1>8. CASE CountPayload
  BY <1>8, SMT DEF CountPayload, Clear
<1>9. CASE UNCHANGED vars
  BY <1>9, SMT DEF vars, payload
<1>10. QED
  BY <1>1, <1>2, <1>3, <1>4, <1>5, <1>6, <1>7, <1>8, <1>9 DEF Next

LEMMA CountAlways == DatasetSpec => []CountInv
<1>1. DatasetInit => CountInv
  BY CountStart DEF DatasetInit
<1>2. CountInv /\ [DatasetNext]_datasetVars => CountInv'
  <2> SUFFICES ASSUME CountInv, [DatasetNext]_datasetVars PROVE CountInv'
    OBVIOUS
  <2>1. CASE Count
    BY <2>1, CountKept DEF Count
  <2>2. CASE Convert
    BY <2>2, LimitsAssumption, SMT
    DEF Convert, Clear, CountInv, CountType, WorkIsBounded, ReadingInv, Kinds
  <2>3. CASE Curating \/ UNCHANGED datasetVars
    <3>1. UNCHANGED vars
      BY <2>3 DEF Curating, datasetVars
    <3>2. QED
      BY <3>1, CountKept
  <2>4. QED
    BY <2>1, <2>2, <2>3 DEF DatasetNext
<1>3. QED
  BY <1>1, <1>2, PTL DEF DatasetSpec

\* A payload read to the end is within every limit, up to its ports.
THEOREM PayloadIsBoundedAlways == DatasetSpec => []PayloadIsBounded
<1>1. CountInv => PayloadIsBounded
  BY LimitsAssumption, SMT DEF CountInv, CountType, ReadingInv, PayloadIsBounded, IsCounted, IsAtScopeEnd
<1>2. QED
  BY <1>1, CountAlways, PTL

\* Refusals come at most one item late.
THEOREM WorkIsBoundedAlways == DatasetSpec => []WorkIsBounded
<1>1. CountInv => WorkIsBounded
  BY DEF CountInv
<1>2. QED
  BY <1>1, CountAlways, PTL
=============================================================================
