----------------------------- MODULE ResultProofs -----------------------------
(***************************************************************************)
(* What is done with a circuit once there is one.  The ranking, for any    *)
(* candidates: the peeled fronts are the lengths of the longest chains.    *)
(* The output layer, for any set of processes: the protected input stays,  *)
(* what a process reports is true, and the destination is exchanged        *)
(* atomically (AtomicWrite implements OutputFile).  The layout             *)
(* constraints, for any report: a document is accepted exactly when its    *)
(* orders and alignments can be placed, in whichever order it is written.  *)
(***************************************************************************)
EXTENDS AtomicWrite, Rank, LayoutInference, Foundations, SequenceTheorems
(***************************************************************************)
(* Orders on a finite set, and the order of the sort keys.                 *)
(***************************************************************************)

\* A finite set has a last element in every order that is transitive and total.
LEMMA LastOfOrder ==
  ASSUME NEW S, IsFiniteSet(S), S # {}, NEW R,
         \A x, y \in S : x = y \/ <<x, y>> \in R \/ <<y, x>> \in R,
         \A x, y, z \in S : <<x, y>> \in R /\ <<y, z>> \in R => <<x, z>> \in R
  PROVE  \E e \in S : \A d \in S \ {e} : <<d, e>> \in R
<1> DEFINE F == {A \in SUBSET S : A = {} \/ \E e \in A : \A d \in A \ {e} : <<d, e>> \in R}
<1>1. {} \in F
  OBVIOUS
<1>2. ASSUME NEW A \in SUBSET S, NEW x \in S \ A, A \in F PROVE A \cup {x} \in F
  <2>1. CASE A = {}
    <3>1. A \cup {x} = {x}
      BY <2>1
    <3>2. \A d \in {x} \ {x} : <<d, x>> \in R
      OBVIOUS
    <3>3. QED
      BY <3>1, <3>2
  <2>2. CASE A # {}
    <3>1. PICK e \in A : \A d \in A \ {e} : <<d, e>> \in R
      BY <1>2, <2>2
    <3>2. CASE <<e, x>> \in R
      <4>1. \A d \in (A \cup {x}) \ {x} : <<d, x>> \in R
        BY <3>1, <3>2
      <4>2. QED
        BY <4>1
    <3>3. CASE <<x, e>> \in R
      <4>1. \A d \in (A \cup {x}) \ {e} : <<d, e>> \in R
        BY <3>1, <3>3
      <4>2. QED
        BY <4>1
    <3>4. QED
      BY <3>1, <3>2, <3>3
  <2>3. QED
    BY <2>1, <2>2
<1>3. S \in F
  <2> HIDE DEF F
  <2>1. QED
    BY <1>1, <1>2, FiniteSetInduction
<1>4. QED
  BY <1>3

\* The comparison of two keys of the same length.
SortKeys == [1..8 -> Nat]
Lower(p, q) == \E i \in 1..8 : p[i] < q[i] /\ \A j \in 1..(i - 1) : p[j] = q[j]

LEMMA LowerIsOrder ==
  ASSUME NEW p \in SortKeys, NEW q \in SortKeys, NEW r \in SortKeys
  PROVE  /\ p[8] # q[8] => Lower(p, q) \/ Lower(q, p)
         /\ ~Lower(p, p)
         /\ Lower(p, q) /\ Lower(q, r) => Lower(p, r)
<1>1. \A i \in 1..8 : p[i] \in Nat /\ q[i] \in Nat /\ r[i] \in Nat
  BY DEF SortKeys
<1>2. ASSUME p[8] # q[8] PROVE Lower(p, q) \/ Lower(q, p)
  <2> DEFINE D == {i \in 1..8 : p[i] # q[i]}
  <2>1. PICK i \in D : \A j \in D : i <= j
    <3>1. D \in SUBSET Nat /\ 8 \in D
      BY <1>2
    <3> HIDE DEF D
    <3>2. QED
      BY <3>1, LeastNatural
  <2>2. \A j \in 1..(i - 1) : p[j] = q[j]
    <3>1. SUFFICES ASSUME NEW j \in 1..(i - 1), p[j] # q[j] PROVE FALSE
      OBVIOUS
    <3>2. j \in D
      BY <3>1
    <3>3. QED
      BY <2>1, <3>1, <3>2
  <2>3. p[i] < q[i] \/ q[i] < p[i]
    BY <1>1, <2>1
  <2>4. QED
    BY <2>2, <2>3 DEF Lower
<1>3. ~Lower(p, p)
  BY <1>1 DEF Lower
<1>4. ASSUME Lower(p, q), Lower(q, r) PROVE Lower(p, r)
  <2>1. PICK i \in 1..8 : p[i] < q[i] /\ \A j \in 1..(i - 1) : p[j] = q[j]
    BY <1>4 DEF Lower
  <2>2. PICK k \in 1..8 : q[k] < r[k] /\ \A j \in 1..(k - 1) : q[j] = r[j]
    BY <1>4 DEF Lower
  <2>3. CASE i <= k
    <3>1. p[i] < r[i]
      <4>1. CASE i = k
        BY <1>1, <2>1, <2>2, <4>1
      <4>2. CASE i < k
        <5>1. q[i] = r[i]
          BY <2>2, <4>2
        <5>2. QED
          BY <2>1, <5>1
      <4>3. QED
        BY <2>3, <4>1, <4>2
    <3>2. \A j \in 1..(i - 1) : p[j] = r[j]
      BY <2>1, <2>2, <2>3
    <3>3. QED
      BY <3>1, <3>2 DEF Lower
  <2>4. CASE k < i
    <3>1. p[k] = q[k]
      BY <2>1, <2>4
    <3>2. p[k] < r[k] /\ \A j \in 1..(k - 1) : p[j] = r[j]
      BY <2>1, <2>2, <2>4, <3>1
    <3>3. QED
      BY <3>2 DEF Lower
  <2>5. QED
    BY <2>3, <2>4
<1>5. QED
  BY <1>2, <1>3, <1>4

-----------------------------------------------------------------------------
(***************************************************************************)
(* The ranking, candidate by candidate.                                    *)
(***************************************************************************)
Ranking == [signature : Signatures, pareto_rank : Nat, score : Nat]

\* The values the variables take; the candidates never change.
RankTypeOK ==
  /\ objectives \in [Weighted -> Nat]
  /\ DOMAIN candidates \in SUBSET Signatures /\ candidates \in [DOMAIN candidates -> [Axes -> Nat]]
  /\ remaining \subseteq DOMAIN candidates
  /\ ranked \in Seq(Ranking) /\ front_number \in Nat

LEMMA CandidatesAreFew ==
  ASSUME RankTypeOK
  PROVE  /\ IsFiniteSet(DOMAIN candidates)
         /\ \A S \in SUBSET DOMAIN candidates :
              IsFiniteSet(S) /\ Cardinality(S) \in Nat /\ Cardinality(S) <= Cardinality(DOMAIN candidates)
<1>1. IsFiniteSet(DOMAIN candidates)
  BY RankAssumption, FS_Subset DEF RankTypeOK
<1>2. QED
  BY <1>1, FS_Subset, FS_CardinalityType

LEMMA ScoreIsNatural ==
  ASSUME NEW w \in [Weighted -> Nat], NEW m \in [Axes -> Nat] PROVE Score(w, m) \in Nat
<1>1. \A a \in Weighted : w[a] \in Nat /\ m[a] \in Nat
  BY DEF Weighted
<1>2. \A x, y \in Nat : x * y \in Nat /\ x + y \in Nat
  OBVIOUS
<1>3. {"device_count", "headroom_units", "passive_count", "symmetry_penalty", "review_warnings"} \subseteq Weighted
  BY DEF Weighted, Axes
<1> DEFINE p(a) == m[a] * w[a]
<1>4. /\ p("device_count") \in Nat /\ p("headroom_units") \in Nat /\ p("symmetry_penalty") \in Nat
      /\ p("passive_count") \in Nat /\ p("review_warnings") \in Nat
  BY <1>1, <1>2, <1>3
<1>5. Score(w, m) = p("device_count") + p("headroom_units") + p("symmetry_penalty")
                      + p("passive_count") + p("review_warnings")
  BY DEF Score
<1> HIDE DEF p
<1>6. QED
  BY <1>4, <1>5

LEMMA BeforeIsOrder ==
  ASSUME RankTypeOK, NEW c \in DOMAIN candidates, NEW d \in DOMAIN candidates, NEW e \in DOMAIN candidates
  PROVE  /\ c = d \/ Before(c, d) \/ Before(d, c)
         /\ ~Before(c, c)
         /\ Before(c, d) /\ Before(d, e) => Before(c, e)
<1>1. ASSUME NEW x \in DOMAIN candidates PROVE SortKey(x) \in SortKeys /\ SortKey(x)[8] = x
  <2> DEFINE m == candidates[x]
             s == Score(objectives, m)
  <2>1. m \in [Axes -> Nat] /\ x \in Nat /\ s \in Nat
    BY ScoreIsNatural, RankAssumption DEF RankTypeOK
  <2>2. /\ m["device_count"] \in Nat /\ m["headroom_units"] \in Nat /\ m["passive_count"] \in Nat
        /\ m["symmetry_penalty"] \in Nat /\ m["review_warnings"] \in Nat /\ m["stage_count"] \in Nat
    BY <2>1 DEF Axes
  <2>3. SortKey(x) = <<s, m["device_count"], m["headroom_units"], m["passive_count"],
                       m["symmetry_penalty"], m["review_warnings"], m["stage_count"], x>>
    BY DEF SortKey
  <2> HIDE DEF s, m
  <2>4. QED
    BY <2>1, <2>2, <2>3 DEF SortKeys
<1>2. ASSUME NEW x \in DOMAIN candidates, NEW y \in DOMAIN candidates
      PROVE  Before(x, y) = Lower(SortKey(x), SortKey(y))
  <2>1. DOMAIN SortKey(x) = 1..8
    BY <1>1 DEF SortKeys
  <2>2. QED
    BY <2>1 DEF Before, Lower
<1>3. QED
  BY <1>1, <1>2, LowerIsOrder

\* A front of n candidates is a list of n candidates.
LEMMA InOrderFacts ==
  ASSUME RankTypeOK, NEW S \in SUBSET DOMAIN candidates
  PROVE  /\ InOrder(S) \in Seq(S) /\ Len(InOrder(S)) = Cardinality(S)
         /\ \A i, j \in 1..Cardinality(S) : i < j => Before(InOrder(S)[i], InOrder(S)[j])
<1> DEFINE Sorted(A, n, list) ==
             list \in [1..n -> A] /\ \A i, j \in 1..n : i < j => Before(list[i], list[j])
           T == {n \in Nat : \A A \in SUBSET DOMAIN candidates : Cardinality(A) = n => \E list : Sorted(A, n, list)}
<1>1. 0 \in T
  <2>1. ASSUME NEW A \in SUBSET DOMAIN candidates, Cardinality(A) = 0 PROVE \E list : Sorted(A, 0, list)
    <3> DEFINE list == [i \in 1..0 |-> CHOOSE x \in A : TRUE]
    <3>1. Sorted(A, 0, list)
      OBVIOUS
    <3>2. QED
      BY <3>1
  <2>2. QED
    BY <2>1
<1>2. ASSUME NEW n \in Nat, n \in T PROVE n + 1 \in T
  <2>1. SUFFICES ASSUME NEW A \in SUBSET DOMAIN candidates, Cardinality(A) = n + 1
                 PROVE  \E list : Sorted(A, n + 1, list)
    OBVIOUS
  <2>2. IsFiniteSet(A) /\ A # {}
    BY <2>1, CandidatesAreFew, FS_EmptySet
  <2>3. PICK e \in A : \A d \in A \ {e} : Before(d, e)
    <3> DEFINE R == {pair \in A \X A : Before(pair[1], pair[2])}
    <3>1. \A x, y \in A : x = y \/ <<x, y>> \in R \/ <<y, x>> \in R
      BY BeforeIsOrder
    <3>2. \A x, y, z \in A : <<x, y>> \in R /\ <<y, z>> \in R => <<x, z>> \in R
      BY BeforeIsOrder
    <3>3. \A x, y \in A : <<x, y>> \in R => Before(x, y)
      OBVIOUS
    <3> HIDE DEF R
    <3>4. PICK e \in A : \A d \in A \ {e} : <<d, e>> \in R
      BY <2>2, <3>1, <3>2, LastOfOrder
    <3>5. QED
      BY <3>3, <3>4
  <2>4. Cardinality(A \ {e}) = n
    BY <2>1, <2>2, FS_RemoveElement
  <2>5. PICK list : Sorted(A \ {e}, n, list)
    BY <1>2, <2>4
  <2> DEFINE longer == [i \in 1..(n + 1) |-> IF i = n + 1 THEN e ELSE list[i]]
  <2>6. /\ \A i \in 1..n : list[i] \in A \ {e} /\ longer[i] = list[i]
        /\ longer[n + 1] = e /\ \A i \in 1..(n + 1) : i \in 1..n \/ i = n + 1
    BY <2>5
  <2>7. longer \in [1..(n + 1) -> A]
    BY <2>6
  <2> HIDE DEF longer
  <2>8. ASSUME NEW i \in 1..(n + 1), NEW j \in 1..(n + 1), i < j PROVE Before(longer[i], longer[j])
    <3>1. i \in 1..n
      BY <2>8
    <3>2. CASE j \in 1..n
      BY <2>5, <2>6, <2>8, <3>1, <3>2
    <3>3. CASE j = n + 1
      BY <2>3, <2>6, <3>1, <3>3
    <3>4. QED
      BY <2>6, <3>2, <3>3
  <2>9. QED
    BY <2>7, <2>8
<1>3. \A n \in Nat : n \in T
  <2> HIDE DEF T
  <2>1. QED
    BY <1>1, <1>2, NaturalInduction
<1>4. Cardinality(S) \in T
  BY <1>3, CandidatesAreFew
<1> DEFINE n == Cardinality(S)
<1>5. PICK list : Sorted(S, n, list)
  BY <1>4
<1>6. \E list1 \in [1..n -> S] : \A i, j \in DOMAIN list1 : i < j => Before(list1[i], list1[j])
  BY <1>5
<1> DEFINE f == InOrder(S)
<1>7. f \in [1..n -> S] /\ \A i, j \in DOMAIN f : i < j => Before(f[i], f[j])
  BY <1>6, Zenon DEF InOrder
<1>8. n \in Nat
  BY CandidatesAreFew
<1> HIDE DEF f, n
<1>9. f \in Seq(S) /\ Len(f) = n
  BY <1>7, <1>8
<1>10. QED
  BY <1>7, <1>9 DEF f, n

\* Domination is a strict order, so a chain has a candidate below all others.
LEMMA DominatesIsOrder ==
  ASSUME NEW x \in [Axes -> Nat], NEW y \in [Axes -> Nat], NEW z \in [Axes -> Nat]
  PROVE  ~Dominates(x, x) /\ (Dominates(x, y) /\ Dominates(y, z) => Dominates(x, z))
<1>1. \A a \in Axes : x[a] \in Nat /\ y[a] \in Nat /\ z[a] \in Nat
  OBVIOUS
<1>2. ~Dominates(x, x)
  BY <1>1 DEF Dominates
<1>3. ASSUME Dominates(x, y), Dominates(y, z) PROVE Dominates(x, z)
  <2>1. \A a \in Axes : x[a] <= y[a] /\ y[a] <= z[a]
    BY <1>3 DEF Dominates
  <2>2. \A a \in Axes : x[a] <= z[a]
    BY <1>1, <2>1
  <2>3. PICK a \in Axes : x[a] < y[a]
    BY <1>3 DEF Dominates
  <2>4. x[a] < z[a]
    BY <1>1, <2>1, <2>3
  <2>5. QED
    BY <2>2, <2>4 DEF Dominates
<1>4. QED
  BY <1>2, <1>3

Above(d, c) == Dominates(candidates[d], candidates[c])
IsChain(S) == \A d, e \in S : d = e \/ Above(d, e) \/ Above(e, d)

LEMMA AboveIsOrder ==
  ASSUME RankTypeOK, NEW c \in DOMAIN candidates, NEW d \in DOMAIN candidates, NEW e \in DOMAIN candidates
  PROVE  ~Above(c, c) /\ (Above(c, d) /\ Above(d, e) => Above(c, e))
BY DominatesIsOrder DEF RankTypeOK, Above

LEMMA ChainBottom ==
  ASSUME RankTypeOK, NEW S \in SUBSET DOMAIN candidates, S # {}, IsChain(S)
  PROVE  \E e \in S : \A d \in S \ {e} : Above(d, e)
<1> DEFINE R == {pair \in S \X S : Above(pair[1], pair[2])}
<1>1. \A x, y \in S : x = y \/ <<x, y>> \in R \/ <<y, x>> \in R
  BY DEF IsChain
<1>2. \A x, y, z \in S : <<x, y>> \in R /\ <<y, z>> \in R => <<x, z>> \in R
  BY AboveIsOrder
<1>3. \A x, y \in S : <<x, y>> \in R => Above(x, y)
  OBVIOUS
<1>4. IsFiniteSet(S)
  BY CandidatesAreFew
<1> HIDE DEF R
<1>5. PICK e \in S : \A d \in S \ {e} : <<d, e>> \in R
  BY <1>1, <1>2, <1>4, LastOfOrder
<1>6. QED
  BY <1>3, <1>5

LEMMA ChainFacts ==
  ASSUME RankTypeOK, NEW c \in DOMAIN candidates
  PROVE  /\ ChainLength(c) \in Nat
         /\ \E S \in SUBSET DOMAIN candidates :
              IsChain(S) /\ (\A d \in S : Above(d, c)) /\ Cardinality(S) = ChainLength(c)
         /\ \A S \in SUBSET DOMAIN candidates :
              IsChain(S) /\ (\A d \in S : Above(d, c)) => Cardinality(S) <= ChainLength(c)
<1> DEFINE n == Cardinality(DOMAIN candidates)
           K == {Cardinality(S) : S \in ChainsAbove(c)}
<1>1. \A S : S \in ChainsAbove(c) <=> S \in SUBSET DOMAIN candidates /\ IsChain(S) /\ \A d \in S : Above(d, c)
  BY DEF ChainsAbove, IsChain, Above
<1>2. n \in Nat
  BY CandidatesAreFew
<1>3. K \subseteq 0..n
  BY <1>1, <1>2, CandidatesAreFew
<1>4. Cardinality({}) \in K
  <2>1. {} \in ChainsAbove(c)
    BY <1>1 DEF IsChain
  <2>2. QED
    BY <2>1
<1>5. ChainLength(c) = Max(K)
  BY DEF ChainLength
<1> HIDE DEF n
<1>6. Max(K) \in K /\ \A x \in K : x <= Max(K)
  <2> HIDE DEF K
  <2>1. K \in SUBSET (0..n) /\ K # {}
    BY <1>3, <1>4
  <2>2. QED
    BY <1>2, <2>1, MaxFromZero
<1>7. QED
  BY <1>1, <1>2, <1>3, <1>5, <1>6

\* While the fronts removed are those of the shorter chains, the next front is
\* that of the chains of its number.
LEMMA FrontIsALength ==
  ASSUME RankTypeOK, remaining = {c \in DOMAIN candidates : ChainLength(c) >= front_number}
  PROVE  NonDominated = {c \in remaining : ChainLength(c) = front_number}
<1> DEFINE k == front_number
<1>1. k \in Nat
  BY DEF RankTypeOK
<1>2. \A c : c \in NonDominated <=> c \in remaining /\ \A o \in remaining \ {c} : ~Above(o, c)
  BY DEF NonDominated, Above
<1> HIDE DEF k
<1>3. ASSUME NEW c \in remaining, ChainLength(c) = k, NEW o \in remaining \ {c}, Above(o, c) PROVE FALSE
  <2>1. c \in DOMAIN candidates /\ o \in DOMAIN candidates /\ ChainLength(o) >= k
    BY DEF k
  <2>2. PICK S \in SUBSET DOMAIN candidates :
               IsChain(S) /\ (\A d \in S : Above(d, o)) /\ Cardinality(S) = ChainLength(o)
    BY <2>1, ChainFacts
  <2>3. IsChain(S \cup {o})
    BY <2>2 DEF IsChain
  <2>4. \A d \in S \cup {o} : Above(d, c)
    BY <1>3, <2>1, <2>2, AboveIsOrder
  <2>5. o \notin S
    BY <2>1, <2>2, AboveIsOrder
  <2>6. Cardinality(S \cup {o}) = Cardinality(S) + 1
    BY <2>5, CandidatesAreFew, FS_AddElement
  <2>7. Cardinality(S \cup {o}) <= ChainLength(c)
    <3>1. S \cup {o} \in SUBSET DOMAIN candidates
      BY <2>1
    <3>2. QED
      BY <2>1, <2>3, <2>4, <3>1, ChainFacts
  <2>8. QED
    BY <1>1, <1>3, <2>1, <2>2, <2>6, <2>7, ChainFacts
<1>4. ASSUME NEW c \in remaining, ChainLength(c) # k PROVE \E o \in remaining \ {c} : Above(o, c)
  <2>1. c \in DOMAIN candidates /\ ChainLength(c) >= k + 1
    BY <1>1, <1>4, ChainFacts DEF k
  <2>2. PICK S \in SUBSET DOMAIN candidates :
               IsChain(S) /\ (\A d \in S : Above(d, c)) /\ Cardinality(S) = ChainLength(c)
    BY <2>1, ChainFacts
  <2>3. IsFiniteSet(S) /\ S # {}
    BY <1>1, <2>1, <2>2, CandidatesAreFew, FS_EmptySet
  <2>4. PICK e \in S : \A d \in S \ {e} : Above(d, e)
    BY <2>2, <2>3, ChainBottom
  <2>5. e \in DOMAIN candidates /\ S \ {e} \in SUBSET DOMAIN candidates /\ IsChain(S \ {e})
    BY <2>2 DEF IsChain
  <2>6. Cardinality(S \ {e}) = ChainLength(c) - 1
    BY <2>2, <2>3, FS_RemoveElement
  <2>7. Cardinality(S \ {e}) <= ChainLength(e)
    BY <2>4, <2>5, ChainFacts
  <2>8. ChainLength(e) >= k
    BY <1>1, <2>1, <2>5, <2>6, <2>7, ChainFacts
  <2>9. e \in remaining /\ Above(e, c)
    BY <2>2, <2>5, <2>8 DEF k
  <2>10. e # c
    BY <2>1, <2>9, AboveIsOrder
  <2>11. QED
    BY <2>9, <2>10
<1>5. QED
  BY <1>2, <1>3, <1>4 DEF k

RankInv == RankTypeOK /\ RankIsChainLength

LEMMA RankStart == RankInit => RankInv
<1> SUFFICES ASSUME RankInit PROVE RankInv
  OBVIOUS
<1>1. PICK S \in SUBSET Signatures : candidates \in [S -> Metrics]
  BY DEF RankInit
<1>2. RankTypeOK
  <2>1. objectives \in [Weighted -> Nat]
    BY RankAssumption DEF RankInit
  <2>2. DOMAIN candidates = S /\ candidates \in [S -> [Axes -> Nat]]
    BY <1>1, RankAssumption
  <2>3. remaining = DOMAIN candidates /\ ranked = <<>> /\ front_number = 0
    BY DEF RankInit
  <2>4. ranked \in Seq(Ranking)
    BY <2>3
  <2>5. QED
    BY <2>1, <2>2, <2>3, <2>4 DEF RankTypeOK
<1>3. remaining = DOMAIN candidates /\ Len(ranked) = 0 /\ DOMAIN ranked = {} /\ front_number = 0
  BY DEF RankInit
<1>4. \A c \in DOMAIN candidates : ChainLength(c) >= 0
  BY <1>2, ChainFacts
<1>5. Cardinality(DOMAIN candidates) \in Nat
  BY <1>2, CandidatesAreFew
<1>6. remaining = {c \in DOMAIN candidates : ChainLength(c) >= front_number}
  BY <1>3, <1>4
<1>7. Len(ranked) + Cardinality(remaining) = Cardinality(DOMAIN candidates)
  BY <1>3, <1>5
<1>8. RankIsChainLength
  BY <1>3, <1>6, <1>7 DEF RankIsChainLength
<1>9. QED
  BY <1>2, <1>8 DEF RankInv

LEMMA RankKept == RankInv /\ [Peel]_rankVars => RankInv'
<1> SUFFICES ASSUME RankInv, [Peel]_rankVars PROVE RankInv'
  OBVIOUS
<1>1. CASE UNCHANGED rankVars
  <2>1. \A c : ChainLength(c)' = ChainLength(c)
    BY <1>1 DEF rankVars, ChainLength, ChainsAbove
  <2>2. RankTypeOK'
    BY <1>1 DEF rankVars, RankInv, RankTypeOK
  <2>3. RankIsChainLength'
    BY <1>1, <2>1 DEF rankVars, RankInv, RankIsChainLength
  <2>4. QED
    BY <2>2, <2>3 DEF RankInv
<1>2. CASE Peel
  <2> DEFINE F == NonDominated
             front == InOrder(F)
             entry(c) == [signature |-> c, pareto_rank |-> front_number, score |-> Score(objectives, candidates[c])]
             added == [i \in DOMAIN front |-> entry(front[i])]
             n == Cardinality(F)
  <2>1. /\ ranked' = ranked \o added /\ remaining' = remaining \ F
        /\ front_number' = front_number + 1 /\ objectives' = objectives /\ candidates' = candidates
    BY <1>2 DEF Peel
  <2>2. RankTypeOK /\ RankIsChainLength
    BY DEF RankInv
  <2>3. F = {c \in remaining : ChainLength(c) = front_number} /\ F \in SUBSET remaining
    <3>1. remaining = {c \in DOMAIN candidates : ChainLength(c) >= front_number}
      BY <2>2 DEF RankIsChainLength
    <3>2. F = {c \in remaining : ChainLength(c) = front_number}
      BY <2>2, <3>1, FrontIsALength
    <3>3. QED
      BY <3>2
  <2>4. F \in SUBSET DOMAIN candidates /\ n \in Nat
    BY <2>2, <2>3, CandidatesAreFew DEF RankTypeOK
  <2>5. front \in Seq(F) /\ Len(front) = n
    BY <2>2, <2>4, InOrderFacts
  <2>6. \A c \in F : entry(c) \in Ranking /\ entry(c).signature = c /\ entry(c).pareto_rank = front_number
    BY <2>2, <2>4, ScoreIsNatural DEF RankTypeOK, Ranking
  <2> HIDE DEF F, front, entry
  <2>7. added \in Seq(Ranking) /\ Len(added) = n /\ \A i \in 1..n : front[i] \in F /\ added[i] = entry(front[i])
    <3>1. DOMAIN front = 1..n /\ \A i \in 1..n : front[i] \in F
      BY <2>4, <2>5
    <3> DEFINE e == [i \in 1..n |-> entry(front[i])]
    <3>2. e \in [1..n -> Ranking]
      BY <2>6, <3>1
    <3>3. added = e
      BY <3>1
    <3> HIDE DEF e, n
    <3>4. e \in Seq(Ranking) /\ Len(e) = n
      BY <2>4, <3>2
    <3> USE DEF e
    <3>5. \A i \in 1..n : e[i] = entry(front[i])
      OBVIOUS
    <3> HIDE DEF e
    <3>6. QED
      BY <3>1, <3>3, <3>4, <3>5
  <2> HIDE DEF added
  <2> DEFINE m == Len(ranked)
             list == ranked \o added
  <2>8. ranked \in Seq(Ranking) /\ m \in Nat /\ DOMAIN ranked = 1..m
    BY <2>2, LenProperties DEF RankTypeOK
  <2>9. /\ list \in Seq(Ranking) /\ Len(list) = m + n
        /\ \A i \in 1..(m + n) : list[i] = IF i <= m THEN ranked[i] ELSE added[i - m]
    <3> HIDE DEF n
    <3>1. ranked \in Seq(Ranking) /\ added \in Seq(Ranking) /\ m = Len(ranked) /\ n = Len(added)
      BY <2>7, <2>8
    <3> HIDE DEF m
    <3>2. QED
      BY <3>1, ConcatProperties
  <2>10. RankTypeOK'
    BY <2>1, <2>2, <2>9 DEF RankTypeOK
  <2> HIDE DEF list, n
  <2>11. \A i \in DOMAIN list : list[i].pareto_rank = ChainLength(list[i].signature)
    <3>1. SUFFICES ASSUME NEW i \in 1..(m + n) PROVE list[i].pareto_rank = ChainLength(list[i].signature)
      BY <2>9, LenProperties
    <3>2. CASE i <= m
      <4>1. i \in DOMAIN ranked /\ list[i] = ranked[i]
        BY <2>4, <2>8, <2>9, <3>2
      <4>2. QED
        BY <2>2, <4>1 DEF RankIsChainLength
    <3>3. CASE i > m
      <4> DEFINE j == i - m
      <4>1. j \in 1..n /\ list[i] = added[j]
        BY <2>4, <2>8, <2>9, <3>3
      <4> HIDE DEF j
      <4>2. list[i] = entry(front[j]) /\ front[j] \in F
        BY <2>7, <4>1
      <4>3. ChainLength(front[j]) = front_number
        BY <2>3, <4>2
      <4>4. QED
        BY <2>6, <4>2, <4>3
    <3>4. QED
      BY <2>4, <2>8, <3>2, <3>3
  <2>12. remaining' = {c \in DOMAIN candidates : ChainLength(c) >= front_number + 1}
    <3>1. remaining = {c \in DOMAIN candidates : ChainLength(c) >= front_number} /\ front_number \in Nat
      BY <2>2 DEF RankIsChainLength, RankTypeOK
    <3>2. \A c \in DOMAIN candidates : ChainLength(c) \in Nat
      BY <2>2, ChainFacts
    <3> DEFINE L(c) == ChainLength(c)
    <3>3. \A c \in DOMAIN candidates : L(c) >= front_number /\ L(c) # front_number <=> L(c) >= front_number + 1
      BY <3>1, <3>2
    <3>4. QED
      BY <2>1, <2>3, <3>1, <3>3
  <2>13. Cardinality(remaining') = Cardinality(remaining) - n /\ Cardinality(remaining) \in Nat
    <3>1. IsFiniteSet(remaining) /\ IsFiniteSet(F)
      BY <2>2, <2>4, CandidatesAreFew DEF RankTypeOK
    <3>2. F \cap remaining = F /\ remaining \cap F = F
      BY <2>3
    <3>3. Cardinality(remaining \ F) = Cardinality(remaining) - Cardinality(remaining \cap F)
      BY <3>1, FS_Difference
    <3>4. QED
      BY <2>1, <3>1, <3>2, <3>3, FS_CardinalityType DEF n
  <2>14. Len(list) + Cardinality(remaining') = Cardinality(DOMAIN candidates)
    BY <2>2, <2>4, <2>8, <2>9, <2>13 DEF RankIsChainLength
  <2>15. \A c : ChainLength(c)' = ChainLength(c)
    BY <2>1 DEF ChainLength, ChainsAbove
  <2>16. ranked' = list /\ candidates' = candidates /\ front_number' = front_number + 1
    BY <2>1 DEF list
  <2> HIDE DEF m
  <2>17. RankIsChainLength'
    BY <2>11, <2>12, <2>14, <2>15, <2>16 DEF RankIsChainLength
  <2>18. QED
    BY <2>10, <2>17 DEF RankInv
<1>3. QED
  BY <1>1, <1>2

(***************************************************************************)
(* RankIsChainLength: for any candidates, the front a candidate is peeled  *)
(* with is the length of the longest chain of candidates above it, and     *)
(* every candidate is ranked once.                                         *)
(***************************************************************************)
THEOREM RankAlwaysChainLength == RankSpec => []RankIsChainLength
<1>1. RankInv => RankIsChainLength
  BY DEF RankInv
<1>2. QED
  BY <1>1, RankStart, RankKept, PTL DEF RankSpec
-----------------------------------------------------------------------------
(***************************************************************************)
(* The inductive invariant, by what a process knows at each system call.   *)
(***************************************************************************)

\* Whoever passed the alias check writes to the output path, not the input.
TargetsOutput ==
  \A w \in Writers : at[w] \in {"write", "publish", "finally"} => target[w] = "out"

\* A process reports only when it is past its last system call on the output.
UndecidedUntilPublish ==
  \A w \in Writers : at[w] \in {"check", "write", "publish"} => outcome[w] = "none"

\* A temporary name holds its own inode; before mkstemp, and after the finally
\* clause, it holds nothing.
TemporariesAreOwn ==
  \A w \in Writers :
    /\ directory[w] \in {w, Nothing}
    /\ at[w] \in {"check", "ended"} => directory[w] = Nothing

\* A text is complete before it is published, and stays so: its process has no
\* write left to do.  The two files that are no process's were always complete.
PublishedIsFull ==
  /\ content[Input] = "full" /\ content[Old] = "full"
  /\ \A w \in Writers :
       /\ at[w] = "publish" => content[w] = "full"
       /\ directory["out"] = w => content[w] = "full" /\ outcome[w] = "ok"

\* A publication without --force stays until a forced process publishes.
UnforcedStays ==
  \A w \in Writers :
    outcome[w] = "ok" /\ ~forced[w] /\ ~(\E v \in Writers : forced[v] /\ outcome[v] = "ok")
      => directory["out"] = w

Inv ==
  /\ TypeOK
  /\ directory["in"] = Input
  /\ TargetsOutput
  /\ UndecidedUntilPublish
  /\ TemporariesAreOwn
  /\ PublishedIsFull
  /\ UnforcedStays

-----------------------------------------------------------------------------
\* The names and inodes of distinct things are distinct.
LEMMA NameFacts ==
  /\ "in" \in Names /\ "out" \in Names /\ Input \in Inodes /\ Old \in Inodes
  /\ Input # Nothing /\ Old # Nothing
  /\ \A n \in Names : n \in Writers \/ n = "in" \/ n = "out"
  /\ \A w \in Writers : /\ w \in Names /\ w # "in" /\ w # "out"
                        /\ w \in Inodes /\ w # Input /\ w # Old /\ w # Nothing
BY FreshAssumption DEF FreshAssumption, Names, Inodes

LEMMA InitInv == Init => Inv
<1> SUFFICES ASSUME Init PROVE Inv
  OBVIOUS
<1> USE NameFacts
<1>1. /\ target \in [Writers -> {"in", "out"}] /\ forced \in [Writers -> BOOLEAN]
      /\ \A w \in Writers : at[w] = "check" /\ outcome[w] = "none"
  BY DEF Init
<1>2. /\ directory["in"] = Input /\ directory["out"] \in {Input, Old, Nothing}
      /\ \A w \in Writers : directory[w] = Nothing
  BY DEF Init
<1>3. content[Input] = "full" /\ content[Old] = "full"
  BY DEF Init
<1>4. TypeOK
  BY DEF Init, TypeOK
<1>5. QED
  BY <1>1, <1>2, <1>3, <1>4
  DEF Inv, TargetsOutput, UndecidedUntilPublish, TemporariesAreOwn, PublishedIsFull, UnforcedStays

LEMMA StepInv == Inv /\ [Next]_vars => Inv'
<1> SUFFICES ASSUME Inv, [Next]_vars PROVE Inv'
  OBVIOUS
<1> USE NameFacts
    DEF Inv, TargetsOutput, UndecidedUntilPublish, TemporariesAreOwn,
        PublishedIsFull, UnforcedStays
<1>1. ASSUME NEW w \in Writers, Refuse(w) PROVE Inv'
  BY <1>1 DEF Refuse, Goto, Decide, TypeOK
<1>2. ASSUME NEW w \in Writers, CreateFails(w) PROVE Inv'
  BY <1>2 DEF CreateFails, Goto, Decide, TypeOK
<1>3. ASSUME NEW w \in Writers, Create(w) PROVE Inv'
  <2>1. /\ at' = [at EXCEPT ![w] = "write"] /\ at[w] = "check" /\ target[w] # "in"
        /\ directory' = [directory EXCEPT ![w] = w]
        /\ UNCHANGED <<target, forced, content, outcome>>
    BY <1>3 DEF Create, Aliases, Goto
  <2>2. TypeOK'
    BY <2>1 DEF TypeOK
  <2>3. /\ directory'["in"] = directory["in"] /\ directory'["out"] = directory["out"]
        /\ \A v \in Writers : directory'[v] = IF v = w THEN w ELSE directory[v]
    BY <2>1 DEF TypeOK
  <2>4. \A v \in Writers : at'[v] = IF v = w THEN "write" ELSE at[v]
    BY <2>1 DEF TypeOK
  <2>5. target[w] = "out"
    BY <2>1 DEF TypeOK
  <2>6. QED
    BY <2>1, <2>2, <2>3, <2>4, <2>5
<1>4. ASSUME NEW w \in Writers, WriteSome(w) PROVE Inv'
  BY <1>4 DEF WriteSome, TypeOK
<1>5. ASSUME NEW w \in Writers, Flush(w) PROVE Inv'
  BY <1>5 DEF Flush, Goto, TypeOK
<1>6. ASSUME NEW w \in Writers, WriteFails(w) PROVE Inv'
  <2>1. /\ at' = [at EXCEPT ![w] = "finally"] /\ at[w] \in {"write", "publish"}
        /\ outcome' = [outcome EXCEPT ![w] = "error"]
        /\ UNCHANGED <<target, forced, directory, content>>
    BY <1>6 DEF WriteFails, Goto, Decide
  <2>2. TypeOK'
    BY <2>1 DEF TypeOK
  <2>3. \A v \in Writers : /\ at'[v] = IF v = w THEN "finally" ELSE at[v]
                           /\ outcome'[v] = IF v = w THEN "error" ELSE outcome[v]
    BY <2>1 DEF TypeOK
  <2>4. outcome[w] = "none"
    BY <2>1
  <2>5. QED
    BY <2>1, <2>2, <2>3, <2>4
<1>7. ASSUME NEW w \in Writers, Replace(w) PROVE Inv'
  <2>1. /\ at' = [at EXCEPT ![w] = "finally"] /\ at[w] = "publish" /\ forced[w]
        /\ directory' = [directory EXCEPT ![target[w]] = w, ![w] = Nothing]
        /\ outcome' = [outcome EXCEPT ![w] = "ok"]
        /\ UNCHANGED <<target, forced, content>>
    BY <1>7 DEF Replace, Goto, Decide
  <2>2. target[w] = "out"
    BY <2>1
  <2>3. TypeOK'
    BY <2>1, <2>2 DEF TypeOK
  <2>4. /\ directory'["in"] = directory["in"] /\ directory'["out"] = w
        /\ \A v \in Writers : directory'[v] = IF v = w THEN Nothing ELSE directory[v]
    BY <2>1, <2>2 DEF TypeOK
  <2>5. \A v \in Writers : /\ at'[v] = IF v = w THEN "finally" ELSE at[v]
                           /\ outcome'[v] = IF v = w THEN "ok" ELSE outcome[v]
    BY <2>1 DEF TypeOK
  <2>6. UnforcedStays'
    BY <2>1, <2>5
  <2>7. TargetsOutput' /\ UndecidedUntilPublish'
    BY <2>1, <2>2, <2>5
  <2>8. TemporariesAreOwn'
    BY <2>4, <2>5
  <2>9. PublishedIsFull'
    BY <2>1, <2>4, <2>5
  <2>10. QED
    BY <2>3, <2>4, <2>6, <2>7, <2>8, <2>9
<1>8. ASSUME NEW w \in Writers, Link(w) PROVE Inv'
  <2>1. /\ at' = [at EXCEPT ![w] = "finally"] /\ at[w] = "publish" /\ ~forced[w]
        /\ directory' = [directory EXCEPT ![target[w]] = w] /\ directory[target[w]] = Nothing
        /\ outcome' = [outcome EXCEPT ![w] = "ok"]
        /\ UNCHANGED <<target, forced, content>>
    BY <1>8 DEF Link, Goto, Decide, Exists
  <2>2. target[w] = "out"
    BY <2>1
  <2>3. TypeOK'
    BY <2>1, <2>2 DEF TypeOK
  <2>4. /\ directory'["in"] = directory["in"] /\ directory'["out"] = w
        /\ \A v \in Writers : directory'[v] = directory[v]
    BY <2>1, <2>2 DEF TypeOK
  <2>5. \A v \in Writers : /\ at'[v] = IF v = w THEN "finally" ELSE at[v]
                           /\ outcome'[v] = IF v = w THEN "ok" ELSE outcome[v]
    BY <2>1 DEF TypeOK
  <2>6. ASSUME NEW v \in Writers, (outcome[v] = "ok")', ~forced'[v],
               ~(\E u \in Writers : forced[u] /\ outcome[u] = "ok")'
        PROVE  v = w
    <3>1. ~(\E u \in Writers : forced[u] /\ outcome[u] = "ok")
      BY <2>1, <2>5, <2>6
    <3>2. v # w => outcome[v] = "ok" /\ ~forced[v]
      BY <2>1, <2>5, <2>6
    <3>3. QED
      BY <2>1, <2>2, <3>1, <3>2
  <2>7. QED
    BY <2>1, <2>2, <2>3, <2>4, <2>5, <2>6
<1>9. ASSUME NEW w \in Writers, LinkExists(w) PROVE Inv'
  BY <1>9 DEF LinkExists, Goto, Decide, TypeOK
<1>10. ASSUME NEW w \in Writers, Unlink(w) PROVE Inv'
  <2>1. /\ at' = [at EXCEPT ![w] = "ended"] /\ at[w] = "finally"
        /\ directory' = [directory EXCEPT ![w] = Nothing]
        /\ UNCHANGED <<target, forced, content, outcome>>
    BY <1>10 DEF Unlink, Goto
  <2>2. TypeOK'
    BY <2>1 DEF TypeOK
  <2>3. /\ directory'["in"] = directory["in"] /\ directory'["out"] = directory["out"]
        /\ \A v \in Writers : directory'[v] = IF v = w THEN Nothing ELSE directory[v]
    BY <2>1 DEF TypeOK
  <2>4. \A v \in Writers : at'[v] = IF v = w THEN "ended" ELSE at[v]
    BY <2>1 DEF TypeOK
  <2>5. QED
    BY <2>1, <2>2, <2>3, <2>4
<1>11. ASSUME NEW w \in Writers, Killed(w) PROVE Inv'
  BY <1>11 DEF Killed, TypeOK
<1>12. ASSUME NEW i \in {Input, Old}, OtherCreates(i) PROVE Inv'
  <2>1. /\ directory' = [directory EXCEPT !["out"] = i] /\ directory["out"] = Nothing
        /\ UNCHANGED <<target, forced, content, at, outcome>>
    BY <1>12 DEF OtherCreates, Exists
  <2>2. TypeOK'
    BY <2>1 DEF TypeOK
  <2>3. /\ directory'["in"] = directory["in"] /\ directory'["out"] = i
        /\ \A v \in Writers : directory'[v] = directory[v]
    BY <2>1 DEF TypeOK
  <2>4. QED
    BY <2>1, <2>2, <2>3
<1>13. CASE UNCHANGED vars
  BY <1>13 DEF vars, TypeOK
<1>14. QED
  BY <1>1, <1>2, <1>3, <1>4, <1>5, <1>6, <1>7, <1>8, <1>9, <1>10, <1>11, <1>12, <1>13 DEF Next
-----------------------------------------------------------------------------
LEMMA SpecInv == Spec => []Inv
<1>1. QED
  BY InitInv, StepInv, PTL DEF Spec

(***************************************************************************)
(* TypeOK: every name holds an inode or nothing, every process is at one   *)
(* of _write's system calls.                                               *)
(***************************************************************************)
THEOREM TypeCorrect == Spec => []TypeOK
<1>1. Inv => TypeOK
  BY DEF Inv
<1>2. QED
  BY <1>1, SpecInv, PTL

(***************************************************************************)
(* InputUntouched: whatever is linked where after the alias check, no      *)
(* process replaces the protected input or writes into it.                 *)
(***************************************************************************)
THEOREM InputStays == Spec => []InputUntouched
<1>1. Inv => InputUntouched
  BY DEF Inv, PublishedIsFull, InputUntouched
<1>2. QED
  BY <1>1, SpecInv, PTL

(***************************************************************************)
(* OutcomesAreTrue: an unforced success is the publication that stays, an  *)
(* error has left nothing under any name, and whoever was not killed       *)
(* leaves no temporary file.                                               *)
(***************************************************************************)
THEOREM OutcomesHold == Spec => []OutcomesAreTrue
<1>1. ASSUME Inv PROVE OutcomesAreTrue
  <2> USE <1>1, NameFacts DEF Inv
  <2>1. ASSUME NEW w \in Writers, outcome[w] = "error", at[w] = "ended", NEW n \in Names
        PROVE  directory[n] # w
    BY <2>1 DEF PublishedIsFull, TemporariesAreOwn
  <2>2. QED
    BY <2>1 DEF OutcomesAreTrue, UnforcedStays, TemporariesAreOwn
<1>2. QED
  BY <1>1, SpecInv, PTL
-----------------------------------------------------------------------------
\* A reader of the destination never meets a torn text.
LEMMA VisibleIsComplete == Inv => Visible = directory["out"]
BY NameFacts DEF Inv, TypeOK, PublishedIsFull, Visible, Exists, Inodes

\* Only Replace, Link and another program's file change the destination, and
\* each of them is one step of the abstract output file.
LEMMA StepPublishes == Inv /\ Inv' /\ [Next]_vars => [Abstract!Next]_<<forced, Visible>>
<1> SUFFICES ASSUME Inv, Inv', [Next]_vars PROVE [Abstract!Next]_<<forced, Visible>>
  OBVIOUS
<1>1. Visible = directory["out"] /\ Visible' = directory'["out"]
  <2>1. (Inv => Visible = directory["out"])'
    BY VisibleIsComplete, PTL
  <2>2. QED
    BY <2>1, VisibleIsComplete
<1>2. ASSUME directory'["out"] = directory["out"], forced' = forced
      PROVE  UNCHANGED <<forced, Visible>>
  BY <1>1, <1>2
<1>3. TypeOK /\ TargetsOutput
  BY DEF Inv
<1>4. ASSUME NEW w \in Writers, Create(w) \/ Unlink(w) PROVE UNCHANGED <<forced, Visible>>
  BY <1>2, <1>3, <1>4, NameFacts DEF Create, Unlink, TypeOK
<1>5. ASSUME NEW w \in Writers,
             \/ Refuse(w) \/ CreateFails(w) \/ WriteSome(w) \/ Flush(w)
             \/ WriteFails(w) \/ LinkExists(w) \/ Killed(w)
      PROVE  UNCHANGED <<forced, Visible>>
  BY <1>2, <1>5 DEF Refuse, CreateFails, WriteSome, Flush, WriteFails, LinkExists, Killed
<1>6. ASSUME NEW w \in Writers, Replace(w) PROVE Abstract!Publish(w)
  <2>1. target[w] = "out"
    BY <1>3, <1>6 DEF Replace, Goto, TargetsOutput
  <2>2. directory'["out"] = w /\ forced[w] /\ forced' = forced
    BY <1>3, <1>6, <2>1, NameFacts DEF Replace, TypeOK
  <2>3. QED
    BY <1>1, <2>2 DEF Abstract!Publish
<1>7. ASSUME NEW w \in Writers, Link(w) PROVE Abstract!Publish(w)
  <2>1. target[w] = "out"
    BY <1>3, <1>7 DEF Link, Goto, TargetsOutput
  <2>2. directory["out"] = Nothing /\ directory'["out"] = w /\ forced' = forced
    BY <1>3, <1>7, <2>1, NameFacts DEF Link, Exists, TypeOK
  <2>3. QED
    BY <1>1, <2>2 DEF Abstract!Publish
<1>8. ASSUME NEW i \in {Input, Old}, OtherCreates(i) PROVE Abstract!Appear(i)
  BY <1>1, <1>3, <1>8, NameFacts DEF OtherCreates, Exists, TypeOK, Abstract!Appear
<1>9. CASE UNCHANGED vars
  BY <1>2, <1>9 DEF vars
<1>10. QED
  BY <1>4, <1>5, <1>6, <1>7, <1>8, <1>9 DEF Next, Abstract!Next

(***************************************************************************)
(* PublishesAtomically: _write implements OutputFile.  The destination     *)
(* passes from one complete text to another in one step, and only a forced *)
(* process replaces one that is there.                                     *)
(***************************************************************************)
THEOREM ImplementsOutputFile == Spec => PublishesAtomically
<1>1. Init /\ Inv => Abstract!Init
  BY VisibleIsComplete DEF Init, Inv, Abstract!Init, Names
<1>2. QED
  BY <1>1, SpecInv, StepPublishes, PTL DEF Spec, PublishesAtomically, Abstract!Spec

(***************************************************************************)
(* Cycles: a relation on finitely many nodes is consumed to the end by     *)
(* _has_cycle exactly when the nodes can be numbered along its edges.      *)
(***************************************************************************)
NodesOf(edges) == UNION {{e[1], e[2]} : e \in edges}
Ahead(edges, rest) == {v \in rest : \E e \in edges : e[1] \in rest /\ e[2] = v}
IsPeeling(edges, left) == left[0] = NodesOf(edges) /\ \A n \in Nat : left[n + 1] = Ahead(edges, left[n])

\* The recursion of HasCycle has the values it states.
LEMMA PeelingExists ==
  ASSUME NEW edges
  PROVE  \E left \in [Nat -> SUBSET NodesOf(edges)] :
           IsPeeling(edges, left) /\ (HasCycle(edges) <=> left[Cardinality(NodesOf(edges))] # {})
<1> DEFINE V == NodesOf(edges)
           Is(g) == g = [n \in Nat |-> IF n = 0 THEN V
                           ELSE LET rest == g[n - 1] IN {v \in rest : \E e \in edges : e[1] \in rest /\ e[2] = v}]
           left == CHOOSE g : Is(g)
           step == [rest \in SUBSET V |-> Ahead(edges, rest)]
           B == SUBSET V
<1>1. PICK g \in [Nat -> SUBSET V] : IsIteration(V, step, g)
  <2>1. step \in [B -> B] /\ V \in B
    BY DEF Ahead
  <2> HIDE DEF step, B
  <2>2. \E g \in [Nat -> B] : IsIteration(V, step, g)
    BY <2>1, IterationExists
  <2>3. QED
    BY <2>2 DEF B
<1>2. ASSUME NEW n \in Nat
      PROVE  g[n] = IF n = 0 THEN V ELSE {v \in g[n - 1] : \E e \in edges : e[1] \in g[n - 1] /\ e[2] = v}
  <2>1. CASE n = 0
    BY <1>1, <2>1 DEF IsIteration
  <2>2. CASE n # 0
    <3>1. n - 1 \in Nat /\ n - 1 + 1 = n
      BY <2>2
    <3>2. g[n] = step[g[n - 1]] /\ g[n - 1] \in SUBSET V
      BY <1>1, <3>1 DEF IsIteration
    <3>3. QED
      BY <2>2, <3>2 DEF Ahead
  <2>3. QED
    BY <2>1, <2>2
<1>3. Is(left)
  <2>1. Is(g)
    BY <1>1, <1>2
  <2> HIDE DEF Is
  <2>2. QED
    BY <2>1
<1>4. HasCycle(edges) <=> left[Cardinality(V)] # {}
  BY Zenon DEF HasCycle, NodesOf
<1> HIDE DEF left
<1>5. \A n \in Nat : left[n] = IF n = 0 THEN V
                               ELSE {v \in left[n - 1] : \E e \in edges : e[1] \in left[n - 1] /\ e[2] = v}
  BY <1>3
<1>6. IsPeeling(edges, left)
  <2>1. left[0] = V
    BY <1>5
  <2>2. ASSUME NEW n \in Nat PROVE left[n + 1] = Ahead(edges, left[n])
    <3>1. n + 1 \in Nat /\ n + 1 # 0 /\ n + 1 - 1 = n
      OBVIOUS
    <3> DEFINE m == n + 1
    <3>2. m \in Nat /\ m # 0
      BY <3>1
    <3> HIDE DEF m, V
    <3>3. left[m] = Ahead(edges, left[m - 1])
      BY <1>5, <3>2 DEF Ahead
    <3>4. QED
      BY <3>1, <3>3 DEF m
  <2>3. QED
    BY <2>1, <2>2 DEF IsPeeling
<1>7. left \in [Nat -> SUBSET V]
  <2> DEFINE T == {n \in Nat : left[n] \subseteq V}
  <2>1. 0 \in T
    BY <1>6 DEF IsPeeling
  <2>2. ASSUME NEW n \in Nat, n \in T PROVE n + 1 \in T
    <3>1. left[n + 1] = Ahead(edges, left[n])
      BY <1>6 DEF IsPeeling
    <3> HIDE DEF V
    <3>2. left[n + 1] \subseteq V
      BY <2>2, <3>1 DEF Ahead
    <3>3. QED
      BY <3>2
  <2> HIDE DEF T
  <2>3. \A n \in Nat : n \in T
    BY <2>1, <2>2, NaturalInduction
  <2>4. \A n \in Nat : left[n] \in SUBSET V
    BY <2>3 DEF T
  <2>5. left = [n \in Nat |-> left[n]]
    BY <1>3
  <2> HIDE DEF V
  <2>6. QED
    BY <2>4, <2>5
<1>8. QED
  BY <1>4, <1>6, <1>7

\* What is consumed stays consumed, and a node outlasts those before it.
LEMMA PeelingShrinks ==
  ASSUME NEW edges, NEW left, IsPeeling(edges, left)
  PROVE  /\ \A m \in Nat : \A n \in Nat : m <= n => left[n] \subseteq left[m]
         /\ \A e \in edges : \A n \in Nat : e[1] \in left[n] => e[2] \in left[n + 1]
<1>1. \A n \in Nat : left[n + 1] \subseteq left[n]
  BY DEF IsPeeling, Ahead
<1>2. ASSUME NEW m \in Nat PROVE \A n \in Nat : m <= n => left[n] \subseteq left[m]
  <2> DEFINE T == {d \in Nat : left[m + d] \subseteq left[m]}
  <2>1. 0 \in T
    OBVIOUS
  <2>2. ASSUME NEW d \in Nat, d \in T PROVE d + 1 \in T
    <3>1. m + d \in Nat /\ m + (d + 1) = m + d + 1
      OBVIOUS
    <3>2. left[m + (d + 1)] \subseteq left[m + d]
      BY <1>1, <3>1
    <3>3. QED
      BY <2>2, <3>2
  <2> HIDE DEF T
  <2>3. \A d \in Nat : d \in T
    BY <2>1, <2>2, NaturalInduction
  <2>4. \A n \in Nat : m <= n => n - m \in Nat /\ m + (n - m) = n
    OBVIOUS
  <2>5. ASSUME NEW n \in Nat, m <= n PROVE left[n] \subseteq left[m]
    <3> DEFINE d == n - m
    <3>1. d \in Nat /\ m + d = n
      BY <2>4, <2>5
    <3> HIDE DEF d
    <3>2. left[m + d] \subseteq left[m]
      BY <2>3, <3>1 DEF T
    <3>3. QED
      BY <3>1, <3>2
  <2>6. QED
    BY <2>5
<1>3. ASSUME NEW e \in edges PROVE \A n \in Nat : e[1] \in left[n] => e[2] \in left[n + 1]
  <2> DEFINE T == {n \in Nat : e[1] \in left[n] => e[2] \in left[n + 1]}
  <2>1. 0 \in T
    <3>1. e[2] \in left[0]
      BY DEF IsPeeling, NodesOf
    <3>2. left[0 + 1] = Ahead(edges, left[0])
      BY DEF IsPeeling
    <3>3. QED
      BY <3>1, <3>2 DEF Ahead
  <2>2. ASSUME NEW n \in Nat, n \in T PROVE n + 1 \in T
    <3>1. SUFFICES ASSUME e[1] \in left[n + 1] PROVE e[2] \in left[n + 1 + 1]
      OBVIOUS
    <3>2. e[1] \in left[n] /\ e[2] \in left[n + 1]
      BY <1>1, <2>2, <3>1
    <3>3. n + 1 \in Nat
      OBVIOUS
    <3>4. left[n + 1 + 1] = Ahead(edges, left[n + 1])
      BY <3>3 DEF IsPeeling
    <3>5. QED
      BY <3>1, <3>2, <3>4 DEF Ahead
  <2> HIDE DEF T
  <2>3. \A n \in Nat : n \in T
    BY <2>1, <2>2, NaturalInduction
  <2>4. QED
    BY <2>3 DEF T
<1>4. QED
  BY <1>2, <1>3

\* Without a cycle, the round in which a node is consumed numbers it.
LEMMA NoCycleNumbers ==
  ASSUME NEW V, IsFiniteSet(V), NEW edges, NodesOf(edges) \subseteq V, ~HasCycle(edges)
  PROVE  \E place \in [V -> 1..Cardinality(V)] : \A e \in edges : place[e[1]] < place[e[2]]
<1> DEFINE W == NodesOf(edges)
           N == Cardinality(W)
<1>1. PICK left \in [Nat -> SUBSET W] : IsPeeling(edges, left) /\ left[N] = {}
  BY PeelingExists
<1>2. IsFiniteSet(W) /\ N \in Nat /\ N <= Cardinality(V) /\ Cardinality(V) \in Nat
  BY FS_Subset, FS_CardinalityType
<1> HIDE DEF N
<1> DEFINE gone(v) == {n \in Nat : v \notin left[n]}
           Round(v, r) == r \in gone(v) /\ \A n \in gone(v) : r <= n
           rank(v) == CHOOSE r : Round(v, r)
<1>3. ASSUME NEW v \in W
      PROVE  rank(v) \in 1..N /\ v \notin left[rank(v)] /\ \A n \in Nat : v \notin left[n] => rank(v) <= n
  <2>1. gone(v) \in SUBSET Nat /\ N \in gone(v)
    BY <1>1, <1>2
  <2>2. \E r : Round(v, r)
    <3> HIDE DEF gone
    <3>1. QED
      BY <2>1, LeastNatural
  <2>3. Round(v, rank(v))
    <3> HIDE DEF Round
    <3>1. QED
      BY <2>2
  <2>4. v \in left[0]
    BY <1>1 DEF IsPeeling
  <2> HIDE DEF rank
  <2>5. QED
    BY <1>2, <2>1, <2>3, <2>4
<1> HIDE DEF rank
<1>4. ASSUME NEW e \in edges PROVE e[1] \in W /\ e[2] \in W /\ rank(e[1]) < rank(e[2])
  <2>1. e[1] \in W /\ e[2] \in W
    BY DEF NodesOf
  <2> DEFINE r == rank(e[1])
             s == rank(e[2])
  <2>2. r \in 1..N /\ s \in 1..N /\ e[2] \notin left[s] /\ \A n \in Nat : e[1] \notin left[n] => r <= n
    BY <1>3, <2>1
  <2> HIDE DEF r, s, W
  <2>3. r - 1 \in Nat /\ r - 1 + 1 = r /\ r \in Nat /\ s \in Nat
    BY <1>2, <2>2
  <2>4. e[1] \in left[r - 1]
    BY <2>2, <2>3
  <2>5. e[2] \in left[r]
    BY <1>1, <2>3, <2>4, PeelingShrinks
  <2>6. s <= r => left[r] \subseteq left[s]
    BY <1>1, <2>3, PeelingShrinks
  <2>7. r < s
    BY <2>2, <2>3, <2>5, <2>6
  <2>8. QED
    BY <2>1, <2>7 DEF r, s
<1> DEFINE place == [v \in V |-> IF v \in W THEN rank(v) ELSE 1]
<1>5. place \in [V -> 1..Cardinality(V)]
  <2>1. ASSUME NEW v \in V PROVE place[v] \in 1..Cardinality(V)
    <3>1. Cardinality(V) # 0
      BY <2>1, FS_EmptySet
    <3>2. v \in W => rank(v) \in 1..N
      BY <1>3
    <3> HIDE DEF W
    <3>3. QED
      BY <1>2, <3>1, <3>2
  <2> HIDE DEF W
  <2>2. QED
    BY <2>1
<1>6. \A e \in edges : place[e[1]] < place[e[2]]
  <2> HIDE DEF W
  <2>1. W \subseteq V
    BY DEF W
  <2>2. QED
    BY <1>4, <2>1
<1>7. QED
  BY <1>5, <1>6

\* Numbered nodes are consumed, at least one in each round.
LEMMA NumbersNoCycle ==
  ASSUME NEW V, IsFiniteSet(V), NEW edges, NodesOf(edges) \subseteq V, NEW place \in [V -> Nat],
         \A e \in edges : place[e[1]] < place[e[2]]
  PROVE  ~HasCycle(edges)
<1> DEFINE W == NodesOf(edges)
           N == Cardinality(W)
<1>1. PICK left \in [Nat -> SUBSET W] : IsPeeling(edges, left) /\ (HasCycle(edges) <=> left[N] # {})
  BY PeelingExists
<1>2. IsFiniteSet(W) /\ N \in Nat
  BY FS_Subset, FS_CardinalityType
<1>3. \A n \in Nat : left[n] \in SUBSET W /\ IsFiniteSet(left[n]) /\ Cardinality(left[n]) \in Nat
  <2> HIDE DEF W
  <2>1. QED
    BY <1>1, <1>2, FS_Subset, FS_CardinalityType
<1> DEFINE T == {n \in Nat : left[n] = {} \/ Cardinality(left[n]) + n <= N}
<1>4. 0 \in T
  BY <1>1, <1>2 DEF IsPeeling
<1>5. ASSUME NEW n \in Nat, n \in T PROVE n + 1 \in T
  <2>1. left[n + 1] = Ahead(edges, left[n])
    BY <1>1 DEF IsPeeling
  <2>2. CASE left[n] = {}
    BY <2>1, <2>2 DEF Ahead
  <2>3. CASE left[n] # {}
    <3> DEFINE S == left[n]
               numbers == {place[v] : v \in S}
    <3>1. numbers \in SUBSET Nat /\ numbers # {}
      BY <1>3, <2>3
    <3>2. PICK x \in numbers : \A y \in numbers : x <= y
      BY <3>1, LeastNatural
    <3>3. PICK v \in S : place[v] = x
      OBVIOUS
    <3>4. v \notin left[n + 1]
      <4>1. SUFFICES ASSUME v \in left[n + 1] PROVE FALSE
        OBVIOUS
      <4>2. PICK e \in edges : e[1] \in S /\ e[2] = v
        BY <2>1, <4>1 DEF Ahead
      <4>3. place[e[1]] < place[v] /\ place[e[1]] \in numbers
        BY <4>2
      <4>4. place[e[1]] \in Nat /\ place[v] \in Nat /\ place[v] <= place[e[1]]
        BY <3>1, <3>2, <3>3, <4>3
      <4>5. QED
        BY <4>3, <4>4
    <3>5. left[n + 1] \subseteq S \ {v}
      BY <2>1, <3>4 DEF Ahead
    <3>6. IsFiniteSet(S) /\ Cardinality(S \ {v}) = Cardinality(S) - 1 /\ IsFiniteSet(S \ {v})
      BY <1>3, FS_RemoveElement
    <3>7. Cardinality(left[n + 1]) <= Cardinality(S) - 1
      BY <3>5, <3>6, FS_Subset
    <3>8. Cardinality(left[n]) \in Nat /\ Cardinality(left[n + 1]) \in Nat
      BY <1>3
    <3>9. Cardinality(left[n]) + n <= N
      BY <1>5, <2>3
    <3> DEFINE p == Cardinality(left[n])
               q == Cardinality(left[n + 1])
    <3>10. p \in Nat /\ q \in Nat /\ q <= p - 1 /\ p + n <= N
      BY <3>7, <3>8, <3>9
    <3> HIDE DEF p, q, N
    <3>11. q + (n + 1) <= N
      BY <1>2, <3>10
    <3>12. QED
      BY <3>11 DEF q
  <2>4. QED
    BY <2>2, <2>3
<1>6. N \in T
  <2> HIDE DEF T, N
  <2>1. \A n \in Nat : n \in T
    BY <1>4, <1>5, NaturalInduction
  <2>2. QED
    BY <1>2, <2>1
<1>7. left[N] = {}
  <2> DEFINE p == Cardinality(left[N])
  <2>1. IsFiniteSet(left[N]) /\ p \in Nat /\ (left[N] = {} \/ p + N <= N)
    BY <1>2, <1>3, <1>6
  <2> HIDE DEF p, N
  <2>2. left[N] = {} \/ p = 0
    BY <1>2, <2>1
  <2>3. QED
    BY <2>1, <2>2, FS_EmptySet DEF p
<1>8. QED
  BY <1>1, <1>7

(***************************************************************************)
(* Alignment: devices that must share a coordinate are contracted to their *)
(* least member, and an order contradicts them exactly when it is then     *)
(* cyclic.                                                                 *)
(***************************************************************************)
AreRoots(roots, groups) ==
  roots = [n \in 0..Len(groups) |->
             IF n = 0 THEN [v \in Placeable |-> v] ELSE Merge(roots[n - 1], groups[n])]

\* root joins the groups and nothing else: whatever agrees on every group
\* agrees with its root.
Joins(root, groups) ==
  /\ root \in [Placeable -> Placeable]
  /\ \A G \in groups : \A s, t \in G : root[s] = root[t]
  /\ \A place \in [Placeable -> Nat] :
       (\A G \in groups : \A s, t \in G : place[s] = place[t]) => \A v \in Placeable : place[root[v]] = place[v]

\* Merging one group joins it, and forgets nothing that was joined.
LEMMA MergeJoins ==
  ASSUME NEW root, NEW groups \in SUBSET SUBSET Placeable, Joins(root, groups), NEW group \in SUBSET Placeable
  PROVE  Joins(Merge(root, group), groups \cup {group})
<1> DEFINE joined == {root[v] : v \in group}
           merged == Merge(root, group)
           least == Min(joined)
<1>1. merged = [v \in Placeable |-> IF root[v] \in joined THEN least ELSE root[v]]
  BY Zenon DEF Merge, Joins
<1>2. root \in [Placeable -> Placeable]
  BY DEF Joins
<1>3. joined # {} => least \in joined
  <2>1. joined \in SUBSET Nat
    <3>1. \A v \in group : root[v] \in Placeable
      BY <1>2
    <3>2. \A v \in group : root[v] \in Nat
      BY <3>1, PlacementAssumption
    <3>3. QED
      BY <3>2
  <2> HIDE DEF joined
  <2>2. QED
    BY <2>1, MinFacts
<1>4. \A v \in group : v \in Placeable /\ root[v] \in joined
  OBVIOUS
<1> HIDE DEF merged, least
<1>5. merged \in [Placeable -> Placeable]
  BY <1>1, <1>2, <1>3
<1>6. ASSUME NEW G \in groups \cup {group}, NEW s \in G, NEW t \in G PROVE merged[s] = merged[t]
  <2>1. s \in Placeable /\ t \in Placeable
    OBVIOUS
  <2>2. CASE G \in groups
    <3>1. root[s] = root[t]
      BY <2>2 DEF Joins
    <3>2. QED
      BY <1>1, <2>1, <3>1
  <2>3. CASE G = group
    BY <1>1, <1>4, <2>1, <2>3
  <2>4. QED
    BY <2>2, <2>3
<1>7. ASSUME NEW place \in [Placeable -> Nat],
             \A G \in groups \cup {group} : \A s, t \in G : place[s] = place[t],
             NEW v \in Placeable
      PROVE  place[merged[v]] = place[v]
  <2>1. \A w \in Placeable : place[root[w]] = place[w]
    BY <1>7 DEF Joins
  <2>2. CASE root[v] \in joined
    <3>1. PICK s \in group : root[v] = root[s]
      BY <2>2
    <3>2. PICK t \in group : least = root[t]
      BY <1>3, <2>2
    <3>3. merged[v] = root[t]
      BY <1>1, <2>2, <3>2
    <3>4. place[s] = place[t]
      BY <1>7
    <3>5. QED
      BY <1>4, <2>1, <3>1, <3>3, <3>4
  <2>3. CASE root[v] \notin joined
    <3>1. merged[v] = root[v]
      BY <1>1, <2>3
    <3>2. QED
      BY <2>1, <3>1
  <2>4. QED
    BY <2>2, <2>3
<1>8. QED
  BY <1>5, <1>6, <1>7 DEF Joins, merged

\* The recursion of Contracted has the values it states.
LEMMA RootsExist ==
  ASSUME NEW groups \in Seq(SUBSET Placeable)
  PROVE  \E roots : AreRoots(roots, groups) /\ Joins(roots[Len(groups)], ToSet(groups))
<1> DEFINE N == Len(groups)
           Upto(k) == {groups[i] : i \in 1..k}
           Good(f, k) == \A n \in 0..k : /\ Joins(f[n], Upto(n))
                                         /\ f[n] = IF n = 0 THEN [v \in Placeable |-> v] ELSE Merge(f[n - 1], groups[n])
           Has(k) == \E f : Good(f, k)
           T == {k \in Nat : k <= N => Has(k)}
<1>1. N \in Nat /\ \A i \in 1..N : groups[i] \in SUBSET Placeable
  OBVIOUS
<1>2. 0 \in T
  <2> DEFINE f == [n \in {0} |-> [v \in Placeable |-> v]]
  <2>1. Upto(0) = {}
    OBVIOUS
  <2> HIDE DEF Upto
  <2>2. Joins(f[0], Upto(0))
    BY <2>1 DEF Joins
  <2>3. \A n \in 0..0 : n = 0
    OBVIOUS
  <2>4. f[0] = [v \in Placeable |-> v]
    OBVIOUS
  <2> HIDE DEF f
  <2>5. Good(f, 0)
    BY <2>2, <2>3, <2>4
  <2> HIDE DEF Good
  <2>6. QED
    BY <2>5
<1>3. ASSUME NEW k \in Nat, k \in T PROVE k + 1 \in T
  <2>1. SUFFICES ASSUME k + 1 <= N PROVE Has(k + 1)
    <3> HIDE DEF Has
    <3>1. QED
      BY <1>1
  <2>2. PICK f : Good(f, k)
    <3>1. k <= N
      BY <1>1, <2>1
    <3> HIDE DEF Good
    <3>2. QED
      BY <1>3, <3>1
  <2> DEFINE new == Merge(f[k], groups[k + 1])
             g == [n \in 0..(k + 1) |-> IF n = k + 1 THEN new ELSE f[n]]
  <2>3. k + 1 \in 1..N /\ k \in 0..k
    BY <1>1, <2>1
  <2>4. Upto(k + 1) = Upto(k) \cup {groups[k + 1]} /\ Upto(k) \in SUBSET SUBSET Placeable
    <3>1. 1..(k + 1) = 1..k \cup {k + 1} /\ \A i \in 1..k : i \in 1..N
      BY <1>1, <2>1
    <3>2. QED
      BY <1>1, <3>1
  <2> HIDE DEF Upto, N
  <2>5. Joins(f[k], Upto(k))
    BY <2>2, <2>3
  <2>6. Joins(new, Upto(k + 1))
    <3>1. groups[k + 1] \in SUBSET Placeable
      BY <1>1, <2>3
    <3>2. QED
      BY <2>4, <2>5, <3>1, MergeJoins
  <2> HIDE DEF new
  <2>7. ASSUME NEW n \in 0..(k + 1)
        PROVE  /\ Joins(g[n], Upto(n))
               /\ g[n] = IF n = 0 THEN [v \in Placeable |-> v] ELSE Merge(g[n - 1], groups[n])
    <3>1. CASE n = k + 1
      <4>1. n # 0 /\ n - 1 = k /\ g[n] = new /\ n - 1 \in 0..(k + 1) /\ n - 1 # k + 1
        BY <3>1
      <4>2. g[n - 1] = f[k]
        BY <4>1
      <4> HIDE DEF g
      <4>3. QED
        BY <2>6, <3>1, <4>1, <4>2 DEF new
    <3>2. CASE n # k + 1
      <4>1. n \in 0..k /\ g[n] = f[n]
        BY <3>2
      <4>2. n # 0 => g[n - 1] = f[n - 1]
        BY <4>1
      <4> HIDE DEF g
      <4>3. QED
        BY <2>2, <4>1, <4>2
    <3>3. QED
      BY <3>1, <3>2
  <2> HIDE DEF g
  <2>8. Good(g, k + 1)
    BY <2>7
  <2> HIDE DEF Good
  <2>9. QED
    BY <2>8
<1>4. N \in T
  <2> HIDE DEF T, N
  <2>1. \A k \in Nat : k \in T
    BY <1>2, <1>3, NaturalInduction
  <2>2. QED
    BY <1>1, <2>1
<1>5. PICK f : Good(f, N)
  <2>1. N <= N
    BY <1>1
  <2> HIDE DEF Good
  <2>2. QED
    BY <1>4, <2>1
<1> DEFINE roots == [n \in 0..N |-> f[n]]
<1>6. AreRoots(roots, groups)
  <2> DEFINE h == [n \in 0..N |-> IF n = 0 THEN [v \in Placeable |-> v] ELSE Merge(roots[n - 1], groups[n])]
  <2>1. ASSUME NEW n \in 0..N PROVE roots[n] = h[n]
    <3>1. n # 0 => n - 1 \in 0..N
      BY <1>1
    <3>2. QED
      BY <1>5, <3>1
  <2>2. roots = [n \in 0..N |-> roots[n]] /\ h = [n \in 0..N |-> h[n]]
    OBVIOUS
  <2> HIDE DEF roots, h
  <2>3. roots = h
    BY <2>1, <2>2
  <2>4. QED
    BY <2>3 DEF AreRoots, h
<1>7. Joins(roots[Len(groups)], ToSet(groups))
  <2>1. N \in 0..N /\ ToSet(groups) = Upto(N)
    BY <1>1 DEF ToSet
  <2> HIDE DEF Upto
  <2>2. QED
    BY <1>5, <2>1
<1>8. QED
  BY <1>6, <1>7

\* The recursion chosen is that one, so what it ends with joins every group.
RootsOf(groups) == CHOOSE roots : AreRoots(roots, groups)

LEMMA RootsAreUnique ==
  ASSUME NEW groups, Len(groups) \in Nat, NEW f, NEW g, AreRoots(f, groups), AreRoots(g, groups)
  PROVE  f[Len(groups)] = g[Len(groups)]
<1> DEFINE N == Len(groups)
           T == {n \in Nat : n <= N => f[n] = g[n]}
           same == [v \in Placeable |-> v]
<1>1. \A h : AreRoots(h, groups) =>
        \A n \in 0..N : h[n] = IF n = 0 THEN same ELSE Merge(h[n - 1], groups[n])
  BY DEF AreRoots
<1>2. /\ \A n \in 0..N : f[n] = IF n = 0 THEN same ELSE Merge(f[n - 1], groups[n])
      /\ \A n \in 0..N : g[n] = IF n = 0 THEN same ELSE Merge(g[n - 1], groups[n])
  BY <1>1
<1> HIDE DEF same
<1>3. 0 \in T
  <2>1. 0 \in 0..N
    OBVIOUS
  <2>2. f[0] = same /\ g[0] = same
    BY <1>2, <2>1
  <2>3. QED
    BY <2>2
<1>4. ASSUME NEW n \in Nat, n \in T PROVE n + 1 \in T
  <2>1. SUFFICES ASSUME n + 1 <= N PROVE f[n + 1] = g[n + 1]
    OBVIOUS
  <2>2. n + 1 \in 0..N /\ n + 1 # 0 /\ (n + 1) - 1 = n /\ f[n] = g[n]
    BY <1>4, <2>1
  <2> DEFINE m == n + 1
  <2>3. m \in 0..N /\ m # 0 /\ f[m - 1] = g[m - 1]
    BY <2>2
  <2> HIDE DEF m
  <2>4. f[m] = g[m]
    BY <1>2, <2>3
  <2>5. QED
    BY <2>4 DEF m
<1> HIDE DEF T, N
<1>5. \A n \in Nat : n \in T
  BY <1>3, <1>4, NaturalInduction
<1>6. N \in T /\ N <= N /\ N \in Nat
  BY <1>5 DEF N
<1>7. QED
  BY <1>6 DEF T, N

\* Contracted maps the ends of every order to their roots.
LEMMA ContractedFacts ==
  ASSUME NEW groups \in Seq(SUBSET Placeable), NEW edges
  PROVE  \E root : /\ Joins(root, ToSet(groups))
                   /\ Contracted(edges, groups) = {<<root[e[1]], root[e[2]]>> : e \in edges}
<1>1. PICK f : AreRoots(f, groups) /\ Joins(f[Len(groups)], ToSet(groups))
  BY RootsExist
<1> DEFINE roots == RootsOf(groups)
<1>2. AreRoots(roots, groups)
  BY <1>1, Zenon DEF RootsOf
<1>3. Contracted(edges, groups) = {<<roots[Len(groups)][e[1]], roots[Len(groups)][e[2]]>> : e \in edges}
  BY Zenon DEF Contracted, RootsOf, AreRoots
<1> HIDE DEF roots
<1>4. Len(groups) \in Nat
  OBVIOUS
<1>5. roots[Len(groups)] = f[Len(groups)]
  BY <1>1, <1>2, <1>4, RootsAreUnique
<1>6. Joins(roots[Len(groups)], ToSet(groups))
  BY <1>1, <1>5
<1>7. QED
  BY <1>3, <1>6

\* Coordinates along the edges, with every group on one line.
Coordinates(place, edges, groups) ==
  /\ \A G \in groups : \A s, t \in G : place[s] = place[t]
  /\ \A e \in edges : place[e[1]] < place[e[2]]

\* _has_cycle refuses exactly the orders without coordinates.
LEMMA CycleFacts ==
  ASSUME NEW edges \in SUBSET (Placeable \X Placeable)
  PROVE  ~HasCycle(edges) <=> \E place \in [Placeable -> 1..Cardinality(Placeable)] : Coordinates(place, edges, {})
<1>1. NodesOf(edges) \subseteq Placeable /\ IsFiniteSet(Placeable)
  BY PlacementAssumption DEF NodesOf
<1>2. ASSUME ~HasCycle(edges)
      PROVE  \E place \in [Placeable -> 1..Cardinality(Placeable)] : Coordinates(place, edges, {})
  BY <1>1, <1>2, NoCycleNumbers DEF Coordinates
<1>3. ASSUME NEW place \in [Placeable -> 1..Cardinality(Placeable)], Coordinates(place, edges, {}) PROVE ~HasCycle(edges)
  <2>1. Cardinality(Placeable) \in Nat
    BY <1>1, FS_CardinalityType
  <2>2. place \in [Placeable -> Nat]
    BY <2>1
  <2>3. QED
    BY <1>1, <1>3, <2>2, NumbersNoCycle DEF Coordinates
<1>4. QED
  BY <1>2, <1>3

\* After the contraction, it refuses exactly those without coordinates that keep
\* every group on one line.
LEMMA AlignmentFacts ==
  ASSUME NEW groups \in Seq(SUBSET Placeable), NEW edges \in SUBSET (Placeable \X Placeable)
  PROVE  ~HasCycle(Contracted(edges, groups)) <=>
           \E place \in [Placeable -> 1..Cardinality(Placeable)] : Coordinates(place, edges, ToSet(groups))
<1>1. PICK root : /\ Joins(root, ToSet(groups))
                  /\ Contracted(edges, groups) = {<<root[e[1]], root[e[2]]>> : e \in edges}
  BY ContractedFacts
<1> DEFINE short == Contracted(edges, groups)
<1>2. root \in [Placeable -> Placeable]
  BY <1>1 DEF Joins
<1>3. short \in SUBSET (Placeable \X Placeable)
  <2>1. \A e \in edges : root[e[1]] \in Placeable /\ root[e[2]] \in Placeable
    BY <1>2
  <2>2. QED
    BY <1>1, <2>1
<1>4. \A e \in edges : <<root[e[1]], root[e[2]]>> \in short
  BY <1>1
<1>5. \A d \in short : \E e \in edges : d[1] = root[e[1]] /\ d[2] = root[e[2]]
  BY <1>1
<1>6. \A e \in edges : e[1] \in Placeable /\ e[2] \in Placeable
  OBVIOUS
<1> HIDE DEF short
<1>7. Cardinality(Placeable) \in Nat
  BY PlacementAssumption, FS_CardinalityType
<1>8. ASSUME ~HasCycle(short)
      PROVE  \E place \in [Placeable -> 1..Cardinality(Placeable)] : Coordinates(place, edges, ToSet(groups))
  <2>1. PICK place \in [Placeable -> 1..Cardinality(Placeable)] : Coordinates(place, short, {})
    BY <1>3, <1>8, CycleFacts
  <2> DEFINE q == [v \in Placeable |-> place[root[v]]]
  <2>2. q \in [Placeable -> 1..Cardinality(Placeable)]
    BY <1>2
  <2>3. \A G \in ToSet(groups) : \A s, t \in G : q[s] = q[t]
    <3>1. \A G \in ToSet(groups) : G \subseteq Placeable
      BY DEF ToSet
    <3>2. QED
      BY <1>1, <3>1 DEF Joins
  <2>4. ASSUME NEW e \in edges PROVE q[e[1]] < q[e[2]]
    <3> DEFINE d == <<root[e[1]], root[e[2]]>>
    <3>1. d \in short /\ d[1] = root[e[1]] /\ d[2] = root[e[2]]
      BY <1>4
    <3>2. place[d[1]] < place[d[2]]
      BY <2>1, <3>1 DEF Coordinates
    <3>3. q[e[1]] = place[root[e[1]]] /\ q[e[2]] = place[root[e[2]]]
      BY <1>6
    <3> HIDE DEF d, q
    <3>4. QED
      BY <3>1, <3>2, <3>3
  <2> HIDE DEF q
  <2>5. Coordinates(q, edges, ToSet(groups))
    BY <2>3, <2>4 DEF Coordinates
  <2>6. QED
    BY <2>2, <2>5
<1>9. ASSUME NEW place \in [Placeable -> 1..Cardinality(Placeable)], Coordinates(place, edges, ToSet(groups))
      PROVE  ~HasCycle(short)
  <2>1. place \in [Placeable -> Nat]
    BY <1>7
  <2>2. \A v \in Placeable : place[root[v]] = place[v]
    BY <1>1, <1>9, <2>1 DEF Joins, Coordinates
  <2>3. ASSUME NEW d \in short PROVE place[d[1]] < place[d[2]]
    <3>1. PICK e \in edges : d[1] = root[e[1]] /\ d[2] = root[e[2]]
      BY <1>5
    <3>2. place[e[1]] < place[e[2]]
      BY <1>9 DEF Coordinates
    <3>3. QED
      BY <1>6, <2>2, <3>1, <3>2
  <2>4. Coordinates(place, short, {})
    BY <2>3 DEF Coordinates
  <2>5. QED
    BY <1>3, <2>4, CycleFacts
<1>10. QED
  BY <1>8, <1>9 DEF short

(***************************************************************************)
(* Documents: what is known of constraints that were read does not depend  *)
(* on the order they were read in.                                         *)
(***************************************************************************)
\* What the maps of validate_layout_conflicts hold after the constraints I of doc;
\* only the lists of aligned groups depend on the order those were read in.
Those(doc, I, kind) == {i \in I : doc[i].kind = kind}
OrderEdges(doc, I, a) == UNION {EdgesOf(doc[i]) : i \in {j \in Those(doc, I, "order") : OrderAxis(doc[j]) = a}}
AlignedGroups(doc, I, a) == {ToSet(doc[i].subjects) : i \in {j \in Those(doc, I, "alignment") : doc[j].axis = a}}
Known(verdict, ids, semantics, symmetry_axes, alignment_axes, alignment_groups, priorities, order_edges) ==
  [verdict |-> verdict, ids |-> ids, semantics |-> semantics, symmetry_axes |-> symmetry_axes,
   alignment_axes |-> alignment_axes, alignment_groups |-> alignment_groups, priorities |-> priorities,
   order_edges |-> order_edges]
AxesIn(doc, I, kind) == {<<ToSet(doc[i].subjects), doc[i].axis>> : i \in Those(doc, I, kind)}
PrioritiesIn(doc, I) == UNION {ToSet(doc[i].subjects) \X {doc[i].value} : i \in Those(doc, I, "net_priority")}
EdgesIn(doc, I) == [a \in PlacementAxes |-> OrderEdges(doc, I, a)]
Gathered(doc, I, aligned) ==
  Known("reading", {doc[i].id : i \in I}, {SemanticKey(doc[i]) : i \in I}, AxesIn(doc, I, "symmetry"),
        AxesIn(doc, I, "alignment"), aligned, PrioritiesIn(doc, I), EdgesIn(doc, I))
Holds(doc, I, aligned) ==
  /\ aligned \in [PlacementAxes -> Seq(SUBSET Placeable)]
  /\ \A a \in PlacementAxes : ToSet(aligned[a]) = AlignedGroups(doc, I, a)

\* Two constraints that one document cannot have, in either order.
Contradicts(c, d) ==
  \/ c.id = d.id
  \/ SemanticKey(c) = SemanticKey(d)
  \/ \E kind \in {"symmetry", "alignment"} :
       c.kind = kind /\ d.kind = kind /\ ToSet(c.subjects) = ToSet(d.subjects) /\ c.axis # d.axis
  \/ /\ c.kind = "net_priority" /\ d.kind = "net_priority" /\ c.value # d.value
     /\ \E net \in ToSet(c.subjects) : net \in ToSet(d.subjects)

\* What ShapeFailure leaves to be relied on.
Shaped(c) ==
  /\ c.kind \in {"symmetry", "common_centroid", "alignment", "order", "matching", "keepout", "net_priority"}
  /\ c.kind = "alignment" => c.axis \in PlacementAxes /\ ToSet(c.subjects) \subseteq Placeable
  /\ c.kind = "order" =>
       /\ c.axis \in {"left_to_right", "right_to_left", "bottom_to_top", "top_to_bottom"}
       /\ ToSet(c.subjects) \subseteq Placeable

LEMMA SubjectsAreAllowed ==
  ASSUME NEW kind, NEW subjects, SubjectsFailure(kind, subjects) = Passed
  PROVE  ToSet(subjects) \subseteq Allowed(kind)
<1> DEFINE c1 == Len(subjects) < Minimum(kind)
           c2 == ~IsInjective(subjects)
           c3 == ~(ToSet(subjects) \subseteq Allowed(kind))
           c4 == kind # "net_priority" /\ Cardinality({PlacementScope[s] : s \in ToSet(subjects) \cap Placeable}) > 1
           checks == << <<c1, "short">>, <<c2, "repeated">>, <<c3, "unknown">>, <<c4, "scopes">> >>
<1>1. FirstFailure(checks) = Passed
  BY Zenon DEF SubjectsFailure
<1> HIDE DEF c1, c2, c3, c4
<1>2. Reasons(checks, 4)
  <2>1. \A i \in 1..4 : i = 1 \/ i = 2 \/ i = 3 \/ i = 4
    OBVIOUS
  <2>2. Len(checks) = 4 /\ checks[1][2] = "short" /\ checks[2][2] = "repeated" /\ checks[3][2] = "unknown" /\ checks[4][2] = "scopes"
    OBVIOUS
  <2> HIDE DEF checks
  <2>3. QED
    BY <2>1, <2>2 DEF Reasons, Passed
<1>3. checks[3][1] = c3
  OBVIOUS
<1> HIDE DEF checks
<1>4. NoneTrue(checks, 4)
  BY <1>1, <1>2, ChecksPass
<1>5. ~c3
  BY <1>3, <1>4 DEF NoneTrue
<1>6. QED
  BY <1>5 DEF c3

LEMMA ShapeFacts ==
  ASSUME NEW c, ShapeFailure(c) = Passed
  PROVE  Shaped(c)
<1> DEFINE c1 == c.kind # "common_centroid" /\ SubjectsFailure(c.kind, c.subjects) # Passed
           c2 == c.kind = "common_centroid" /\ Len(c.groups) # 2
           c3 == c.kind = "common_centroid" /\ \E g \in ToSet(c.groups) : SubjectsFailure(c.kind, g) # Passed
           c4 == c.kind = "common_centroid" /\ \E g, h \in ToSet(c.groups) : Len(g) # Len(h)
           c5 == c.kind = "common_centroid" /\ SubjectsFailure(c.kind, FlattenSeq(c.groups)) # Passed
           c6 == c.axis \notin AxesOf[c.kind]
           c7 == c.kind \in {"matching", "keepout", "net_priority"} /\ c.value < 0
           c8 == c.kind = "net_priority" /\ c.value > 100
           checks == << <<c1, "subjects">>, <<c2, "groups">>, <<c3, "subjects">>, <<c4, "sizes">>,
                        <<c5, "overlap">>, <<c6, "axis">>, <<c7, "value">>, <<c8, "value">> >>
<1>1. ShapeFailure(c) = IF c.kind \notin DOMAIN AxesOf THEN "kind" ELSE FirstFailure(checks)
  BY Zenon DEF ShapeFailure
<1>2. c.kind \in DOMAIN AxesOf /\ FirstFailure(checks) = Passed
  <2> HIDE DEF checks
  <2>1. QED
    BY <1>1 DEF Passed
<1> HIDE DEF c1, c2, c3, c4, c5, c6, c7, c8
<1>3. Reasons(checks, 8)
  <2>1. \A i \in 1..8 : i = 1 \/ i = 2 \/ i = 3 \/ i = 4 \/ i = 5 \/ i = 6 \/ i = 7 \/ i = 8
    OBVIOUS
  <2>2. /\ Len(checks) = 8 /\ checks[1][2] = "subjects" /\ checks[2][2] = "groups" /\ checks[3][2] = "subjects"
        /\ checks[4][2] = "sizes" /\ checks[5][2] = "overlap" /\ checks[6][2] = "axis" /\ checks[7][2] = "value"
        /\ checks[8][2] = "value"
    OBVIOUS
  <2> HIDE DEF checks
  <2>3. QED
    BY <2>1, <2>2 DEF Reasons, Passed
<1>4. checks[1][1] = c1 /\ checks[6][1] = c6
  OBVIOUS
<1> HIDE DEF checks
<1>5. NoneTrue(checks, 8)
  BY <1>2, <1>3, ChecksPass
<1>6. ~c1 /\ ~c6
  BY <1>4, <1>5 DEF NoneTrue
<1>7. c.kind \in {"symmetry", "common_centroid", "alignment", "order", "matching", "keepout", "net_priority"}
  BY <1>2 DEF AxesOf
<1>8. c.axis \in AxesOf[c.kind]
  BY <1>6 DEF c6
<1>9. c.kind \in {"alignment", "order"} => ToSet(c.subjects) \subseteq Placeable
  <2>1. SUFFICES ASSUME c.kind \in {"alignment", "order"} PROVE ToSet(c.subjects) \subseteq Placeable
    OBVIOUS
  <2>2. SubjectsFailure(c.kind, c.subjects) = Passed
    BY <1>6, <2>1 DEF c1
  <2>3. ToSet(c.subjects) \subseteq Allowed(c.kind)
    BY <2>2, SubjectsAreAllowed
  <2>4. QED
    BY <2>1, <2>3 DEF Allowed
<1>10. c.kind = "alignment" => c.axis \in PlacementAxes
  BY <1>8 DEF AxesOf
<1>11. c.kind = "order" => c.axis \in {"left_to_right", "right_to_left", "bottom_to_top", "top_to_bottom"}
  BY <1>8 DEF AxesOf
<1>12. QED
  BY <1>7, <1>9, <1>10, <1>11 DEF Shaped

\* ConflictFailure finds nothing exactly when the constraint contradicts none of
\* those that were read.
LEMMA ConflictFacts ==
  ASSUME NEW doc, NEW I, NEW aligned, NEW c
  PROVE  ConflictFailure(Gathered(doc, I, aligned), c) = Passed <=> \A i \in I : ~Contradicts(doc[i], c)
<1> DEFINE s == Gathered(doc, I, aligned)
           c1 == c.id \in s.ids
           c2 == SemanticKey(c) \in s.semantics
           c3 == c.kind = "symmetry" /\ Disagrees(s.symmetry_axes, ToSet(c.subjects), c.axis)
           c4 == c.kind = "alignment" /\ Disagrees(s.alignment_axes, ToSet(c.subjects), c.axis)
           c5 == c.kind = "net_priority" /\ PriorityConflict(s, c)
           checks == << <<c1, "duplicate id">>, <<c2, "duplicate">>, <<c3, "axes">>, <<c4, "axes">>, <<c5, "priorities">> >>
<1>1. ConflictFailure(s, c) = FirstFailure(checks)
  BY Zenon DEF ConflictFailure
<1>2. /\ s.ids = {doc[i].id : i \in I} /\ s.semantics = {SemanticKey(doc[i]) : i \in I}
      /\ s.symmetry_axes = AxesIn(doc, I, "symmetry") /\ s.alignment_axes = AxesIn(doc, I, "alignment")
      /\ s.priorities = PrioritiesIn(doc, I)
  BY DEF Gathered, Known
<1> HIDE DEF s
<1>3. c1 <=> \E i \in I : doc[i].id = c.id
  BY <1>2
<1>4. c2 <=> \E i \in I : SemanticKey(doc[i]) = SemanticKey(c)
  BY <1>2
<1>5. ASSUME NEW kind, NEW known, known = AxesIn(doc, I, kind)
      PROVE  Disagrees(known, ToSet(c.subjects), c.axis) <=>
               \E i \in I : doc[i].kind = kind /\ ToSet(doc[i].subjects) = ToSet(c.subjects) /\ doc[i].axis # c.axis
  <2>1. ASSUME Disagrees(known, ToSet(c.subjects), c.axis)
        PROVE  \E i \in I : doc[i].kind = kind /\ ToSet(doc[i].subjects) = ToSet(c.subjects) /\ doc[i].axis # c.axis
    <3>1. PICK entry \in known : entry[1] = ToSet(c.subjects) /\ entry[2] # c.axis
      BY <2>1 DEF Disagrees
    <3>2. PICK i \in Those(doc, I, kind) : entry = <<ToSet(doc[i].subjects), doc[i].axis>>
      BY <1>5 DEF AxesIn
    <3>3. QED
      BY <3>1, <3>2 DEF Those
  <2>2. ASSUME NEW i \in I, doc[i].kind = kind, ToSet(doc[i].subjects) = ToSet(c.subjects), doc[i].axis # c.axis
        PROVE  Disagrees(known, ToSet(c.subjects), c.axis)
    <3> DEFINE entry == <<ToSet(doc[i].subjects), doc[i].axis>>
    <3>1. entry \in known /\ entry[1] = ToSet(c.subjects) /\ entry[2] # c.axis
      BY <1>5, <2>2 DEF AxesIn, Those
    <3> HIDE DEF entry
    <3>2. QED
      BY <3>1 DEF Disagrees
  <2>3. QED
    BY <2>1, <2>2
<1>6. c3 <=> \E i \in I : c.kind = "symmetry" /\ doc[i].kind = "symmetry" /\ ToSet(doc[i].subjects) = ToSet(c.subjects)
                          /\ doc[i].axis # c.axis
  BY <1>2, <1>5
<1>7. c4 <=> \E i \in I : c.kind = "alignment" /\ doc[i].kind = "alignment" /\ ToSet(doc[i].subjects) = ToSet(c.subjects)
                          /\ doc[i].axis # c.axis
  BY <1>2, <1>5
<1>8. PriorityConflict(s, c) <=>
        \E i \in I : doc[i].kind = "net_priority" /\ doc[i].value # c.value
                     /\ \E net \in ToSet(doc[i].subjects) : net \in ToSet(c.subjects)
  <2>1. ASSUME PriorityConflict(s, c)
        PROVE  \E i \in I : doc[i].kind = "net_priority" /\ doc[i].value # c.value
                            /\ \E net \in ToSet(doc[i].subjects) : net \in ToSet(c.subjects)
    <3>1. PICK net \in ToSet(c.subjects), entry \in PrioritiesIn(doc, I) : entry[1] = net /\ entry[2] # c.value
      BY <1>2, <2>1 DEF PriorityConflict, Disagrees
    <3>2. PICK i \in Those(doc, I, "net_priority") : entry \in ToSet(doc[i].subjects) \X {doc[i].value}
      BY DEF PrioritiesIn
    <3>3. entry[1] \in ToSet(doc[i].subjects) /\ entry[2] = doc[i].value
      BY <3>2
    <3>4. QED
      BY <3>1, <3>3 DEF Those
  <2>2. ASSUME NEW i \in I, doc[i].kind = "net_priority", doc[i].value # c.value,
               NEW net \in ToSet(doc[i].subjects), net \in ToSet(c.subjects)
        PROVE  PriorityConflict(s, c)
    <3> DEFINE entry == <<net, doc[i].value>>
    <3>1. i \in Those(doc, I, "net_priority") /\ entry \in ToSet(doc[i].subjects) \X {doc[i].value}
      BY <2>2 DEF Those
    <3>2. entry \in s.priorities /\ entry[1] = net /\ entry[2] # c.value
      BY <1>2, <2>2, <3>1 DEF PrioritiesIn
    <3> HIDE DEF entry
    <3>3. QED
      BY <2>2, <3>2 DEF PriorityConflict, Disagrees
  <2>3. QED
    BY <2>1, <2>2
<1>9. c5 <=> \E i \in I : c.kind = "net_priority" /\ doc[i].kind = "net_priority" /\ doc[i].value # c.value
                          /\ \E net \in ToSet(doc[i].subjects) : net \in ToSet(c.subjects)
  BY <1>8
<1> HIDE DEF c1, c2, c3, c4, c5
<1>10. Reasons(checks, 5)
  <2>1. \A i \in 1..5 : i = 1 \/ i = 2 \/ i = 3 \/ i = 4 \/ i = 5
    OBVIOUS
  <2>2. /\ Len(checks) = 5 /\ checks[1][2] = "duplicate id" /\ checks[2][2] = "duplicate" /\ checks[3][2] = "axes"
        /\ checks[4][2] = "axes" /\ checks[5][2] = "priorities"
    OBVIOUS
  <2> HIDE DEF checks
  <2>3. QED
    BY <2>1, <2>2 DEF Reasons, Passed
<1>11. NoneTrue(checks, 5) <=> ~c1 /\ ~c2 /\ ~c3 /\ ~c4 /\ ~c5
  <2>1. checks[1][1] = c1 /\ checks[2][1] = c2 /\ checks[3][1] = c3 /\ checks[4][1] = c4 /\ checks[5][1] = c5
    OBVIOUS
  <2>2. \A i \in 1..5 : i = 1 \/ i = 2 \/ i = 3 \/ i = 4 \/ i = 5
    OBVIOUS
  <2>3. 1 \in 1..5 /\ 2 \in 1..5 /\ 3 \in 1..5 /\ 4 \in 1..5 /\ 5 \in 1..5
    OBVIOUS
  <2> HIDE DEF checks
  <2>4. QED
    BY <2>1, <2>2, <2>3, Zenon DEF NoneTrue
<1> HIDE DEF checks
<1>12. ConflictFailure(s, c) = Passed <=> ~c1 /\ ~c2 /\ ~c3 /\ ~c4 /\ ~c5
  BY <1>1, <1>10, <1>11, ChecksPass
<1>13. (\E i \in I : Contradicts(doc[i], c)) <=> c1 \/ c2 \/ c3 \/ c4 \/ c5
  <2>1. ASSUME NEW i \in I
        PROVE  Contradicts(doc[i], c) <=>
                 \/ doc[i].id = c.id \/ SemanticKey(doc[i]) = SemanticKey(c)
                 \/ c.kind = "symmetry" /\ doc[i].kind = "symmetry" /\ ToSet(doc[i].subjects) = ToSet(c.subjects) /\ doc[i].axis # c.axis
                 \/ c.kind = "alignment" /\ doc[i].kind = "alignment" /\ ToSet(doc[i].subjects) = ToSet(c.subjects) /\ doc[i].axis # c.axis
                 \/ /\ c.kind = "net_priority" /\ doc[i].kind = "net_priority" /\ doc[i].value # c.value
                    /\ \E net \in ToSet(doc[i].subjects) : net \in ToSet(c.subjects)
    BY DEF Contradicts
  <2>2. QED
    BY <1>3, <1>4, <1>6, <1>7, <1>9, <2>1
<1>14. QED
  BY <1>12, <1>13 DEF s

\* Updates of what is known, field by field.
LEMMA KnownFields ==
  ASSUME NEW v, NEW ids, NEW sem, NEW sym, NEW ali, NEW groups, NEW pri, NEW edges
  PROVE  LET known == Known(v, ids, sem, sym, ali, groups, pri, edges)
         IN /\ known.verdict = v /\ known.ids = ids /\ known.semantics = sem /\ known.symmetry_axes = sym
            /\ known.alignment_axes = ali /\ known.alignment_groups = groups /\ known.priorities = pri
            /\ known.order_edges = edges
BY DEF Known

LEMMA UpdateIds ==
  ASSUME NEW r, NEW x, NEW y
  PROVE  [r EXCEPT !.ids = @ \cup x, !.semantics = @ \cup y]
           = [[r EXCEPT !.ids = r.ids \cup x] EXCEPT !.semantics = r.semantics \cup y]
OBVIOUS

LEMMA UpdateAlignment ==
  ASSUME NEW r, NEW x, NEW y, NEW b
  PROVE  [r EXCEPT !.alignment_axes = @ \cup x, !.alignment_groups[b] = Append(@, y)]
           = [[r EXCEPT !.alignment_axes = r.alignment_axes \cup x]
                EXCEPT !.alignment_groups = [r.alignment_groups EXCEPT ![b] = Append(@, y)]]
OBVIOUS

\* The two updates of several fields, as operators of their own.
WithIds(r, x, y) == [r EXCEPT !.ids = @ \cup x, !.semantics = @ \cup y]
WithAlignment(r, b, x, y) == [r EXCEPT !.alignment_axes = @ \cup x, !.alignment_groups[b] = Append(@, y)]

LEMMA KnownIds ==
  ASSUME NEW v, NEW ids, NEW sem, NEW sym, NEW ali, NEW groups, NEW pri, NEW edges, NEW x, NEW y
  PROVE  WithIds(Known(v, ids, sem, sym, ali, groups, pri, edges), x, y)
           = Known(v, ids \cup x, sem \cup y, sym, ali, groups, pri, edges)
<1> DEFINE r == Known(v, ids, sem, sym, ali, groups, pri, edges)
           ids2 == ids \cup x
           sem2 == sem \cup y
<1>1. r.ids = ids /\ r.semantics = sem
  BY KnownFields
<1> HIDE DEF ids2, sem2
<1>2. [r EXCEPT !.ids = ids2] = Known(v, ids2, sem, sym, ali, groups, pri, edges)
  BY DEF Known
<1>3. [Known(v, ids2, sem, sym, ali, groups, pri, edges) EXCEPT !.semantics = sem2] = Known(v, ids2, sem2, sym, ali, groups, pri, edges)
  BY DEF Known
<1> HIDE DEF r
<1>4. [r EXCEPT !.ids = @ \cup x, !.semantics = @ \cup y] = [[r EXCEPT !.ids = ids2] EXCEPT !.semantics = sem2]
  BY <1>1, UpdateIds, Zenon DEF ids2, sem2
<1>5. [r EXCEPT !.ids = @ \cup x, !.semantics = @ \cup y] = Known(v, ids2, sem2, sym, ali, groups, pri, edges)
  BY <1>2, <1>3, <1>4, Zenon
<1>6. QED
  BY <1>5, Zenon DEF r, ids2, sem2, WithIds

LEMMA KnownAlignment ==
  ASSUME NEW v, NEW ids, NEW sem, NEW sym, NEW ali, NEW groups, NEW pri, NEW edges, NEW x, NEW y, NEW b
  PROVE  WithAlignment(Known(v, ids, sem, sym, ali, groups, pri, edges), b, x, y)
           = Known(v, ids, sem, sym, ali \cup x, [groups EXCEPT ![b] = Append(@, y)], pri, edges)
<1> DEFINE r == Known(v, ids, sem, sym, ali, groups, pri, edges)
           ali2 == ali \cup x
           groups2 == [groups EXCEPT ![b] = Append(@, y)]
<1>1. r.alignment_axes = ali /\ r.alignment_groups = groups
  BY KnownFields
<1> HIDE DEF ali2, groups2
<1>2. [r EXCEPT !.alignment_axes = ali2] = Known(v, ids, sem, sym, ali2, groups, pri, edges)
  BY DEF Known
<1>3. [Known(v, ids, sem, sym, ali2, groups, pri, edges) EXCEPT !.alignment_groups = groups2] = Known(v, ids, sem, sym, ali2, groups2, pri, edges)
  BY DEF Known
<1> HIDE DEF r
<1>4. [r EXCEPT !.alignment_axes = @ \cup x, !.alignment_groups[b] = Append(@, y)]
        = [[r EXCEPT !.alignment_axes = ali2] EXCEPT !.alignment_groups = groups2]
  BY <1>1, UpdateAlignment, Zenon DEF ali2, groups2
<1>5. [r EXCEPT !.alignment_axes = @ \cup x, !.alignment_groups[b] = Append(@, y)] = Known(v, ids, sem, sym, ali2, groups2, pri, edges)
  BY <1>2, <1>3, <1>4, Zenon
<1>6. QED
  BY <1>5, Zenon DEF r, ali2, groups2, WithAlignment

\* An order adds its edges to those of its axis.
LEMMA KnownOrder ==
  ASSUME NEW v, NEW ids, NEW sem, NEW sym, NEW ali, NEW groups, NEW pri, NEW edges, NEW x, NEW b
  PROVE  [Known(v, ids, sem, sym, ali, groups, pri, edges) EXCEPT !.order_edges[b] = @ \cup x]
           = Known(v, ids, sem, sym, ali, groups, pri, [edges EXCEPT ![b] = @ \cup x])
BY DEF Known

\* What one more constraint adds.
LEMMA ConstraintAdds ==
  ASSUME NEW doc, NEW I, NEW k, k \notin I, Shaped(doc[k]), NEW aligned, Holds(doc, I, aligned)
  PROVE  \E al : /\ Collected(Gathered(doc, I, aligned), doc[k]) = Gathered(doc, I \cup {k}, al)
                 /\ Holds(doc, I \cup {k}, al)
<1> DEFINE c == doc[k]
           J == I \cup {k}
           ids == {doc[i].id : i \in I}
           semantics == {SemanticKey(doc[i]) : i \in I}
           sym == AxesIn(doc, I, "symmetry")
           ali == AxesIn(doc, I, "alignment")
           pri == PrioritiesIn(doc, I)
           edg == EdgesIn(doc, I)
           ids2 == {doc[i].id : i \in J}
           sem2 == {SemanticKey(doc[i]) : i \in J}
           entry == <<ToSet(c.subjects), c.axis>>
           al == IF c.kind = "alignment" THEN [aligned EXCEPT ![c.axis] = Append(@, ToSet(c.subjects))] ELSE aligned
<1>1. ids2 = ids \cup {c.id} /\ sem2 = semantics \cup {SemanticKey(c)}
  OBVIOUS
<1>2. ASSUME NEW kind PROVE Those(doc, J, kind) = IF c.kind = kind THEN Those(doc, I, kind) \cup {k} ELSE Those(doc, I, kind)
  BY DEF Those
<1>3. ASSUME NEW kind PROVE AxesIn(doc, J, kind) = IF c.kind = kind THEN AxesIn(doc, I, kind) \cup {entry} ELSE AxesIn(doc, I, kind)
  <2>1. CASE c.kind = kind
    <3>1. Those(doc, J, kind) = Those(doc, I, kind) \cup {k}
      BY <1>2, <2>1
    <3>2. QED
      BY <2>1, <3>1 DEF AxesIn
  <2>2. CASE c.kind # kind
    <3>1. Those(doc, J, kind) = Those(doc, I, kind)
      BY <1>2, <2>2
    <3>2. QED
      BY <2>2, <3>1 DEF AxesIn
  <2>3. QED
    BY <2>1, <2>2
<1>4. PrioritiesIn(doc, J) = IF c.kind = "net_priority" THEN pri \cup (ToSet(c.subjects) \X {c.value}) ELSE pri
  <2>1. CASE c.kind = "net_priority"
    <3>1. Those(doc, J, "net_priority") = Those(doc, I, "net_priority") \cup {k}
      BY <1>2, <2>1
    <3>2. QED
      BY <2>1, <3>1 DEF PrioritiesIn
  <2>2. CASE c.kind # "net_priority"
    <3>1. Those(doc, J, "net_priority") = Those(doc, I, "net_priority")
      BY <1>2, <2>2
    <3>2. QED
      BY <2>2, <3>1 DEF PrioritiesIn
  <2>3. QED
    BY <2>1, <2>2
<1>5. ASSUME NEW a
      PROVE  OrderEdges(doc, J, a) =
               IF c.kind = "order" /\ OrderAxis(c) = a THEN OrderEdges(doc, I, a) \cup EdgesOf(c) ELSE OrderEdges(doc, I, a)
  <2> DEFINE old == {j \in Those(doc, I, "order") : OrderAxis(doc[j]) = a}
             new == {j \in Those(doc, J, "order") : OrderAxis(doc[j]) = a}
  <2>1. OrderEdges(doc, J, a) = UNION {EdgesOf(doc[i]) : i \in new} /\ OrderEdges(doc, I, a) = UNION {EdgesOf(doc[i]) : i \in old}
    BY DEF OrderEdges
  <2>2. CASE c.kind = "order" /\ OrderAxis(c) = a
    <3>1. new = old \cup {k}
      BY <1>2, <2>2
    <3> HIDE DEF new, old
    <3>2. \A e : e \in OrderEdges(doc, J, a) <=> \E i \in new : e \in EdgesOf(doc[i])
      BY <2>1
    <3>3. \A e : e \in OrderEdges(doc, I, a) <=> \E i \in old : e \in EdgesOf(doc[i])
      BY <2>1
    <3>4. \A e : e \in OrderEdges(doc, J, a) <=> e \in OrderEdges(doc, I, a) \/ e \in EdgesOf(c)
      BY <3>1, <3>2, <3>3
    <3>5. OrderEdges(doc, J, a) = OrderEdges(doc, I, a) \cup EdgesOf(c)
      BY <3>4
    <3>6. QED
      BY <2>2, <3>5
  <2>3. CASE ~(c.kind = "order" /\ OrderAxis(c) = a)
    <3>1. new = old
      BY <1>2, <2>3
    <3> HIDE DEF new, old
    <3>2. QED
      BY <2>1, <2>3, <3>1
  <2>4. QED
    BY <2>2, <2>3
<1>6. ASSUME NEW a
      PROVE  AlignedGroups(doc, J, a) =
               IF c.kind = "alignment" /\ c.axis = a THEN AlignedGroups(doc, I, a) \cup {ToSet(c.subjects)} ELSE AlignedGroups(doc, I, a)
  <2> DEFINE old == {j \in Those(doc, I, "alignment") : doc[j].axis = a}
             new == {j \in Those(doc, J, "alignment") : doc[j].axis = a}
  <2>1. AlignedGroups(doc, J, a) = {ToSet(doc[i].subjects) : i \in new} /\ AlignedGroups(doc, I, a) = {ToSet(doc[i].subjects) : i \in old}
    BY DEF AlignedGroups
  <2>2. CASE c.kind = "alignment" /\ c.axis = a
    <3>1. new = old \cup {k}
      BY <1>2, <2>2
    <3> HIDE DEF new, old
    <3>2. QED
      BY <2>1, <2>2, <3>1
  <2>3. CASE ~(c.kind = "alignment" /\ c.axis = a)
    <3>1. new = old
      BY <1>2, <2>3
    <3> HIDE DEF new, old
    <3>2. QED
      BY <2>1, <2>3, <3>1
  <2>4. QED
    BY <2>2, <2>3
<1>7. EdgesIn(doc, J) = IF c.kind = "order" THEN [edg EXCEPT ![OrderAxis(c)] = @ \cup EdgesOf(c)] ELSE edg
  <2>1. edg = [a \in PlacementAxes |-> OrderEdges(doc, I, a)] /\ EdgesIn(doc, J) = [a \in PlacementAxes |-> OrderEdges(doc, J, a)]
    BY DEF EdgesIn
  <2>2. OrderAxis(c) \in PlacementAxes
    BY DEF OrderAxis, PlacementAxes
  <2> HIDE DEF edg
  <2>3. CASE c.kind = "order"
    <3> DEFINE b == OrderAxis(c)
               new == [edg EXCEPT ![b] = @ \cup EdgesOf(c)]
    <3>1. new = [a \in PlacementAxes |-> IF a = b THEN OrderEdges(doc, I, a) \cup EdgesOf(c) ELSE OrderEdges(doc, I, a)]
      <4> HIDE DEF b
      <4>1. QED
        BY <2>1
    <3> HIDE DEF new
    <3>2. \A a \in PlacementAxes : OrderEdges(doc, J, a) = IF a = b THEN OrderEdges(doc, I, a) \cup EdgesOf(c) ELSE OrderEdges(doc, I, a)
      BY <1>5, <2>3
    <3> HIDE DEF b
    <3>3. EdgesIn(doc, J) = new
      BY <2>1, <3>1, <3>2
    <3>4. QED
      BY <2>3, <3>3 DEF new, b
  <2>4. CASE c.kind # "order"
    <3>1. \A a \in PlacementAxes : OrderEdges(doc, J, a) = OrderEdges(doc, I, a)
      BY <1>5, <2>4
    <3>2. EdgesIn(doc, J) = edg
      BY <2>1, <3>1
    <3>3. QED
      BY <2>4, <3>2
  <2>5. QED
    BY <2>3, <2>4
<1>8. Holds(doc, J, al)
  <2>1. CASE c.kind = "alignment"
    <3> DEFINE G == ToSet(c.subjects)
               old == aligned[c.axis]
    <3>1. c.axis \in PlacementAxes /\ G \in SUBSET Placeable /\ old \in Seq(SUBSET Placeable)
      BY <2>1 DEF Shaped, Holds
    <3>2. Append(old, G) \in Seq(SUBSET Placeable) /\ ToSet(Append(old, G)) = ToSet(old) \cup {G}
      <4> DEFINE B == SUBSET Placeable
      <4>1. old \in Seq(B) /\ G \in B
        BY <3>1
      <4> HIDE DEF B, G, old
      <4>2. /\ Append(old, G) \in Seq(B) /\ DOMAIN Append(old, G) = 1..(Len(old) + 1) /\ DOMAIN old = 1..Len(old)
            /\ Len(old) \in Nat /\ Append(old, G)[Len(old) + 1] = G
            /\ \A i \in 1..Len(old) : Append(old, G)[i] = old[i]
        BY <4>1
      <4> DEFINE new == Append(old, G)
                 n == Len(old)
      <4>3. 1..(n + 1) = 1..n \cup {n + 1}
        BY <4>2
      <4>4. new \in Seq(B) /\ DOMAIN new = 1..n \cup {n + 1} /\ DOMAIN old = 1..n /\ new[n + 1] = G
            /\ \A i \in 1..n : new[i] = old[i]
        BY <4>2, <4>3
      <4> HIDE DEF new, n
      <4>5. ToSet(new) = ToSet(old) \cup {G}
        BY <4>4 DEF ToSet
      <4>6. QED
        BY <4>4, <4>5 DEF new, B
    <3>3. al = [aligned EXCEPT ![c.axis] = Append(old, G)]
      BY <2>1
    <3> HIDE DEF al, G, old
    <3>4. al \in [PlacementAxes -> Seq(SUBSET Placeable)] /\ al[c.axis] = Append(old, G)
          /\ \A a \in PlacementAxes : a # c.axis => al[a] = aligned[a]
      BY <3>1, <3>2, <3>3 DEF Holds
    <3>5. ToSet(old) = AlignedGroups(doc, I, c.axis)
      BY <3>1 DEF Holds, old
    <3>6. \A a \in PlacementAxes : ToSet(al[a]) = AlignedGroups(doc, J, a)
      BY <1>6, <2>1, <3>2, <3>4, <3>5 DEF Holds, G
    <3>7. QED
      BY <3>4, <3>6 DEF Holds
  <2>2. CASE c.kind # "alignment"
    <3>1. al = aligned
      BY <2>2
    <3> HIDE DEF al
    <3>2. \A a \in PlacementAxes : AlignedGroups(doc, J, a) = AlignedGroups(doc, I, a)
      BY <1>6, <2>2
    <3>3. QED
      BY <3>1, <3>2 DEF Holds
  <2>3. QED
    BY <2>1, <2>2
<1> DEFINE s == Gathered(doc, I, aligned)
           known == Known("reading", ids2, sem2, sym, ali, aligned, pri, edg)
<1>9. s = Known("reading", ids, semantics, sym, ali, aligned, pri, edg)
  BY DEF Gathered
<1>10. Gathered(doc, J, al) = Known("reading", ids2, sem2, AxesIn(doc, J, "symmetry"), AxesIn(doc, J, "alignment"), al, PrioritiesIn(doc, J), EdgesIn(doc, J))
  BY DEF Gathered
<1> HIDE DEF ids, semantics, sym, ali, pri, edg, ids2, sem2, entry, al
<1>11. [s EXCEPT !.ids = @ \cup {c.id}, !.semantics = @ \cup {SemanticKey(c)}] = known
  <2> HIDE DEF s, c
  <2>1. [s EXCEPT !.ids = @ \cup {c.id}, !.semantics = @ \cup {SemanticKey(c)}]
          = Known("reading", ids \cup {c.id}, semantics \cup {SemanticKey(c)}, sym, ali, aligned, pri, edg)
    <3> DEFINE r == Known("reading", ids, semantics, sym, ali, aligned, pri, edg)
               x == {c.id}
               y == {SemanticKey(c)}
    <3>1. s = r
      BY <1>9
    <3> HIDE DEF x, y
    <3>2. WithIds(r, x, y) = Known("reading", ids \cup x, semantics \cup y, sym, ali, aligned, pri, edg)
      BY KnownIds
    <3> HIDE DEF r
    <3>3. [s EXCEPT !.ids = @ \cup x, !.semantics = @ \cup y] = Known("reading", ids \cup x, semantics \cup y, sym, ali, aligned, pri, edg)
      BY <3>1, <3>2, Zenon DEF WithIds
    <3>4. QED
      BY <3>3, Zenon DEF x, y
  <2>2. QED
    BY <1>1, <2>1
<1>12. c.kind \in {"symmetry", "common_centroid", "alignment", "order", "matching", "keepout", "net_priority"}
  BY DEF Shaped
<1>13. Collected(s, c) =
         CASE c.kind = "symmetry" -> [known EXCEPT !.symmetry_axes = @ \cup {entry}]
           [] c.kind = "alignment" ->
                [known EXCEPT !.alignment_axes = @ \cup {entry}, !.alignment_groups[c.axis] = Append(@, ToSet(c.subjects))]
           [] c.kind = "net_priority" -> [known EXCEPT !.priorities = @ \cup (ToSet(c.subjects) \X {c.value})]
           [] c.kind = "order" -> [known EXCEPT !.order_edges[OrderAxis(c)] = @ \cup EdgesOf(c)]
           [] OTHER -> known
  <2> HIDE DEF s, c, known
  <2>1. QED
    BY <1>11, Zenon DEF Collected, entry
<1> HIDE DEF s
<1>14. Collected(s, c) = Gathered(doc, J, al)
  <2>1. CASE c.kind = "symmetry"
    <3>1. Collected(s, c) = [known EXCEPT !.symmetry_axes = @ \cup {entry}]
      BY <1>13, <2>1
    <3>2. [known EXCEPT !.symmetry_axes = @ \cup {entry}] = Known("reading", ids2, sem2, sym \cup {entry}, ali, aligned, pri, edg)
      BY DEF Known
    <3>3. AxesIn(doc, J, "symmetry") = sym \cup {entry} /\ AxesIn(doc, J, "alignment") = ali /\ al = aligned
      BY <1>3, <2>1 DEF sym, ali, al
    <3>4. PrioritiesIn(doc, J) = pri /\ EdgesIn(doc, J) = edg
      BY <1>4, <1>7, <2>1
    <3>5. QED
      BY <1>10, <3>1, <3>2, <3>3, <3>4
  <2>2. CASE c.kind = "alignment"
    <3> DEFINE upd == [aligned EXCEPT ![c.axis] = Append(@, ToSet(c.subjects))]
    <3>1. Collected(s, c) = [known EXCEPT !.alignment_axes = @ \cup {entry}, !.alignment_groups[c.axis] = Append(@, ToSet(c.subjects))]
      BY <1>13, <2>2
    <3>2. [known EXCEPT !.alignment_axes = @ \cup {entry}, !.alignment_groups[c.axis] = Append(@, ToSet(c.subjects))]
            = Known("reading", ids2, sem2, sym, ali \cup {entry}, upd, pri, edg)
      <4> DEFINE x == {entry}
                 y == ToSet(c.subjects)
                 b == c.axis
      <4> HIDE DEF x, y, b
      <4>1. WithAlignment(known, b, x, y) = Known("reading", ids2, sem2, sym, ali \cup x, [aligned EXCEPT ![b] = Append(@, y)], pri, edg)
        BY KnownAlignment
      <4>2. QED
        BY <4>1, Zenon DEF x, y, b, WithAlignment
    <3>3. AxesIn(doc, J, "symmetry") = sym /\ AxesIn(doc, J, "alignment") = ali \cup {entry} /\ al = upd
      BY <1>3, <2>2 DEF sym, ali, al
    <3>4. PrioritiesIn(doc, J) = pri /\ EdgesIn(doc, J) = edg
      BY <1>4, <1>7, <2>2
    <3>5. QED
      BY <1>10, <3>1, <3>2, <3>3, <3>4
  <2>3. CASE c.kind = "net_priority"
    <3> DEFINE more == ToSet(c.subjects) \X {c.value}
    <3>1. Collected(s, c) = [known EXCEPT !.priorities = @ \cup more]
      BY <1>13, <2>3
    <3>2. [known EXCEPT !.priorities = @ \cup more] = Known("reading", ids2, sem2, sym, ali, aligned, pri \cup more, edg)
      BY DEF Known
    <3>3. AxesIn(doc, J, "symmetry") = sym /\ AxesIn(doc, J, "alignment") = ali /\ al = aligned
      BY <1>3, <2>3 DEF sym, ali, al
    <3>4. PrioritiesIn(doc, J) = pri \cup more /\ EdgesIn(doc, J) = edg
      BY <1>4, <1>7, <2>3
    <3>5. QED
      BY <1>10, <3>1, <3>2, <3>3, <3>4
  <2>4. CASE c.kind = "order"
    <3> DEFINE upd == [edg EXCEPT ![OrderAxis(c)] = @ \cup EdgesOf(c)]
    <3>1. Collected(s, c) = [known EXCEPT !.order_edges[OrderAxis(c)] = @ \cup EdgesOf(c)]
      BY <1>13, <2>4
    <3>2. [known EXCEPT !.order_edges[OrderAxis(c)] = @ \cup EdgesOf(c)] = Known("reading", ids2, sem2, sym, ali, aligned, pri, upd)
      BY KnownOrder
    <3>3. AxesIn(doc, J, "symmetry") = sym /\ AxesIn(doc, J, "alignment") = ali /\ al = aligned
      BY <1>3, <2>4 DEF sym, ali, al
    <3>4. PrioritiesIn(doc, J) = pri /\ EdgesIn(doc, J) = upd
      BY <1>4, <1>7, <2>4
    <3>5. QED
      BY <1>10, <3>1, <3>2, <3>3, <3>4
  <2>5. CASE c.kind \notin {"symmetry", "alignment", "net_priority", "order"}
    <3>1. Collected(s, c) = known
      BY <1>13, <2>5
    <3>2. AxesIn(doc, J, "symmetry") = sym /\ AxesIn(doc, J, "alignment") = ali /\ al = aligned
      BY <1>3, <2>5 DEF sym, ali, al
    <3>3. PrioritiesIn(doc, J) = pri /\ EdgesIn(doc, J) = edg
      BY <1>4, <1>7, <2>5
    <3>4. QED
      BY <1>10, <3>1, <3>2, <3>3
  <2>6. QED
    BY <2>1, <2>2, <2>3, <2>4, <2>5
<1>15. QED
  BY <1>8, <1>14 DEF s

(***************************************************************************)
(* Reading: the verdict on a document, constraint by constraint.           *)
(***************************************************************************)
Blamed == {"duplicate id", "duplicate", "axes", "priorities"}

\* Whatever a conflict is, it has one of these names.
LEMMA ConflictIsBlamed ==
  ASSUME NEW s, NEW c
  PROVE  ConflictFailure(s, c) = Passed \/ ConflictFailure(s, c) \in Blamed
<1> DEFINE c1 == c.id \in s.ids
           c2 == SemanticKey(c) \in s.semantics
           c3 == c.kind = "symmetry" /\ Disagrees(s.symmetry_axes, ToSet(c.subjects), c.axis)
           c4 == c.kind = "alignment" /\ Disagrees(s.alignment_axes, ToSet(c.subjects), c.axis)
           c5 == c.kind = "net_priority" /\ PriorityConflict(s, c)
           checks == << <<c1, "duplicate id">>, <<c2, "duplicate">>, <<c3, "axes">>, <<c4, "axes">>, <<c5, "priorities">> >>
<1>1. ConflictFailure(s, c) = FirstFailure(checks)
  BY Zenon DEF ConflictFailure
<1> HIDE DEF c1, c2, c3, c4, c5
<1>2. /\ Len(checks) = 5 /\ checks[1][2] = "duplicate id" /\ checks[2][2] = "duplicate" /\ checks[3][2] = "axes"
      /\ checks[4][2] = "axes" /\ checks[5][2] = "priorities"
  OBVIOUS
<1>3. \A i \in 1..5 : i = 1 \/ i = 2 \/ i = 3 \/ i = 4 \/ i = 5
  OBVIOUS
<1> HIDE DEF checks
<1>4. FirstFailure(checks) = Passed \/ \E i \in 1..5 : FirstFailure(checks) = checks[i][2]
  BY <1>2, FailureIsGiven
<1>5. \A i \in 1..5 : checks[i][2] \in Blamed
  BY <1>2, <1>3 DEF Blamed
<1>6. QED
  BY <1>1, <1>4, <1>5

\* The state of the loop after k constraints: everything they say while they
\* agree, and a verdict once two of them do not.
Agree(doc, k) == \A i, j \in 1..k : i < j => ~Contradicts(doc[i], doc[j])
Reads(doc, k, s) ==
  IF Agree(doc, k) THEN \E al : s = Gathered(doc, 1..k, al) /\ Holds(doc, 1..k, al)
  ELSE s.verdict \in Blamed

\* It holds before the first constraint, and each step keeps it.
LEMMA StartReads ==
  ASSUME NEW doc
  PROVE  Reads(doc, 0, Start)
<1> DEFINE al == [a \in PlacementAxes |-> <<>>]
           I == {i \in Nat : FALSE}
<1>1. Agree(doc, 0) /\ 1..0 = I
  BY DEF Agree
<1>2. \A kind : Those(doc, I, kind) = {}
  BY DEF Those
<1>3. AxesIn(doc, I, "symmetry") = {} /\ AxesIn(doc, I, "alignment") = {} /\ PrioritiesIn(doc, I) = {}
  BY <1>2 DEF AxesIn, PrioritiesIn
<1>4. \A a : OrderEdges(doc, I, a) = {} /\ AlignedGroups(doc, I, a) = {}
  BY <1>2 DEF OrderEdges, AlignedGroups
<1>5. EdgesIn(doc, I) = [a \in PlacementAxes |-> {}]
  BY <1>4 DEF EdgesIn
<1>6. {doc[i].id : i \in I} = {} /\ {SemanticKey(doc[i]) : i \in I} = {}
  OBVIOUS
<1> DEFINE none == [a \in PlacementAxes |-> {}]
<1>7. Start = Known("reading", {}, {}, {}, {}, al, {}, none)
  BY Zenon DEF Start, Known
<1>8. Start = Gathered(doc, I, al)
  <2> HIDE DEF I, al, none
  <2>1. EdgesIn(doc, I) = none
    BY <1>5 DEF none
  <2>2. QED
    BY <1>3, <1>6, <1>7, <2>1, Zenon DEF Gathered
<1>9. Holds(doc, I, al)
  <2>1. \A a \in PlacementAxes : al[a] = <<>> /\ al[a] \in Seq(SUBSET Placeable) /\ ToSet(al[a]) = {}
    BY DEF ToSet
  <2>2. al \in [PlacementAxes -> Seq(SUBSET Placeable)]
    BY <2>1
  <2> HIDE DEF al, I
  <2>3. QED
    BY <1>4, <2>1, <2>2 DEF Holds
<1> HIDE DEF I, al
<1>10. QED
  BY <1>1, <1>8, <1>9 DEF Reads

LEMMA StepReads ==
  ASSUME NEW doc, NEW k \in Nat, Shaped(doc[k + 1]), NEW s, Reads(doc, k, s)
  PROVE  Reads(doc, k + 1, Step(s, doc[k + 1]))
<1> DEFINE I == 1..k
           m == k + 1
           c == doc[m]
           cf == ConflictFailure(s, c)
<1>1. 1..m = I \cup {m} /\ m \notin I /\ \A i \in I : i < m
  OBVIOUS
<1>2. Agree(doc, m) <=> Agree(doc, k) /\ \A i \in I : ~Contradicts(doc[i], c)
  BY DEF Agree
<1>3. Shaped(c)
  OBVIOUS
<1> HIDE DEF m
<1>4. CASE Agree(doc, k)
  <2>1. PICK al : s = Gathered(doc, I, al) /\ Holds(doc, I, al)
    BY <1>4 DEF Reads
  <2>2. s.verdict = "reading"
    BY <2>1 DEF Gathered, Known
  <2>3. cf = Passed <=> \A i \in I : ~Contradicts(doc[i], c)
    BY <2>1, ConflictFacts
  <2> HIDE DEF I
  <2>4. CASE cf = Passed
    <3>1. Agree(doc, m)
      BY <1>2, <1>4, <2>3, <2>4
    <3>2. Step(s, c) = Collected(s, c)
      BY <2>2, <2>4 DEF Step
    <3>3. PICK al2 : Collected(Gathered(doc, I, al), c) = Gathered(doc, I \cup {m}, al2) /\ Holds(doc, I \cup {m}, al2)
      BY <1>1, <1>3, <2>1, ConstraintAdds
    <3>4. QED
      BY <1>1, <2>1, <3>1, <3>2, <3>3 DEF Reads, m
  <2>5. CASE cf # Passed
    <3>1. ~Agree(doc, m) /\ cf \in Blamed
      BY <1>2, <2>3, <2>5, ConflictIsBlamed
    <3>2. Step(s, c) = [s EXCEPT !.verdict = cf]
      BY <2>2, <2>5 DEF Step
    <3>3. [s EXCEPT !.verdict = cf].verdict = cf
      <4> HIDE DEF cf
      <4>1. QED
        BY <2>1 DEF Gathered, Known
    <3>4. QED
      BY <3>1, <3>2, <3>3 DEF Reads, m
  <2>6. QED
    BY <2>4, <2>5
<1>5. CASE ~Agree(doc, k)
  <2>1. s.verdict \in Blamed
    BY <1>5 DEF Reads
  <2>2. Step(s, c) = s
    BY <2>1 DEF Step, Blamed
  <2>3. QED
    BY <1>2, <1>5, <2>1, <2>2 DEF Reads, m
<1>6. QED
  BY <1>4, <1>5

\* There are such coordinates.
CanPlace(edges, groups) == \E place \in [Placeable -> 1..Cardinality(Placeable)] : Coordinates(place, edges, groups)

\* The verdict on the first n constraints of doc, said without an order.
Judged(doc, n, verdict) ==
  IF Agree(doc, n) THEN
    /\ verdict \in {"accepted", "cycle", "alignment"}
    /\ verdict = "accepted" <=>
         \A a \in PlacementAxes : CanPlace(OrderEdges(doc, 1..n, a), AlignedGroups(doc, 1..n, a))
    /\ verdict = "alignment" =>
         \E a \in PlacementAxes : /\ CanPlace(OrderEdges(doc, 1..n, a), {})
                                  /\ ~CanPlace(OrderEdges(doc, 1..n, a), AlignedGroups(doc, 1..n, a))
  ELSE verdict \in Blamed

\* The lists of a constraint are lists.
Written(c) == c.subjects \in Seq(ToSet(c.subjects)) /\ Len(FlattenSeq(c.groups)) \in Nat
WellWritten(doc) == (\E S : doc \in Seq(S)) /\ \A i \in 1..Len(doc) : Written(doc[i])

LEMMA WrittenLength ==
  ASSUME NEW doc, WellWritten(doc)
  PROVE  Len(doc) \in Nat /\ DOMAIN doc = 1..Len(doc)
BY DEF WellWritten

\* The edges of an order are between placeable objects.
LEMMA OrderedPairs ==
  ASSUME NEW c, c.kind = "order", Shaped(c), Written(c)
  PROVE  EdgesOf(c) \subseteq Placeable \X Placeable
<1> DEFINE s == c.subjects
           n == Len(s)
           t == NormalizedOrder(c)
<1>1. s \in Seq(Placeable) /\ n \in Nat /\ DOMAIN s = 1..n
  <2>1. ToSet(s) \subseteq Placeable /\ s \in Seq(ToSet(s))
    BY DEF Shaped, Written
  <2>2. QED
    BY <2>1
<1> HIDE DEF s, n
<1>2. \A i \in 1..n : t[i] \in Placeable
  <2>1. \A i \in 1..n : s[i] \in Placeable /\ (n - i) + 1 \in 1..n
    BY <1>1
  <2>2. \A i \in 1..n : Reverse(s)[i] = s[(n - i) + 1]
    BY DEF Reverse, n
  <2>3. QED
    BY <2>1, <2>2 DEF NormalizedOrder, s
<1> HIDE DEF t
<1>3. EdgesOf(c) = {<<t[i], t[i + 1]>> : i \in 1..n - 1}
  BY DEF EdgesOf, t, n, s
<1>4. \A i \in 1..n - 1 : i \in 1..n /\ i + 1 \in 1..n
  BY <1>1
<1>5. QED
  BY <1>2, <1>3, <1>4

LEMMA EdgesArePlaced ==
  ASSUME NEW doc, WellWritten(doc), NEW n \in 0..Len(doc), \A i \in 1..n : Shaped(doc[i]), NEW a
  PROVE  OrderEdges(doc, 1..n, a) \in SUBSET (Placeable \X Placeable)
<1>1. ASSUME NEW i \in 1..n, doc[i].kind = "order" PROVE EdgesOf(doc[i]) \subseteq Placeable \X Placeable
  <2>1. i \in 1..Len(doc)
    BY WrittenLength
  <2>2. QED
    BY <1>1, <2>1, OrderedPairs DEF WellWritten
<1>2. QED
  BY <1>1 DEF OrderEdges, Those

\* The two checks of one axis, then the verdict at the end of the loop.
LEMMA AxisVerdict ==
  ASSUME NEW s, NEW a, NEW edges, NEW groups, s.order_edges[a] = edges, s.alignment_groups[a] = groups,
         edges \in SUBSET (Placeable \X Placeable), groups \in Seq(SUBSET Placeable)
  PROVE  /\ AxisFailure(s, a) = Passed \/ AxisFailure(s, a) = "cycle" \/ AxisFailure(s, a) = "alignment"
         /\ AxisFailure(s, a) = Passed <=> CanPlace(edges, ToSet(groups))
         /\ AxisFailure(s, a) = "alignment" => CanPlace(edges, {}) /\ ~CanPlace(edges, ToSet(groups))
<1> DEFINE c1 == HasCycle(edges)
           c2 == HasCycle(Contracted(edges, groups))
           f == FirstFailure(<< <<c1, "cycle">>, <<c2, "alignment">> >>)
<1>1. AxisFailure(s, a) = f
  BY Zenon DEF AxisFailure
<1>2. (~c1 <=> CanPlace(edges, {})) /\ (~c2 <=> CanPlace(edges, ToSet(groups)))
  BY CycleFacts, AlignmentFacts, Zenon DEF CanPlace
<1>3. ~c2 => ~c1
  <2>1. CanPlace(edges, ToSet(groups)) => CanPlace(edges, {})
    BY DEF CanPlace, Coordinates
  <2>2. QED
    BY <1>2, <2>1
<1> HIDE DEF c1, c2
<1>4. (c1 => f = "cycle") /\ (~c1 /\ c2 => f = "alignment")
  BY TwoReasons
<1>5. f = Passed <=> ~c1 /\ ~c2
  <2> DEFINE r1 == "cycle"
             r2 == "alignment"
  <2>1. r1 # Passed /\ r2 # Passed
    BY DEF Passed
  <2> HIDE DEF r1, r2
  <2>2. FirstFailure(<< <<c1, r1>>, <<c2, r2>> >>) = Passed <=> ~c1 /\ ~c2
    BY <2>1, TwoChecks
  <2>3. QED
    BY <2>2 DEF r1, r2
<1> HIDE DEF f
<1>6. QED
  BY <1>1, <1>2, <1>3, <1>4, <1>5 DEF Passed

LEMMA EndJudges ==
  ASSUME NEW doc, WellWritten(doc), \A i \in 1..Len(doc) : Shaped(doc[i]), NEW s, Reads(doc, Len(doc), s)
  PROVE  Judged(doc, Len(doc), Ended(s).verdict)
<1> DEFINE n == Len(doc)
           fx == AxisFailure(s, "x")
           fy == AxisFailure(s, "y")
           last == FirstFailure(<< <<fx # Passed, fx>>, <<fy # Passed, fy>>, <<TRUE, "accepted">> >>)
<1>1. CASE Agree(doc, n)
  <2>1. PICK al : s = Gathered(doc, 1..n, al) /\ Holds(doc, 1..n, al)
    BY <1>1 DEF Reads
  <2>2. s.verdict = "reading" /\ s.order_edges = EdgesIn(doc, 1..n) /\ s.alignment_groups = al
    BY <2>1 DEF Gathered, Known
  <2>3. Ended(s) = [s EXCEPT !.verdict = last]
    BY <2>2 DEF Ended
  <2>4. Ended(s).verdict = last
    <3> HIDE DEF last
    <3>1. [s EXCEPT !.verdict = last].verdict = last
      BY <2>1 DEF Gathered, Known
    <3>2. QED
      BY <2>3, <3>1
  <2>5. n \in 0..n
    BY WrittenLength
  <2>6. ASSUME NEW a \in PlacementAxes
        PROVE  /\ AxisFailure(s, a) = Passed \/ AxisFailure(s, a) = "cycle" \/ AxisFailure(s, a) = "alignment"
               /\ AxisFailure(s, a) = Passed <=> CanPlace(OrderEdges(doc, 1..n, a), AlignedGroups(doc, 1..n, a))
               /\ AxisFailure(s, a) = "alignment" =>
                    CanPlace(OrderEdges(doc, 1..n, a), {}) /\ ~CanPlace(OrderEdges(doc, 1..n, a), AlignedGroups(doc, 1..n, a))
    <3> DEFINE edges == OrderEdges(doc, 1..n, a)
               groups == al[a]
    <3>1. s.order_edges[a] = edges
      BY <2>2 DEF EdgesIn
    <3>2. s.alignment_groups[a] = groups /\ groups \in Seq(SUBSET Placeable) /\ ToSet(groups) = AlignedGroups(doc, 1..n, a)
      BY <2>1, <2>2 DEF Holds
    <3>3. edges \in SUBSET (Placeable \X Placeable)
      BY <2>5, EdgesArePlaced
    <3> HIDE DEF edges, groups, n
    <3>4. /\ AxisFailure(s, a) = Passed \/ AxisFailure(s, a) = "cycle" \/ AxisFailure(s, a) = "alignment"
          /\ AxisFailure(s, a) = Passed <=> CanPlace(edges, ToSet(groups))
          /\ AxisFailure(s, a) = "alignment" => CanPlace(edges, {}) /\ ~CanPlace(edges, ToSet(groups))
      BY <3>1, <3>2, <3>3, AxisVerdict
    <3>5. QED
      BY <3>2, <3>4 DEF edges
  <2>7. PlacementAxes = {"x", "y"}
    BY DEF PlacementAxes
  <2> DEFINE c1 == fx # Passed
             c2 == fy # Passed
  <2>8. (c1 => last = fx) /\ (~c1 /\ c2 => last = fy) /\ (~c1 /\ ~c2 /\ TRUE => last = "accepted")
    <3> HIDE DEF c1, c2, fx, fy
    <3> DEFINE c3 == TRUE
               accepted == "accepted"
               checks == FirstFailure(<< <<c1, fx>>, <<c2, fy>>, <<c3, accepted>> >>)
    <3> HIDE DEF c3, accepted
    <3>1. (c1 => checks = fx) /\ (~c1 /\ c2 => checks = fy) /\ (~c1 /\ ~c2 /\ c3 => checks = accepted)
      BY ThreeReasons
    <3>2. last = checks
      BY Zenon DEF c1, c2, c3, accepted
    <3>3. c3 /\ accepted = "accepted"
      BY DEF c3, accepted
    <3> HIDE DEF last, checks
    <3>4. QED
      BY <3>1, <3>2, <3>3
  <2> HIDE DEF last, n
  <2>9. Judged(doc, n, last)
    <3>1. last \in {"accepted", "cycle", "alignment"}
      BY <2>6, <2>7, <2>8
    <3>2. last = "accepted" <=> fx = Passed /\ fy = Passed
      BY <2>6, <2>7, <2>8
    <3>3. last = "accepted" <=>
            \A a \in PlacementAxes : CanPlace(OrderEdges(doc, 1..n, a), AlignedGroups(doc, 1..n, a))
      BY <2>6, <2>7, <3>2
    <3>4. last = "alignment" => fx = "alignment" \/ fy = "alignment"
      BY <2>8
    <3>5. last = "alignment" =>
            \E a \in PlacementAxes : /\ CanPlace(OrderEdges(doc, 1..n, a), {})
                                     /\ ~CanPlace(OrderEdges(doc, 1..n, a), AlignedGroups(doc, 1..n, a))
      BY <2>6, <2>7, <3>4
    <3>6. QED
      BY <1>1, <3>1, <3>3, <3>5 DEF Judged
  <2>10. QED
    BY <2>4, <2>9 DEF n
<1>2. CASE ~Agree(doc, n)
  <2>1. s.verdict \in Blamed
    BY <1>2 DEF Reads
  <2>2. Ended(s) = s
    BY <2>1 DEF Ended, Blamed
  <2>3. QED
    BY <1>2, <2>1, <2>2 DEF Judged
<1>3. QED
  BY <1>1, <1>2

\* The references one constraint counts for, and the sum over a document.
Mentions(c) == Len(c.subjects) + Len(FlattenSeq(c.groups))

LEMMA MentionsAreCounted ==
  ASSUME NEW c, Written(c)
  PROVE  Mentions(c) \in Nat /\ Len(c.subjects) \in Nat /\ Len(FlattenSeq(c.groups)) \in Nat
<1>1. Len(c.subjects) \in Nat /\ Len(FlattenSeq(c.groups)) \in Nat
  BY DEF Written
<1> DEFINE a == Len(c.subjects)
           b == Len(FlattenSeq(c.groups))
<1>2. Mentions(c) = a + b /\ a \in Nat /\ b \in Nat
  BY <1>1, Zenon DEF Mentions
<1> HIDE DEF a, b
<1>3. Mentions(c) \in Nat
  BY <1>2
<1>4. QED
  BY <1>1, <1>3

LEMMA ReferencesCount ==
  ASSUME NEW doc, WellWritten(doc)
  PROVE  \E counts : /\ References(doc) = counts[Len(doc)] /\ counts[0] = 0
                     /\ \A n \in 0..Len(doc) : counts[n] \in Nat
                     /\ \A n \in 1..Len(doc) : counts[n] = counts[n - 1] + Mentions(doc[n])
<1> DEFINE N == Len(doc)
           size == [n \in 1..N |-> Len(doc[n].subjects)]
           wide == [n \in 1..N |-> Len(FlattenSeq(doc[n].groups))]
           step == [n \in 1..N |-> [x \in Nat |-> x + size[n] + wide[n]]]
           Is(f) == f = [n \in 0..N |-> IF n = 0 THEN 0
                                        ELSE f[n - 1] + Len(doc[n].subjects) + Len(FlattenSeq(doc[n].groups))]
           counted == CHOOSE f : Is(f)
<1>1. N \in Nat
  BY WrittenLength
<1>2. \A n \in 1..N : /\ size[n] \in Nat /\ wide[n] \in Nat /\ size[n] = Len(doc[n].subjects)
                      /\ wide[n] = Len(FlattenSeq(doc[n].groups)) /\ Mentions(doc[n]) = size[n] + wide[n]
  <2>1. \A n \in 1..N : Written(doc[n])
    BY DEF WellWritten
  <2>2. QED
    BY <2>1, MentionsAreCounted DEF Mentions
<1>3. References(doc) = counted[N]
  BY Zenon DEF References
<1> HIDE DEF size, wide
<1>4. PICK g \in [0..N -> Nat] : Follows(0, N, step, g)
  <2>1. step \in [1..N -> [Nat -> Nat]] /\ 0 \in Nat
    BY <1>2
  <2> HIDE DEF step, N
  <2>2. QED
    BY <1>1, <2>1, RecursionExists
<1>5. Is(g)
  <2> DEFINE h == [n \in 0..N |-> IF n = 0 THEN 0 ELSE g[n - 1] + Len(doc[n].subjects) + Len(FlattenSeq(doc[n].groups))]
  <2>1. ASSUME NEW n \in 0..N PROVE g[n] = h[n]
    <3>1. g[n] = IF n = 0 THEN 0 ELSE step[n][g[n - 1]]
      BY <1>4 DEF Follows
    <3>2. CASE n = 0
      BY <3>1, <3>2
    <3>3. CASE n # 0
      <4>1. n \in 1..N /\ n - 1 \in 0..N
        BY <1>1, <3>3
      <4>2. g[n - 1] \in Nat
        BY <4>1
      <4>3. step[n][g[n - 1]] = g[n - 1] + size[n] + wide[n]
        BY <4>1, <4>2
      <4>4. size[n] = Len(doc[n].subjects) /\ wide[n] = Len(FlattenSeq(doc[n].groups))
        BY <1>2, <4>1
      <4>5. h[n] = g[n - 1] + Len(doc[n].subjects) + Len(FlattenSeq(doc[n].groups))
        BY <3>3
      <4> HIDE DEF h, step
      <4>6. QED
        BY <3>1, <3>3, <4>3, <4>4, <4>5
    <3>4. QED
      BY <3>2, <3>3
  <2>2. g = [n \in 0..N |-> g[n]] /\ h = [n \in 0..N |-> h[n]]
    OBVIOUS
  <2> HIDE DEF h
  <2>3. g = h
    BY <2>1, <2>2
  <2>4. QED
    BY <2>3 DEF h
<1>6. Is(counted)
  <2> HIDE DEF Is
  <2>1. QED
    BY <1>5
<1> HIDE DEF counted, step
<1>7. counted[0] = 0 /\ \A n \in 1..N : counted[n] = counted[n - 1] + size[n] + wide[n]
  <2>1. \A n \in 0..N : counted[n] = IF n = 0 THEN 0
                                      ELSE counted[n - 1] + Len(doc[n].subjects) + Len(FlattenSeq(doc[n].groups))
    BY <1>6
  <2>2. \A n \in 1..N : n \in 0..N /\ n # 0
    BY <1>1
  <2>3. 0 \in 0..N
    BY <1>1
  <2> HIDE DEF N
  <2>4. counted[0] = 0
    BY <2>1, <2>3
  <2>5. ASSUME NEW n \in 1..N PROVE counted[n] = counted[n - 1] + size[n] + wide[n]
    <3>1. counted[n] = counted[n - 1] + Len(doc[n].subjects) + Len(FlattenSeq(doc[n].groups))
      BY <2>1, <2>2
    <3>2. QED
      BY <1>2, <3>1
  <2>6. QED
    BY <2>4, <2>5
<1> DEFINE T == {n \in Nat : n <= N => counted[n] \in Nat}
<1>8. \A n \in Nat : n \in T
  <2>1. 0 \in T
    BY <1>7
  <2>2. ASSUME NEW n \in Nat, n \in T PROVE n + 1 \in T
    <3> DEFINE m == n + 1
    <3>1. SUFFICES ASSUME m <= N PROVE counted[m] \in Nat
      OBVIOUS
    <3>2. m \in 1..N /\ m - 1 = n /\ counted[n] \in Nat
      BY <1>1, <2>2, <3>1
    <3> HIDE DEF m
    <3>3. counted[m] = counted[m - 1] + size[m] + wide[m] /\ size[m] \in Nat /\ wide[m] \in Nat
      BY <1>2, <1>7, <3>2
    <3>4. QED
      BY <3>2, <3>3
  <2> HIDE DEF T
  <2>3. QED
    BY <2>1, <2>2, NaturalInduction
<1>9. \A n \in 1..N : counted[n] = counted[n - 1] + Mentions(doc[n])
  <2>1. ASSUME NEW n \in 1..N PROVE counted[n] = counted[n - 1] + Mentions(doc[n])
    <3>1. n - 1 \in Nat /\ n - 1 <= N
      BY <1>1
    <3>2. counted[n - 1] \in Nat
      BY <1>8, <3>1
    <3>3. counted[n] = counted[n - 1] + size[n] + wide[n] /\ size[n] \in Nat /\ wide[n] \in Nat
          /\ Mentions(doc[n]) = size[n] + wide[n]
      BY <1>2, <1>7
    <3>4. QED
      BY <3>2, <3>3
  <2>2. QED
    BY <2>1
<1>10. \A n \in 0..N : counted[n] \in Nat
  BY <1>1, <1>8
<1>11. QED
  BY <1>3, <1>7, <1>9, <1>10

(***************************************************************************)
(* Two constraints of a document in each other's place.                    *)
(***************************************************************************)
Swapped(doc, i, j) == [doc EXCEPT ![i] = doc[j], ![j] = doc[i]]
Places(n, i, j) == IF n = i THEN j ELSE IF n = j THEN i ELSE n

\* The swap is a permutation of the document, and adds up to the same number of
\* references.
LEMMA SwapFacts ==
  ASSUME NEW doc, WellWritten(doc), NEW i \in 1..Len(doc), NEW j \in 1..Len(doc), i < j
  PROVE  /\ WellWritten(Swapped(doc, i, j)) /\ Len(Swapped(doc, i, j)) = Len(doc)
         /\ \A n \in 1..Len(doc) : Places(n, i, j) \in 1..Len(doc) /\ Places(Places(n, i, j), i, j) = n
         /\ \A n \in 1..Len(doc) : Swapped(doc, i, j)[n] = doc[Places(n, i, j)]
<1> DEFINE N == Len(doc)
           d == Swapped(doc, i, j)
<1>1. PICK S : doc \in Seq(S)
  BY DEF WellWritten
<1>2. N \in Nat /\ DOMAIN doc = 1..N /\ doc \in [1..N -> S]
  BY <1>1
<1>3. \A n \in 1..N : Places(n, i, j) \in 1..N /\ Places(Places(n, i, j), i, j) = n
  BY <1>2 DEF Places
<1>4. d \in [1..N -> S] /\ \A n \in 1..N : d[n] = doc[Places(n, i, j)]
  <2> HIDE DEF N
  <2>1. i \in 1..N /\ j \in 1..N /\ i # j
    BY <1>2 DEF N
  <2>2. QED
    BY <1>2, <2>1 DEF Swapped, Places
<1> HIDE DEF d
<1>5. d \in Seq(S) /\ Len(d) = N
  BY <1>2, <1>4
<1>6. \A n \in 1..N : Written(d[n])
  BY <1>3, <1>4 DEF WellWritten
<1>7. WellWritten(d)
  BY <1>5, <1>6 DEF WellWritten
<1>8. QED
  BY <1>3, <1>4, <1>5, <1>7 DEF d

LEMMA SwapCountsTheSame ==
  ASSUME NEW doc, WellWritten(doc), NEW i \in 1..Len(doc), NEW j \in 1..Len(doc), i < j
  PROVE  References(Swapped(doc, i, j)) = References(doc)
<1> DEFINE N == Len(doc)
           d == Swapped(doc, i, j)
           w(n) == Mentions(doc[n])
           gap == w(j) - w(i)
<1>1. /\ WellWritten(d) /\ Len(d) = N /\ N \in Nat
      /\ \A n \in 1..N : d[n] = doc[Places(n, i, j)]
  BY SwapFacts, WrittenLength
<1>2. \A n \in 1..N : w(n) \in Nat
  <2>1. \A n \in 1..N : Written(doc[n])
    BY DEF WellWritten
  <2>2. QED
    BY <2>1, MentionsAreCounted
<1> HIDE DEF d
<1>3. PICK c : /\ References(doc) = c[N] /\ c[0] = 0 /\ (\A n \in 0..N : c[n] \in Nat)
               /\ \A n \in 1..N : c[n] = c[n - 1] + w(n)
  BY ReferencesCount
<1>4. PICK e : /\ References(d) = e[N] /\ e[0] = 0 /\ (\A n \in 0..N : e[n] \in Nat)
               /\ \A n \in 1..N : e[n] = e[n - 1] + Mentions(d[n])
  <2>1. \E e : /\ References(d) = e[Len(d)] /\ e[0] = 0 /\ (\A n \in 0..Len(d) : e[n] \in Nat)
               /\ \A n \in 1..Len(d) : e[n] = e[n - 1] + Mentions(d[n])
    BY <1>1, ReferencesCount
  <2> HIDE DEF N
  <2>2. QED
    BY <1>1, <2>1
<1>5. \A n \in 1..N : e[n] = e[n - 1] + w(Places(n, i, j))
  BY <1>1, <1>4
<1> HIDE DEF w
<1>6. i \in 1..N /\ j \in 1..N /\ w(i) \in Nat /\ w(j) \in Nat /\ gap \in Int
  BY <1>2
<1> HIDE DEF N
<1> DEFINE T == {n \in Nat : n <= N => e[n] = c[n] + IF i <= n /\ n < j THEN gap ELSE 0}
<1>7. 0 \in T
  BY <1>1, <1>3, <1>4, <1>6
<1>8. ASSUME NEW n \in Nat, n \in T PROVE n + 1 \in T
  <2> DEFINE m == n + 1
  <2>1. SUFFICES ASSUME m <= N PROVE e[m] = c[m] + IF i <= m /\ m < j THEN gap ELSE 0
    OBVIOUS
  <2>2. m \in 1..N /\ m - 1 = n /\ m \in 0..N /\ n \in 0..N /\ n <= N
    BY <1>1, <2>1
  <2>3. e[n] = c[n] + IF i <= n /\ n < j THEN gap ELSE 0
    BY <1>8, <2>2
  <2> HIDE DEF m
  <2>4. e[m] = e[n] + w(Places(m, i, j)) /\ c[m] = c[n] + w(m) /\ c[n] \in Nat /\ w(m) \in Nat
    BY <1>2, <1>3, <1>5, <2>2
  <2>5. CASE m = i
    <3>1. Places(m, i, j) = j /\ ~(i <= n /\ n < j) /\ i <= m /\ m < j
      BY <1>1, <1>6, <2>2, <2>5 DEF Places
    <3> HIDE DEF gap
    <3>2. e[m] = c[n] + w(j) /\ c[m] = c[n] + w(i)
      BY <2>3, <2>4, <2>5, <3>1
    <3>3. QED
      BY <1>6, <2>4, <3>1, <3>2 DEF gap
  <2>6. CASE m = j
    <3>1. Places(m, i, j) = i /\ i <= n /\ n < j /\ ~(m < j)
      BY <1>1, <1>6, <2>2, <2>6 DEF Places
    <3>2. e[n] = c[n] + gap /\ e[m] = e[n] + w(i) /\ c[m] = c[n] + w(j)
      BY <2>3, <2>4, <2>6, <3>1
    <3>3. QED
      BY <1>6, <2>4, <3>1, <3>2
  <2>7. CASE m # i /\ m # j
    <3>1. Places(m, i, j) = m /\ (i <= n /\ n < j <=> i <= m /\ m < j)
      BY <1>1, <1>6, <2>2, <2>7 DEF Places
    <3> HIDE DEF gap
    <3> DEFINE more == IF i <= n /\ n < j THEN gap ELSE 0
    <3>2. e[n] = c[n] + more /\ e[m] = e[n] + w(m) /\ c[m] = c[n] + w(m) /\ more \in Int
      BY <1>6, <2>3, <2>4, <3>1
    <3>3. more = IF i <= m /\ m < j THEN gap ELSE 0
      BY <3>1
    <3> HIDE DEF more
    <3>4. e[m] = c[m] + more
      BY <2>4, <3>2
    <3>5. QED
      BY <3>3, <3>4
  <2>8. QED
    BY <2>5, <2>6, <2>7
<1>9. \A n \in Nat : n \in T
  <2> HIDE DEF T
  <2>1. QED
    BY <1>7, <1>8, NaturalInduction
<1>10. e[N] = c[N]
  <2>1. N \in T /\ ~(N < j) /\ N \in 0..N /\ N <= N
    BY <1>1, <1>6, <1>9
  <2>2. c[N] \in Nat
    BY <1>3, <2>1
  <2>3. QED
    BY <2>1, <2>2
<1>11. QED
  BY <1>3, <1>4, <1>10 DEF d

(***************************************************************************)
(* Whole documents.                                                        *)
(***************************************************************************)
LEMMA DocumentVerdict ==
  ASSUME NEW doc
  PROVE  /\ DocumentFailure(doc) \in {Passed, "constraints", "references", "shape"}
         /\ DocumentFailure(doc) = Passed <=>
              /\ ~(Len(doc) > MaxConstraints) /\ ~(References(doc) > MaxReferences)
              /\ \A i \in DOMAIN doc : ShapeFailure(doc[i]) = Passed
<1> DEFINE c0 == Len(doc) > MaxConstraints
           c1 == References(doc) > MaxReferences
           c2 == \E i \in DOMAIN doc : ShapeFailure(doc[i]) # Passed
           r0 == "constraints"
           r1 == "references"
           r2 == "shape"
           f == FirstFailure(<< <<c0, r0>>, <<c1, r1>>, <<c2, r2>> >>)
<1>1. DocumentFailure(doc) = f
  BY Zenon DEF DocumentFailure
<1>2. r0 # Passed /\ r1 # Passed /\ r2 # Passed
  BY DEF Passed
<1> HIDE DEF c0, c1, c2, r0, r1, r2
<1>3. (c0 => f = r0) /\ (~c0 /\ c1 => f = r1) /\ (~c0 /\ ~c1 /\ c2 => f = r2)
  BY ThreeReasons
<1>4. f = Passed <=> ~c0 /\ ~c1 /\ ~c2
  BY <1>2, ThreeChecks
<1> HIDE DEF f
<1>5. f \in {Passed, r0, r1, r2}
  BY <1>3, <1>4
<1>6. ~c2 <=> \A i \in DOMAIN doc : ShapeFailure(doc[i]) = Passed
  BY DEF c2
<1>7. QED
  BY <1>1, <1>4, <1>5, <1>6 DEF r0, r1, r2, c0, c1

\* Past the shape checks, every constraint is well shaped.
LEMMA AllShaped ==
  ASSUME NEW doc, WellWritten(doc), DocumentFailure(doc) = Passed
  PROVE  \A i \in 1..Len(doc) : Shaped(doc[i])
<1>1. \A i \in 1..Len(doc) : ShapeFailure(doc[i]) = Passed
  BY DocumentVerdict, WrittenLength
<1>2. QED
  BY <1>1, ShapeFacts

\* The recursion of Parsed has the values it states, so Parsed is the verdict
\* of the loop.
Takes(f, doc, k) == \A n \in 0..k : f[n] = IF n = 0 THEN Start ELSE Step(f[n - 1], doc[n])

LEMMA TakenExists ==
  ASSUME NEW doc, NEW k \in Nat
  PROVE  \E f : Takes(f, doc, k)
<1> DEFINE T == {n \in Nat : \E f : Takes(f, doc, n)}
<1>1. 0 \in T
  <2> DEFINE f == [n \in {0} |-> Start]
  <2>1. f[0] = Start /\ \A n \in 0..0 : n = 0
    OBVIOUS
  <2> HIDE DEF f
  <2>2. Takes(f, doc, 0)
    BY <2>1 DEF Takes
  <2>3. QED
    BY <2>2
<1>2. ASSUME NEW n \in Nat, n \in T PROVE n + 1 \in T
  <2>1. PICK f : Takes(f, doc, n)
    BY <1>2
  <2> DEFINE m == n + 1
             new == Step(f[n], doc[m])
             g == [i \in 0..m |-> IF i = m THEN new ELSE f[i]]
  <2>2. m \in Nat /\ n \in 0..n
    OBVIOUS
  <2>3. ASSUME NEW i \in 0..m PROVE g[i] = IF i = 0 THEN Start ELSE Step(g[i - 1], doc[i])
    <3>1. CASE i = m
      <4>1. i # 0 /\ i - 1 = n /\ g[i] = new /\ n \in 0..m /\ n # m
        BY <3>1
      <4>2. g[n] = f[n]
        BY <4>1
      <4> HIDE DEF g
      <4>3. QED
        BY <3>1, <4>1, <4>2
    <3>2. CASE i # m
      <4>1. i \in 0..n /\ g[i] = f[i] /\ (i # 0 => g[i - 1] = f[i - 1])
        BY <3>2
      <4> HIDE DEF g
      <4>2. QED
        BY <2>1, <4>1 DEF Takes
    <3>3. QED
      BY <3>1, <3>2
  <2> HIDE DEF g, m
  <2>4. Takes(g, doc, m)
    BY <2>3 DEF Takes
  <2>5. m \in T
    BY <2>2, <2>4
  <2>6. QED
    BY <2>5 DEF m
<1> HIDE DEF T
<1>3. k \in T
  BY <1>1, <1>2, NaturalInduction
<1>4. QED
  BY <1>3 DEF T

LEMMA ParsedIsJudged ==
  ASSUME NEW doc, WellWritten(doc), DocumentFailure(doc) = Passed
  PROVE  Judged(doc, Len(doc), Parsed(doc))
<1> DEFINE N == Len(doc)
           Is(f) == f = [n \in 0..N |-> IF n = 0 THEN Start ELSE Step(f[n - 1], doc[n])]
           taken == CHOOSE f : Is(f)
<1>1. N \in Nat /\ \A i \in 1..N : Shaped(doc[i])
  BY WrittenLength, AllShaped
<1>2. Parsed(doc) = Ended(taken[N]).verdict
  BY Zenon DEF Parsed
<1>3. \E f : Is(f)
  <2>1. PICK f : Takes(f, doc, N)
    BY <1>1, TakenExists
  <2> DEFINE g == [n \in 0..N |-> f[n]]
             h == [n \in 0..N |-> IF n = 0 THEN Start ELSE Step(g[n - 1], doc[n])]
  <2>2. ASSUME NEW n \in 0..N PROVE g[n] = h[n]
    <3>1. g[n] = f[n] /\ (n # 0 => g[n - 1] = f[n - 1])
      BY <1>1
    <3>2. f[n] = IF n = 0 THEN Start ELSE Step(f[n - 1], doc[n])
      BY <2>1 DEF Takes
    <3>3. h[n] = IF n = 0 THEN Start ELSE Step(g[n - 1], doc[n])
      OBVIOUS
    <3> HIDE DEF g, h
    <3>4. QED
      BY <3>1, <3>2, <3>3
  <2>3. g = [n \in 0..N |-> g[n]] /\ h = [n \in 0..N |-> h[n]]
    OBVIOUS
  <2> HIDE DEF g, h
  <2>4. g = h
    BY <2>2, <2>3
  <2>5. Is(g)
    BY <2>4 DEF h
  <2>6. QED
    BY <2>5
<1>4. Is(taken)
  <2> HIDE DEF Is
  <2>1. QED
    BY <1>3
<1> HIDE DEF taken
<1>5. taken[0] = Start /\ \A n \in 1..N : taken[n] = Step(taken[n - 1], doc[n])
  <2>1. \A n \in 0..N : taken[n] = IF n = 0 THEN Start ELSE Step(taken[n - 1], doc[n])
    BY <1>4
  <2>2. 0 \in 0..N /\ \A n \in 1..N : n \in 0..N /\ n # 0
    BY <1>1
  <2> HIDE DEF N
  <2>3. QED
    BY <2>1, <2>2
<1> DEFINE T == {n \in Nat : n <= N => Reads(doc, n, taken[n])}
<1>6. \A n \in Nat : n \in T
  <2>1. 0 \in T
    BY <1>5, StartReads
  <2>2. ASSUME NEW n \in Nat, n \in T PROVE n + 1 \in T
    <3> DEFINE m == n + 1
    <3>1. SUFFICES ASSUME m <= N PROVE Reads(doc, m, taken[m])
      OBVIOUS
    <3>2. m \in 1..N /\ m - 1 = n /\ Reads(doc, n, taken[n])
      BY <1>1, <2>2, <3>1
    <3>3. Shaped(doc[n + 1])
      BY <1>1, <3>2
    <3>4. Reads(doc, n + 1, Step(taken[n], doc[n + 1]))
      BY <3>2, <3>3, StepReads
    <3>5. Reads(doc, m, Step(taken[n], doc[m]))
      BY <3>4
    <3> HIDE DEF m
    <3>6. taken[m] = Step(taken[n], doc[m])
      BY <1>5, <3>2
    <3>7. QED
      BY <3>5, <3>6
  <2> HIDE DEF T
  <2>3. QED
    BY <2>1, <2>2, NaturalInduction
<1>7. Reads(doc, N, taken[N])
  <2>1. N \in T /\ N <= N
    BY <1>1, <1>6
  <2> HIDE DEF N
  <2>2. QED
    BY <2>1
<1> DEFINE s == taken[N]
<1>8. Judged(doc, N, Ended(s).verdict)
  <2> HIDE DEF s
  <2>1. Reads(doc, Len(doc), s)
    BY <1>7 DEF s
  <2>2. QED
    BY <1>1, <2>1, EndJudges
<1>9. QED
  BY <1>2, <1>8

\* A contradiction has no direction, so neither the verdict of the loop nor the
\* edges and groups at its end depend on the order.
LEMMA ContradictionIsMutual ==
  ASSUME NEW c, NEW d PROVE Contradicts(c, d) <=> Contradicts(d, c)
BY DEF Contradicts

LEMMA SwapKeepsVerdict ==
  ASSUME NEW doc, WellWritten(doc), DocumentFailure(doc) = Passed, NEW verdict, Judged(doc, Len(doc), verdict),
         NEW i \in 1..Len(doc), NEW j \in 1..Len(doc), i < j
  PROVE  Parsed(Swapped(doc, i, j)) = "accepted" <=> verdict = "accepted"
<1> DEFINE N == Len(doc)
           d == Swapped(doc, i, j)
           p == [n \in 1..N |-> Places(n, i, j)]
           I == 1..N
<1>1. /\ WellWritten(d) /\ Len(d) = N /\ N \in Nat /\ DOMAIN d = I /\ DOMAIN doc = I
      /\ \A n \in I : p[n] \in I /\ p[p[n]] = n /\ d[n] = doc[p[n]]
  BY SwapFacts, WrittenLength
<1>2. DocumentFailure(d) = Passed
  <2>1. References(d) = References(doc)
    BY SwapCountsTheSame
  <2>2. ~(N > MaxConstraints) /\ ~(References(doc) > MaxReferences) /\ \A n \in I : ShapeFailure(doc[n]) = Passed
    BY <1>1, DocumentVerdict
  <2> HIDE DEF d, p, I
  <2>3. ~(N > MaxConstraints) /\ ~(References(d) > MaxReferences) /\ \A n \in I : ShapeFailure(d[n]) = Passed
    BY <1>1, <2>1, <2>2
  <2>4. QED
    BY <1>1, <2>3, DocumentVerdict
<1> HIDE DEF d, p
<1>3. Judged(d, N, Parsed(d))
  BY <1>1, <1>2, ParsedIsJudged
<1>4. Agree(d, N) <=> Agree(doc, N)
  <2>1. ASSUME NEW e PROVE Agree(e, N) <=> \A a, b \in I : a # b => ~Contradicts(e[a], e[b])
    <3>1. \A a, b \in I : a # b => a < b \/ b < a
      BY <1>1
    <3>2. \A a, b \in I : a < b => a # b
      BY <1>1
    <3>3. Agree(e, N) <=> \A a, b \in I : a < b => ~Contradicts(e[a], e[b])
      BY DEF Agree
    <3> HIDE DEF I, N
    <3>4. QED
      BY <3>1, <3>2, <3>3, ContradictionIsMutual
  <2>2. \A a, b \in I : a # b <=> p[a] # p[b]
    BY <1>1
  <2> HIDE DEF I
  <2>3. (\A a, b \in I : a # b => ~Contradicts(d[a], d[b])) <=> (\A a, b \in I : a # b => ~Contradicts(doc[a], doc[b]))
    <3>1. ASSUME \A a, b \in I : a # b => ~Contradicts(d[a], d[b]), NEW a \in I, NEW b \in I, a # b
          PROVE  ~Contradicts(doc[a], doc[b])
      <4>1. p[a] \in I /\ p[b] \in I /\ p[a] # p[b] /\ p[p[a]] = a /\ p[p[b]] = b
        BY <1>1, <2>2, <3>1
      <4>2. d[p[a]] = doc[a] /\ d[p[b]] = doc[b]
        BY <1>1, <4>1
      <4>3. QED
        BY <3>1, <4>1, <4>2
    <3>2. ASSUME \A a, b \in I : a # b => ~Contradicts(doc[a], doc[b]), NEW a \in I, NEW b \in I, a # b
          PROVE  ~Contradicts(d[a], d[b])
      <4>1. p[a] \in I /\ p[b] \in I /\ p[a] # p[b] /\ d[a] = doc[p[a]] /\ d[b] = doc[p[b]]
        BY <1>1, <2>2, <3>2
      <4>2. QED
        BY <3>2, <4>1
    <3>3. QED
      BY <3>1, <3>2
  <2>4. QED
    BY <2>1, <2>3
<1> HIDE DEF I
<1>5. ASSUME NEW kind PROVE \A n \in I : n \in Those(d, I, kind) <=> p[n] \in Those(doc, I, kind)
  BY <1>1 DEF Those
<1>6. ASSUME NEW a PROVE OrderEdges(d, I, a) = OrderEdges(doc, I, a)
  <2> DEFINE X == {n \in Those(d, I, "order") : OrderAxis(d[n]) = a}
             Y == {n \in Those(doc, I, "order") : OrderAxis(doc[n]) = a}
  <2>1. /\ X \subseteq I /\ Y \subseteq I
        /\ \A n \in I : n \in X <=> p[n] \in Y
    BY <1>1, <1>5 DEF Those
  <2>2. OrderEdges(d, I, a) = UNION {EdgesOf(d[n]) : n \in X} /\ OrderEdges(doc, I, a) = UNION {EdgesOf(doc[n]) : n \in Y}
    BY DEF OrderEdges
  <2> HIDE DEF X, Y
  <2>3. \A n \in X : p[n] \in Y /\ EdgesOf(d[n]) = EdgesOf(doc[p[n]])
    BY <1>1, <2>1
  <2>4. \A n \in Y : p[n] \in X /\ EdgesOf(doc[n]) = EdgesOf(d[p[n]])
    BY <1>1, <2>1
  <2>5. QED
    BY <2>2, <2>3, <2>4
<1>7. ASSUME NEW a PROVE AlignedGroups(d, I, a) = AlignedGroups(doc, I, a)
  <2> DEFINE X == {n \in Those(d, I, "alignment") : d[n].axis = a}
             Y == {n \in Those(doc, I, "alignment") : doc[n].axis = a}
  <2>1. /\ X \subseteq I /\ Y \subseteq I
        /\ \A n \in I : n \in X <=> p[n] \in Y
    BY <1>1, <1>5 DEF Those
  <2>2. /\ AlignedGroups(d, I, a) = {ToSet(d[n].subjects) : n \in X}
        /\ AlignedGroups(doc, I, a) = {ToSet(doc[n].subjects) : n \in Y}
    BY DEF AlignedGroups
  <2> HIDE DEF X, Y
  <2>3. \A n \in X : p[n] \in Y /\ ToSet(d[n].subjects) = ToSet(doc[p[n]].subjects)
    BY <1>1, <2>1
  <2>4. \A n \in Y : p[n] \in X /\ ToSet(doc[n].subjects) = ToSet(d[p[n]].subjects)
    BY <1>1, <2>1
  <2>5. QED
    BY <2>2, <2>3, <2>4
<1>8. I = 1..N
  BY DEF I
<1> HIDE DEF N
<1>9. Judged(doc, N, verdict)
  BY DEF N
<1>10. ASSUME Agree(doc, N) PROVE Parsed(d) = "accepted" <=> verdict = "accepted"
  BY <1>3, <1>4, <1>6, <1>7, <1>8, <1>9, <1>10 DEF Judged
<1>11. ASSUME ~Agree(doc, N) PROVE Parsed(d) = "accepted" <=> verdict = "accepted"
  BY <1>3, <1>4, <1>9, <1>11 DEF Judged, Blamed
<1>12. QED
  BY <1>10, <1>11 DEF d

(***************************************************************************)
(* The report: documents while they are read, and what is declared.        *)
(***************************************************************************)
\* The edges of an order, read in its direction, are what HasCoordinates asks of
\* its subjects.
Least(c) == CASE c.axis \in {"left_to_right", "bottom_to_top"} -> 1 [] OTHER -> -1

LEMMA OrderCoordinates ==
  ASSUME NEW c, c.kind = "order", Shaped(c), Written(c), NEW place \in [Placeable -> 1..Cardinality(Placeable)]
  PROVE  (\A e \in EdgesOf(c) : place[e[1]] < place[e[2]]) <=>
           \A i \in 1..Len(c.subjects) - 1 : place[c.subjects[i]] * Least(c) < place[c.subjects[i + 1]] * Least(c)
<1> DEFINE s == c.subjects
           n == Len(s)
           t == NormalizedOrder(c)
           v(i) == place[s[i]]
<1>1. s \in Seq(Placeable) /\ n \in Nat /\ DOMAIN s = 1..n
  <2>1. ToSet(s) \subseteq Placeable /\ s \in Seq(ToSet(s))
    BY DEF Shaped, Written
  <2>2. QED
    BY <2>1
<1>2. \A i \in 1..n : v(i) \in Int
  <2>1. Cardinality(Placeable) \in Nat
    BY PlacementAssumption, FS_CardinalityType
  <2> HIDE DEF n, s
  <2>2. \A i \in 1..n : s[i] \in Placeable
    BY <1>1
  <2>3. QED
    BY <2>1, <2>2
<1>3. EdgesOf(c) = {<<t[i], t[i + 1]>> : i \in 1..n - 1}
  BY DEF EdgesOf
<1>4. (\A e \in EdgesOf(c) : place[e[1]] < place[e[2]]) <=> \A i \in 1..n - 1 : place[t[i]] < place[t[i + 1]]
  <2> HIDE DEF t, n
  <2>1. ASSUME \A e \in EdgesOf(c) : place[e[1]] < place[e[2]], NEW i \in 1..n - 1 PROVE place[t[i]] < place[t[i + 1]]
    <3> DEFINE e == <<t[i], t[i + 1]>>
    <3>1. e \in EdgesOf(c) /\ e[1] = t[i] /\ e[2] = t[i + 1]
      BY <1>3
    <3> HIDE DEF e
    <3>2. QED
      BY <2>1, <3>1
  <2>2. ASSUME \A i \in 1..n - 1 : place[t[i]] < place[t[i + 1]], NEW e \in EdgesOf(c) PROVE place[e[1]] < place[e[2]]
    <3>1. PICK i \in 1..n - 1 : e = <<t[i], t[i + 1]>>
      BY <1>3
    <3>2. e[1] = t[i] /\ e[2] = t[i + 1]
      BY <3>1
    <3>3. QED
      BY <2>2, <3>2
  <2>3. QED
    BY <2>1, <2>2
<1>5. CASE c.axis \in {"left_to_right", "bottom_to_top"}
  <2>1. t = s /\ Least(c) = 1
    BY <1>5 DEF NormalizedOrder, Least
  <2>2. \A i \in 1..n - 1 : i \in 1..n /\ i + 1 \in 1..n
    BY <1>1
  <2> HIDE DEF t, n, s
  <2>3. \A i \in 1..n - 1 : v(i) * 1 = v(i) /\ v(i + 1) * 1 = v(i + 1)
    BY <1>2, <2>2
  <2>4. (\A i \in 1..n - 1 : place[t[i]] < place[t[i + 1]]) <=> \A i \in 1..n - 1 : v(i) * 1 < v(i + 1) * 1
    BY <2>1, <2>3
  <2>5. QED
    BY <1>4, <2>1, <2>4 DEF n, s
<1>6. CASE c.axis \in {"right_to_left", "top_to_bottom"}
  <2>1. t = Reverse(s) /\ Least(c) = -1
    BY <1>6 DEF NormalizedOrder, Least
  <2>2. \A i \in 1..n : t[i] = s[(n - i) + 1]
    BY <2>1 DEF Reverse
  <2> HIDE DEF t, s, n
  <2>3. \A i \in 1..n - 1 : t[i] = s[(n - i) + 1] /\ t[i + 1] = s[n - i]
    <3>1. ASSUME NEW i \in 1..n - 1 PROVE t[i] = s[(n - i) + 1] /\ t[i + 1] = s[n - i]
      <4>1. i \in 1..n /\ i + 1 \in 1..n /\ (n - (i + 1)) + 1 = n - i
        BY <1>1
      <4> DEFINE m == i + 1
      <4>2. m \in 1..n /\ (n - m) + 1 = n - i
        BY <4>1
      <4> HIDE DEF m
      <4>3. t[m] = s[(n - m) + 1]
        BY <2>2, <4>2
      <4>4. QED
        BY <2>2, <4>1, <4>2, <4>3 DEF m
    <3>2. QED
      BY <3>1
  <2>4. (\A i \in 1..n - 1 : place[t[i]] < place[t[i + 1]]) <=> \A i \in 1..n - 1 : v((n - i) + 1) < v(n - i)
    BY <2>3
  <2>5. \A k \in 1..n - 1 : n - k \in 1..n - 1 /\ n - (n - k) = k /\ k \in 1..n /\ k + 1 \in 1..n
    BY <1>1
  <2>6. (\A i \in 1..n - 1 : v((n - i) + 1) < v(n - i)) <=> \A k \in 1..n - 1 : v(k + 1) < v(k)
    <3> HIDE DEF v
    <3>1. ASSUME \A i \in 1..n - 1 : v((n - i) + 1) < v(n - i), NEW k \in 1..n - 1 PROVE v(k + 1) < v(k)
      <4> DEFINE i == n - k
      <4>1. i \in 1..n - 1 /\ n - i = k
        BY <2>5
      <4> HIDE DEF i
      <4>2. v((n - i) + 1) < v(n - i)
        BY <3>1, <4>1
      <4>3. QED
        BY <4>1, <4>2
    <3>2. ASSUME \A k \in 1..n - 1 : v(k + 1) < v(k), NEW i \in 1..n - 1 PROVE v((n - i) + 1) < v(n - i)
      <4> DEFINE k == n - i
      <4>1. k \in 1..n - 1
        BY <2>5
      <4> HIDE DEF k
      <4>2. v(k + 1) < v(k)
        BY <3>2, <4>1
      <4>3. QED
        BY <4>2 DEF k
    <3>3. QED
      BY <3>1, <3>2
  <2>7. (\A k \in 1..n - 1 : v(k + 1) < v(k)) <=> \A k \in 1..n - 1 : v(k) * (-1) < v(k + 1) * (-1)
    <3>1. ASSUME NEW k \in 1..n - 1 PROVE v(k + 1) < v(k) <=> v(k) * (-1) < v(k + 1) * (-1)
      <4> DEFINE x == v(k)
                 y == v(k + 1)
      <4>1. x \in Int /\ y \in Int
        BY <1>2, <2>5
      <4> HIDE DEF x, y
      <4>2. y < x <=> x * (-1) < y * (-1)
        BY <4>1
      <4>3. QED
        BY <4>2 DEF x, y
    <3> HIDE DEF v
    <3>2. QED
      BY <3>1
  <2>8. QED
    BY <1>4, <2>1, <2>4, <2>6, <2>7 DEF n, s
<1>7. QED
  BY <1>5, <1>6 DEF Shaped

\* The coordinates of the property are those of the edges and groups collected.
LEMMA CoordinatesAreFound ==
  ASSUME WellWritten(document), \A i \in 1..Len(document) : Shaped(document[i]), NEW a, NEW aligned, NEW groups,
         groups = {ToSet(c.subjects) : c \in {d \in aligned : d.axis = a}}
  PROVE  HasCoordinates(a, aligned) <=> CanPlace(OrderEdges(document, 1..Len(document), a), groups)
<1> DEFINE N == Len(document)
           edges == OrderEdges(document, 1..N, a)
           Straight(place) == \A c \in Of("order") : OrderAxis(c) = a =>
             \A i \in 1..Len(c.subjects) - 1 : place[c.subjects[i]] * Least(c) < place[c.subjects[i + 1]] * Least(c)
           Level(place) == \A c \in aligned : c.axis = a => \A s, t \in ToSet(c.subjects) : place[s] = place[t]
<1>1. HasCoordinates(a, aligned) <=> \E place \in [Placeable -> 1..Cardinality(Placeable)] : Level(place) /\ Straight(place)
  BY DEF HasCoordinates, Least
<1>2. ASSUME NEW place \in [Placeable -> 1..Cardinality(Placeable)] PROVE Level(place) <=> \A G \in groups : \A s, t \in G : place[s] = place[t]
  OBVIOUS
<1>3. ASSUME NEW place \in [Placeable -> 1..Cardinality(Placeable)] PROVE Straight(place) <=> \A e \in edges : place[e[1]] < place[e[2]]
  <2>1. ASSUME NEW c \in Of("order")
        PROVE  (\A e \in EdgesOf(c) : place[e[1]] < place[e[2]]) <=>
                 \A i \in 1..Len(c.subjects) - 1 : place[c.subjects[i]] * Least(c) < place[c.subjects[i + 1]] * Least(c)
    <3>1. PICK n \in 1..N : c = document[n]
      BY WrittenLength DEF Of, ToSet
    <3>2. Shaped(c) /\ Written(c) /\ c.kind = "order"
      BY <3>1 DEF WellWritten, Of
    <3>3. QED
      BY <3>2, OrderCoordinates
  <2> DEFINE Rising(c) == \A e \in EdgesOf(c) : place[e[1]] < place[e[2]]
  <2>2. Straight(place) <=> \A c \in Of("order") : OrderAxis(c) = a => Rising(c)
    BY <2>1
  <2>3. Of("order") = {document[n] : n \in Those(document, 1..N, "order")}
    BY WrittenLength DEF Of, ToSet, Those
  <2>4. edges = UNION {EdgesOf(document[n]) : n \in {m \in Those(document, 1..N, "order") : OrderAxis(document[m]) = a}}
    BY DEF OrderEdges
  <2> HIDE DEF edges, Straight
  <2>5. (\A e \in edges : place[e[1]] < place[e[2]])
          <=> \A n \in Those(document, 1..N, "order") : OrderAxis(document[n]) = a => Rising(document[n])
    BY <2>4
  <2> HIDE DEF Rising
  <2>6. QED
    BY <2>2, <2>3, <2>5
<1> HIDE DEF Level, Straight, edges
<1>4. QED
  BY <1>1, <1>2, <1>3 DEF CanPlace, Coordinates, edges

\* The inductive invariant: a document being read is judged as far as it was
\* read, one that was read is judged, and every candidate is written as lists.
DocumentInv ==
  /\ WellWritten(document) /\ cursor \in 1..(Len(document) + 1)
  /\ IF DocumentFailure(document) # Passed THEN seen.verdict \in {"constraints", "references", "shape"}
     ELSE \/ seen.verdict = "reading" /\ Reads(document, cursor - 1, seen)
          \/ Judged(document, Len(document), seen.verdict)
InferredInv ==
  /\ \E report \in Reports : circuit = report.circuit
  /\ IsFiniteSet(inferred) /\ \A c \in inferred : Written(c)

\* A document is opened with nothing read.
LEMMA OpenedStarts ==
  ASSUME NEW doc, WellWritten(doc)
  PROVE  IF DocumentFailure(doc) # Passed THEN Opened(doc).verdict \in {"constraints", "references", "shape"}
         ELSE Opened(doc).verdict = "reading" /\ Reads(doc, 0, Opened(doc))
<1> DEFINE f == DocumentFailure(doc)
<1>1. CASE f = Passed
  <2>1. Opened(doc) = Start
    BY <1>1 DEF Opened
  <2>2. Start.verdict = "reading"
    BY DEF Start
  <2>3. QED
    BY <1>1, <2>1, <2>2, StartReads
<1>2. CASE f # Passed
  <2>1. Opened(doc) = [Start EXCEPT !.verdict = f]
    BY <1>2 DEF Opened
  <2>2. f \in {"constraints", "references", "shape"}
    BY <1>2, DocumentVerdict
  <2> HIDE DEF f
  <2>3. [Start EXCEPT !.verdict = f].verdict = f
    BY DEF Start
  <2>4. QED
    BY <1>2, <2>1, <2>2, <2>3 DEF f
<1>3. QED
  BY <1>1, <1>2

\* Reading one constraint, and ending.
LEMMA ReadKeepsJudgement ==
  ASSUME DocumentInv, Read
  PROVE  DocumentInv'
<1> DEFINE N == Len(document)
           k == cursor - 1
           c == document[cursor]
           s == Step(seen, c)
<1>1. /\ seen.verdict = "reading" /\ cursor <= N /\ seen' = s /\ cursor' = cursor + 1 /\ document' = document
  BY DEF Read
<1>2. WellWritten(document) /\ N \in Nat /\ cursor \in 1..N /\ k \in Nat /\ k + 1 = cursor
  BY <1>1, WrittenLength DEF DocumentInv
<1>3. DocumentFailure(document) = Passed
  BY <1>1 DEF DocumentInv
<1>4. Reads(document, k, seen)
  BY <1>1, <1>3 DEF DocumentInv, Judged, Blamed
<1>5. \A i \in 1..N : Shaped(document[i])
  BY <1>2, <1>3, AllShaped
<1>6. Reads(document, cursor, s)
  <2>1. Shaped(document[k + 1])
    BY <1>2, <1>5
  <2> HIDE DEF k
  <2>2. Reads(document, k + 1, Step(seen, document[k + 1]))
    BY <1>2, <1>4, <2>1, StepReads
  <2>3. QED
    BY <1>2, <2>2
<1> HIDE DEF s, k, N
<1>7. s.verdict = "reading" \/ Judged(document, N, s.verdict)
  <2>1. CASE Agree(document, cursor)
    <3>1. PICK al : s = Gathered(document, 1..cursor, al)
      BY <1>6, <2>1 DEF Reads
    <3>2. QED
      BY <3>1 DEF Gathered, Known
  <2>2. CASE ~Agree(document, cursor)
    <3>1. s.verdict \in Blamed
      BY <1>6, <2>2 DEF Reads
    <3>2. ~Agree(document, N)
      BY <1>2, <2>2 DEF Agree
    <3>3. QED
      BY <3>1, <3>2 DEF Judged
  <2>3. QED
    BY <2>1, <2>2
<1>8. (cursor + 1) - 1 = cursor /\ cursor + 1 \in 1..(N + 1)
  BY <1>2
<1>9. WellWritten(document)' /\ (Len(document) = N)' /\ N' = N /\ (DocumentFailure(document) = Passed)'
  BY <1>1, <1>2, <1>3 DEF N
<1>10. (seen'.verdict = "reading" /\ Reads(document', cursor' - 1, seen')) \/ Judged(document', Len(document'), seen'.verdict)
  <2>1. cursor' - 1 = cursor
    BY <1>1, <1>8
  <2>2. CASE s.verdict = "reading"
    BY <1>1, <1>6, <2>1, <2>2
  <2>3. CASE Judged(document, N, s.verdict)
    BY <1>1, <2>3 DEF N
  <2>4. QED
    BY <1>7, <2>2, <2>3
<1>11. cursor' \in 1..(Len(document') + 1)
  BY <1>1, <1>8 DEF N
<1>12. QED
  BY <1>1, <1>2, <1>3, <1>10, <1>11 DEF DocumentInv

LEMMA EndKeepsJudgement ==
  ASSUME DocumentInv, End
  PROVE  DocumentInv'
<1> DEFINE N == Len(document)
           s == Ended(seen)
<1>1. /\ seen.verdict = "reading" /\ cursor > N /\ seen' = s /\ cursor' = cursor /\ document' = document
  BY DEF End
<1>2. WellWritten(document) /\ N \in Nat /\ cursor \in 1..(N + 1) /\ cursor - 1 = N
  BY <1>1, WrittenLength DEF DocumentInv
<1>3. DocumentFailure(document) = Passed
  BY <1>1 DEF DocumentInv
<1>4. Reads(document, N, seen)
  <2>1. Reads(document, cursor - 1, seen)
    BY <1>1, <1>3 DEF DocumentInv, Judged, Blamed
  <2> HIDE DEF N
  <2>2. QED
    BY <1>2, <2>1
<1>5. Judged(document, N, s.verdict)
  BY <1>2, <1>3, <1>4, AllShaped, EndJudges
<1> HIDE DEF s
<1>6. QED
  BY <1>1, <1>2, <1>3, <1>5 DEF DocumentInv

\* What a report declares is a document like any other.
LEMMA AscendingIsSequence ==
  ASSUME NEW S, IsFiniteSet(S)
  PROVE  \E T : Ascending(S) \in Seq(T)
<1> DEFINE n == Cardinality(S)
           T == {Ascending(S)[k] : k \in 1..n}
<1>1. n \in Nat
  BY FS_CardinalityType
<1>2. Ascending(S) \in [1..n -> T]
  BY DEF Ascending
<1> HIDE DEF T, n
<1>3. Ascending(S) \in Seq(T)
  BY <1>1, <1>2
<1>4. QED
  BY <1>3

LEMMA InOwnRange ==
  ASSUME NEW T, NEW s \in Seq(T) PROVE s \in Seq(ToSet(s))
<1>1. Len(s) \in Nat /\ s \in [1..Len(s) -> ToSet(s)]
  BY DEF ToSet
<1>2. QED
  BY <1>1

\* The documents a caller passes are written as lists, and so is a candidate.
LEMMA WrittenReports ==
  ASSUME NEW report \in Reports PROVE WellWritten(report.document)
<1> DEFINE doc == report.document
<1>1. doc \in Seq(ToSet(doc)) /\ Len(doc) \in Nat /\ DOMAIN doc = 1..Len(doc)
  BY ReportsAssumption DEF IsSequence
<1>2. ASSUME NEW i \in 1..Len(doc) PROVE Written(doc[i])
  <2> DEFINE c == doc[i]
             S == UNION {ToSet(g) : g \in ToSet(c.groups)}
  <2>1. IsSequence(c.subjects) /\ IsSequence(c.groups) /\ \A g \in ToSet(c.groups) : IsSequence(g)
    BY <1>1, ReportsAssumption DEF ToSet
  <2> HIDE DEF c
  <2>2. ASSUME NEW g \in ToSet(c.groups) PROVE g \in Seq(S)
    <3>1. g \in Seq(ToSet(g)) /\ ToSet(g) \subseteq S
      BY <2>1 DEF IsSequence
    <3> HIDE DEF S
    <3>2. QED
      BY <3>1
  <2>3. c.groups \in Seq(Seq(S))
    <3> DEFINE G == ToSet(c.groups)
               B == Seq(S)
    <3>1. c.groups \in Seq(G) /\ G \subseteq B
      BY <2>1, <2>2 DEF IsSequence
    <3> HIDE DEF G, B
    <3>2. c.groups \in Seq(B)
      BY <3>1
    <3>3. QED
      BY <3>2 DEF B
  <2> HIDE DEF S
  <2>4. Len(FlattenSeq(c.groups)) \in Nat
    BY <2>3, FlattenLength
  <2>5. QED
    BY <2>1, <2>4 DEF IsSequence, Written, c
<1>3. QED
  BY <1>1, <1>2 DEF WellWritten

LEMMA CandidateIsWritten ==
  ASSUME NEW kind, NEW subjects, IsFiniteSet(subjects), NEW groups, NEW n \in Nat, DOMAIN groups = 1..n,
         \A i \in 1..n : IsFiniteSet(groups[i]), NEW axis
  PROVE  Written(Candidate(kind, subjects, groups, axis))
<1> DEFINE c == Candidate(kind, subjects, groups, axis)
           lists == [i \in 1..n |-> Ascending(groups[i])]
           S == UNION {ToSet(lists[i]) : i \in 1..n}
<1>1. c.subjects = Ascending(subjects) /\ c.groups = lists
  BY DEF Candidate
<1>2. c.subjects \in Seq(ToSet(c.subjects))
  BY <1>1, AscendingIsSequence, InOwnRange
<1>3. ASSUME NEW i \in 1..n PROVE lists[i] \in Seq(S)
  <2> DEFINE s == lists[i]
  <2>1. s = Ascending(groups[i]) /\ ToSet(s) \subseteq S
    OBVIOUS
  <2> HIDE DEF s, S, lists
  <2>2. s \in Seq(ToSet(s))
    BY <2>1, AscendingIsSequence, InOwnRange
  <2>3. s \in Seq(S)
    BY <2>1, <2>2
  <2>4. QED
    BY <2>3 DEF s
<1>4. lists \in Seq(Seq(S))
  <2> DEFINE B == Seq(S)
  <2>1. \A i \in 1..n : Ascending(groups[i]) \in B
    BY <1>3
  <2> HIDE DEF B, S
  <2>2. lists \in [1..n -> B]
    BY <2>1
  <2> HIDE DEF lists
  <2>3. lists \in Seq(B)
    BY <2>2
  <2>4. QED
    BY <2>3 DEF B
<1> HIDE DEF lists, S
<1>5. Len(FlattenSeq(lists)) \in Nat
  BY <1>4, FlattenLength
<1>6. QED
  BY <1>1, <1>2, <1>5 DEF Written

\* One scope has finitely many candidates; then all of them.
LEMMA CandidatesAreWritten ==
  ASSUME NEW scope, IsSequence(scope.mosfets)
  PROVE  IsFiniteSet(CandidatesOf(scope)) /\ \A c \in CandidatesOf(scope) : Written(c)
<1> DEFINE list == scope.mosfets
           M == ToSet(list)
           D == DOMAIN list
           couples == MotifsOf(scope, "mirror") \cup MotifsOf(scope, "differential")
           differential == MotifsOf(scope, "differential")
           PG == ParallelGroups(list)
           centroids == CentroidsOf(scope)
           matching == [ij \in couples |-> Candidate("matching", Ids(scope, ij), <<>>, "none")]
           symmetry == [ij \in differential |-> Candidate("symmetry", Ids(scope, ij), <<>>, "vertical")]
           named(p) == SetToSeq({GroupIds(g) : g \in p})
           centred == [p \in centroids |-> Candidate("common_centroid", {}, named(p), "both")]
<1>1. IsFiniteSet(D) /\ IsFiniteSet(M)
  <2>1. Len(list) \in Nat /\ D = 1..Len(list) /\ list = [n \in D |-> list[n]]
    BY DEF IsSequence
  <2>2. IsFiniteSet(D)
    BY <2>1, FS_Interval
  <2> HIDE DEF list
  <2>3. IsFiniteSet(Range(list)) /\ M = Range(list)
    BY <2>2, RangeIsFinite DEF Range, ToSet
  <2>4. QED
    BY <2>2, <2>3
<1>2. IsFiniteSet(couples) /\ IsFiniteSet(differential)
  <2>1. IsFiniteSet(D \X D)
    BY <1>1, FS_Product
  <2>2. couples \subseteq D \X D /\ differential \subseteq D \X D
    BY DEF MotifsOf, Combinations
  <2>3. QED
    BY <2>1, <2>2, FS_Subset
<1>3. IsFiniteSet(PG) /\ \A g \in PG : g \subseteq M
  <2>1. PG \subseteq SUBSET M
    BY DEF ParallelGroups
  <2>2. IsFiniteSet(SUBSET M)
    BY <1>1, FS_SUBSET
  <2>3. QED
    BY <2>1, <2>2, FS_Subset
<1>4. IsFiniteSet(centroids) /\ \A p \in centroids : p \subseteq PG
  <2>1. centroids \subseteq SUBSET PG
    BY DEF CentroidsOf, kSubset
  <2>2. IsFiniteSet(SUBSET PG)
    BY <1>3, FS_SUBSET
  <2>3. QED
    BY <2>1, <2>2, FS_Subset
<1>5. CandidatesOf(scope) = Range(matching) \cup Range(symmetry) \cup Range(centred)
  BY DEF CandidatesOf, Range
<1>6. \A ij : IsFiniteSet(Ids(scope, ij))
  <2>1. ASSUME NEW x, NEW y PROVE IsFiniteSet({x, y})
    <3>1. {x, y} = {x} \cup {y}
      OBVIOUS
    <3>2. IsFiniteSet({x}) /\ IsFiniteSet({y})
      BY FS_Singleton
    <3>3. QED
      BY <3>1, <3>2, FS_Union
  <2>2. QED
    BY <2>1 DEF Ids
<1>7. ASSUME NEW kind, NEW ij, NEW axis PROVE Written(Candidate(kind, Ids(scope, ij), <<>>, axis))
  <2> DEFINE groups == <<>>
             subjects == Ids(scope, ij)
             n == 0
  <2>1. IsFiniteSet(subjects) /\ DOMAIN groups = 1..n /\ n \in Nat /\ \A i \in 1..n : IsFiniteSet(groups[i])
    BY <1>6
  <2> HIDE DEF groups, subjects, n
  <2>2. Written(Candidate(kind, subjects, groups, axis))
    BY <2>1, CandidateIsWritten
  <2>3. QED
    BY <2>2 DEF groups, subjects
<1>8. ASSUME NEW p \in centroids PROVE Written(centred[p])
  <2> DEFINE G == {GroupIds(g) : g \in p}
             n == Cardinality(G)
             groups == SetToSeq(G)
             ids == [g \in p |-> GroupIds(g)]
             none == {}
  <2>1. p \subseteq PG /\ IsFiniteSet(p)
    BY <1>3, <1>4, FS_Subset
  <2>2. \A g \in p : IsFiniteSet(GroupIds(g))
    <3>1. ASSUME NEW g \in p PROVE IsFiniteSet(GroupIds(g))
      <4> DEFINE id == [m \in g |-> m.id]
      <4>1. g \subseteq M
        BY <1>3, <2>1
      <4>2. IsFiniteSet(g)
        BY <1>1, <4>1, FS_Subset
      <4>3. DOMAIN id = g /\ GroupIds(g) = Range(id)
        BY DEF GroupIds, Range
      <4> HIDE DEF id
      <4>4. QED
        BY <4>2, <4>3, RangeIsFinite
    <3>2. QED
      BY <3>1
  <2>3. IsFiniteSet(G)
    <3>1. DOMAIN ids = p /\ G = Range(ids)
      BY DEF Range
    <3> HIDE DEF ids, G
    <3>2. QED
      BY <2>1, <3>1, RangeIsFinite
  <2>4. \A x \in G : IsFiniteSet(x)
    BY <2>2
  <2> HIDE DEF G
  <2>5. groups \in [1..n -> G] /\ n \in Nat
    BY <2>3, SomeOrder, FS_CardinalityType DEF SetToSeqs
  <2>6. IsFiniteSet(none)
    BY FS_EmptySet
  <2>7. DOMAIN groups = 1..n /\ \A i \in 1..n : IsFiniteSet(groups[i])
    BY <2>4, <2>5
  <2> HIDE DEF groups, none, n
  <2>8. Written(Candidate("common_centroid", none, groups, "both"))
    BY <2>5, <2>6, <2>7, CandidateIsWritten
  <2>9. centred[p] = Candidate("common_centroid", none, groups, "both")
    BY DEF none, groups, G
  <2>10. QED
    BY <2>8, <2>9
<1>9. (\A ij \in couples : Written(matching[ij])) /\ (\A ij \in differential : Written(symmetry[ij]))
  BY <1>7
<1>10. DOMAIN matching = couples /\ DOMAIN symmetry = differential /\ DOMAIN centred = centroids
  OBVIOUS
<1> HIDE DEF couples, differential, centroids, matching, symmetry, centred
<1>11. IsFiniteSet(Range(matching)) /\ IsFiniteSet(Range(symmetry)) /\ IsFiniteSet(Range(centred))
  BY <1>2, <1>4, <1>10, RangeIsFinite
<1>12. IsFiniteSet(CandidatesOf(scope))
  BY <1>5, <1>11, FS_Union
<1>13. QED
  BY <1>5, <1>8, <1>9, <1>10, <1>12 DEF Range

LEMMA InferredIsWritten ==
  ASSUME \E report \in Reports : circuit = report.circuit
  PROVE  LET all == UNION {CandidatesOf(circuit[i]) : i \in DOMAIN circuit}
         IN IsFiniteSet(all) /\ \A c \in all : Written(c)
<1> DEFINE D == DOMAIN circuit
           f == [i \in D |-> CandidatesOf(circuit[i])]
<1>1. IsSequence(circuit) /\ \A scope \in ToSet(circuit) : IsSequence(scope.mosfets)
  BY ReportsAssumption
<1>2. IsFiniteSet(D)
  <2>1. Len(circuit) \in Nat /\ D = 1..Len(circuit)
    BY <1>1 DEF IsSequence
  <2>2. QED
    BY <2>1, FS_Interval
<1>3. ASSUME NEW i \in D PROVE IsFiniteSet(f[i]) /\ \A c \in f[i] : Written(c)
  <2>1. circuit[i] \in ToSet(circuit)
    BY DEF ToSet
  <2>2. IsSequence(circuit[i].mosfets)
    BY <1>1, <2>1
  <2>3. QED
    BY <2>2, CandidatesAreWritten
<1>4. f = [i \in D |-> f[i]] /\ UNION {CandidatesOf(circuit[i]) : i \in DOMAIN circuit} = UNION {f[i] : i \in D}
  OBVIOUS
<1> HIDE DEF f, D
<1>5. IsFiniteSet(UNION {f[i] : i \in D})
  BY <1>2, <1>3, <1>4, UnionIsFinite
<1>6. QED
  BY <1>3, <1>4, <1>5

\* s lists every member of S once.
Lists(s, S) == s \in [1..Cardinality(S) -> S] /\ (\A i, j \in DOMAIN s : s[i] = s[j] => i = j) /\ ToSet(s) = S

LEMMA ListFacts ==
  ASSUME NEW S, IsFiniteSet(S), NEW s, Lists(s, S)
  PROVE  /\ Cardinality(S) \in Nat /\ Len(s) = Cardinality(S) /\ DOMAIN s = 1..Cardinality(S) /\ s \in Seq(S)
         /\ IsInjective(s) /\ ToSet(s) = S
<1> DEFINE n == Cardinality(S)
<1>1. n \in Nat
  BY FS_CardinalityType
<1> HIDE DEF n
<1>2. s \in [1..n -> S] /\ (\A i, j \in DOMAIN s : s[i] = s[j] => i = j) /\ ToSet(s) = S
  BY DEF Lists, n
<1>3. Len(s) = n /\ DOMAIN s = 1..n /\ s \in Seq(S)
  BY <1>1, <1>2
<1>4. QED
  BY <1>1, <1>2, <1>3 DEF n, IsInjective

\* Disjoint sets, joined, are as many as both.
LEMMA DisjointCount ==
  ASSUME NEW A, IsFiniteSet(A), NEW B, IsFiniteSet(B), A \cap B = {}
  PROVE  IsFiniteSet(A \cup B) /\ Cardinality(A \cup B) = Cardinality(A) + Cardinality(B)
<1>1. Cardinality(A) \in Nat /\ Cardinality(B) \in Nat /\ Cardinality(A \cap B) = 0
  BY FS_CardinalityType, FS_EmptySet
<1>2. IsFiniteSet(A \cup B) /\ Cardinality(A \cup B) = Cardinality(A) + Cardinality(B) - Cardinality(A \cap B)
  BY FS_Union
<1>3. QED
  BY <1>1, <1>2

\* Lists of disjoint sets, put together, list the union.
LEMMA JoinedLists ==
  ASSUME NEW A, IsFiniteSet(A), NEW B, IsFiniteSet(B), A \cap B = {},
         NEW a, Lists(a, A), NEW b, Lists(b, B)
  PROVE  Lists(a \o b, A \cup B)
<1> DEFINE m == Cardinality(A)
           n == Cardinality(B)
           S == A \cup B
           s == a \o b
<1>1. /\ m \in Nat /\ Len(a) = m /\ DOMAIN a = 1..m /\ a \in Seq(A) /\ IsInjective(a) /\ ToSet(a) = A
      /\ n \in Nat /\ Len(b) = n /\ DOMAIN b = 1..n /\ b \in Seq(B) /\ IsInjective(b) /\ ToSet(b) = B
  BY ListFacts
<1>2. Cardinality(S) = m + n
  BY DisjointCount
<1> HIDE DEF m, n
<1>3. a \in Seq(S) /\ b \in Seq(S)
  BY <1>1
<1> HIDE DEF S
<1>4. /\ s \in Seq(S) /\ Len(s) = m + n /\ DOMAIN s = 1..(m + n)
      /\ \A i \in 1..(m + n) : s[i] = IF i <= m THEN a[i] ELSE b[i - m]
  BY <1>1, <1>3
<1> HIDE DEF s
<1>5. s \in [1..(m + n) -> S]
  BY <1>1, <1>4
<1>6. \A i \in 1..(m + n) : (i <= m => i \in 1..m /\ s[i] = a[i]) /\ (~(i <= m) => i - m \in 1..n /\ s[i] = b[i - m])
  BY <1>1, <1>4
<1>7. /\ \A i \in 1..m : a[i] \in A
      /\ \A i \in 1..n : b[i] \in B
  BY <1>1
<1>8. ASSUME NEW i \in 1..(m + n), NEW j \in 1..(m + n), s[i] = s[j] PROVE i = j
  <2>1. CASE i <= m /\ j <= m
    BY <1>1, <1>6, <1>8, <2>1 DEF IsInjective
  <2>2. CASE ~(i <= m) /\ ~(j <= m)
    <3>1. i - m \in DOMAIN b /\ j - m \in DOMAIN b /\ b[i - m] = b[j - m]
      BY <1>1, <1>6, <1>8, <2>2
    <3>2. i - m = j - m
      BY <1>1, <3>1 DEF IsInjective
    <3>3. QED
      BY <1>1, <3>2
  <2>3. CASE i <= m /\ ~(j <= m)
    BY <1>6, <1>7, <1>8, <2>3
  <2>4. CASE ~(i <= m) /\ j <= m
    BY <1>6, <1>7, <1>8, <2>4
  <2>5. QED
    BY <2>1, <2>2, <2>3, <2>4
<1>9. ToSet(s) = S
  <2>1. ASSUME NEW x \in S PROVE \E i \in 1..(m + n) : s[i] = x
    <3>1. CASE x \in A
      <4>1. PICK i \in 1..m : a[i] = x
        BY <1>1, <3>1 DEF ToSet
      <4>2. i \in 1..(m + n) /\ i <= m
        BY <1>1
      <4>3. QED
        BY <1>6, <4>1, <4>2
    <3>2. CASE x \in B
      <4>1. PICK k \in 1..n : b[k] = x
        BY <1>1, <3>2 DEF ToSet
      <4> DEFINE i == k + m
      <4>2. i \in 1..(m + n) /\ ~(i <= m) /\ i - m = k
        BY <1>1
      <4> HIDE DEF i
      <4>3. s[i] = x
        BY <1>6, <4>1, <4>2
      <4>4. QED
        BY <4>2, <4>3
    <3>3. QED
      BY <3>1, <3>2 DEF S
  <2>2. QED
    BY <1>4, <1>5, <2>1 DEF ToSet
<1>10. QED
  BY <1>2, <1>4, <1>5, <1>8, <1>9 DEF Lists, s, S

\* Declaring: a finite set, listed, is a list of its members.
Listed(S) == FoldSet(LAMBDA c, doc : Append(doc, c), <<>>, S)

LEMMA ListedLists ==
  ASSUME NEW S, IsFiniteSet(S)
  PROVE  Lists(Listed(S), S)
<1> DEFINE B == Seq(S)
           next == [s \in SUBSET S |-> CHOOSE x \in s : TRUE]
           step == [x \in S |-> [q \in B |-> Append(q, x)]]
           Folds(iter) == iter = [s \in SUBSET S |-> IF s = {} THEN <<>>
                                    ELSE LET x == CHOOSE x \in s : TRUE IN Append(iter[s \ {x}], x)]
           iter == CHOOSE g : Folds(g)
<1>1. Listed(S) = iter[S]
  BY Zenon DEF Listed, FoldSet, MapThenFoldSet
<1>2. \E g : Folds(g) /\ g \in [SUBSET S -> B]
  <2> DEFINE none == <<>>
  <2>1. step \in [S -> [B -> B]] /\ none \in B
    OBVIOUS
  <2>2. \A s \in SUBSET S : s # {} => next[s] \in s
    OBVIOUS
  <2>3. PICK g \in [SUBSET S -> B] : IsFold(S, none, step, next, g)
    <3> HIDE DEF step, next, none, B
    <3>1. QED
      BY <2>1, <2>2, FoldExists
  <2>4. \A s \in SUBSET S : s # {} => step[next[s]][g[s \ {next[s]}]] = Append(g[s \ {next[s]}], next[s])
    <3> HIDE DEF next, B
    <3>1. QED
      BY <2>2
  <2>5. g = [s \in SUBSET S |-> IF s = {} THEN none ELSE Append(g[s \ {next[s]}], next[s])]
    <3> HIDE DEF step, next, none, B
    <3>1. QED
      BY <2>3, <2>4 DEF IsFold
  <2>6. Folds(g)
    BY <2>5
  <2>7. QED
    BY <2>6
<1>3. Folds(iter)
  <2> HIDE DEF Folds
  <2>1. QED
    BY <1>2
<1> HIDE DEF iter
<1>4. \A s \in SUBSET S : IF s = {} THEN iter[s] = <<>> ELSE \E x \in s : iter[s] = Append(iter[s \ {x}], x)
  <2>1. ASSUME NEW s \in SUBSET S
        PROVE  iter[s] = IF s = {} THEN <<>> ELSE LET x == CHOOSE x \in s : TRUE IN Append(iter[s \ {x}], x)
    BY <1>3
  <2>2. QED
    BY <2>1
<1> DEFINE Good(s) == Lists(iter[s], s)
<1>5. Good({})
  <2> DEFINE none == {}
             q == <<>>
  <2>1. Cardinality(none) = 0 /\ IsFiniteSet(none) /\ none \in SUBSET S
    BY FS_EmptySet
  <2>2. iter[none] = q
    BY <1>4, <2>1
  <2>3. Lists(q, none)
    <3>1. q \in [1..0 -> none] /\ DOMAIN q = {} /\ ToSet(q) = none
      BY DEF ToSet
    <3> HIDE DEF none, q
    <3>2. QED
      BY <2>1, <3>1 DEF Lists
  <2>4. QED
    BY <2>2, <2>3
<1>6. ASSUME NEW s \in SUBSET S, NEW x \in s, iter[s] = Append(iter[s \ {x}], x), Good(s \ {x}) PROVE Good(s)
  <2> DEFINE rest == s \ {x}
             one == {x}
             q == iter[rest]
             last == <<x>>
  <2>1. IsFiniteSet(rest) /\ IsFiniteSet(one) /\ Cardinality(one) = 1 /\ rest \cap one = {} /\ rest \cup one = s
    BY FS_Subset, FS_Singleton
  <2>2. Lists(last, one)
    <3>1. last \in [1..1 -> one] /\ ToSet(last) = one /\ \A i, j \in DOMAIN last : i = j
      BY DEF ToSet
    <3> HIDE DEF last, one
    <3>2. QED
      BY <2>1, <3>1 DEF Lists
  <2>3. Lists(q, rest)
    BY <1>6
  <2> HIDE DEF q, rest, one
  <2>4. q \in Seq(rest)
    BY <2>1, <2>3, ListFacts
  <2>5. Append(q, x) = q \o last
    BY <2>4
  <2> HIDE DEF last
  <2>6. Lists(q \o last, rest \cup one)
    BY <2>1, <2>2, <2>3, JoinedLists
  <2>7. QED
    BY <1>6, <2>1, <2>5, <2>6 DEF q, rest
<1> HIDE DEF Good
<1> DEFINE T == {m \in Nat : \A s \in SUBSET S : Cardinality(s) <= m => Good(s)}
<1>7. \A m \in Nat : m \in T
  <2>1. 0 \in T
    <3>1. \A s \in SUBSET S : Cardinality(s) <= 0 => s = {}
      BY FS_Subset, FS_EmptySet, FS_CardinalityType
    <3>2. QED
      BY <1>5, <3>1
  <2>2. ASSUME NEW m \in Nat, m \in T PROVE m + 1 \in T
    <3>1. SUFFICES ASSUME NEW s \in SUBSET S, Cardinality(s) <= m + 1 PROVE Good(s)
      OBVIOUS
    <3>2. CASE s = {}
      BY <1>5, <3>2
    <3>3. CASE s # {}
      <4>1. PICK x \in s : iter[s] = Append(iter[s \ {x}], x)
        BY <1>4, <3>3
      <4>2. IsFiniteSet(s) /\ Cardinality(s \ {x}) = Cardinality(s) - 1 /\ Cardinality(s) \in Nat
        BY FS_Subset, FS_RemoveElement, FS_CardinalityType
      <4>3. Good(s \ {x})
        BY <2>2, <3>1, <4>2
      <4>4. QED
        BY <1>6, <4>1, <4>3
    <3>4. QED
      BY <3>2, <3>3
  <2> HIDE DEF T
  <2>3. QED
    BY <2>1, <2>2, NaturalInduction
<1>8. QED
  BY <1>1, <1>7, FS_CardinalityType DEF Good

\* The invariant holds at the start and after every step.
LayoutInv == DocumentInv /\ InferredInv

LEMMA LayoutStarts == LayoutInit => LayoutInv
<1> SUFFICES ASSUME LayoutInit PROVE LayoutInv
  OBVIOUS
<1>1. PICK report \in Reports : document = report.document /\ circuit = report.circuit
  BY DEF LayoutInit
<1>2. cursor = 1 /\ seen = Opened(document) /\ inferred = {}
  BY DEF LayoutInit
<1>3. WellWritten(document)
  BY <1>1, WrittenReports
<1>4. cursor \in 1..(Len(document) + 1) /\ cursor - 1 = 0
  BY <1>2, <1>3, WrittenLength
<1>5. DocumentInv
  BY <1>2, <1>3, <1>4, OpenedStarts DEF DocumentInv
<1>6. InferredInv
  BY <1>1, <1>2, FS_EmptySet DEF InferredInv
<1>7. QED
  BY <1>5, <1>6 DEF LayoutInv

LEMMA LayoutKeepsInv == LayoutInv /\ [LayoutNext]_layoutVars => LayoutInv'
<1> SUFFICES ASSUME LayoutInv, [LayoutNext]_layoutVars PROVE LayoutInv'
  OBVIOUS
<1>1. ASSUME Validate, UNCHANGED inferring PROVE LayoutInv'
  <2>1. DocumentInv'
    BY <1>1, ReadKeepsJudgement, EndKeepsJudgement DEF Validate, LayoutInv
  <2>2. InferredInv'
    BY <1>1 DEF LayoutInv, InferredInv, inferring
  <2>3. QED
    BY <2>1, <2>2 DEF LayoutInv
<1>2. ASSUME Prepare PROVE LayoutInv'
  <2>1. UNCHANGED <<document, cursor, seen, circuit, inferred>>
    BY <1>2 DEF Prepare, documentVars
  <2>2. QED
    BY <2>1 DEF LayoutInv, DocumentInv, InferredInv
<1>3. ASSUME Infer PROVE LayoutInv'
  <2>1. UNCHANGED <<document, cursor, seen, circuit>>
    BY <1>3 DEF Infer, documentVars
  <2>2. DocumentInv'
    BY <2>1 DEF LayoutInv, DocumentInv
  <2>3. inferred' = inferred \/ inferred' = UNION {CandidatesOf(circuit[i]) : i \in DOMAIN circuit}
    BY <1>3 DEF Infer
  <2>4. IsFiniteSet(inferred') /\ \A c \in inferred' : Written(c)
    BY <2>3, InferredIsWritten DEF LayoutInv, InferredInv
  <2>5. InferredInv'
    BY <2>1, <2>4 DEF LayoutInv, InferredInv
  <2>6. QED
    BY <2>2, <2>5 DEF LayoutInv
<1>4. ASSUME Declare PROVE LayoutInv'
  <2>1. /\ document' = Listed(inferred) /\ cursor' = 1 /\ seen' = Opened(document')
        /\ circuit' = circuit /\ inferred' = inferred
    BY <1>4, Zenon DEF Declare, Listed
  <2>2. document' \in Seq(inferred)
    BY <2>1, ListedLists, ListFacts DEF LayoutInv, InferredInv
  <2>3. \A i \in 1..Len(document') : Written(document'[i])
    BY <2>2 DEF LayoutInv, InferredInv
  <2>4. WellWritten(document')
    BY <2>2, <2>3 DEF WellWritten
  <2>5. cursor' \in 1..(Len(document') + 1) /\ cursor' - 1 = 0
    BY <2>1, <2>2
  <2>6. IF DocumentFailure(document') # Passed THEN seen'.verdict \in {"constraints", "references", "shape"}
        ELSE seen'.verdict = "reading" /\ Reads(document', cursor' - 1, seen')
    <3> DEFINE doc == document'
    <3>1. WellWritten(doc) /\ seen' = Opened(doc)
      BY <2>1, <2>4
    <3> HIDE DEF doc
    <3>2. IF DocumentFailure(doc) # Passed THEN Opened(doc).verdict \in {"constraints", "references", "shape"}
          ELSE Opened(doc).verdict = "reading" /\ Reads(doc, 0, Opened(doc))
      BY <3>1, OpenedStarts
    <3>3. QED
      BY <2>5, <3>1, <3>2 DEF doc
  <2>7. DocumentInv'
    BY <2>4, <2>5, <2>6 DEF DocumentInv
  <2>8. InferredInv'
    BY <2>1 DEF LayoutInv, InferredInv
  <2>9. QED
    BY <2>7, <2>8 DEF LayoutInv
<1>5. ASSUME UNCHANGED layoutVars PROVE LayoutInv'
  BY <1>5 DEF LayoutInv, DocumentInv, InferredInv, layoutVars, documentVars, inferring
<1>6. QED
  BY <1>1, <1>2, <1>3, <1>4, <1>5 DEF LayoutNext

\* A judged document is accepted exactly when it can be placed.
LEMMA JudgementAsPlacement == LayoutInv => PlaceableIffAccepted
<1> SUFFICES ASSUME DocumentInv, seen.verdict \in {"accepted", "cycle", "alignment"} PROVE PlaceableIffAccepted
  BY DEF LayoutInv, PlaceableIffAccepted
<1> DEFINE N == Len(document)
           none == {}
           aligned == Of("alignment")
<1>1. WellWritten(document) /\ DocumentFailure(document) = Passed /\ Judged(document, N, seen.verdict)
  BY DEF DocumentInv
<1>2. Agree(document, N)
  BY <1>1 DEF Judged, Blamed
<1>3. \A i \in 1..N : Shaped(document[i])
  BY <1>1, AllShaped
<1>4. ASSUME NEW a
      PROVE  /\ HasCoordinates(a, aligned) <=> CanPlace(OrderEdges(document, 1..N, a), AlignedGroups(document, 1..N, a))
             /\ HasCoordinates(a, none) <=> CanPlace(OrderEdges(document, 1..N, a), none)
  <2> DEFINE groups == AlignedGroups(document, 1..N, a)
  <2>1. groups = {ToSet(c.subjects) : c \in {d \in aligned : d.axis = a}}
    <3>1. aligned = {document[n] : n \in Those(document, 1..N, "alignment")}
      BY <1>1, WrittenLength DEF Of, ToSet, Those
    <3> HIDE DEF aligned, N
    <3>2. QED
      BY <3>1 DEF AlignedGroups
  <2>2. none = {ToSet(c.subjects) : c \in {d \in none : d.axis = a}}
    OBVIOUS
  <2> HIDE DEF groups, none, aligned
  <2>3. HasCoordinates(a, aligned) <=> CanPlace(OrderEdges(document, 1..N, a), groups)
    BY <1>1, <1>3, <2>1, CoordinatesAreFound
  <2>4. HasCoordinates(a, none) <=> CanPlace(OrderEdges(document, 1..N, a), none)
    BY <1>1, <1>3, <2>2, CoordinatesAreFound
  <2>5. QED
    BY <2>3, <2>4 DEF groups
<1>5. QED
  BY <1>1, <1>2, <1>4 DEF Judged, PlaceableIffAccepted

\* For every report - any document, circuit, scopes and limits - a document
\* whose orders and alignments are the only doubt is accepted exactly when its
\* devices can be placed that way, and alignment is blamed only where some axis
\* has coordinates without it: _has_cycle and _contract_alignment_groups,
\* called axis by axis, decide that exactly, for what a caller declares and for
\* what was inferred.
THEOREM PlaceableAlways == LayoutSpec => []PlaceableIffAccepted
<1>1. LayoutInit => LayoutInv
  BY LayoutStarts
<1>2. LayoutInv /\ [LayoutNext]_layoutVars => LayoutInv'
  BY LayoutKeepsInv
<1>3. LayoutInv => PlaceableIffAccepted
  BY JudgementAsPlacement
<1>4. QED
  BY <1>1, <1>2, <1>3, PTL DEF LayoutSpec

\* A judged document, swapped, is judged the same.
LEMMA JudgementIgnoresOrder == LayoutInv => DocumentOrderIsIrrelevant
<1> SUFFICES ASSUME DocumentInv, seen.verdict \notin {"reading", "constraints", "references", "shape"},
                    NEW i \in DOMAIN document, NEW j \in DOMAIN document, i < j
             PROVE  (Parsed([document EXCEPT ![i] = document[j], ![j] = document[i]]) = "accepted") = (seen.verdict = "accepted")
  BY DEF LayoutInv, DocumentOrderIsIrrelevant
<1>1. WellWritten(document) /\ DocumentFailure(document) = Passed /\ Judged(document, Len(document), seen.verdict)
  BY DEF DocumentInv
<1>2. i \in 1..Len(document) /\ j \in 1..Len(document)
  BY <1>1, WrittenLength
<1>3. Parsed(Swapped(document, i, j)) = "accepted" <=> seen.verdict = "accepted"
  BY <1>1, <1>2, SwapKeepsVerdict
<1>4. QED
  BY <1>3 DEF Swapped

\* For every report, whether its document is accepted does not depend on the
\* order it is written in: what validate_layout_conflicts collects on the way
\* finds a contradiction of two constraints from whichever comes second.
THEOREM DocumentOrderAlways == LayoutSpec => []DocumentOrderIsIrrelevant
<1>1. LayoutInit => LayoutInv
  BY LayoutStarts
<1>2. LayoutInv /\ [LayoutNext]_layoutVars => LayoutInv'
  BY LayoutKeepsInv
<1>3. LayoutInv => DocumentOrderIsIrrelevant
  BY JudgementIgnoresOrder
<1>4. QED
  BY <1>1, <1>2, <1>3, PTL DEF LayoutSpec

(***************************************************************************)
(* Counting: the candidates, indexed by what they are made of.             *)
(***************************************************************************)

\* A sorted set of numbers is listed, and so is any set put in some order.
LEMMA AscendingLists ==
  ASSUME NEW S \in SUBSET Nat, IsFiniteSet(S)
  PROVE  Lists(Ascending(S), S)
<1> DEFINE n == Cardinality(S)
           below(x) == {y \in S : y < x}
           rank == [x \in S |-> Cardinality(below(x)) + 1]
           R == 1..n
<1>1. n \in Nat /\ IsFiniteSet(R) /\ Cardinality(R) = n
  BY FS_CardinalityType, FS_Interval
<1>2. \A x \in S : IsFiniteSet(below(x)) /\ Cardinality(below(x)) \in Nat /\ Cardinality(below(x)) < n
  <2>1. ASSUME NEW x \in S
        PROVE  IsFiniteSet(below(x)) /\ Cardinality(below(x)) \in Nat /\ Cardinality(below(x)) < n
    <3>1. below(x) \in SUBSET S /\ x \notin below(x)
      OBVIOUS
    <3> HIDE DEF below
    <3>2. IsFiniteSet(below(x)) /\ Cardinality(below(x)) <= n /\ (n = Cardinality(below(x)) => S = below(x))
      BY <3>1, FS_Subset
    <3>3. Cardinality(below(x)) \in Nat
      BY <3>2, FS_CardinalityType
    <3>4. QED
      BY <1>1, <3>1, <3>2, <3>3
  <2>2. QED
    BY <2>1
<1>3. \A x, y \in S : x < y => Cardinality(below(x)) < Cardinality(below(y))
  <2>1. ASSUME NEW x \in S, NEW y \in S, x < y PROVE Cardinality(below(x)) < Cardinality(below(y))
    <3>1. below(x) \in SUBSET below(y) /\ x \in below(y) /\ x \notin below(x)
      <4>1. \A z \in S : z < x => z < y
        BY <2>1
      <4>2. ~(x < x)
        BY <2>1
      <4>3. QED
        BY <2>1, <4>1, <4>2
    <3>2. IsFiniteSet(below(y)) /\ Cardinality(below(x)) \in Nat /\ Cardinality(below(y)) \in Nat
      BY <1>2
    <3> HIDE DEF below
    <3>3. Cardinality(below(x)) <= Cardinality(below(y)) /\ (Cardinality(below(y)) = Cardinality(below(x)) => below(y) = below(x))
      BY <3>1, <3>2, FS_Subset
    <3>4. QED
      BY <3>1, <3>2, <3>3
  <2>2. QED
    BY <2>1
<1>4. rank \in Injection(S, R)
  <2>1. rank \in [S -> R]
    <3> HIDE DEF below, n
    <3>1. \A x \in S : Cardinality(below(x)) + 1 \in R
      BY <1>1, <1>2
    <3>2. QED
      BY <3>1
  <2>2. ASSUME NEW x \in S, NEW y \in S, rank[x] = rank[y] PROVE x = y
    <3> DEFINE cx == Cardinality(below(x))
               cy == Cardinality(below(y))
    <3>1. cx \in Nat /\ cy \in Nat /\ cx + 1 = cy + 1
      BY <1>2, <2>2
    <3>2. (x < y => cx < cy) /\ (y < x => cy < cx)
      BY <1>3
    <3> HIDE DEF cx, cy, rank
    <3>3. QED
      BY <3>1, <3>2
  <2> HIDE DEF rank, R
  <2>3. QED
    BY <2>1, <2>2 DEF Injection, IsInjective
<1>5. rank \in Surjection(S, R)
  <2> HIDE DEF rank, R
  <2>1. Cardinality(S) = Cardinality(R)
    BY <1>1
  <2>2. QED
    BY <1>1, <1>4, <2>1, FS_Injection
<1>6. ASSUME NEW k \in R PROVE Ascending(S)[k] \in S /\ rank[Ascending(S)[k]] = k
  <2>1. PICK x \in S : rank[x] = k
    BY <1>5 DEF Surjection
  <2> DEFINE cx == Cardinality(below(x))
  <2>2. cx \in Nat /\ cx + 1 = k
    BY <1>2, <2>1
  <2>3. cx = k - 1
    <3> HIDE DEF cx
    <3>1. QED
      BY <2>2
  <2>4. Ascending(S)[k] = CHOOSE z \in S : Cardinality(below(z)) = k - 1
    BY DEF Ascending
  <2> DEFINE z == Ascending(S)[k]
  <2>5. z \in S /\ Cardinality(below(z)) = k - 1
    BY <2>3, <2>4
  <2> HIDE DEF z
  <2>6. rank[z] = (k - 1) + 1
    BY <2>5
  <2>7. (k - 1) + 1 = k
    BY <1>1
  <2>8. QED
    BY <2>5, <2>6, <2>7 DEF z
<1>7. DOMAIN Ascending(S) = R
  BY DEF Ascending
<1>8. ASSUME NEW x \in S PROVE \E k \in R : Ascending(S)[k] = x
  <2>1. rank[x] \in R
    BY <1>4 DEF Injection
  <2>2. rank[Ascending(S)[rank[x]]] = rank[x] /\ Ascending(S)[rank[x]] \in S
    BY <1>6, <2>1
  <2> HIDE DEF rank, R
  <2>3. Ascending(S)[rank[x]] = x
    BY <1>4, <2>2 DEF Injection, IsInjective
  <2>4. QED
    BY <2>1, <2>3
<1> DEFINE s == Ascending(S)
<1>9. s = [k \in R |-> s[k]]
  BY DEF Ascending
<1> HIDE DEF R, rank, s
<1>10. ToSet(s) = S
  BY <1>6, <1>7, <1>8 DEF ToSet, s
<1>11. s \in [R -> S] /\ \A i, j \in R : s[i] = s[j] => i = j
  BY <1>6, <1>9 DEF s
<1>12. Lists(s, S)
  BY <1>7, <1>10, <1>11 DEF Lists, R, s
<1>13. QED
  BY <1>12 DEF s

LEMMA ListedMembers ==
  ASSUME NEW S, IsFiniteSet(S)
  PROVE  Lists(SetToSeq(S), S)
<1> DEFINE n == Cardinality(S)
           R == 1..n
           f == SetToSeq(S)
<1>1. n \in Nat /\ IsFiniteSet(R) /\ Cardinality(R) = n
  BY FS_CardinalityType, FS_Interval
<1>2. f \in [R -> S] /\ \A i, j \in R : i # j => f[i] # f[j]
  BY SomeOrder DEF SetToSeqs
<1> HIDE DEF f, R
<1>3. f \in Injection(R, S)
  BY <1>2 DEF Injection, IsInjective
<1>4. f \in Surjection(R, S)
  BY <1>1, <1>3, FS_Injection
<1>5. ToSet(f) = S
  BY <1>2, <1>4 DEF ToSet, Surjection
<1>6. Lists(f, S)
  BY <1>2, <1>5 DEF Lists, R
<1>7. QED
  BY <1>6 DEF f

\* What the candidates of a scope are made of: pairs, and pairs of groups.
Differential(scope) == MotifsOf(scope, "differential")
Couples(scope) == MotifsOf(scope, "mirror") \cup Differential(scope)
Makings(scope) ==
  ({"matching"} \X Couples(scope)) \cup ({"symmetry"} \X Differential(scope)) \cup ({"common_centroid"} \X CentroidsOf(scope))
Made(scope, x) ==
  CASE x[1] = "matching" -> Candidate("matching", Ids(scope, x[2]), <<>>, "none")
    [] x[1] = "symmetry" -> Candidate("symmetry", Ids(scope, x[2]), <<>>, "vertical")
    [] OTHER -> Candidate("common_centroid", {}, SetToSeq({GroupIds(g) : g \in x[2]}), "both")

\* The device identities of a circuit are numbers, each the identity of one
\* device.
Told(circ) ==
  \A i, j \in DOMAIN circ : \A m \in DOMAIN circ[i].mosfets, n \in DOMAIN circ[j].mosfets :
    /\ circ[i].mosfets[m].id \in Nat
    /\ circ[i].mosfets[m].id = circ[j].mosfets[n].id => i = j /\ m = n
Scoped(circ) == \A i \in DOMAIN circ : IsSequence(circ[i].mosfets)

\* The candidates of a scope are what is made of its pairs and groups.
LEMMA CandidatesAreMade ==
  ASSUME NEW scope
  PROVE  CandidatesOf(scope) = {Made(scope, x) : x \in Makings(scope)}
<1> DEFINE C == Couples(scope)
           D == Differential(scope)
           G == CentroidsOf(scope)
           matching == [ij \in C |-> Candidate("matching", Ids(scope, ij), <<>>, "none")]
           symmetry == [ij \in D |-> Candidate("symmetry", Ids(scope, ij), <<>>, "vertical")]
           centred == [p \in G |-> Candidate("common_centroid", {}, SetToSeq({GroupIds(g) : g \in p}), "both")]
           k1 == "matching"
           k2 == "symmetry"
           k3 == "common_centroid"
<1>1. CandidatesOf(scope) = {matching[ij] : ij \in C} \cup {symmetry[ij] : ij \in D} \cup {centred[p] : p \in G}
  BY DEF CandidatesOf, Couples, Differential
<1>2. /\ \A ij \in C : Made(scope, <<k1, ij>>) = matching[ij]
      /\ \A ij \in D : Made(scope, <<k2, ij>>) = symmetry[ij]
      /\ \A p \in G : Made(scope, <<k3, p>>) = centred[p]
  BY DEF Made
<1>3. Makings(scope) = {<<k1, ij>> : ij \in C} \cup {<<k2, ij>> : ij \in D} \cup {<<k3, p>> : p \in G}
  BY DEF Makings
<1> HIDE DEF C, D, G, matching, symmetry, centred, k1, k2, k3
<1>4. ASSUME NEW c \in CandidatesOf(scope) PROVE \E x \in Makings(scope) : c = Made(scope, x)
  <2>1. CASE \E ij \in C : c = matching[ij]
    BY <1>2, <1>3, <2>1
  <2>2. CASE \E ij \in D : c = symmetry[ij]
    BY <1>2, <1>3, <2>2
  <2>3. CASE \E p \in G : c = centred[p]
    BY <1>2, <1>3, <2>3
  <2>4. QED
    BY <1>1, <2>1, <2>2, <2>3
<1>5. ASSUME NEW x \in Makings(scope) PROVE Made(scope, x) \in CandidatesOf(scope)
  <2>1. CASE \E ij \in C : x = <<k1, ij>>
    BY <1>1, <1>2, <2>1
  <2>2. CASE \E ij \in D : x = <<k2, ij>>
    BY <1>1, <1>2, <2>2
  <2>3. CASE \E p \in G : x = <<k3, p>>
    BY <1>1, <1>2, <2>3
  <2>4. QED
    BY <1>3, <2>1, <2>2, <2>3
<1>6. QED
  BY <1>4, <1>5

\* The key of a candidate, without lists.
KeyOf(scope, x) ==
  IF x[1] = "common_centroid" THEN <<x[1], "both", {}, {GroupIds(g) : g \in x[2]}, 0>>
  ELSE <<x[1], IF x[1] = "matching" THEN "none" ELSE "vertical", Ids(scope, x[2]), {}, 0>>

\* The identities of a pair or a group are finitely many numbers.
LEMMA PairIds ==
  ASSUME NEW scope, IsSequence(scope.mosfets), \A m \in DOMAIN scope.mosfets : scope.mosfets[m].id \in Nat
  PROVE  /\ \A ij \in Couples(scope) : IsFiniteSet(Ids(scope, ij)) /\ Ids(scope, ij) \in SUBSET Nat
         /\ \A p \in CentroidsOf(scope) : /\ IsFiniteSet(p)
                                          /\ \A g \in p : /\ IsFiniteSet(GroupIds(g)) /\ GroupIds(g) \in SUBSET Nat
                                                          /\ g \in SUBSET ToSet(scope.mosfets)
                                                          /\ g # {}
<1> DEFINE list == scope.mosfets
           M == ToSet(list)
           PG == ParallelGroups(list)
<1>1. IsFiniteSet(M) /\ \A m \in M : m.id \in Nat
  <2>1. Len(list) \in Nat /\ DOMAIN list = 1..Len(list)
    BY DEF IsSequence
  <2>2. IsFiniteSet(DOMAIN list)
    BY <2>1, FS_Interval
  <2> HIDE DEF list
  <2>3. IsFiniteSet(Range(list)) /\ M = Range(list)
    BY <2>2, RangeIsFinite DEF Range, ToSet
  <2>4. \A m \in M : m.id \in Nat
    BY DEF ToSet, list
  <2>5. QED
    BY <2>3, <2>4
<1>2. ASSUME NEW x, NEW y PROVE IsFiniteSet({x, y})
  <2>1. {x, y} = {x} \cup {y}
    OBVIOUS
  <2>2. IsFiniteSet({x}) /\ IsFiniteSet({y})
    BY FS_Singleton
  <2>3. QED
    BY <2>1, <2>2, FS_Union
<1>3. ASSUME NEW ij \in Couples(scope) PROVE IsFiniteSet(Ids(scope, ij)) /\ Ids(scope, ij) \in SUBSET Nat
  <2>1. ij[1] \in DOMAIN list /\ ij[2] \in DOMAIN list
    BY DEF Couples, Differential, MotifsOf, Combinations
  <2>2. QED
    BY <1>2, <2>1 DEF Ids
<1>4. ASSUME NEW p \in CentroidsOf(scope), NEW g \in p
      PROVE  IsFiniteSet(GroupIds(g)) /\ GroupIds(g) \in SUBSET Nat /\ g \in SUBSET M /\ g # {}
  <2> DEFINE id == [m \in g |-> m.id]
  <2>1. g \in PG
    BY DEF CentroidsOf, kSubset
  <2>2. g \in SUBSET M /\ Cardinality(g) >= 2
    BY <2>1 DEF ParallelGroups
  <2>3. g # {}
    BY <2>2, FS_EmptySet
  <2>4. IsFiniteSet(g)
    <3> HIDE DEF M
    <3>1. QED
      BY <1>1, <2>2, FS_Subset
  <2>5. GroupIds(g) \in SUBSET Nat
    BY <1>1, <2>2 DEF GroupIds
  <2>6. DOMAIN id = g /\ GroupIds(g) = Range(id)
    BY DEF GroupIds, Range
  <2> HIDE DEF id
  <2>7. IsFiniteSet(GroupIds(g))
    BY <2>4, <2>6, RangeIsFinite
  <2>8. QED
    BY <2>2, <2>3, <2>5, <2>7
<1>5. ASSUME NEW p \in CentroidsOf(scope) PROVE IsFiniteSet(p)
  <2>1. p \in SUBSET SUBSET M
    BY DEF CentroidsOf, kSubset, ParallelGroups
  <2>2. IsFiniteSet(SUBSET M)
    BY <1>1, FS_SUBSET
  <2> HIDE DEF M
  <2>3. QED
    BY <2>1, <2>2, FS_Subset
<1> HIDE DEF M, PG, list
<1>6. QED
  BY <1>3, <1>4, <1>5 DEF M, list

\* What was made has the key of what it was made of.
LEMMA MadeSaysItsKey ==
  ASSUME NEW scope, IsSequence(scope.mosfets), \A m \in DOMAIN scope.mosfets : scope.mosfets[m].id \in Nat,
         NEW x \in Makings(scope)
  PROVE  SemanticKey(Made(scope, x)) = KeyOf(scope, x)
<1> DEFINE listed(s, kind, axis) == SemanticKey(Candidate(kind, s, <<>>, axis))
<1>1. ASSUME NEW s \in SUBSET Nat, IsFiniteSet(s), NEW kind, NEW axis, kind # "order"
      PROVE  SemanticKey(Candidate(kind, s, <<>>, axis)) = <<kind, axis, s, {}, 0>>
  <2> DEFINE c == Candidate(kind, s, <<>>, axis)
  <2>1. c.kind = kind /\ c.axis = axis /\ c.subjects = Ascending(s) /\ c.value = 0 /\ DOMAIN c.groups = {}
    BY DEF Candidate
  <2>2. ToSet(c.subjects) = s
    BY <1>1, <2>1, AscendingLists DEF Lists
  <2>3. {ToSet(g) : g \in ToSet(c.groups)} = {}
    BY <2>1 DEF ToSet
  <2> HIDE DEF c
  <2>4. SemanticKey(c) = <<kind, axis, s, {}, 0>>
    BY <1>1, <2>1, <2>2, <2>3 DEF SemanticKey
  <2>5. QED
    BY <2>4 DEF c
<1>2. CASE \E ij \in Couples(scope) : x = <<"matching", ij>>
  <2>1. PICK ij \in Couples(scope) : x = <<"matching", ij>>
    BY <1>2
  <2>2. x[1] = "matching" /\ x[2] = ij
    BY <2>1
  <2>3. Made(scope, x) = Candidate("matching", Ids(scope, ij), <<>>, "none")
    BY <2>2 DEF Made
  <2>4. KeyOf(scope, x) = <<"matching", "none", Ids(scope, ij), {}, 0>>
    BY <2>2 DEF KeyOf
  <2>5. IsFiniteSet(Ids(scope, ij)) /\ Ids(scope, ij) \in SUBSET Nat
    BY PairIds
  <2>6. QED
    BY <1>1, <2>3, <2>4, <2>5
<1>3. CASE \E ij \in Differential(scope) : x = <<"symmetry", ij>>
  <2>1. PICK ij \in Differential(scope) : x = <<"symmetry", ij>>
    BY <1>3
  <2>2. x[1] = "symmetry" /\ x[2] = ij
    BY <2>1
  <2>3. Made(scope, x) = Candidate("symmetry", Ids(scope, ij), <<>>, "vertical")
    BY <2>2 DEF Made
  <2>4. KeyOf(scope, x) = <<"symmetry", "vertical", Ids(scope, ij), {}, 0>>
    BY <2>2 DEF KeyOf
  <2>5. IsFiniteSet(Ids(scope, ij)) /\ Ids(scope, ij) \in SUBSET Nat
    BY PairIds DEF Couples
  <2>6. QED
    BY <1>1, <2>3, <2>4, <2>5
<1>4. CASE \E p \in CentroidsOf(scope) : x = <<"common_centroid", p>>
  <2>1. PICK p \in CentroidsOf(scope) : x = <<"common_centroid", p>>
    BY <1>4
  <2>2. x[1] = "common_centroid" /\ x[2] = p
    BY <2>1
  <2> DEFINE S == {GroupIds(g) : g \in p}
             groups == SetToSeq(S)
             c == Candidate("common_centroid", {}, groups, "both")
             lists == [i \in DOMAIN groups |-> Ascending(groups[i])]
             ids == [g \in p |-> GroupIds(g)]
  <2>3. Made(scope, x) = c
    BY <2>2 DEF Made
  <2>4. KeyOf(scope, x) = <<"common_centroid", "both", {}, S, 0>>
    BY <2>2 DEF KeyOf
  <2>5. IsFiniteSet(S) /\ \A s \in S : IsFiniteSet(s) /\ s \in SUBSET Nat
    <3>1. IsFiniteSet(p) /\ \A g \in p : IsFiniteSet(GroupIds(g)) /\ GroupIds(g) \in SUBSET Nat
      BY PairIds
    <3>2. DOMAIN ids = p /\ S = Range(ids)
      BY DEF Range
    <3>3. \A s \in S : IsFiniteSet(s) /\ s \in SUBSET Nat
      BY <3>1
    <3> HIDE DEF ids, S
    <3>4. QED
      BY <3>1, <3>2, <3>3, RangeIsFinite
  <2>6. c.kind = "common_centroid" /\ c.axis = "both" /\ c.subjects = Ascending({}) /\ c.value = 0 /\ c.groups = lists
    BY DEF Candidate
  <2>7. ToSet(c.subjects) = {}
    <3> DEFINE none == {}
    <3>1. none \in SUBSET Nat /\ IsFiniteSet(none)
      BY FS_EmptySet
    <3> HIDE DEF none
    <3>2. ToSet(Ascending(none)) = none
      BY <3>1, AscendingLists DEF Lists
    <3>3. QED
      BY <2>6, <3>2 DEF none
  <2> HIDE DEF c, S
  <2>8. ToSet(groups) = S
    BY <2>5, ListedMembers DEF Lists
  <2> HIDE DEF groups
  <2>9. {ToSet(g) : g \in ToSet(lists)} = S
    <3>1. \A i \in DOMAIN groups : groups[i] \in S /\ ToSet(lists[i]) = groups[i]
      <4>1. ASSUME NEW i \in DOMAIN groups PROVE groups[i] \in S /\ ToSet(lists[i]) = groups[i]
        <5>1. groups[i] \in S
          BY <2>8 DEF ToSet
        <5>2. ToSet(Ascending(groups[i])) = groups[i]
          BY <2>5, <5>1, AscendingLists DEF Lists
        <5>3. QED
          BY <5>1, <5>2
      <4>2. QED
        BY <4>1
    <3>2. DOMAIN lists = DOMAIN groups
      OBVIOUS
    <3>3. \A s \in S : \E i \in DOMAIN groups : groups[i] = s
      BY <2>8 DEF ToSet
    <3>4. ToSet(lists) = {lists[i] : i \in DOMAIN groups}
      BY <3>2 DEF ToSet
    <3> HIDE DEF lists
    <3>5. QED
      BY <3>1, <3>3, <3>4
  <2>10. SemanticKey(c) = <<"common_centroid", "both", {}, S, 0>>
    <3> HIDE DEF lists
    <3>1. QED
      BY <2>6, <2>7, <2>9 DEF SemanticKey
  <2>11. QED
    BY <2>3, <2>4, <2>10
<1>5. QED
  BY <1>2, <1>3, <1>4 DEF Makings

\* A candidate's key tells the scope and what the candidate was made of.
LEMMA PairsAreTold ==
  ASSUME NEW circ, Told(circ), NEW i \in DOMAIN circ, NEW j \in DOMAIN circ,
         NEW x \in Combinations(circ[i].mosfets), NEW y \in Combinations(circ[j].mosfets), Ids(circ[i], x) = Ids(circ[j], y),
         \A k \in DOMAIN circ : IsSequence(circ[k].mosfets)
  PROVE  i = j /\ x = y
<1> DEFINE l == circ[i].mosfets
           r == circ[j].mosfets
<1>1. /\ x[1] \in DOMAIN l /\ x[2] \in DOMAIN l /\ x[1] < x[2] /\ x = <<x[1], x[2]>>
      /\ y[1] \in DOMAIN r /\ y[2] \in DOMAIN r /\ y[1] < y[2] /\ y = <<y[1], y[2]>>
  BY DEF Combinations
<1>2. x[1] \in Nat /\ x[2] \in Nat /\ y[1] \in Nat /\ y[2] \in Nat
  <2>1. DOMAIN l \in SUBSET Nat /\ DOMAIN r \in SUBSET Nat
    BY DEF IsSequence
  <2>2. QED
    BY <1>1, <2>1
<1>3. {l[x[1]].id, l[x[2]].id} = {r[y[1]].id, r[y[2]].id}
  BY DEF Ids
<1>4. \A m \in DOMAIN l, n \in DOMAIN r : l[m].id = r[n].id => i = j /\ m = n
  BY DEF Told
<1> HIDE DEF l, r
<1>5. CASE l[x[1]].id = r[y[1]].id
  <2>1. i = j /\ x[1] = y[1]
    BY <1>1, <1>4, <1>5
  <2>2. l[x[2]].id = r[y[1]].id \/ l[x[2]].id = r[y[2]].id
    BY <1>3
  <2>3. x[2] = y[1] \/ x[2] = y[2]
    BY <1>1, <1>4, <2>2
  <2>4. x[2] = y[2]
    BY <1>1, <1>2, <2>1, <2>3
  <2>5. QED
    BY <1>1, <2>1, <2>4
<1>6. CASE l[x[1]].id = r[y[2]].id
  <2>1. x[1] = y[2]
    BY <1>1, <1>4, <1>6
  <2>2. l[x[2]].id = r[y[1]].id \/ l[x[2]].id = r[y[2]].id
    BY <1>3
  <2>3. x[2] = y[1] \/ x[2] = y[2]
    BY <1>1, <1>4, <2>2
  <2>4. FALSE
    BY <1>1, <1>2, <2>1, <2>3
  <2>5. QED
    BY <2>4
<1>7. QED
  BY <1>3, <1>5, <1>6

LEMMA GroupsAreTold ==
  ASSUME NEW circ, Told(circ), NEW i \in DOMAIN circ, NEW j \in DOMAIN circ,
         NEW g \in SUBSET ToSet(circ[i].mosfets), NEW h \in SUBSET ToSet(circ[j].mosfets),
         g # {}, GroupIds(g) = GroupIds(h)
  PROVE  i = j /\ g = h
<1> DEFINE l == circ[i].mosfets
           r == circ[j].mosfets
<1>1. \A m \in DOMAIN l, n \in DOMAIN r : l[m].id = r[n].id => i = j /\ m = n
  BY DEF Told
<1>2. /\ \A a \in g : \E m \in DOMAIN l : a = l[m]
      /\ \A b \in h : \E n \in DOMAIN r : b = r[n]
  BY DEF ToSet
<1>3. /\ \A a \in g : \E b \in h : a.id = b.id
      /\ \A b \in h : \E a \in g : a.id = b.id
  BY DEF GroupIds
<1>4. ASSUME NEW a \in g, NEW b \in h, a.id = b.id PROVE i = j /\ a = b
  <2>1. PICK m \in DOMAIN l : a = l[m]
    BY <1>2
  <2>2. PICK n \in DOMAIN r : b = r[n]
    BY <1>2
  <2>3. l[m].id = r[n].id
    BY <1>4, <2>1, <2>2
  <2>4. i = j /\ m = n
    BY <1>1, <2>3
  <2>5. l = r
    BY <2>4
  <2> HIDE DEF l, r
  <2>6. QED
    BY <2>1, <2>2, <2>4, <2>5
<1>5. \A a \in g : a \in h
  BY <1>3, <1>4
<1>6. \A b \in h : b \in g
  BY <1>3, <1>4
<1>7. i = j
  BY <1>3, <1>4
<1> HIDE DEF l, r
<1>8. QED
  BY <1>5, <1>6, <1>7

\* So a key has one origin, over all scopes.
LEMMA KeysTellMakings ==
  ASSUME NEW circ, Told(circ), \A k \in DOMAIN circ : IsSequence(circ[k].mosfets),
         NEW i \in DOMAIN circ, NEW j \in DOMAIN circ,
         NEW x \in Makings(circ[i]), NEW y \in Makings(circ[j]), KeyOf(circ[i], x) = KeyOf(circ[j], y)
  PROVE  i = j /\ x = y
<1> DEFINE k3 == "common_centroid"
           Choice(k) == x[1] = k /\ y[1] = k
<1>1. x[1] = y[1]
  <2>1. KeyOf(circ[i], x)[1] = x[1] /\ KeyOf(circ[j], y)[1] = y[1]
    BY DEF KeyOf
  <2>2. QED
    BY <2>1
<1>2. /\ x = <<x[1], x[2]>> /\ y = <<y[1], y[2]>>
      /\ x[1] # k3 => x[2] \in Combinations(circ[i].mosfets)
      /\ y[1] # k3 => y[2] \in Combinations(circ[j].mosfets)
      /\ x[1] = k3 => x[2] \in CentroidsOf(circ[i])
      /\ y[1] = k3 => y[2] \in CentroidsOf(circ[j])
  BY DEF Makings, Couples, Differential, MotifsOf
<1>3. CASE x[1] # k3
  <2>1. KeyOf(circ[i], x)[3] = Ids(circ[i], x[2]) /\ KeyOf(circ[j], y)[3] = Ids(circ[j], y[2])
    BY <1>1, <1>3 DEF KeyOf
  <2>2. Ids(circ[i], x[2]) = Ids(circ[j], y[2])
    BY <2>1
  <2>3. x[2] \in Combinations(circ[i].mosfets) /\ y[2] \in Combinations(circ[j].mosfets)
    BY <1>1, <1>2, <1>3
  <2>4. i = j /\ x[2] = y[2]
    BY <2>2, <2>3, PairsAreTold
  <2>5. QED
    BY <1>1, <1>2, <2>4
<1>4. CASE x[1] = k3
  <2> DEFINE p == x[2]
             q == y[2]
  <2>1. p \in CentroidsOf(circ[i]) /\ q \in CentroidsOf(circ[j])
    BY <1>1, <1>2, <1>4
  <2>2. KeyOf(circ[i], x)[4] = {GroupIds(g) : g \in p} /\ KeyOf(circ[j], y)[4] = {GroupIds(g) : g \in q}
    BY <1>1, <1>4 DEF KeyOf
  <2>3. {GroupIds(g) : g \in p} = {GroupIds(g) : g \in q}
    BY <2>2
  <2> HIDE DEF p, q
  <2>4. /\ \A g \in p : g \in SUBSET ToSet(circ[i].mosfets) /\ g # {}
        /\ \A h \in q : h \in SUBSET ToSet(circ[j].mosfets) /\ h # {}
    <3>1. /\ \A m \in DOMAIN circ[i].mosfets : circ[i].mosfets[m].id \in Nat
          /\ \A m \in DOMAIN circ[j].mosfets : circ[j].mosfets[m].id \in Nat
      BY DEF Told
    <3>2. QED
      BY <2>1, <3>1, PairIds
  <2>5. (\A g \in p : \E h \in q : GroupIds(g) = GroupIds(h)) /\ (\A h \in q : \E g \in p : GroupIds(g) = GroupIds(h))
    BY <2>3
  <2>6. \A g \in p, h \in q : GroupIds(g) = GroupIds(h) => i = j /\ g = h
    BY <2>4, GroupsAreTold
  <2>7. p # {}
    BY <2>1 DEF CentroidsOf
  <2>8. p = q
    BY <2>5, <2>6
  <2>9. i = j
    BY <2>5, <2>6, <2>7
  <2>10. QED
    BY <1>1, <1>2, <2>8, <2>9 DEF p, q
<1>5. QED
  BY <1>3, <1>4

\* Tagging the members of a set and mapping a set one to one add nothing to its
\* size.
LEMMA TaggedCount ==
  ASSUME NEW C, IsFiniteSet(C), NEW k
  PROVE  IsFiniteSet({k} \X C) /\ Cardinality({k} \X C) = Cardinality(C) /\ Cardinality(C) \in Nat
<1>1. IsFiniteSet({k}) /\ Cardinality({k}) = 1
  BY FS_Singleton
<1>2. Cardinality(C) \in Nat
  BY FS_CardinalityType
<1> DEFINE tag == {k}
<1> HIDE DEF tag
<1>3. IsFiniteSet(tag \X C) /\ Cardinality(tag \X C) = Cardinality(tag) * Cardinality(C)
  BY <1>1, FS_Product DEF tag
<1>4. Cardinality(tag \X C) = Cardinality(C)
  BY <1>1, <1>2, <1>3 DEF tag
<1>5. QED
  BY <1>2, <1>3, <1>4 DEF tag

LEMMA InjectiveCount ==
  ASSUME NEW f, IsFiniteSet(DOMAIN f), \A x, y \in DOMAIN f : f[x] = f[y] => x = y
  PROVE  IsFiniteSet(Range(f)) /\ Cardinality(Range(f)) = Cardinality(DOMAIN f)
<1> DEFINE D == DOMAIN f
           T == Range(f)
           g == [x \in D |-> f[x]]
<1>1. g \in [D -> T] /\ (\A y \in T : \E x \in D : g[x] = y) /\ \A x, y \in D : g[x] = g[y] => x = y
  BY DEF Range
<1>2. IsFiniteSet(D)
  OBVIOUS
<1> HIDE DEF g, T, D
<1>3. g \in Surjection(D, T) /\ g \in Injection(D, T)
  BY <1>1 DEF Surjection, Injection, IsInjective
<1>4. QED
  BY <1>2, <1>3, FS_Surjection DEF T, D

\* One scope makes as many candidates as are counted for it.
LEMMA ScopeCounts ==
  ASSUME NEW scope, IsSequence(scope.mosfets)
  PROVE  /\ IsFiniteSet(Makings(scope)) /\ Cardinality(Makings(scope)) = ScopeCount(scope)
         /\ ScopeCount(scope) \in Nat
<1> DEFINE list == scope.mosfets
           M == MotifsOf(scope, "mirror")
           D == Differential(scope)
           G == CentroidsOf(scope)
           k1 == "matching"
           k2 == "symmetry"
           k3 == "common_centroid"
           grid == (DOMAIN list) \X (DOMAIN list)
           all == ToSet(list)
           one == {k1} \X (M \cup D)
           two == {k2} \X D
           three == {k3} \X G
<1>1. IsFiniteSet(DOMAIN list)
  <2>1. Len(list) \in Nat /\ DOMAIN list = 1..Len(list)
    BY DEF IsSequence
  <2>2. QED
    BY <2>1, FS_Interval
<1>2. M \in SUBSET grid /\ D \in SUBSET grid /\ M \cap D = {}
  BY DEF MotifsOf, Differential, Combinations
<1>3. G \in SUBSET SUBSET SUBSET all
  <2>1. G \in SUBSET SUBSET ParallelGroups(list)
    BY DEF CentroidsOf, kSubset
  <2>2. ParallelGroups(list) \in SUBSET SUBSET all
    BY DEF ParallelGroups
  <2> HIDE DEF G, all, list
  <2>3. QED
    BY <2>1, <2>2
<1>4. Makings(scope) = (one \cup two) \cup three
  BY DEF Makings, Couples
<1>5. ScopeCount(scope) = Cardinality(M) + 2 * Cardinality(D) + Cardinality(G)
  BY DEF ScopeCount, Differential
<1>6. one \cap two = {} /\ (one \cup two) \cap three = {}
  OBVIOUS
<1> HIDE DEF M, D, G, k1, k2, k3
<1>7. IsFiniteSet(M) /\ IsFiniteSet(D)
  <2> HIDE DEF list
  <2>1. IsFiniteSet(grid)
    BY <1>1, FS_Product
  <2> HIDE DEF grid
  <2>2. QED
    BY <1>2, <2>1, FS_Subset
<1>8. IsFiniteSet(G)
  <2> HIDE DEF list
  <2>1. all = Range(list)
    BY DEF ToSet, Range
  <2>2. IsFiniteSet(all)
    BY <1>1, <2>1, RangeIsFinite
  <2> HIDE DEF all
  <2>3. IsFiniteSet(SUBSET SUBSET all)
    BY <2>2, FS_SUBSET
  <2> DEFINE big == SUBSET SUBSET all
  <2> HIDE DEF big
  <2>4. IsFiniteSet(big) /\ G \in SUBSET big
    BY <1>3, <2>3 DEF big
  <2>5. QED
    BY <2>4, FS_Subset
<1>9. IsFiniteSet(M \cup D) /\ Cardinality(M \cup D) = Cardinality(M) + Cardinality(D)
  BY <1>2, <1>7, DisjointCount
<1>10. /\ IsFiniteSet(one) /\ Cardinality(one) = Cardinality(M \cup D)
       /\ IsFiniteSet(two) /\ Cardinality(two) = Cardinality(D)
       /\ IsFiniteSet(three) /\ Cardinality(three) = Cardinality(G)
  BY <1>7, <1>8, <1>9, TaggedCount
<1> HIDE DEF one, two, three
<1>11. IsFiniteSet(one \cup two) /\ Cardinality(one \cup two) = Cardinality(one) + Cardinality(two)
  BY <1>6, <1>10, DisjointCount
<1>12. IsFiniteSet(Makings(scope)) /\ Cardinality(Makings(scope)) = Cardinality(one \cup two) + Cardinality(three)
  BY <1>4, <1>6, <1>10, <1>11, DisjointCount
<1>13. Cardinality(M) \in Nat /\ Cardinality(D) \in Nat /\ Cardinality(G) \in Nat
  BY <1>7, <1>8, FS_CardinalityType
<1>14. QED
  BY <1>5, <1>9, <1>10, <1>11, <1>12, <1>13

\* The members of the first n sets, each with the number of its set.
Tagged(sets, n) == {p \in (1..n) \X UNION {sets[k] : k \in 1..n} : p[2] \in sets[p[1]]}

\* A further set adds its own, so their sizes add up.
LEMMA TaggedGrows ==
  ASSUME NEW sets, NEW n \in Nat
  PROVE  /\ Tagged(sets, n + 1) = Tagged(sets, n) \cup ({n + 1} \X sets[n + 1])
         /\ Tagged(sets, n) \cap ({n + 1} \X sets[n + 1]) = {}
<1> DEFINE m == n + 1
<1>1. /\ \A k \in 1..n : k \in 1..m /\ k # m
      /\ \A k \in 1..m : k # m => k \in 1..n
      /\ m \in 1..m
  OBVIOUS
<1> HIDE DEF m
<1>2. ASSUME NEW p \in Tagged(sets, m) PROVE p \in Tagged(sets, n) \cup ({m} \X sets[m])
  <2>1. p = <<p[1], p[2]>> /\ p[1] \in 1..m /\ p[2] \in sets[p[1]]
    BY DEF Tagged
  <2>2. CASE p[1] = m
    BY <2>1, <2>2
  <2>3. CASE p[1] # m
    BY <1>1, <2>1, <2>3 DEF Tagged
  <2>4. QED
    BY <2>2, <2>3
<1>3. ASSUME NEW p \in Tagged(sets, n) PROVE p \in Tagged(sets, m) /\ p \notin {m} \X sets[m]
  <2>1. p = <<p[1], p[2]>> /\ p[1] \in 1..n /\ p[2] \in sets[p[1]]
    BY DEF Tagged
  <2>2. QED
    BY <1>1, <2>1 DEF Tagged
<1>4. ASSUME NEW p \in {m} \X sets[m] PROVE p \in Tagged(sets, m)
  <2>1. p = <<m, p[2]>> /\ p[1] = m /\ p[2] \in sets[m]
    OBVIOUS
  <2>2. QED
    BY <1>1, <2>1 DEF Tagged
<1>5. Tagged(sets, m) = Tagged(sets, n) \cup ({m} \X sets[m])
  BY <1>2, <1>3, <1>4
<1>6. Tagged(sets, n) \cap ({m} \X sets[m]) = {}
  BY <1>3
<1>7. QED
  BY <1>5, <1>6 DEF m

LEMMA TaggedSizes ==
  ASSUME NEW N \in Nat, NEW sets, NEW counts, counts[0] = 0,
         \A n \in 1..N : IsFiniteSet(sets[n]) /\ counts[n] = counts[n - 1] + Cardinality(sets[n])
  PROVE  IsFiniteSet(Tagged(sets, N)) /\ Cardinality(Tagged(sets, N)) = counts[N]
<1> DEFINE T == {n \in Nat : n <= N => IsFiniteSet(Tagged(sets, n)) /\ Cardinality(Tagged(sets, n)) = counts[n]}
<1>1. 0 \in T
  <2>1. Tagged(sets, 0) = {}
    BY DEF Tagged
  <2>2. QED
    BY <2>1, FS_EmptySet
<1>2. ASSUME NEW n \in Nat, n \in T PROVE n + 1 \in T
  <2> DEFINE m == n + 1
             A == Tagged(sets, n)
             B == {m} \X sets[m]
  <2>1. SUFFICES ASSUME m <= N
                 PROVE  IsFiniteSet(Tagged(sets, m)) /\ Cardinality(Tagged(sets, m)) = counts[m]
    OBVIOUS
  <2>2. m \in 1..N /\ m - 1 = n /\ IsFiniteSet(A) /\ Cardinality(A) = counts[n]
    BY <1>2, <2>1
  <2>3. Tagged(sets, m) = A \cup B /\ A \cap B = {}
    BY TaggedGrows
  <2> HIDE DEF m
  <2>4. IsFiniteSet(sets[m]) /\ counts[m] = counts[n] + Cardinality(sets[m])
    BY <2>2
  <2>5. IsFiniteSet(B) /\ Cardinality(B) = Cardinality(sets[m])
    BY <2>4, TaggedCount
  <2> HIDE DEF A, B
  <2>6. IsFiniteSet(A \cup B) /\ Cardinality(A \cup B) = Cardinality(A) + Cardinality(B)
    BY <2>2, <2>3, <2>5, DisjointCount
  <2>7. QED
    BY <2>2, <2>3, <2>4, <2>5, <2>6
<1> HIDE DEF T
<1>3. N \in T
  BY <1>1, <1>2, NaturalInduction
<1>4. N <= N
  OBVIOUS
<1>5. QED
  BY <1>3, <1>4 DEF T

\* The candidates of a circuit: each with the number of its scope and what it is
\* made of.
MakingsOf(circ) == Tagged([i \in DOMAIN circ |-> Makings(circ[i])], Len(circ))

\* Counting scope after scope counts the candidates of all of them.
LEMMA AllScopesCount ==
  ASSUME IsSequence(circuit), \A i \in DOMAIN circuit : IsSequence(circuit[i].mosfets)
  PROVE  /\ IsFiniteSet(MakingsOf(circuit))
         /\ Cardinality(MakingsOf(circuit)) = CandidateCount
<1> DEFINE N == Len(circuit)
           size == [n \in 1..N |-> ScopeCount(circuit[n])]
           step == [n \in 1..N |-> [x \in Nat |-> x + size[n]]]
           Is(f) == f = [n \in 0..N |-> IF n = 0 THEN 0 ELSE f[n - 1] + ScopeCount(circuit[n])]
           counted == CHOOSE f : Is(f)
<1>1. N \in Nat /\ DOMAIN circuit = 1..N
  BY DEF IsSequence
<1>2. \A n \in 1..N : /\ size[n] \in Nat /\ size[n] = ScopeCount(circuit[n])
                      /\ IsFiniteSet(Makings(circuit[n])) /\ Cardinality(Makings(circuit[n])) = size[n]
  BY <1>1, ScopeCounts
<1>3. CandidateCount = counted[N]
  BY Zenon DEF CandidateCount
<1> HIDE DEF size
<1>4. PICK g \in [0..N -> Nat] : Follows(0, N, step, g)
  <2>1. step \in [1..N -> [Nat -> Nat]] /\ 0 \in Nat
    BY <1>2
  <2> HIDE DEF step, N
  <2>2. QED
    BY <1>1, <2>1, RecursionExists
<1>5. Is(g)
  <2> DEFINE h == [n \in 0..N |-> IF n = 0 THEN 0 ELSE g[n - 1] + ScopeCount(circuit[n])]
  <2>1. ASSUME NEW n \in 0..N PROVE g[n] = h[n]
    <3>1. g[n] = IF n = 0 THEN 0 ELSE step[n][g[n - 1]]
      BY <1>4 DEF Follows
    <3>2. CASE n = 0
      BY <3>1, <3>2
    <3>3. CASE n # 0
      <4>1. n \in 1..N /\ n - 1 \in 0..N
        BY <1>1, <3>3
      <4>2. g[n - 1] \in Nat
        BY <4>1
      <4>3. step[n][g[n - 1]] = g[n - 1] + size[n]
        BY <4>1, <4>2
      <4>4. size[n] = ScopeCount(circuit[n])
        BY <1>2, <4>1
      <4>5. h[n] = g[n - 1] + ScopeCount(circuit[n])
        BY <3>3
      <4> HIDE DEF h, step
      <4>6. QED
        BY <3>1, <3>3, <4>3, <4>4, <4>5
    <3>4. QED
      BY <3>2, <3>3
  <2>2. g = [n \in 0..N |-> g[n]] /\ h = [n \in 0..N |-> h[n]]
    OBVIOUS
  <2> HIDE DEF h
  <2>3. g = h
    BY <2>1, <2>2
  <2>4. QED
    BY <2>3 DEF h
<1>6. Is(counted)
  <2> HIDE DEF Is
  <2>1. QED
    BY <1>5
<1> HIDE DEF counted, step
<1>7. counted[0] = 0 /\ \A n \in 1..N : counted[n] = counted[n - 1] + size[n]
  <2>1. \A n \in 0..N : counted[n] = IF n = 0 THEN 0 ELSE counted[n - 1] + ScopeCount(circuit[n])
    BY <1>6
  <2>2. \A n \in 1..N : n \in 0..N /\ n # 0
    BY <1>1
  <2>3. 0 \in 0..N
    BY <1>1
  <2> HIDE DEF N
  <2>4. counted[0] = 0
    BY <2>1, <2>3
  <2>5. ASSUME NEW n \in 1..N PROVE counted[n] = counted[n - 1] + size[n]
    <3>1. counted[n] = counted[n - 1] + ScopeCount(circuit[n])
      BY <2>1, <2>2
    <3>2. QED
      BY <1>2, <3>1
  <2>6. QED
    BY <2>4, <2>5
<1> DEFINE sets == [i \in DOMAIN circuit |-> Makings(circuit[i])]
<1>8. \A n \in 1..N : IsFiniteSet(sets[n]) /\ counted[n] = counted[n - 1] + Cardinality(sets[n])
  BY <1>1, <1>2, <1>7
<1> HIDE DEF sets
<1>9. IsFiniteSet(Tagged(sets, N)) /\ Cardinality(Tagged(sets, N)) = counted[N]
  BY <1>1, <1>7, <1>8, TaggedSizes
<1>10. QED
  BY <1>3, <1>9 DEF MakingsOf, sets

\* What is inferred is as many candidates as were counted, each with a key of
\* its own.
AllMade(circ) == UNION {CandidatesOf(circ[i]) : i \in DOMAIN circ}

LEMMA CandidatesCounted ==
  ASSUME IsSequence(circuit), \A i \in DOMAIN circuit : IsSequence(circuit[i].mosfets), Told(circuit)
  PROVE  LET made == AllMade(circuit)
         IN Cardinality(made) = CandidateCount /\ Cardinality({SemanticKey(c) : c \in made}) = CandidateCount
<1> DEFINE all == MakingsOf(circuit)
           made == AllMade(circuit)
           make == [p \in all |-> Made(circuit[p[1]], p[2])]
           key == [p \in all |-> KeyOf(circuit[p[1]], p[2])]
<1>1. IsFiniteSet(all) /\ Cardinality(all) = CandidateCount
  BY AllScopesCount
<1>2. DOMAIN circuit = 1..Len(circuit)
  BY DEF IsSequence
<1>3. \A p \in all : p = <<p[1], p[2]>> /\ p[1] \in DOMAIN circuit /\ p[2] \in Makings(circuit[p[1]])
  BY <1>2 DEF MakingsOf, Tagged
<1>4. \A i \in DOMAIN circuit : \A x \in Makings(circuit[i]) : <<i, x>> \in all
  BY <1>2 DEF MakingsOf, Tagged
<1>5. ASSUME NEW p \in all PROVE SemanticKey(make[p]) = key[p]
  <2> DEFINE scope == circuit[p[1]]
             x == p[2]
  <2>1. p[1] \in DOMAIN circuit /\ x \in Makings(scope)
    BY <1>3
  <2>2. IsSequence(scope.mosfets) /\ \A m \in DOMAIN scope.mosfets : scope.mosfets[m].id \in Nat
    BY <2>1 DEF Told
  <2>3. make[p] = Made(scope, x) /\ key[p] = KeyOf(scope, x)
    OBVIOUS
  <2> HIDE DEF scope, x, make, key, all
  <2>4. QED
    BY <2>1, <2>2, <2>3, MadeSaysItsKey
<1>6. ASSUME NEW p \in all, NEW q \in all, key[p] = key[q] PROVE p = q
  <2>1. /\ p = <<p[1], p[2]>> /\ p[1] \in DOMAIN circuit /\ p[2] \in Makings(circuit[p[1]])
        /\ q = <<q[1], q[2]>> /\ q[1] \in DOMAIN circuit /\ q[2] \in Makings(circuit[q[1]])
    BY <1>3
  <2>2. KeyOf(circuit[p[1]], p[2]) = KeyOf(circuit[q[1]], q[2])
    BY <1>6
  <2>3. p[1] = q[1] /\ p[2] = q[2]
    BY <2>1, <2>2, KeysTellMakings
  <2>4. QED
    BY <2>1, <2>3
<1>7. made = Range(make)
  <2>1. ASSUME NEW c \in made PROVE c \in Range(make)
    <3>1. PICK i \in DOMAIN circuit : c \in CandidatesOf(circuit[i])
      BY DEF AllMade
    <3>2. PICK x \in Makings(circuit[i]) : c = Made(circuit[i], x)
      BY <3>1, CandidatesAreMade
    <3>3. <<i, x>> \in all /\ make[<<i, x>>] = c
      BY <1>4, <3>2
    <3>4. QED
      BY <3>3 DEF Range
  <2>2. ASSUME NEW c \in Range(make) PROVE c \in made
    <3>1. PICK p \in all : c = make[p]
      BY DEF Range
    <3>2. c = Made(circuit[p[1]], p[2]) /\ p[1] \in DOMAIN circuit /\ p[2] \in Makings(circuit[p[1]])
      BY <1>3, <3>1
    <3>3. c \in CandidatesOf(circuit[p[1]])
      BY <3>2, CandidatesAreMade
    <3>4. QED
      BY <3>2, <3>3 DEF AllMade
  <2>3. QED
    BY <2>1, <2>2
<1>8. DOMAIN make = all /\ DOMAIN key = all
  OBVIOUS
<1> HIDE DEF all, make, key, made
<1>9. {SemanticKey(c) : c \in made} = Range(key)
  <2>1. Range(make) = {make[p] : p \in all} /\ Range(key) = {key[p] : p \in all}
    BY <1>8 DEF Range
  <2>2. QED
    BY <1>5, <1>7, <2>1
<1>10. Cardinality(Range(make)) = CandidateCount
  <2>1. \A p, q \in DOMAIN make : make[p] = make[q] => p = q
    BY <1>5, <1>6, <1>8
  <2>2. QED
    BY <1>1, <1>8, <2>1, InjectiveCount
<1>11. Cardinality(Range(key)) = CandidateCount
  <2>1. \A p, q \in DOMAIN key : key[p] = key[q] => p = q
    BY <1>6, <1>8
  <2>2. QED
    BY <1>1, <1>8, <2>1, InjectiveCount
<1>12. QED
  BY <1>7, <1>9, <1>10, <1>11 DEF made

(***************************************************************************)
(* Declaring what was inferred: shapes, references and contradictions.     *)
(***************************************************************************)
\* The concatenation of no lists and of two.
LEMMA FlattenNone == FlattenSeq(<<>>) = <<>>
<1>1. Len(<<>>) = 0
  OBVIOUS
<1>2. QED
  BY <1>1, Zenon DEF FlattenSeq

LEMMA FlattenTwo ==
  ASSUME NEW lists, Len(lists) = 2
  PROVE  FlattenSeq(lists) = lists[1] \o lists[2]
<1> DEFINE N == Len(lists)
           Is(f) == f = [i \in 1..N |-> IF i = 1 THEN lists[i] ELSE f[i - 1] \o lists[i]]
           flat == CHOOSE f : Is(f)
           first == lists[1]
           both == lists[1] \o lists[2]
           f0 == [i \in 1..N |-> IF i = 1 THEN first ELSE both]
<1>1. FlattenSeq(lists) = IF N = 0 THEN lists ELSE flat[N]
  BY Zenon DEF FlattenSeq
<1>2. Is(f0)
  <2> DEFINE h == [i \in 1..N |-> IF i = 1 THEN lists[i] ELSE f0[i - 1] \o lists[i]]
  <2>1. ASSUME NEW i \in 1..N PROVE f0[i] = h[i]
    <3>1. i = 1 \/ i = 2
      OBVIOUS
    <3>2. CASE i = 1
      BY <3>2
    <3>3. CASE i = 2
      <4>1. i \in 1..N /\ i # 1 /\ i - 1 = 1 /\ 1 \in 1..N
        BY <3>3
      <4>2. f0[1] = first /\ f0[i] = both
        BY <4>1
      <4>3. h[i] = f0[i - 1] \o lists[i]
        BY <4>1
      <4> HIDE DEF h, f0
      <4>4. h[i] = first \o lists[2]
        BY <3>3, <4>1, <4>2, <4>3
      <4>5. QED
        BY <4>2, <4>4
    <3>4. QED
      BY <3>1, <3>2, <3>3
  <2>2. f0 = [i \in 1..N |-> f0[i]] /\ h = [i \in 1..N |-> h[i]]
    OBVIOUS
  <2> HIDE DEF f0, h
  <2>3. f0 = h
    BY <2>1, <2>2
  <2>4. QED
    BY <2>3 DEF h
<1>3. Is(flat)
  <2> HIDE DEF Is
  <2>1. QED
    BY <1>2
<1> HIDE DEF flat
<1>4. \A i \in 1..N : flat[i] = IF i = 1 THEN lists[i] ELSE flat[i - 1] \o lists[i]
  BY <1>3
<1>5. flat[1] = lists[1]
  BY <1>4
<1>6. flat[2] = flat[1] \o lists[2]
  <2> DEFINE k == 2
  <2>1. k \in 1..N /\ k # 1 /\ k - 1 = 1
    OBVIOUS
  <2> HIDE DEF k
  <2>2. flat[k] = flat[k - 1] \o lists[k]
    BY <1>4, <2>1
  <2>3. flat[k] = flat[1] \o lists[k]
    BY <2>1, <2>2
  <2>4. QED
    BY <2>3 DEF k
<1>7. QED
  BY <1>1, <1>5, <1>6

\* Devices of one scope, listed, are subjects of anything but a net priority.
LEMMA SubjectsPass ==
  ASSUME NEW kind, kind # "net_priority", NEW S, IsFiniteSet(S), S \subseteq Placeable, Cardinality(S) >= Minimum(kind),
         \A x, y \in S : PlacementScope[x] = PlacementScope[y],
         NEW s, Lists(s, S)
  PROVE  SubjectsFailure(kind, s) = Passed
<1> DEFINE owners == {PlacementScope[x] : x \in ToSet(s) \cap Placeable}
           c1 == Len(s) < Minimum(kind)
           c2 == ~IsInjective(s)
           c3 == ~(ToSet(s) \subseteq Allowed(kind))
           c4 == kind # "net_priority" /\ Cardinality(owners) > 1
           checks == << <<c1, "short">>, <<c2, "repeated">>, <<c3, "unknown">>, <<c4, "scopes">> >>
<1>1. SubjectsFailure(kind, s) = FirstFailure(checks)
  BY Zenon DEF SubjectsFailure
<1>2. Len(s) = Cardinality(S) /\ Cardinality(S) \in Nat /\ IsInjective(s) /\ ToSet(s) = S
  BY ListFacts
<1>3. Minimum(kind) \in Nat
  BY DEF Minimum
<1>4. ~c1 /\ ~c2 /\ ~c3
  BY <1>2, <1>3 DEF Allowed
<1>5. ~c4
  <2>1. owners = {} \/ \E v : owners = {v}
    BY <1>2
  <2> HIDE DEF owners
  <2>2. Cardinality(owners) = 0 \/ Cardinality(owners) = 1
    BY <2>1, FS_EmptySet, FS_Singleton
  <2>3. QED
    BY <2>2
<1> HIDE DEF c1, c2, c3, c4
<1>6. Reasons(checks, 4) /\ NoneTrue(checks, 4)
  <2>1. \A i \in 1..4 : i = 1 \/ i = 2 \/ i = 3 \/ i = 4
    OBVIOUS
  <2>2. /\ Len(checks) = 4 /\ checks[1][2] = "short" /\ checks[2][2] = "repeated" /\ checks[3][2] = "unknown"
        /\ checks[4][2] = "scopes" /\ checks[1][1] = c1 /\ checks[2][1] = c2 /\ checks[3][1] = c3 /\ checks[4][1] = c4
    OBVIOUS
  <2> HIDE DEF checks
  <2>3. Reasons(checks, 4)
    BY <2>1, <2>2 DEF Reasons, Passed
  <2>4. NoneTrue(checks, 4)
    BY <1>4, <1>5, <2>1, <2>2, Zenon DEF NoneTrue
  <2>5. QED
    BY <2>3, <2>4
<1> HIDE DEF checks
<1>7. QED
  BY <1>1, <1>6, ChecksPass

\* What ShapeFailure asks of the kinds that are inferred is enough to pass it.
LEMMA ShapePasses ==
  ASSUME NEW c, c.kind \in {"matching", "symmetry", "common_centroid"}, c.axis \in AxesOf[c.kind], c.value = 0,
         c.kind # "common_centroid" => SubjectsFailure(c.kind, c.subjects) = Passed,
         c.kind = "common_centroid" =>
           /\ Len(c.groups) = 2 /\ \A g \in ToSet(c.groups) : SubjectsFailure(c.kind, g) = Passed
           /\ \A g, h \in ToSet(c.groups) : Len(g) = Len(h)
           /\ SubjectsFailure(c.kind, FlattenSeq(c.groups)) = Passed
  PROVE  ShapeFailure(c) = Passed
<1> DEFINE c1 == c.kind # "common_centroid" /\ SubjectsFailure(c.kind, c.subjects) # Passed
           c2 == c.kind = "common_centroid" /\ Len(c.groups) # 2
           c3 == c.kind = "common_centroid" /\ \E g \in ToSet(c.groups) : SubjectsFailure(c.kind, g) # Passed
           c4 == c.kind = "common_centroid" /\ \E g, h \in ToSet(c.groups) : Len(g) # Len(h)
           c5 == c.kind = "common_centroid" /\ SubjectsFailure(c.kind, FlattenSeq(c.groups)) # Passed
           c6 == c.axis \notin AxesOf[c.kind]
           c7 == c.kind \in {"matching", "keepout", "net_priority"} /\ c.value < 0
           c8 == c.kind = "net_priority" /\ c.value > 100
           checks == << <<c1, "subjects">>, <<c2, "groups">>, <<c3, "subjects">>, <<c4, "sizes">>,
                        <<c5, "overlap">>, <<c6, "axis">>, <<c7, "value">>, <<c8, "value">> >>
<1>1. ShapeFailure(c) = IF c.kind \notin DOMAIN AxesOf THEN "kind" ELSE FirstFailure(checks)
  BY Zenon DEF ShapeFailure
<1>2. c.kind \in DOMAIN AxesOf
  BY DEF AxesOf
<1>3. ~c1 /\ ~c2 /\ ~c3 /\ ~c4 /\ ~c5 /\ ~c6
  BY Zenon
<1>4. ~c7 /\ ~c8
  OBVIOUS
<1> HIDE DEF c1, c2, c3, c4, c5, c6, c7, c8
<1>5. Reasons(checks, 8) /\ NoneTrue(checks, 8)
  <2>1. \A i \in 1..8 : i = 1 \/ i = 2 \/ i = 3 \/ i = 4 \/ i = 5 \/ i = 6 \/ i = 7 \/ i = 8
    OBVIOUS
  <2>2. /\ Len(checks) = 8 /\ checks[1][2] = "subjects" /\ checks[2][2] = "groups" /\ checks[3][2] = "subjects"
        /\ checks[4][2] = "sizes" /\ checks[5][2] = "overlap" /\ checks[6][2] = "axis" /\ checks[7][2] = "value"
        /\ checks[8][2] = "value"
    OBVIOUS
  <2>3. /\ checks[1][1] = c1 /\ checks[2][1] = c2 /\ checks[3][1] = c3 /\ checks[4][1] = c4 /\ checks[5][1] = c5
        /\ checks[6][1] = c6 /\ checks[7][1] = c7 /\ checks[8][1] = c8
    OBVIOUS
  <2> HIDE DEF checks
  <2>4. Reasons(checks, 8)
    BY <2>1, <2>2 DEF Reasons, Passed
  <2>5. NoneTrue(checks, 8)
    BY <1>3, <1>4, <2>1, <2>3, Zenon DEF NoneTrue
  <2>6. QED
    BY <2>4, <2>5
<1> HIDE DEF checks
<1>6. QED
  BY <1>1, <1>2, <1>5, ChecksPass

\* A constraint that names placeable objects, each once, in a shape that passes.
Named(c) == ToSet(c.subjects) \cup UNION {ToSet(g) : g \in ToSet(c.groups)}
Fits(c) ==
  /\ ShapeFailure(c) = Passed
  /\ IsFiniteSet(Named(c)) /\ Mentions(c) = Cardinality(Named(c))

\* A set of devices of one scope.
Together(S) ==
  /\ IsFiniteSet(S) /\ S \subseteq Placeable
  /\ \A x, y \in S : PlacementScope[x] = PlacementScope[y]

LEMMA CoupleFits ==
  ASSUME NEW S, Together(S), Cardinality(S) = 2, NEW kind, NEW axis,
         (kind = "matching" /\ axis = "none") \/ (kind = "symmetry" /\ axis = "vertical")
  PROVE  Fits(Candidate(kind, S, <<>>, axis)) /\ Named(Candidate(kind, S, <<>>, axis)) = S
<1> DEFINE c == Candidate(kind, S, <<>>, axis)
           s == Ascending(S)
           none == <<>>
<1>1. c.kind = kind /\ c.axis = axis /\ c.value = 0 /\ c.subjects = s
  BY DEF Candidate
<1>2. c.groups = none
  <2>1. c.groups = [i \in DOMAIN none |-> Ascending(none[i])]
    BY DEF Candidate
  <2>2. DOMAIN none = {}
    OBVIOUS
  <2>3. [i \in DOMAIN none |-> Ascending(none[i])] = [i \in DOMAIN none |-> none[i]]
    BY <2>2
  <2>4. QED
    BY <2>1, <2>3
<1>3. Lists(s, S) /\ IsFiniteSet(S) /\ S \subseteq Placeable
  BY PlacementAssumption, AscendingLists DEF Together
<1>4. Len(s) = 2 /\ ToSet(s) = S
  BY <1>3, ListFacts
<1>5. SubjectsFailure(kind, s) = Passed
  <2>1. kind # "net_priority" /\ Minimum(kind) = 2
    BY DEF Minimum
  <2> HIDE DEF s
  <2>2. QED
    BY <1>3, <2>1, SubjectsPass DEF Together
<1>6. FlattenSeq(none) = none /\ Len(none) = 0 /\ ToSet(none) = {}
  BY FlattenNone DEF ToSet
<1>7. axis \in AxesOf[kind] /\ kind # "common_centroid" /\ kind \in {"matching", "symmetry", "common_centroid"}
  BY DEF AxesOf
<1> HIDE DEF c, s, none
<1>8. ShapeFailure(c) = Passed
  BY <1>1, <1>5, <1>7, ShapePasses
<1>9. Mentions(c) = 2
  BY <1>1, <1>2, <1>4, <1>6 DEF Mentions
<1>10. Named(c) = S
  BY <1>1, <1>2, <1>4, <1>6 DEF Named
<1>11. Fits(c) /\ Named(c) = S
  BY <1>3, <1>8, <1>9, <1>10 DEF Fits
<1>12. QED
  BY <1>11 DEF c, none

\* A list of two things.
LEMMA TwoListed ==
  ASSUME NEW P, IsFiniteSet(P), Cardinality(P) = 2, NEW s, Lists(s, P)
  PROVE  s[1] \in P /\ s[2] \in P /\ s[1] # s[2] /\ Len(s) = 2 /\ DOMAIN s = 1..2
<1>1. Len(s) = 2 /\ DOMAIN s = 1..2 /\ s \in Seq(P) /\ IsInjective(s)
  BY ListFacts
<1>2. 1 \in DOMAIN s /\ 2 \in DOMAIN s /\ 1 # 2
  BY <1>1
<1>3. /\ \A i \in DOMAIN s : s[i] \in P
      /\ \A i, j \in DOMAIN s : s[i] = s[j] => i = j
  BY DEF Lists
<1>4. QED
  BY <1>1, <1>2, <1>3

LEMMA CentroidFits ==
  ASSUME NEW A, NEW B, Together(A \cup B), A \cap B = {}, A # {}, Cardinality(A) = Cardinality(B)
  PROVE  LET c == Candidate("common_centroid", {}, SetToSeq({A, B}), "both")
         IN  Fits(c) /\ Named(c) = A \cup B
<1> DEFINE P == {A, B}
           groups == SetToSeq(P)
           lists == [i \in DOMAIN groups |-> Ascending(groups[i])]
           none == {}
           kind == "common_centroid"
           c == Candidate(kind, none, groups, "both")
           X == groups[1]
           Y == groups[2]
           k == Cardinality(A)
<1>1. IsFiniteSet(A) /\ IsFiniteSet(B) /\ A # B /\ k \in Nat /\ k # 0
  <2>1. IsFiniteSet(A \cup B)
    BY DEF Together
  <2>2. IsFiniteSet(A) /\ IsFiniteSet(B)
    BY <2>1, FS_Subset
  <2>3. k \in Nat /\ k # 0
    BY <2>2, FS_CardinalityType, FS_EmptySet
  <2>4. QED
    BY <2>2, <2>3
<1>2. IsFiniteSet(P) /\ Cardinality(P) = 2
  <2>1. P = {A} \cup {B} /\ {A} \cap {B} = {}
    BY <1>1
  <2>2. IsFiniteSet({A}) /\ IsFiniteSet({B}) /\ Cardinality({A}) = 1 /\ Cardinality({B}) = 1
    BY FS_Singleton
  <2> DEFINE a == {A}
             b == {B}
  <2> HIDE DEF a, b, P
  <2>3. IsFiniteSet(a \cup b) /\ Cardinality(a \cup b) = Cardinality(a) + Cardinality(b)
    BY <2>1, <2>2, DisjointCount DEF a, b
  <2>4. QED
    BY <2>1, <2>2, <2>3 DEF a, b
<1> HIDE DEF k
<1>3. ASSUME NEW Z \in P
      PROVE  /\ IsFiniteSet(Z) /\ Z \subseteq Placeable /\ Cardinality(Z) = k /\ Together(Z)
             /\ Lists(Ascending(Z), Z)
  <2>1. IsFiniteSet(Z) /\ Z \subseteq Placeable /\ Cardinality(Z) = k /\ Together(Z)
    BY <1>1 DEF Together, k
  <2>2. QED
    BY <2>1, PlacementAssumption, AscendingLists
<1>4. Lists(groups, P)
  BY <1>2, ListedMembers
<1>5. X \in P /\ Y \in P /\ X # Y /\ Len(groups) = 2 /\ DOMAIN groups = 1..2
  <2> HIDE DEF groups, P
  <2>1. QED
    BY <1>2, <1>4, TwoListed
<1>6. X \cap Y = {} /\ X \cup Y = A \cup B
  BY <1>5
<1> HIDE DEF P
<1>7. /\ Lists(Ascending(X), X) /\ Lists(Ascending(Y), Y) /\ IsFiniteSet(X) /\ IsFiniteSet(Y)
      /\ Len(Ascending(X)) = k /\ Len(Ascending(Y)) = k /\ ToSet(Ascending(X)) = X /\ ToSet(Ascending(Y)) = Y
  BY <1>3, <1>5, ListFacts
<1>8. lists[1] = Ascending(X) /\ lists[2] = Ascending(Y) /\ Len(lists) = 2 /\ DOMAIN lists = 1..2
  BY <1>5
<1>9. c.kind = kind /\ c.axis = "both" /\ c.value = 0 /\ c.subjects = Ascending(none) /\ c.groups = lists
  BY DEF Candidate
<1>10. ToSet(Ascending(none)) = {} /\ Len(Ascending(none)) = 0
  <2>1. IsFiniteSet(none) /\ none \in SUBSET Nat /\ Cardinality(none) = 0
    BY FS_EmptySet
  <2> HIDE DEF none
  <2>2. ToSet(Ascending(none)) = none /\ Len(Ascending(none)) = 0
    BY <2>1, AscendingLists, ListFacts
  <2>3. QED
    BY <2>2 DEF none
<1> HIDE DEF X, Y, groups
<1>11. ToSet(lists) = {Ascending(X), Ascending(Y)}
  <2>1. \A i \in 1..2 : i = 1 \/ i = 2
    OBVIOUS
  <2>2. 1 \in 1..2 /\ 2 \in 1..2
    OBVIOUS
  <2> HIDE DEF lists
  <2>3. QED
    BY <1>8, <2>1, <2>2 DEF ToSet
<1> HIDE DEF lists, c, none
<1> DEFINE flat == FlattenSeq(c.groups)
<1>12. flat = Ascending(X) \o Ascending(Y)
  BY <1>8, <1>9, FlattenTwo
<1> HIDE DEF flat
<1>13. Lists(flat, A \cup B)
  BY <1>6, <1>7, <1>12, JoinedLists
<1>14. kind # "net_priority" /\ Minimum(kind) = 1 /\ "both" \in AxesOf[kind]
  BY DEF Minimum, AxesOf
<1>15. \A g \in ToSet(c.groups) : SubjectsFailure(kind, g) = Passed
  <2>1. ASSUME NEW Z \in P PROVE SubjectsFailure(kind, Ascending(Z)) = Passed
    <3>1. Cardinality(Z) >= Minimum(kind)
      BY <1>1, <1>3, <1>14
    <3> HIDE DEF kind
    <3>2. QED
      BY <1>3, <1>14, <3>1, SubjectsPass DEF Together
  <2>2. QED
    BY <1>5, <1>9, <1>11, <2>1
<1>16. SubjectsFailure(kind, flat) = Passed
  <2> DEFINE S == A \cup B
  <2>1. IsFiniteSet(S) /\ A \in SUBSET S /\ Together(S)
    BY DEF Together
  <2>2. Lists(flat, S)
    BY <1>13
  <2> HIDE DEF S, kind
  <2>3. Cardinality(S) \in Nat /\ k <= Cardinality(S)
    BY <2>1, FS_CardinalityType, FS_Subset DEF k
  <2>4. Cardinality(S) >= Minimum(kind)
    BY <1>1, <1>14, <2>3
  <2>5. QED
    BY <1>14, <2>1, <2>2, <2>4, SubjectsPass DEF Together
<1>17. \A g, h \in ToSet(c.groups) : Len(g) = Len(h)
  BY <1>7, <1>9, <1>11
<1>18. ShapeFailure(c) = Passed
  BY <1>8, <1>9, <1>14, <1>15, <1>16, <1>17, ShapePasses DEF flat
<1>19. Named(c) = A \cup B
  BY <1>6, <1>7, <1>9, <1>10, <1>11 DEF Named
<1>20. Mentions(c) = Cardinality(A \cup B)
  <2> DEFINE S == A \cup B
             n == Cardinality(S)
  <2>1. IsFiniteSet(S) /\ Lists(flat, S)
    BY <1>13 DEF Together
  <2> HIDE DEF S
  <2>2. Len(flat) = n /\ n \in Nat
    BY <2>1, ListFacts
  <2>3. Mentions(c) = Len(Ascending(none)) + Len(flat)
    BY <1>9 DEF Mentions, flat
  <2> HIDE DEF n
  <2>4. Mentions(c) = n
    BY <1>10, <2>2, <2>3
  <2>5. QED
    BY <2>4 DEF n, S
<1>21. Fits(c) /\ Named(c) = A \cup B
  BY <1>18, <1>19, <1>20 DEF Fits, Together
<1>22. QED
  BY <1>21 DEF c, none, groups, P

\* The devices of one scope: records, placeable in one scope, each with an
\* identity of its own.
OfScope(scope) ==
  /\ IsSequence(scope.mosfets)
  /\ \A m \in DOMAIN scope.mosfets : IsMosfet(scope.mosfets[m]) /\ scope.mosfets[m].id \in Placeable
  /\ \A m, n \in DOMAIN scope.mosfets :
       /\ scope.mosfets[m].id = scope.mosfets[n].id => m = n
       /\ PlacementScope[scope.mosfets[m].id] = PlacementScope[scope.mosfets[n].id]

\* Two devices that differ in nothing but their identity.
Same(a, b) == a.make = b.make /\ a.s = b.s /\ a.b = b.b /\ a.g = b.g /\ a.d = b.d

LEMMA AlikeMeansSame ==
  ASSUME NEW a, IsMosfet(a), NEW b, IsMosfet(b)
  PROVE  Alike(a, b) <=> Same(a, b)
<1> DEFINE plain(m) == [id |-> 0, make |-> m.make, s |-> m.s, b |-> m.b, g |-> m.g, d |-> m.d]
<1>1. ASSUME NEW m, IsMosfet(m) PROVE [m EXCEPT !.id = 0] = plain(m)
  <2> DEFINE r == [id |-> m.id, make |-> m.make, s |-> m.s, b |-> m.b, g |-> m.g, d |-> m.d]
  <2>1. m = r
    BY <1>1 DEF IsMosfet
  <2>2. [r EXCEPT !.id = 0] = plain(m)
    OBVIOUS
  <2> HIDE DEF r
  <2>3. QED
    BY <2>1, <2>2
<1>2. [a EXCEPT !.id = 0] = plain(a) /\ [b EXCEPT !.id = 0] = plain(b)
  BY <1>1
<1>3. plain(a) = plain(b) <=> Same(a, b)
  <2>1. ASSUME plain(a) = plain(b) PROVE Same(a, b)
    <3>1. /\ plain(a).make = plain(b).make /\ plain(a).s = plain(b).s /\ plain(a).b = plain(b).b
          /\ plain(a).g = plain(b).g /\ plain(a).d = plain(b).d
      BY <2>1
    <3>2. QED
      BY <3>1 DEF Same
  <2>2. ASSUME Same(a, b) PROVE plain(a) = plain(b)
    BY <2>2 DEF Same
  <2>3. QED
    BY <2>1, <2>2
<1> HIDE DEF plain
<1>4. QED
  BY <1>2, <1>3 DEF Alike

\* The devices of a scope that are like its device m.
Class(scope, m) == {d \in ToSet(scope.mosfets) : Same(d, scope.mosfets[m])}

\* A group of parallel devices is the class of each of its members.
LEMMA GroupIsClass ==
  ASSUME NEW scope, OfScope(scope), NEW g \in ParallelGroups(scope.mosfets)
  PROVE  /\ g \in SUBSET ToSet(scope.mosfets) /\ g # {} /\ IsFiniteSet(g)
         /\ \A m \in DOMAIN scope.mosfets : scope.mosfets[m] \in g => g = Class(scope, m)
         /\ \A a, b \in g : Same(a, b)
<1> DEFINE list == scope.mosfets
           M == ToSet(list)
<1>1. PICK n \in M : g = {d \in M : Alike(d, n)}
  BY DEF ParallelGroups
<1>2. \A d \in M : IsMosfet(d)
  BY DEF OfScope, ToSet
<1>3. g = {d \in M : Same(d, n)}
  BY <1>1, <1>2, AlikeMeansSame
<1>4. n \in g
  BY <1>3 DEF Same
<1>5. \A a, b \in g : Same(a, b)
  BY <1>3 DEF Same
<1>6. ASSUME NEW m \in DOMAIN list, list[m] \in g PROVE g = Class(scope, m)
  <2>1. Same(list[m], n)
    BY <1>3, <1>6
  <2>2. \A d : Same(d, n) <=> Same(d, list[m])
    BY <2>1 DEF Same
  <2>3. QED
    BY <1>3, <2>2 DEF Class
<1>7. IsFiniteSet(g)
  <2>1. IsFiniteSet(DOMAIN list)
    <3>1. Len(list) \in Nat /\ DOMAIN list = 1..Len(list)
      BY DEF OfScope, IsSequence
    <3>2. QED
      BY <3>1, FS_Interval
  <2>2. M = Range(list)
    BY DEF Range, ToSet
  <2> HIDE DEF list
  <2>3. IsFiniteSet(M)
    BY <2>1, <2>2, RangeIsFinite
  <2> HIDE DEF M
  <2>4. g \in SUBSET M
    BY <1>1
  <2>5. QED
    BY <2>3, <2>4, FS_Subset
<1>8. QED
  BY <1>1, <1>4, <1>5, <1>6, <1>7

\* A set of two is the set of any two of its members.
LEMMA TwoMembers ==
  ASSUME NEW p, Cardinality(p) = 2, IsFiniteSet(p), NEW l \in p, NEW r \in p, l # r
  PROVE  p = {l, r}
<1> DEFINE a == {l}
           b == {r}
<1>1. IsFiniteSet(a) /\ Cardinality(a) = 1 /\ IsFiniteSet(b) /\ Cardinality(b) = 1 /\ a \cap b = {}
  BY FS_Singleton
<1>2. a \cup b \in SUBSET p
  OBVIOUS
<1>3. {l, r} = a \cup b
  OBVIOUS
<1> HIDE DEF a, b
<1>4. Cardinality(a \cup b) = 2
  BY <1>1, DisjointCount
<1>5. a \cup b = p
  BY <1>2, <1>4, FS_Subset
<1>6. QED
  BY <1>3, <1>5

\* A common centroid is of two groups, and every device of one makes a
\* differential pair with every device of the other.
Counterparts(scope, a, b) ==
  Comparable(a, b) /\ a.g # b.g /\ a.d # b.d /\ a.g \in scope.ports /\ b.g \in scope.ports

LEMMA CentroidIsPairs ==
  ASSUME NEW scope, OfScope(scope), NEW p \in CentroidsOf(scope)
  PROVE  \E g, h \in ParallelGroups(scope.mosfets) :
           /\ p = {g, h} /\ g # h /\ g \cap h = {} /\ Cardinality(g) = Cardinality(h)
           /\ \A a \in g, b \in h : Counterparts(scope, a, b) /\ Counterparts(scope, b, a)
<1> DEFINE PG == ParallelGroups(scope.mosfets)
<1>1. p \in SUBSET PG /\ Cardinality(p) = 2
  BY DEF CentroidsOf, kSubset
<1>2. PICK g \in p, h \in p : g # h /\ Centroid(g, h, scope.ports)
  BY DEF CentroidsOf
<1>3. IsFiniteSet(p)
  <2>1. \A m \in DOMAIN scope.mosfets : scope.mosfets[m].id \in Nat
    BY PlacementAssumption DEF OfScope
  <2>2. QED
    BY <2>1, PairIds DEF OfScope
<1>4. p = {g, h}
  BY <1>1, <1>2, <1>3, TwoMembers
<1> DEFINE l == CHOOSE m \in g : TRUE
           r == CHOOSE m \in h : TRUE
<1>5. g \in PG /\ h \in PG
  BY <1>1
<1>6. g # {} /\ h # {} /\ (\A a, b \in g : Same(a, b)) /\ (\A a, b \in h : Same(a, b))
  BY <1>5, GroupIsClass
<1>7. l \in g /\ r \in h
  BY <1>6
<1>8. Cardinality(g) = Cardinality(h) /\ Comparable(l, r) /\ l.g # r.g /\ l.d # r.d /\ l.g \in scope.ports /\ r.g \in scope.ports
  BY <1>2 DEF Centroid
<1> HIDE DEF l, r, PG
<1>9. ASSUME NEW a \in g, NEW b \in h PROVE Counterparts(scope, a, b) /\ Counterparts(scope, b, a)
  <2>1. Same(a, l) /\ Same(b, r)
    BY <1>6, <1>7
  <2>2. QED
    BY <1>8, <2>1 DEF Same, Counterparts, Comparable
<1>10. g \cap h = {}
  BY <1>9 DEF Counterparts
<1>11. QED
  BY <1>4, <1>5, <1>2, <1>8, <1>9, <1>10 DEF PG

\* So each of its devices has a partner with which a pair was inferred, and the
\* two tell the groups.
LEMMA PartnerExists ==
  ASSUME NEW scope, OfScope(scope), NEW p \in CentroidsOf(scope),
         NEW g \in p, NEW m \in DOMAIN scope.mosfets, scope.mosfets[m] \in g
  PROVE  \E n \in DOMAIN scope.mosfets :
           /\ p = {Class(scope, m), Class(scope, n)}
           /\ <<m, n>> \in Differential(scope) \/ <<n, m>> \in Differential(scope)
<1> DEFINE list == scope.mosfets
           PG == ParallelGroups(list)
<1>1. PICK x \in PG, y \in PG : /\ p = {x, y}
                                /\ \A a \in x, b \in y : Counterparts(scope, a, b) /\ Counterparts(scope, b, a)
  BY CentroidIsPairs
<1>2. PICK h \in PG : /\ p = {g, h} /\ g \in PG
                      /\ \A a \in g, b \in h : Counterparts(scope, a, b) /\ Counterparts(scope, b, a)
  <2>1. g = x \/ g = y
    BY <1>1
  <2>2. CASE g = x
    BY <1>1, <2>2
  <2>3. CASE g = y
    BY <1>1, <2>3
  <2>4. QED
    BY <2>1, <2>2, <2>3
<1>3. h # {} /\ h \in SUBSET ToSet(list)
  BY GroupIsClass
<1>4. PICK n \in DOMAIN list : list[n] \in h
  BY <1>3 DEF ToSet
<1>5. g = Class(scope, m) /\ h = Class(scope, n)
  BY <1>2, <1>4, GroupIsClass
<1>6. Counterparts(scope, list[m], list[n]) /\ Counterparts(scope, list[n], list[m])
  BY <1>2, <1>4
<1>7. m \in Nat /\ n \in Nat
  BY DEF OfScope, IsSequence
<1>8. ASSUME NEW i \in DOMAIN list, NEW j \in DOMAIN list, i < j, Counterparts(scope, list[i], list[j])
      PROVE  <<i, j>> \in Differential(scope)
  <2>1. <<i, j>> \in Combinations(list)
    BY <1>8 DEF Combinations
  <2>2. Motif(list[i], list[j], scope.ports) = "differential"
    BY <1>8 DEF Counterparts, Motif, IsMirror, OnPorts
  <2>3. QED
    BY <2>1, <2>2 DEF Differential, MotifsOf
<1>9. m # n
  BY <1>6 DEF Counterparts
<1>10. m < n \/ n < m
  BY <1>7, <1>9
<1> HIDE DEF list, PG
<1>11. <<m, n>> \in Differential(scope) \/ <<n, m>> \in Differential(scope)
  BY <1>4, <1>6, <1>8, <1>10 DEF list
<1>12. QED
  BY <1>2, <1>4, <1>5, <1>11 DEF list

\* The identities of some devices of a scope: as many as they are, of one scope.
LEMMA GroupIdsCount ==
  ASSUME NEW scope, OfScope(scope), NEW g \in SUBSET ToSet(scope.mosfets), IsFiniteSet(g)
  PROVE  Together(GroupIds(g)) /\ Cardinality(GroupIds(g)) = Cardinality(g)
<1> DEFINE id == [m \in g |-> m.id]
           list == scope.mosfets
<1>1. DOMAIN id = g /\ GroupIds(g) = Range(id)
  BY DEF GroupIds, Range
<1>2. \A a \in g : \E m \in DOMAIN list : a = list[m]
  BY DEF ToSet
<1>3. \A a, b \in g : a.id = b.id => a = b
  BY <1>2 DEF OfScope
<1>4. \A x, y \in DOMAIN id : id[x] = id[y] => x = y
  BY <1>3
<1>5. \A a, b \in g : a.id \in Placeable /\ PlacementScope[a.id] = PlacementScope[b.id]
  BY <1>2 DEF OfScope
<1>6. GroupIds(g) \subseteq Placeable /\ \A x, y \in GroupIds(g) : PlacementScope[x] = PlacementScope[y]
  BY <1>5 DEF GroupIds
<1> HIDE DEF id
<1>7. IsFiniteSet(GroupIds(g)) /\ Cardinality(GroupIds(g)) = Cardinality(g)
  BY <1>1, <1>4, InjectiveCount
<1>8. QED
  BY <1>6, <1>7 DEF Together

LEMMA CoupleIds ==
  ASSUME NEW scope, OfScope(scope), NEW ij \in Combinations(scope.mosfets)
  PROVE  Together(Ids(scope, ij)) /\ Cardinality(Ids(scope, ij)) = 2
<1> DEFINE list == scope.mosfets
           a == list[ij[1]]
           b == list[ij[2]]
           A == {a.id}
           B == {b.id}
<1>1. ij[1] \in DOMAIN list /\ ij[2] \in DOMAIN list /\ ij[1] < ij[2]
  BY DEF Combinations
<1>2. ij[1] # ij[2]
  <2>1. ij[1] \in Nat /\ ij[2] \in Nat
    BY <1>1 DEF OfScope, IsSequence
  <2>2. QED
    BY <1>1, <2>1
<1>3. a.id # b.id /\ a.id \in Placeable /\ b.id \in Placeable /\ PlacementScope[a.id] = PlacementScope[b.id]
  BY <1>1, <1>2 DEF OfScope
<1>4. Ids(scope, ij) = A \cup B /\ A \cap B = {}
  BY <1>3 DEF Ids
<1>5. IsFiniteSet(A) /\ IsFiniteSet(B) /\ Cardinality(A) = 1 /\ Cardinality(B) = 1
  BY FS_Singleton
<1>6. A \cup B \subseteq Placeable /\ \A x, y \in A \cup B : PlacementScope[x] = PlacementScope[y]
  BY <1>3
<1> HIDE DEF A, B
<1>7. IsFiniteSet(A \cup B) /\ Cardinality(A \cup B) = 2
  BY <1>4, <1>5, DisjointCount
<1>8. QED
  BY <1>4, <1>6, <1>7 DEF Together

\* What a making names.
NamesOf(scope, x) == IF x[1] = "common_centroid" THEN UNION {GroupIds(g) : g \in x[2]} ELSE Ids(scope, x[2])

\* Every candidate is well formed, and names each device it is about once.
LEMMA CandidatesFit ==
  ASSUME NEW scope, OfScope(scope), NEW x \in Makings(scope)
  PROVE  /\ Fits(Made(scope, x)) /\ Named(Made(scope, x)) = NamesOf(scope, x)
         /\ Made(scope, x).kind = x[1] /\ x[1] \in {"matching", "symmetry", "common_centroid"}
         /\ x[1] = "symmetry" => Made(scope, x).axis = "vertical"
<1>1. CASE x[1] = "matching"
  <2>1. x[2] \in Combinations(scope.mosfets)
    BY <1>1 DEF Makings, Couples, Differential, MotifsOf
  <2>2. Made(scope, x) = Candidate("matching", Ids(scope, x[2]), <<>>, "none")
    BY <1>1 DEF Made
  <2> DEFINE S == Ids(scope, x[2])
  <2>3. Together(S) /\ Cardinality(S) = 2 /\ NamesOf(scope, x) = S
    BY <1>1, <2>1, CoupleIds DEF NamesOf
  <2> HIDE DEF S
  <2>4. Fits(Candidate("matching", S, <<>>, "none")) /\ Named(Candidate("matching", S, <<>>, "none")) = S
    BY <2>3, CoupleFits
  <2>5. QED
    BY <1>1, <2>2, <2>3, <2>4 DEF S, Candidate
<1>2. CASE x[1] = "symmetry"
  <2>1. x[2] \in Combinations(scope.mosfets)
    BY <1>2 DEF Makings, Differential, MotifsOf
  <2>2. Made(scope, x) = Candidate("symmetry", Ids(scope, x[2]), <<>>, "vertical")
    BY <1>2 DEF Made
  <2> DEFINE S == Ids(scope, x[2])
  <2>3. Together(S) /\ Cardinality(S) = 2 /\ NamesOf(scope, x) = S
    BY <1>2, <2>1, CoupleIds DEF NamesOf
  <2> HIDE DEF S
  <2>4. Fits(Candidate("symmetry", S, <<>>, "vertical")) /\ Named(Candidate("symmetry", S, <<>>, "vertical")) = S
    BY <2>3, CoupleFits
  <2>5. QED
    BY <1>2, <2>2, <2>3, <2>4 DEF S, Candidate
<1>3. CASE x[1] = "common_centroid"
  <2> DEFINE p == x[2]
  <2>1. p \in CentroidsOf(scope)
    BY <1>3 DEF Makings
  <2>2. Made(scope, x) = Candidate("common_centroid", {}, SetToSeq({GroupIds(k) : k \in p}), "both")
    BY <1>3 DEF Made
  <2>3. NamesOf(scope, x) = UNION {GroupIds(k) : k \in p}
    BY <1>3 DEF NamesOf
  <2>4. PICK g \in ParallelGroups(scope.mosfets), h \in ParallelGroups(scope.mosfets) :
          p = {g, h} /\ g \cap h = {} /\ Cardinality(g) = Cardinality(h)
    BY <2>1, CentroidIsPairs
  <2> DEFINE A == GroupIds(g)
             B == GroupIds(h)
  <2>5. {GroupIds(k) : k \in p} = {A, B} /\ UNION {GroupIds(k) : k \in p} = A \cup B
    BY <2>4
  <2>6. /\ g \in SUBSET ToSet(scope.mosfets) /\ g # {} /\ IsFiniteSet(g)
        /\ h \in SUBSET ToSet(scope.mosfets) /\ h # {} /\ IsFiniteSet(h)
    BY GroupIsClass
  <2>7. Cardinality(A) = Cardinality(g) /\ Cardinality(B) = Cardinality(h)
    BY <2>6, GroupIdsCount
  <2>8. A # {}
    BY <2>6 DEF GroupIds
  <2>9. A \cap B = {}
    <3>1. ASSUME NEW a \in g, NEW b \in h, a.id = b.id PROVE FALSE
      <4>1. a = b
        BY <2>6, <3>1 DEF OfScope, ToSet
      <4>2. QED
        BY <2>4, <4>1
    <3>2. QED
      BY <3>1 DEF GroupIds
  <2>10. Together(A \cup B)
    <3>1. g \cup h \in SUBSET ToSet(scope.mosfets)
      BY <2>6
    <3>2. IsFiniteSet(g \cup h)
      BY <2>6, FS_Union
    <3> DEFINE k == g \cup h
    <3>3. GroupIds(k) = A \cup B
      BY DEF GroupIds
    <3> HIDE DEF k
    <3>4. k \in SUBSET ToSet(scope.mosfets) /\ IsFiniteSet(k)
      BY <3>1, <3>2 DEF k
    <3>5. Together(GroupIds(k))
      BY <3>4, GroupIdsCount
    <3>6. QED
      BY <3>3, <3>5
  <2> HIDE DEF A, B, p
  <2> DEFINE c == Candidate("common_centroid", {}, SetToSeq({A, B}), "both")
  <2>11. Fits(c) /\ Named(c) = A \cup B
    BY <2>4, <2>7, <2>8, <2>9, <2>10, CentroidFits
  <2>12. c.kind = "common_centroid"
    BY DEF Candidate
  <2>13. Made(scope, x) = c
    BY <2>2, <2>5
  <2> HIDE DEF c
  <2>14. QED
    BY <1>3, <2>3, <2>5, <2>11, <2>12, <2>13
<1>4. QED
  BY <1>1, <1>2, <1>3 DEF Makings

\* A circuit whose scopes hold such devices, all of them told apart.
OfCircuit(circ) == IsSequence(circ) /\ Told(circ) /\ \A i \in DOMAIN circ : OfScope(circ[i])

LEMMA AllAreMade ==
  ASSUME NEW circ
  PROVE  /\ \A c \in AllMade(circ) : \E i \in DOMAIN circ : \E x \in Makings(circ[i]) : c = Made(circ[i], x)
         /\ \A i \in DOMAIN circ : \A x \in Makings(circ[i]) : Made(circ[i], x) \in AllMade(circ)
<1>1. \A i \in DOMAIN circ : CandidatesOf(circ[i]) = {Made(circ[i], x) : x \in Makings(circ[i])}
  BY CandidatesAreMade
<1>2. QED
  BY <1>1 DEF AllMade

\* Two candidates that say the same are the same, made of the same.
LEMMA KeyTellsCandidate ==
  ASSUME NEW circ, OfCircuit(circ), NEW i \in DOMAIN circ, NEW j \in DOMAIN circ,
         NEW x \in Makings(circ[i]), NEW y \in Makings(circ[j]),
         SemanticKey(Made(circ[i], x)) = SemanticKey(Made(circ[j], y))
  PROVE  i = j /\ x = y
<1>1. \A k \in DOMAIN circ : /\ IsSequence(circ[k].mosfets)
                             /\ \A m \in DOMAIN circ[k].mosfets : circ[k].mosfets[m].id \in Nat
  BY DEF OfCircuit, OfScope, Told
<1>2. SemanticKey(Made(circ[i], x)) = KeyOf(circ[i], x) /\ SemanticKey(Made(circ[j], y)) = KeyOf(circ[j], y)
  BY <1>1, MadeSaysItsKey
<1>3. KeyOf(circ[i], x) = KeyOf(circ[j], y) /\ Told(circ)
  BY <1>2 DEF OfCircuit
<1>4. QED
  BY <1>1, <1>3, KeysTellMakings

\* Each name a candidate gives is charged to a candidate and a place with it: a
\* pair pays for its own two, and a device of a common centroid is paid for by
\* the pair it makes with a device of the other group.
Pays(scope, x, m, y, t) ==
  IF x[1] # "common_centroid" THEN y = x /\ ((t = 1 /\ m = x[2][1]) \/ (t = 2 /\ m = x[2][2]))
  ELSE t = 3 /\ \E n \in DOMAIN scope.mosfets :
         /\ x[2] = {Class(scope, m), Class(scope, n)}
         /\ y = <<"matching", <<m, n>>>> \/ y = <<"symmetry", <<n, m>>>>
Charged(circ, c, u, d, t) ==
  \E i \in DOMAIN circ : \E m \in DOMAIN circ[i].mosfets : \E x, y \in Makings(circ[i]) :
    c = Made(circ[i], x) /\ u = circ[i].mosfets[m].id /\ d = Made(circ[i], y) /\ Pays(circ[i], x, m, y, t)

LEMMA EveryNameIsPaid ==
  ASSUME NEW scope, OfScope(scope), NEW x \in Makings(scope), NEW u \in NamesOf(scope, x)
  PROVE  \E m \in DOMAIN scope.mosfets, y \in Makings(scope), t \in 1..3 :
           u = scope.mosfets[m].id /\ Pays(scope, x, m, y, t)
<1> DEFINE list == scope.mosfets
<1>1. CASE x[1] # "common_centroid"
  <2>1. x[2] \in Combinations(list)
    BY <1>1 DEF Makings, Couples, Differential, MotifsOf
  <2>2. x[2][1] \in DOMAIN list /\ x[2][2] \in DOMAIN list
    BY <2>1 DEF Combinations
  <2>3. u = list[x[2][1]].id \/ u = list[x[2][2]].id
    BY <1>1 DEF NamesOf, Ids
  <2>4. Pays(scope, x, x[2][1], x, 1) /\ Pays(scope, x, x[2][2], x, 2) /\ 1 \in 1..3 /\ 2 \in 1..3
    BY <1>1 DEF Pays
  <2>5. QED
    BY <2>2, <2>3, <2>4
<1>2. CASE x[1] = "common_centroid"
  <2> DEFINE p == x[2]
             k1 == "matching"
             k2 == "symmetry"
  <2>1. p \in CentroidsOf(scope)
    BY <1>2 DEF Makings
  <2>2. PICK g \in p : u \in GroupIds(g)
    BY <1>2 DEF NamesOf
  <2>3. PICK d \in g : u = d.id
    BY <2>2 DEF GroupIds
  <2>4. g \in ParallelGroups(list)
    BY <2>1 DEF CentroidsOf, kSubset
  <2>5. PICK m \in DOMAIN list : list[m] = d
    BY <2>3, <2>4, GroupIsClass DEF ToSet
  <2> HIDE DEF p
  <2>6. PICK n \in DOMAIN list :
          /\ p = {Class(scope, m), Class(scope, n)}
          /\ <<m, n>> \in Differential(scope) \/ <<n, m>> \in Differential(scope)
    BY <2>1, <2>3, <2>5, PartnerExists
  <2>7. 3 \in 1..3 /\ u = list[m].id
    BY <2>3, <2>5
  <2>8. CASE <<m, n>> \in Differential(scope)
    <3>1. <<k1, <<m, n>>>> \in Makings(scope)
      BY <2>8 DEF Makings, Couples
    <3>2. Pays(scope, x, m, <<k1, <<m, n>>>>, 3)
      BY <1>2, <2>6 DEF Pays, p
    <3>3. QED
      BY <2>7, <3>1, <3>2
  <2>9. CASE <<n, m>> \in Differential(scope)
    <3>1. <<k2, <<n, m>>>> \in Makings(scope)
      BY <2>9 DEF Makings
    <3>2. Pays(scope, x, m, <<k2, <<n, m>>>>, 3)
      BY <1>2, <2>6 DEF Pays, p
    <3>3. QED
      BY <2>7, <3>1, <3>2
  <2>10. QED
    BY <2>6, <2>8, <2>9
<1>3. QED
  BY <1>1, <1>2

\* No place pays twice.
LEMMA PlacePaysOnce ==
  ASSUME NEW scope, NEW x \in Makings(scope), NEW m, NEW y, NEW t, Pays(scope, x, m, y, t),
         NEW x2 \in Makings(scope), NEW m2, Pays(scope, x2, m2, y, t)
  PROVE  x = x2 /\ m = m2
<1> DEFINE k3 == "common_centroid"
<1>1. x = <<x[1], x[2]>> /\ x2 = <<x2[1], x2[2]>>
  BY DEF Makings
<1>2. CASE x[1] # k3
  <2>1. y = x /\ t # 3 /\ ((t = 1 /\ m = x[2][1]) \/ (t = 2 /\ m = x[2][2]))
    BY <1>2 DEF Pays
  <2>2. x2[1] # k3
    BY <2>1 DEF Pays
  <2>3. y = x2 /\ ((t = 1 /\ m2 = x2[2][1]) \/ (t = 2 /\ m2 = x2[2][2]))
    BY <2>2 DEF Pays
  <2>4. QED
    BY <2>1, <2>3
<1>3. CASE x[1] = k3
  <2>1. PICK n \in DOMAIN scope.mosfets : /\ t = 3 /\ x[2] = {Class(scope, m), Class(scope, n)}
                                          /\ y = <<"matching", <<m, n>>>> \/ y = <<"symmetry", <<n, m>>>>
    BY <1>3 DEF Pays
  <2>2. x2[1] = k3
    BY <2>1 DEF Pays
  <2>3. PICK n2 \in DOMAIN scope.mosfets : /\ x2[2] = {Class(scope, m2), Class(scope, n2)}
                                           /\ y = <<"matching", <<m2, n2>>>> \/ y = <<"symmetry", <<n2, m2>>>>
    BY <2>2 DEF Pays
  <2>4. m = m2 /\ n = n2
    BY <2>1, <2>3
  <2>5. QED
    BY <1>1, <1>3, <2>1, <2>2, <2>3, <2>4
<1>4. QED
  BY <1>2, <1>3

LEMMA ChargedOnce ==
  ASSUME NEW circ, OfCircuit(circ), NEW d, NEW t, NEW c, NEW u, Charged(circ, c, u, d, t),
         NEW c2, NEW u2, Charged(circ, c2, u2, d, t)
  PROVE  c = c2 /\ u = u2
<1>1. PICK i \in DOMAIN circ : \E m \in DOMAIN circ[i].mosfets : \E x, y \in Makings(circ[i]) :
        c = Made(circ[i], x) /\ u = circ[i].mosfets[m].id /\ d = Made(circ[i], y) /\ Pays(circ[i], x, m, y, t)
  BY DEF Charged
<1>m. PICK m \in DOMAIN circ[i].mosfets : \E x, y \in Makings(circ[i]) :
        c = Made(circ[i], x) /\ u = circ[i].mosfets[m].id /\ d = Made(circ[i], y) /\ Pays(circ[i], x, m, y, t)
  BY <1>1
<1>2. PICK j \in DOMAIN circ : \E n \in DOMAIN circ[j].mosfets : \E x2, y2 \in Makings(circ[j]) :
        c2 = Made(circ[j], x2) /\ u2 = circ[j].mosfets[n].id /\ d = Made(circ[j], y2) /\ Pays(circ[j], x2, n, y2, t)
  BY DEF Charged
<1>n. PICK n \in DOMAIN circ[j].mosfets : \E x2, y2 \in Makings(circ[j]) :
        c2 = Made(circ[j], x2) /\ u2 = circ[j].mosfets[n].id /\ d = Made(circ[j], y2) /\ Pays(circ[j], x2, n, y2, t)
  BY <1>2
<1>a. PICK x, y \in Makings(circ[i]) :
        c = Made(circ[i], x) /\ u = circ[i].mosfets[m].id /\ d = Made(circ[i], y) /\ Pays(circ[i], x, m, y, t)
  BY <1>m
<1>b. PICK x2, y2 \in Makings(circ[j]) :
        c2 = Made(circ[j], x2) /\ u2 = circ[j].mosfets[n].id /\ d = Made(circ[j], y2) /\ Pays(circ[j], x2, n, y2, t)
  BY <1>n
<1>3. i = j /\ y = y2
  <2>1. SemanticKey(Made(circ[i], y)) = SemanticKey(Made(circ[j], y2))
    BY <1>a, <1>b
  <2>2. QED
    BY <2>1, KeyTellsCandidate
<1>4. x = x2 /\ m = n
  BY <1>a, <1>b, <1>3, PlacePaysOnce
<1>5. QED
  BY <1>a, <1>b, <1>3, <1>4

\* So all candidates, listed, have at most three times as many references.
LEMMA ReferencesBounded ==
  ASSUME NEW circ, OfCircuit(circ), IsFiniteSet(AllMade(circ)),
         NEW doc, Lists(doc, AllMade(circ)), WellWritten(doc)
  PROVE  References(doc) \in Nat /\ References(doc) <= 3 * Cardinality(AllMade(circ))
<1> DEFINE all == AllMade(circ)
           N == Len(doc)
           sets == [n \in 1..N |-> Named(doc[n])]
           T == Tagged(sets, N)
           places == 1..3
           funds == all \X places
           f == [q \in T |-> CHOOSE e \in funds : Charged(circ, doc[q[1]], q[2], e[1], e[2])]
<1>1. N \in Nat /\ DOMAIN doc = 1..N /\ (\A n \in 1..N : doc[n] \in all)
  BY WrittenLength DEF Lists
<1>2. \A n, k \in 1..N : doc[n] = doc[k] => n = k
  BY <1>1 DEF Lists
<1>3. ASSUME NEW n \in 1..N
      PROVE  /\ IsFiniteSet(sets[n]) /\ Cardinality(sets[n]) = Mentions(doc[n])
             /\ \A u \in sets[n] : \E e \in funds : Charged(circ, doc[n], u, e[1], e[2])
  <2>0. PICK i \in DOMAIN circ : \E x \in Makings(circ[i]) : doc[n] = Made(circ[i], x)
    BY <1>1, AllAreMade
  <2>1. PICK x \in Makings(circ[i]) : doc[n] = Made(circ[i], x)
    BY <2>0
  <2>2. OfScope(circ[i])
    BY DEF OfCircuit
  <2>3. Fits(doc[n]) /\ Named(doc[n]) = NamesOf(circ[i], x)
    BY <2>1, <2>2, CandidatesFit
  <2>4. ASSUME NEW u \in sets[n] PROVE \E e \in funds : Charged(circ, doc[n], u, e[1], e[2])
    <3>1. u \in NamesOf(circ[i], x)
      BY <2>3
    <3>2. PICK m \in DOMAIN circ[i].mosfets, y \in Makings(circ[i]), t \in places :
            u = circ[i].mosfets[m].id /\ Pays(circ[i], x, m, y, t)
      BY <2>2, <3>1, EveryNameIsPaid
    <3> DEFINE d == Made(circ[i], y)
    <3>3. d \in all
      BY AllAreMade
    <3>4. Charged(circ, doc[n], u, d, t)
      BY <2>1, <3>2 DEF Charged
    <3> HIDE DEF d, all, places
    <3>5. <<d, t>> \in funds /\ <<d, t>>[1] = d /\ <<d, t>>[2] = t
      BY <3>2, <3>3
    <3> HIDE DEF funds
    <3>6. QED
      BY <3>4, <3>5
  <2>5. sets[n] = Named(doc[n])
    OBVIOUS
  <2> HIDE DEF sets, funds
  <2>6. QED
    BY <2>3, <2>4, <2>5 DEF Fits
<1>4. PICK counts : /\ References(doc) = counts[N] /\ counts[0] = 0
                    /\ \A n \in 0..N : counts[n] \in Nat
                    /\ \A n \in 1..N : counts[n] = counts[n - 1] + Mentions(doc[n])
  BY ReferencesCount
<1>5. IsFiniteSet(T) /\ Cardinality(T) = References(doc)
  <2> HIDE DEF sets, N, funds
  <2>1. \A n \in 1..N : IsFiniteSet(sets[n]) /\ counts[n] = counts[n - 1] + Cardinality(sets[n])
    BY <1>3, <1>4
  <2>2. QED
    BY <1>1, <1>4, <2>1, TaggedSizes
<1>6. ASSUME NEW q \in T
      PROVE  q = <<q[1], q[2]>> /\ q[1] \in 1..N /\ f[q] \in funds /\ Charged(circ, doc[q[1]], q[2], f[q][1], f[q][2])
  <2>1. q = <<q[1], q[2]>> /\ q[1] \in 1..N /\ q[2] \in sets[q[1]]
    BY DEF Tagged
  <2> DEFINE pays(e) == Charged(circ, doc[q[1]], q[2], e[1], e[2])
  <2>2. \E e \in funds : pays(e)
    BY <1>3, <2>1
  <2>3. f[q] = CHOOSE e \in funds : pays(e)
    OBVIOUS
  <2> HIDE DEF pays, f, funds
  <2>4. f[q] \in funds /\ pays(f[q])
    BY <2>2, <2>3
  <2>5. QED
    BY <2>1, <2>4 DEF pays
<1>7. ASSUME NEW q \in T, NEW r \in T, f[q] = f[r] PROVE q = r
  <2> DEFINE d == f[q][1]
             t == f[q][2]
  <2>1. Charged(circ, doc[q[1]], q[2], d, t) /\ Charged(circ, doc[r[1]], r[2], d, t)
    BY <1>6, <1>7
  <2> HIDE DEF d, t
  <2>2. doc[q[1]] = doc[r[1]] /\ q[2] = r[2]
    BY <2>1, ChargedOnce
  <2>3. q[1] = r[1]
    BY <1>2, <1>6, <2>2
  <2>4. QED
    BY <1>6, <2>2, <2>3
<1>8. DOMAIN f = T
  OBVIOUS
<1> HIDE DEF f, T, sets
<1>9. Cardinality(Range(f)) = References(doc) /\ Range(f) \in SUBSET funds
  <2>1. \A q, r \in DOMAIN f : f[q] = f[r] => q = r
    BY <1>7, <1>8
  <2>2. Cardinality(Range(f)) = Cardinality(T)
    BY <1>5, <1>8, <2>1, InjectiveCount
  <2>3. Range(f) \in SUBSET funds
    BY <1>6, <1>8 DEF Range
  <2>4. QED
    BY <1>5, <2>2, <2>3
<1>10. IsFiniteSet(funds) /\ Cardinality(funds) = Cardinality(all) * 3 /\ Cardinality(all) \in Nat
  <2>1. IsFiniteSet(places) /\ Cardinality(places) = 3
    <3> DEFINE first == 1
               last == 3
    <3>1. first \in Nat /\ last \in Nat /\ first <= last /\ last - first + 1 = 3
      OBVIOUS
    <3> HIDE DEF first, last
    <3>2. IsFiniteSet(first..last) /\ Cardinality(first..last) = last - first + 1
      BY <3>1, FS_Interval
    <3>3. QED
      BY <3>1, <3>2 DEF first, last
  <2>2. IsFiniteSet(all) /\ Cardinality(all) \in Nat
    BY FS_CardinalityType
  <2> HIDE DEF all, places
  <2>3. QED
    BY <2>1, <2>2, FS_Product
<1> HIDE DEF funds, all, N
<1>11. Cardinality(Range(f)) <= Cardinality(funds)
  BY <1>9, <1>10, FS_Subset
<1>12. References(doc) \in Nat
  BY <1>1, <1>4
<1>13. QED
  BY <1>9, <1>10, <1>11, <1>12 DEF all

(***************************************************************************)
(* The document of all candidates.                                         *)
(***************************************************************************)
\* Equal identities are of equal candidates.
LEMMA IdTellsMade ==
  ASSUME NEW s, NEW x, NEW r, NEW y, Made(s, x).id = Made(r, y).id
  PROVE  Made(s, x) = Made(r, y)
<1>1. ASSUME NEW kind, NEW subjects, NEW groups, NEW axis, NEW kind2, NEW subjects2, NEW groups2, NEW axis2,
             Candidate(kind, subjects, groups, axis).id = Candidate(kind2, subjects2, groups2, axis2).id
      PROVE  Candidate(kind, subjects, groups, axis) = Candidate(kind2, subjects2, groups2, axis2)
  <2>1. <<kind, subjects, groups, axis>> = <<kind2, subjects2, groups2, axis2>>
    BY <1>1 DEF Candidate
  <2>2. kind = kind2 /\ subjects = subjects2 /\ groups = groups2 /\ axis = axis2
    BY <2>1
  <2>3. QED
    BY <2>2
<1>2. ASSUME NEW scope, NEW z
      PROVE  \E kind, subjects, groups, axis : Made(scope, z) = Candidate(kind, subjects, groups, axis)
  BY DEF Made
<1>3. QED
  BY <1>1, <1>2

\* Nothing that was inferred contradicts anything else that was.
LEMMA MadeAgree ==
  ASSUME NEW circ, OfCircuit(circ), NEW doc, Lists(doc, AllMade(circ)), NEW k, k \in 0..Cardinality(AllMade(circ)),
         IsFiniteSet(AllMade(circ))
  PROVE  Agree(doc, k)
<1> DEFINE n == Cardinality(AllMade(circ))
<1>1. n \in Nat
  BY FS_CardinalityType
<1>2. /\ \A i \in 1..n : doc[i] \in AllMade(circ)
      /\ \A i, j \in 1..n : doc[i] = doc[j] => i = j
  BY DEF Lists
<1> HIDE DEF n
<1>3. ASSUME NEW i \in 1..k, NEW j \in 1..k, i < j PROVE ~Contradicts(doc[i], doc[j])
  <2> DEFINE c == doc[i]
             d == doc[j]
  <2>1. i \in 1..n /\ j \in 1..n /\ i # j
    BY <1>1, <1>3 DEF n
  <2>2. c # d
    BY <1>2, <2>1
  <2>3. PICK s \in DOMAIN circ : \E x \in Makings(circ[s]) : c = Made(circ[s], x)
    BY <1>2, <2>1, AllAreMade
  <2>4. PICK x \in Makings(circ[s]) : c = Made(circ[s], x)
    BY <2>3
  <2>5. PICK r \in DOMAIN circ : \E y \in Makings(circ[r]) : d = Made(circ[r], y)
    BY <1>2, <2>1, AllAreMade
  <2>6. PICK y \in Makings(circ[r]) : d = Made(circ[r], y)
    BY <2>5
  <2>7. OfScope(circ[s]) /\ OfScope(circ[r])
    BY DEF OfCircuit
  <2>8. /\ c.kind \in {"matching", "symmetry", "common_centroid"} /\ (c.kind = "symmetry" => c.axis = "vertical")
        /\ d.kind \in {"matching", "symmetry", "common_centroid"} /\ (d.kind = "symmetry" => d.axis = "vertical")
    BY <2>4, <2>6, <2>7, CandidatesFit
  <2>9. SemanticKey(c) # SemanticKey(d)
    BY <2>2, <2>4, <2>6, KeyTellsCandidate
  <2>10. c.id # d.id
    BY <2>2, <2>4, <2>6, IdTellsMade
  <2> HIDE DEF c, d
  <2>11. ~Contradicts(c, d)
    BY <2>8, <2>9, <2>10 DEF Contradicts
  <2>12. QED
    BY <2>11 DEF c, d
<1>4. QED
  BY <1>3 DEF Agree

\* Without orders and alignments anything can be placed.
LEMMA NothingToPlace ==
  ASSUME NEW doc, NEW n, \A i \in 1..n : doc[i].kind \in {"matching", "symmetry", "common_centroid"}, NEW a
  PROVE  CanPlace(OrderEdges(doc, 1..n, a), AlignedGroups(doc, 1..n, a))
<1> DEFINE none == {}
           N == Cardinality(Placeable)
           place == [v \in Placeable |-> 1]
<1>1. Those(doc, 1..n, "order") = none /\ Those(doc, 1..n, "alignment") = none
  BY DEF Those
<1>2. OrderEdges(doc, 1..n, a) = none /\ AlignedGroups(doc, 1..n, a) = none
  BY <1>1 DEF OrderEdges, AlignedGroups
<1>3. \A v \in Placeable : 1 \in 1..N
  <2>1. N \in Nat /\ (N = 0 <=> Placeable = none)
    BY PlacementAssumption, FS_CardinalityType, FS_EmptySet
  <2>2. QED
    BY <2>1
<1>4. place \in [Placeable -> 1..N]
  BY <1>3
<1>5. Coordinates(place, none, none)
  BY DEF Coordinates
<1> HIDE DEF place, none
<1>6. QED
  BY <1>2, <1>4, <1>5 DEF CanPlace

\* So the document is opened, and accepted once it was read.
LEMMA AllMadeIsAccepted ==
  ASSUME NEW circ, OfCircuit(circ), IsFiniteSet(AllMade(circ)), NEW doc, Lists(doc, AllMade(circ)), WellWritten(doc),
         ~(Cardinality(AllMade(circ)) > MaxConstraints), 3 * Cardinality(AllMade(circ)) <= MaxReferences, MaxReferences \in Nat
  PROVE  /\ DocumentFailure(doc) = Passed
         /\ \A verdict : Judged(doc, Len(doc), verdict) => verdict = "accepted"
<1> DEFINE n == Cardinality(AllMade(circ))
<1>1. Len(doc) = n /\ DOMAIN doc = 1..n /\ n \in Nat /\ ToSet(doc) = AllMade(circ) /\ \A i \in 1..n : doc[i] \in AllMade(circ)
  BY ListFacts DEF Lists
<1>2. ASSUME NEW i \in 1..n
      PROVE  ShapeFailure(doc[i]) = Passed /\ doc[i].kind \in {"matching", "symmetry", "common_centroid"}
  <2>1. PICK s \in DOMAIN circ : \E x \in Makings(circ[s]) : doc[i] = Made(circ[s], x)
    BY <1>1, AllAreMade
  <2>2. PICK x \in Makings(circ[s]) : doc[i] = Made(circ[s], x)
    BY <2>1
  <2>3. OfScope(circ[s])
    BY DEF OfCircuit
  <2>4. QED
    BY <2>2, <2>3, CandidatesFit DEF Fits
<1>3. References(doc) \in Nat /\ References(doc) <= 3 * n
  BY ReferencesBounded
<1>4. ~(References(doc) > MaxReferences)
  <2> HIDE DEF n
  <2>1. 3 * n <= MaxReferences
    BY DEF n
  <2>2. QED
    BY <1>1, <1>3, <2>1
<1>5. ~(Len(doc) > MaxConstraints)
  BY <1>1
<1>6. DocumentFailure(doc) = Passed
  BY <1>1, <1>2, <1>4, <1>5, DocumentVerdict
<1>7. Agree(doc, n)
  BY <1>1, MadeAgree
<1>8. \A a : CanPlace(OrderEdges(doc, 1..n, a), AlignedGroups(doc, 1..n, a))
  <2> HIDE DEF n
  <2>1. QED
    BY <1>2, NothingToPlace
<1> HIDE DEF n
<1>9. \A verdict : Judged(doc, n, verdict) => verdict = "accepted"
  BY <1>7, <1>8 DEF Judged
<1>10. QED
  BY <1>1, <1>6, <1>9

\* The circuit and limits are a report's; what was inferred is all of its
\* candidates, within the limit; and what was declared lists them.
CountInv ==
  /\ \E report \in Reports : circuit = report.circuit /\ limits = report.limits
  /\ phase \in {"inferred", "declared"} =>
       inferred = AllMade(circuit) /\ ~(Cardinality(inferred) > limits.constraints)
  /\ phase = "declared" => document = Listed(inferred)

\* The circuit of a report has one device for each identity.
LEMMA ReportedCircuit == CountInv => OfCircuit(circuit) /\ IsFiniteSet(AllMade(circuit))
<1> SUFFICES ASSUME CountInv PROVE OfCircuit(circuit) /\ IsFiniteSet(AllMade(circuit))
  OBVIOUS
<1>1. PICK report \in Reports : circuit = report.circuit
  BY DEF CountInv
<1>2. IsSequence(circuit) /\ \A i \in DOMAIN circuit : IsSequence(circuit[i].mosfets)
  BY <1>1, ReportsAssumption DEF ToSet
<1> DEFINE Apart(i, j, m, n) == circuit[i].mosfets[m].id = circuit[j].mosfets[n].id => i = j /\ m = n
           Near(i, j, m, n) ==
             i = j => PlacementScope[circuit[i].mosfets[m].id] = PlacementScope[circuit[j].mosfets[n].id]
<1>3. \A i, j \in DOMAIN circuit : \A m \in DOMAIN circuit[i].mosfets, n \in DOMAIN circuit[j].mosfets :
        /\ IsMosfet(circuit[i].mosfets[m]) /\ circuit[i].mosfets[m].id \in Placeable
        /\ Apart(i, j, m, n) /\ Near(i, j, m, n)
  BY <1>1, DevicesAssumption
<1>4. Placeable \in SUBSET Nat
  BY PlacementAssumption
<1>5. Told(circuit)
  <2> HIDE DEF Apart, Near
  <2>1. \A i, j \in DOMAIN circuit : \A m \in DOMAIN circuit[i].mosfets, n \in DOMAIN circuit[j].mosfets :
          circuit[i].mosfets[m].id \in Nat /\ Apart(i, j, m, n)
    BY <1>3, <1>4
  <2>2. QED
    BY <2>1, Zenon DEF Told, Apart
<1>6. ASSUME NEW i \in DOMAIN circuit PROVE OfScope(circuit[i])
  <2> DEFINE list == circuit[i].mosfets
  <2>1. \A m \in DOMAIN list : IsMosfet(list[m]) /\ list[m].id \in Placeable
    BY <1>3
  <2>2. \A m, n \in DOMAIN list : (list[m].id = list[n].id => m = n) /\ PlacementScope[list[m].id] = PlacementScope[list[n].id]
    BY <1>3
  <2>3. IsSequence(list)
    BY <1>2
  <2>4. QED
    BY <2>1, <2>2, <2>3 DEF OfScope
<1>7. IsFiniteSet(AllMade(circuit))
  BY <1>1, InferredIsWritten DEF AllMade
<1>8. QED
  BY <1>2, <1>5, <1>6, <1>7 DEF OfCircuit

\* The invariant holds at the start and after every step.
LEMMA CountStarts == LayoutInit => CountInv
<1> SUFFICES ASSUME LayoutInit PROVE CountInv
  OBVIOUS
<1>1. (\E report \in Reports : circuit = report.circuit /\ limits = report.limits) /\ phase = "preparing"
  BY DEF LayoutInit
<1>2. QED
  BY <1>1 DEF CountInv

LEMMA CountKeepsInv == CountInv /\ [LayoutNext]_layoutVars => CountInv'
<1> SUFFICES ASSUME CountInv, [LayoutNext]_layoutVars PROVE CountInv'
  OBVIOUS
<1>1. ASSUME UNCHANGED inferring, document' = document PROVE CountInv'
  BY <1>1 DEF CountInv, inferring
<1>2. ASSUME Prepare PROVE CountInv'
  <2> DEFINE reason == PrepareFailure(circuit[prepared + 1])
  <2>1. /\ circuit' = circuit /\ limits' = limits /\ inferred' = inferred
        /\ phase' = IF reason = Passed THEN "preparing" ELSE reason
    BY <1>2 DEF Prepare
  <2>2. reason \in {Passed, "devices", "pairs"}
    <3> DEFINE scope == circuit[prepared + 1]
               a == devices + scope.devices > limits.devices
               b == pairs + PairCount(Len(scope.mosfets)) + PairCount(Cardinality(ParallelGroups(scope.mosfets))) > limits.pairs
               k1 == "devices"
               k2 == "pairs"
    <3>1. reason = FirstFailure(<< <<a, k1>>, <<b, k2>> >>)
      BY DEF PrepareFailure
    <3>none. k1 # Passed /\ k2 # Passed
      BY DEF Passed
    <3> HIDE DEF a, b, k1, k2, scope, reason
    <3>2. (a => reason = k1) /\ (~a /\ b => reason = k2)
      BY <3>1, TwoReasons
    <3>3. ~a /\ ~b => reason = Passed
      BY <3>none, <3>1, TwoChecks
    <3>4. reason \in {Passed, k1, k2}
      BY <3>2, <3>3
    <3>5. QED
      BY <3>4 DEF k1, k2
  <2> HIDE DEF reason
  <2>3. phase' \notin {"inferred", "declared"}
    BY <2>1, <2>2
  <2>4. QED
    BY <2>1, <2>3 DEF CountInv
<1>3. ASSUME Infer PROVE CountInv'
  <2>1. /\ circuit' = circuit /\ limits' = limits
        /\ IF CandidateCount > limits.constraints THEN phase' = "constraints"
           ELSE inferred' = UNION {CandidatesOf(circuit[i]) : i \in DOMAIN circuit} /\ phase' = "inferred"
    BY <1>3 DEF Infer
  <2>2. CASE CandidateCount > limits.constraints
    BY <2>1, <2>2 DEF CountInv
  <2>3. CASE ~(CandidateCount > limits.constraints)
    <3>1. inferred' = AllMade(circuit) /\ phase' = "inferred"
      BY <2>1, <2>3 DEF AllMade
    <3>2. Cardinality(AllMade(circuit)) = CandidateCount
      BY ReportedCircuit, CandidatesCounted DEF OfCircuit, OfScope
    <3>3. ~(Cardinality(inferred') > limits'.constraints) /\ inferred' = AllMade(circuit')
      BY <2>1, <2>3, <3>1, <3>2
    <3>4. QED
      BY <2>1, <3>1, <3>3 DEF CountInv
  <2>4. QED
    BY <2>2, <2>3
<1>4. ASSUME Declare PROVE CountInv'
  <2>1. /\ document' = Listed(inferred) /\ phase = "inferred"
        /\ circuit' = circuit /\ limits' = limits /\ inferred' = inferred
    BY <1>4, Zenon DEF Declare, Listed
  <2>2. document' = Listed(inferred')
    BY <2>1
  <2>3. QED
    BY <2>1, <2>2 DEF CountInv
<1>5. ASSUME UNCHANGED documentVars \/ Read \/ End PROVE document' = document
  BY <1>5 DEF documentVars, Read, End
<1>6. QED
  BY <1>1, <1>2, <1>3, <1>4, <1>5 DEF LayoutNext, Validate, layoutVars

\* Under it the count is exact, and what was declared is not refused.
LEMMA CountedExactly == CountInv => CountIsExact
<1> SUFFICES ASSUME CountInv, phase = "inferred"
             PROVE  Cardinality(inferred) = CandidateCount /\ Cardinality({SemanticKey(c) : c \in inferred}) = CandidateCount
  BY DEF CountIsExact
<1>1. OfCircuit(circuit) /\ inferred = AllMade(circuit)
  BY ReportedCircuit DEF CountInv
<1>2. QED
  BY <1>1, CandidatesCounted DEF OfCircuit, OfScope

LEMMA DeclaredIsNotRefused == CountInv /\ LayoutInv => CandidatesCanBeDeclared
<1> SUFFICES ASSUME CountInv, LayoutInv, phase = "declared" PROVE seen.verdict \in {"reading", "accepted"}
  BY DEF CandidatesCanBeDeclared
<1> DEFINE n == Cardinality(AllMade(circuit))
<1>1. OfCircuit(circuit) /\ IsFiniteSet(AllMade(circuit)) /\ inferred = AllMade(circuit) /\ document = Listed(inferred)
  BY ReportedCircuit DEF CountInv
<1>2. Lists(document, AllMade(circuit)) /\ n \in Nat
  BY <1>1, ListedLists, FS_CardinalityType
<1>3. PICK report \in Reports : limits = report.limits
  BY DEF CountInv
<1> DEFINE limit == limits.constraints
<1>4. limit \in Nat /\ limit <= MaxConstraints /\ 3 * limit <= MaxReferences /\ MaxConstraints \in Nat /\ MaxReferences \in Nat
  BY <1>3, CeilingAssumption
<1>5. ~(n > limit)
  BY <1>1 DEF CountInv
<1>6. ~(n > MaxConstraints) /\ 3 * n <= MaxReferences
  <2> HIDE DEF n, limit
  <2>1. QED
    BY <1>2, <1>4, <1>5
<1>7. WellWritten(document)
  BY DEF LayoutInv, DocumentInv
<1>8. /\ DocumentFailure(document) = Passed
      /\ \A verdict : Judged(document, Len(document), verdict) => verdict = "accepted"
  BY <1>1, <1>2, <1>4, <1>6, <1>7, AllMadeIsAccepted
<1>9. seen.verdict = "reading" \/ Judged(document, Len(document), seen.verdict)
  BY <1>8 DEF LayoutInv, DocumentInv
<1>10. QED
  BY <1>8, <1>9

\* For every report - any document, circuit and limits - the candidates made
\* are exactly as many as _candidate_count foresaw before any was made, so the
\* limit on constraints refuses neither too much nor too little, and each says
\* something of its own: no two have the same semantic key, within a scope or
\* across scopes.
THEOREM CountAlways == LayoutSpec => []CountIsExact
<1>1. LayoutInit => CountInv
  BY CountStarts
<1>2. CountInv /\ [LayoutNext]_layoutVars => CountInv'
  BY CountKeepsInv
<1>3. CountInv => CountIsExact
  BY CountedExactly
<1>4. QED
  BY <1>1, <1>2, <1>3, PTL DEF LayoutSpec

\* For every report, a caller who declares what infer_layout_constraints gave
\* back is not refused, whatever the devices of the circuit: each candidate has
\* the shape _constraint wants, all of them stay within _MAX_CONSTRAINTS and
\* _MAX_REFERENCES, and validate_layout_conflicts finds no two that contradict
\* each other and nothing that cannot be placed.
THEOREM DeclaredAlways == LayoutSpec => []CandidatesCanBeDeclared
<1>1. LayoutInit => CountInv /\ LayoutInv
  BY CountStarts, LayoutStarts
<1>2. (CountInv /\ LayoutInv) /\ [LayoutNext]_layoutVars => (CountInv /\ LayoutInv)'
  BY CountKeepsInv, LayoutKeepsInv
<1>3. CountInv /\ LayoutInv => CandidatesCanBeDeclared
  BY DeclaredIsNotRefused
<1>4. QED
  BY <1>1, <1>2, <1>3, PTL DEF LayoutSpec
===============================================================================
