-------------------------------- MODULE Rank --------------------------------
(***************************************************************************)
(* rank_candidates in rank.py: peel one non-dominated front after another  *)
(* off the candidates, order each front by weighted score.  One Peel is    *)
(* one turn of "while remaining".                                          *)
(***************************************************************************)
EXTENDS Integers, Sequences, FiniteSets, FiniteSetsExt

CONSTANTS
  Signatures,   \* topology signatures, as their position in string order
  Metrics,      \* the metrics a candidate may have
  Objectives    \* the weights a specification may declare

Axes == {"device_count", "headroom_units", "passive_count", "symmetry_penalty",
         "review_warnings", "stage_count"}
\* stage_count has no weight.
Weighted == Axes \ {"stage_count"}

\* DesignSpec.validate: no weight is negative and one is positive.
ASSUME RankAssumption ==
  /\ Signatures \subseteq Nat /\ IsFiniteSet(Signatures)
  /\ Metrics \subseteq [Axes -> Nat]
  /\ Objectives \subseteq {w \in [Weighted -> Nat] : \E a \in Weighted : w[a] > 0}

VARIABLES
  objectives,
  candidates,     \* signature -> metrics, the accepted candidates
  remaining,      \* signatures still to be ranked
  ranked,         \* the result: records of signature, pareto_rank and score
  front_number

rankVars == <<objectives, candidates, remaining, ranked, front_number>>

Dominates(left, right) ==
  /\ \A a \in Axes : left[a] <= right[a]
  /\ \E a \in Axes : left[a] < right[a]

Score(w, m) ==
    m["device_count"] * w["device_count"] + m["headroom_units"] * w["headroom_units"]
  + m["symmetry_penalty"] * w["symmetry_penalty"] + m["passive_count"] * w["passive_count"]
  + m["review_warnings"] * w["review_warnings"]

\* The sort key: score, objective vector, signature.
SortKey(c) ==
  LET m == candidates[c]
  IN  <<Score(objectives, m), m["device_count"], m["headroom_units"], m["passive_count"],
        m["symmetry_penalty"], m["review_warnings"], m["stage_count"], c>>

Before(c, d) ==
  LET p == SortKey(c)
      q == SortKey(d)
  IN  \E i \in DOMAIN p : p[i] < q[i] /\ \A j \in 1..(i - 1) : p[j] = q[j]

RankInit ==
  /\ objectives \in Objectives
  /\ candidates \in UNION {[S -> Metrics] : S \in SUBSET Signatures}
  /\ remaining = DOMAIN candidates
  /\ ranked = <<>>
  /\ front_number = 0

\* sorted by the key: no two candidates have the same one.
InOrder(S) ==
  CHOOSE list \in [1..Cardinality(S) -> S] : \A i, j \in DOMAIN list : i < j => Before(list[i], list[j])

NonDominated ==
  {c \in remaining : \A o \in remaining \ {c} : ~Dominates(candidates[o], candidates[c])}

\* Mutant: a candidate is only compared with those already ranked.
PeelGreedy ==
  /\ remaining # {}
  /\ LET c == CHOOSE x \in remaining : \A y \in remaining \ {x} : Before(x, y)
     IN  /\ ranked' = Append(ranked,
                        [signature |-> c, pareto_rank |-> front_number,
                         score |-> Score(objectives, candidates[c])])
         /\ remaining' = remaining \ {c}
  /\ front_number' = front_number + 1
  /\ UNCHANGED <<objectives, candidates>>

Peel ==
  /\ remaining # {}
  /\ LET decorated(c) == [signature |-> c, pareto_rank |-> front_number,
                          score |-> Score(objectives, candidates[c])]
         front == InOrder(NonDominated)
     IN  ranked' = ranked \o [i \in DOMAIN front |-> decorated(front[i])]
  /\ remaining' = remaining \ NonDominated
  /\ front_number' = front_number + 1
  /\ UNCHANGED <<objectives, candidates>>

RankSpec == RankInit /\ [][Peel]_rankVars
-----------------------------------------------------------------------------
\* A chain of candidates, each dominating the next, that ends just above c.
ChainsAbove(c) ==
  {S \in SUBSET {d \in DOMAIN candidates : Dominates(candidates[d], candidates[c])} :
     \A d, e \in S : d = e \/ Dominates(candidates[d], candidates[e])
                           \/ Dominates(candidates[e], candidates[d])}

ChainLength(c) == Max({Cardinality(S) : S \in ChainsAbove(c)})

\* The peeled front number of a candidate is the length of the longest chain of
\* candidates above it, whatever else is in the list, and each turn of the loop
\* removes all of that length: it ends, also with candidates equal in every
\* metric (rank.py, rank_candidates).
RankIsChainLength ==
  /\ \A i \in DOMAIN ranked : ranked[i].pareto_rank = ChainLength(ranked[i].signature)
  /\ remaining = {c \in DOMAIN candidates : ChainLength(c) >= front_number}
  /\ Len(ranked) + Cardinality(remaining) = Cardinality(DOMAIN candidates)
=============================================================================
