------------------------------- MODULE MCRank -------------------------------
(***************************************************************************)
(* Up to four candidates whose metrics hold chains of three, candidates    *)
(* equal in every metric, pairs that differ in stage_count alone, which    *)
(* has no weight, and pairs that do not dominate each other.               *)
(***************************************************************************)
EXTENDS Rank

Point(devices, headroom, warnings, stages) ==
  [a \in Axes |-> CASE a = "device_count" -> devices [] a = "headroom_units" -> headroom
                    [] a = "review_warnings" -> warnings [] a = "stage_count" -> stages
                    [] OTHER -> 0]

MCSignatures == 1..4
MCMetrics == {Point(5, 2, 0, 1), Point(5, 2, 0, 2), Point(5, 1, 1, 1), Point(7, 2, 1, 1),
              Point(7, 3, 1, 2)}
MCObjectives == {[a \in Weighted |-> 1],
                 [a \in Weighted |-> IF a = "headroom_units" THEN 3 ELSE 0],
                 [a \in Weighted |-> IF a = "symmetry_penalty" THEN 1 ELSE 0]}
=============================================================================
