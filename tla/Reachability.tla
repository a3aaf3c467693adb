---------------------------- MODULE Reachability ----------------------------
(***************************************************************************)
(* What can be reached from a set of vertices in a graph given by its      *)
(* successor function.                                                     *)
(***************************************************************************)
EXTENDS Naturals, FiniteSets

Reachable(successors, roots) ==
  LET within[n \in Nat] ==
        IF n = 0 THEN roots
        ELSE LET closer == within[n - 1] IN closer \cup UNION {successors[v] : v \in closer}
  IN within[Cardinality(DOMAIN successors)]
=============================================================================
