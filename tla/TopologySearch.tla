--------------------------- MODULE TopologySearch ---------------------------
(***************************************************************************)
(* generate_candidates with the catalogue the program ships: SearchLoop    *)
(* with every question answered by Catalogue.  The states it may reach are *)
(* the derivations of the specifications given.                            *)
(***************************************************************************)
EXTENDS Catalogue

CONSTANTS
  Specs,
  Requests,
  MaxRecorded,
  MaxSteps      \* no derivation is longer (a bound on the reference sets)

\* What validate and SearchLimits ask of every specification, and a MaxSteps
\* that leaves no derivation out.
ASSUME SpecsAssumption ==
  /\ \A sp \in Specs : /\ Described(sp)
                       /\ MaxCandidates(sp) \in Nat \ {0}
                       /\ MaxStates(sp) \in Nat \ {0} /\ MaxDepth(sp) \in Nat \ {0}
  /\ Requests \subseteq Nat \ {0} /\ MaxRecorded \in Nat
  /\ MaxSteps \in Nat /\ MaxSteps >= 5

VARIABLES spec, requested, queue, seen, completed, explored, pruned, duplicates, serial,
          current, work, ledger, phase, closed

Successors(sp, s) ==
  IF Complete(s) THEN {}
  ELSE {Child(sp, s, r) : r \in {q \in Rules : Answers(q) = FirstKind(s) /\ Permits(sp, s, q)}}

\* Every state derivable from a specification, level by level and unpruned.
Derivable(sp) ==
  LET level[n \in 0..MaxSteps] ==
        IF n = 0 THEN {Start(sp)} ELSE UNION {Successors(sp, s) : s \in level[n - 1]}
  IN  UNION {level[n] : n \in 0..MaxSteps}

\* The complete derivations within the depth limit and free of errors: the
\* reference the search is measured against.
Admitted(sp) ==
  {s \in Derivable(sp) :
     /\ Complete(s) /\ Depth(s) <= MaxDepth(sp)
     /\ \A c \in Codes : FinalErrors(sp, s)[c] = 0}
\* One table, so that the model checker builds it once.
AdmittedBy == [sp \in Specs |-> Admitted(sp)]
AcceptableTo == [sp \in Specs |-> {TopologySignature(sp, s) : s \in AdmittedBy[sp]}]
Acceptable(sp) == AcceptableTo[sp]

\* The spaces of states and signatures are those of the derivations.
INSTANCE SearchLoop
  WITH States <- Derivable,
       Signatures <- UNION {{StateSignature(sp, s) : s \in Derivable(sp)} : sp \in Specs},
       TopologySignatures <-
         UNION {{TopologySignature(sp, s) : s \in Derivable(sp)} : sp \in Specs}

Abstract == INSTANCE Enumeration
              WITH found <- DOMAIN completed,
                   exhausted <- (phase = "done" /\ Exhausted)

\* The search with the shipped rules implements its promise: it only returns
\* acceptable topologies, and when it reports exhausted it returned them all.
ImplementsEnumeration == Abstract!Spec

\* architecture.md: expanding only the first obligation "prevents ordering
\* permutations from producing meaningless duplicates".  With the shipped rules
\* no state is ever reached twice, nor one topology by two derivations.
NoDuplicateWork ==
  /\ duplicates = 0
  /\ phase = "done" =>
       LET built == {s \in closed : Complete(s)}
       IN  Cardinality({TopologySignature(spec, s) : s \in built}) = Cardinality(built)
=============================================================================
