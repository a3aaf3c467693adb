---------------------------- MODULE Enumeration -----------------------------
(***************************************************************************)
(* What generate_candidates promises, without heap, ledger or counters:    *)
(* acceptable topologies are found one at a time, never more than were     *)
(* asked for; the call then stops, and it may say that it exhausted the    *)
(* space only if it found every acceptable topology (docs/architecture.md, *)
(* "whether the heap was fully exhausted").  Acceptable is a declarative   *)
(* set and knows nothing of the order of the search.                       *)
(***************************************************************************)
EXTENDS Naturals, FiniteSets

CONSTANTS
  Specs,
  Requests,
  MaxCandidates(_),
  Acceptable(_)      \* signatures of the topologies a specification admits

VARIABLES spec, requested, found, phase, exhausted

vars == <<spec, requested, found, phase, exhausted>>

\* As many as were asked for, within what the specification permits.
Granted(sp, n) == IF n < MaxCandidates(sp) THEN n ELSE MaxCandidates(sp)

Init ==
  /\ spec \in Specs
  /\ requested \in {Granted(spec, n) : n \in Requests}
  /\ found = {}
  /\ phase = "search"
  /\ exhausted = FALSE

Find(t) ==
  /\ phase = "search"
  /\ Cardinality(found) < requested
  /\ found' = found \cup {t}
  /\ UNCHANGED <<spec, requested, phase, exhausted>>

\* exhausted may be claimed only when nothing acceptable is missing.
Stop ==
  /\ phase = "search"
  /\ phase' = "done"
  /\ exhausted' \in {e \in BOOLEAN : e => Acceptable(spec) = found}
  /\ UNCHANGED <<spec, requested, found>>

\* The function has returned and is called again: nothing of the last call is
\* left.
CallAgain ==
  /\ phase = "done"
  /\ spec' \in Specs
  /\ requested' \in {Granted(spec', n) : n \in Requests}
  /\ found' = {} /\ phase' = "search" /\ exhausted' = FALSE

Next == (\E t \in Acceptable(spec) \ found : Find(t)) \/ Stop \/ CallAgain

Spec == Init /\ [][Next]_vars
=============================================================================
