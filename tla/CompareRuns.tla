----------------------------- MODULE CompareRuns -----------------------------
(***************************************************************************)
(* "topology-lantern diff": two searches, one after the other, and the     *)
(* comparison of their results in compare.py.  A result keeps of the       *)
(* search what diff_results reads; the rank positions are left out, so     *)
(* what is compared is which topologies each run lacks, and why.           *)
(***************************************************************************)
EXTENDS TopologySearch

CONSTANT Comparisons    \* the pairs <<left, right>> of specifications compared

VARIABLES
  limit,       \* the limit argument, the same for both runs
  results      \* of the runs that have returned: left, then right

searchVars == <<spec, requested, queue, seen, completed, explored, pruned, duplicates, serial,
                current, work, ledger, phase, closed>>
compareVars == <<searchVars, limit, results>>

\* GenerationResult, as far as the comparison reads it.
Result ==
  [spec |-> spec, candidates |-> completed, exhausted |-> Exhausted, ledger |-> ledger]

CompareInit ==
  /\ Init
  /\ limit \in Requests /\ requested = Clipped(spec, limit)
  /\ results = <<>>

\* generate_candidates for the left specification, then for the right one.
Search == Next /\ UNCHANGED <<limit, results>>

\* A run returns; after the left one the right one starts.
Collect(sp) ==
  /\ phase = "done"
  /\ Len(results) < 2
  /\ results' = Append(results, Result)
  /\ UNCHANGED limit
  /\ IF results = <<>>
     THEN /\ <<spec, sp>> \in Comparisons
          /\ spec' = sp
          /\ requested' = Clipped(sp, limit)
          /\ queue' = {[serial |-> 0, state |-> Start(sp)]}
          /\ seen' = {StateSignature(sp, Start(sp))}
          /\ completed' = [t \in {} |-> Start(sp)]
          /\ explored' = 0 /\ pruned' = 0 /\ duplicates' = 0 /\ serial' = 0
          /\ current' = Start(sp)
          /\ work' = {} /\ ledger' = EmptyLedger /\ phase' = "search" /\ closed' = {}
     ELSE sp = spec /\ UNCHANGED searchVars

CompareNext == Search \/ \E sp \in Specs : Collect(sp)

CompareSpec == CompareInit /\ [][CompareNext]_compareVars
-----------------------------------------------------------------------------
Compared == Len(results) = 2
Pairs == {<<1, 2>>, <<2, 1>>}

RulesOf(result, t) == Range(result.candidates[t].trace)

\* _universal_rules
Universal(result) ==
  IF DOMAIN result.candidates = {} THEN {}
  ELSE {r \in Rules : \A t \in DOMAIN result.candidates : r \in RulesOf(result, t)}

\* _absent: the topologies of one result that the other lacks, and the reasons.
Absent(own, other) == DOMAIN own.candidates \ DOMAIN other.candidates
Refusal(other, t) == {x \in other.ledger.refused : x.signature = t}
BlockedBy(own, other, t) == RulesOf(own, t) \cap ClosedOff(other.ledger)
Lacks(own, other, t) == Universal(other) \ RulesOf(own, t)

Absence(own, other, t) ==
  IF Refusal(other, t) # {} THEN "refused"
  ELSE IF BlockedBy(own, other, t) # {} THEN "rule_closed"
  ELSE IF Lacks(own, other, t) # {} THEN "lacks_universal"
  ELSE "not_reached"

\* ResultDiff.limited
Limited == \E i \in DOMAIN results : ~results[i].exhausted
-----------------------------------------------------------------------------
\* Graphs are compared here as graphs, whatever budget their run signed with.
SameGraph(s, t) == ExactEncodings(s.topology) = ExactEncodings(t.topology)

CompleteStates == [sp \in Specs |-> {s \in Derivable(sp) : Complete(s)}]

\* For a pair of runs <<own, other>>: what the other lacks, why, and which
\* complete derivations of its specification build the same graph.
Gap(p) == Absent(results[p[1]], results[p[2]])
Reason(p, t) == Absence(results[p[1]], results[p[2]], t)
Builds(p, t) ==
  {s \in CompleteStates[results[p[2]].spec] : SameGraph(s, results[p[1]].candidates[t])}

\* "cannot exist under the other specification, which closed off ..."
\* (compare.py, explanation): no derivation of the other specification, within
\* its limits or beyond them, builds the same graph.
ClosedOffIsProof ==
  Compared => \A p \in Pairs : \A t \in Gap(p) :
                Reason(p, t) = "rule_closed" => Builds(p, t) = {}

\* The right specification asks for the same circuit and permits at least as
\* much as the left one.
Relaxes(right, left) ==
  /\ \A f \in {"input_mode", "output_mode", "polarity", "require_compensation", "limits"} :
        right[f] = left[f]
  /\ right.load_preference \in {left.load_preference, "either"}
  /\ left.allow_resistive_bias => right.allow_resistive_bias
  /\ left.allowed_devices \subseteq right.allowed_devices

\* Permitting more loses nothing: between two finished searches, every topology
\* of the stricter specification is found by the more permissive one.
RelaxingKeepsTopologies ==
  Compared => \A p \in Pairs :
    Relaxes(results[p[2]].spec, results[p[1]].spec) /\ ~Limited => Gap(p) = {}
-----------------------------------------------------------------------------
\* compare.py, limited: an absence that may "simply lie beyond the budget" is
\* flagged.  Here the budget is max_depth, the only limit left aside.
DepthIsFlagged ==
  Compared => \A p \in Pairs : \A t \in Gap(p) :
    (\E s \in Builds(p, t) : \A c \in Codes : FinalErrors(results[p[2]].spec, s)[c] = 0)
      => Limited
=============================================================================
