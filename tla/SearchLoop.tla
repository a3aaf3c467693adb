----------------------------- MODULE SearchLoop -----------------------------
(***************************************************************************)
(* The bounded best-first search of search.py (generate_candidates and     *)
(* candidate_from_state), for an arbitrary rule catalogue.                 *)
(*                                                                         *)
(* What a specification, a search state or a signature is does not matter  *)
(* to the loop: it only asks the questions declared as CONSTANTS below.    *)
(* TopologySearch answers them with the nine rules of rules.py; the proofs *)
(* in SearchLoopProofs hold for every answer.                              *)
(*                                                                         *)
(* One action is one turn of the while loop up to its continue, except     *)
(* that the inner "for rule in rules" is one ApplyRule step per rule.      *)
(***************************************************************************)
EXTENDS Ledger, Functions

CONSTANTS
  Specs,                     \* the specifications a caller may pass
  Requests,                  \* the values of the limit argument
  States(_),                 \* the search states (topology, obligations, facts, trace) of a spec
  Signatures,                \* values of state_signature
  TopologySignatures,        \* values of topology_signature
  MaxCandidates(_),          \* spec.limits.max_candidates
  MaxStates(_),              \* spec.limits.max_states
  MaxDepth(_),               \* spec.limits.max_depth
  Start(_),                  \* initial_state(spec)
  Depth(_),                  \* len(state.trace)
  Complete(_),               \* no obligation is left
  FirstKind(_),              \* the kind of state.obligations[0]
  Answers(_),                \* the obligation kind a rule answers
  Position(_),               \* its place in the RULES tuple
  Permits(_, _, _),          \* a rule's predicate: (spec, state, rule)
  Child(_, _, _),            \* rule.apply: (spec, state, rule)
  StateSignature(_, _),      \* state_signature: (spec, state)
  TopologySignature(_, _),   \* topology_signature: (spec, state)
  PartialErrors(_, _),       \* errors of partial_violations: (spec, state)
  FinalErrors(_, _),         \* errors of final_violations: (spec, state)
  Precedes(_, _)             \* _priority(first) < _priority(second)

Governing(s) == {r \in Rules : Answers(r) = FirstKind(s)}
Applicable(sp, s) == {r \in Governing(s) : Permits(sp, s, r)}

ASSUME LimitsAssumption ==
  /\ Requests \subseteq Nat \ {0}
  /\ \A sp \in Specs : /\ MaxCandidates(sp) \in Nat \ {0}
                       /\ MaxStates(sp) \in Nat \ {0}
                       /\ MaxDepth(sp) \in Nat \ {0}

ASSUME ProblemAssumption ==
  \A sp \in Specs :
    /\ Start(sp) \in States(sp)
    /\ \A s \in States(sp) :
         /\ Depth(s) \in Nat
         /\ Complete(s) \in BOOLEAN
         /\ StateSignature(sp, s) \in Signatures
         /\ TopologySignature(sp, s) \in TopologySignatures
         /\ PartialErrors(sp, s) \in ErrorCounts
         /\ FinalErrors(sp, s) \in ErrorCounts
         /\ ~Complete(s) =>
              /\ FirstKind(s) \in Kinds
              /\ \A r \in Applicable(sp, s) : Child(sp, s, r) \in States(sp)

ASSUME CatalogueAssumption == IsFiniteSet(Rules) /\ \A r \in Rules : Position(r) \in Nat

\* canonical.py: a state with the signature of another has the same future, so
\* the search may drop it as a duplicate.
SameFuture(sp, s, t) ==
  /\ Depth(s) = Depth(t) /\ Complete(s) = Complete(t)
  /\ TopologySignature(sp, s) = TopologySignature(sp, t)
  /\ HasError(PartialErrors(sp, s)) = HasError(PartialErrors(sp, t))
  /\ HasError(FinalErrors(sp, s)) = HasError(FinalErrors(sp, t))
  /\ ~Complete(s) =>
       /\ Applicable(sp, s) = Applicable(sp, t)
       /\ \A r \in Applicable(sp, s) :
            StateSignature(sp, Child(sp, s, r)) = StateSignature(sp, Child(sp, t, r))

ASSUME SignatureAssumption ==
  \A sp \in Specs : \A s \in States(sp), t \in States(sp) :
    StateSignature(sp, s) = StateSignature(sp, t) => SameFuture(sp, s, t)

\* architecture.md: what a partial check finds, "cannot be repaired by a later
\* obligation", and final_violations repeats it.
ASSUME PruningAssumption ==
  \A sp \in Specs : \A s \in States(sp) :
    /\ Complete(s) /\ HasError(PartialErrors(sp, s)) => HasError(FinalErrors(sp, s))
    /\ ~Complete(s) =>
         \A r \in Applicable(sp, s) :
           /\ Depth(Child(sp, s, r)) >= Depth(s)
           /\ HasError(PartialErrors(sp, s)) => HasError(PartialErrors(sp, Child(sp, s, r)))

VARIABLES
  spec,        \* the specification this call searches
  requested,   \* min(limit, max_candidates)
  queue,       \* the heap: entries [serial, state]
  seen,        \* signatures of every state ever pushed
  completed,   \* topology signature -> the first accepted state that has it
  explored, pruned, duplicates, serial,
  current,     \* the state whose rules are being applied
  work,        \* the rules of current still to apply; {} between turns
  ledger,
  phase,       \* "search" until the while loop ends, then "done"
  closed       \* history: every state popped so far

loopVars == <<queue, seen, completed, explored, pruned, duplicates, serial,
              current, work, ledger, phase, closed>>
vars == <<spec, requested, loopVars>>

\* Mutant: the clipped limit is one short.
ClippedShort(sp, n) == (IF n < MaxCandidates(sp) THEN n ELSE MaxCandidates(sp)) - 1

\* requested = min(limit, max_candidates)
Clipped(sp, n) == IF n < MaxCandidates(sp) THEN n ELSE MaxCandidates(sp)

Entry == [serial : Nat, state : States(spec)]

Init ==
  /\ spec \in Specs
  /\ requested \in {Clipped(spec, n) : n \in Requests}
  /\ queue = {[serial |-> 0, state |-> Start(spec)]}
  /\ seen = {StateSignature(spec, Start(spec))}
  /\ completed = [t \in {} |-> Start(spec)]
  /\ explored = 0 /\ pruned = 0 /\ duplicates = 0 /\ serial = 0
  /\ current = Start(spec)
  /\ work = {}
  /\ ledger = EmptyLedger
  /\ phase = "search"
  /\ closed = {}
-----------------------------------------------------------------------------
\* Mutant: the candidate limit is compared one too late.
WithinBudgetLate ==
  /\ queue # {}
  /\ explored < MaxStates(spec)
  /\ Cardinality(DOMAIN completed) <= requested

WithinBudget ==
  /\ queue # {}
  /\ explored < MaxStates(spec)
  /\ Cardinality(DOMAIN completed) < requested

\* The heap holds (priority, serial, state), compared in this order.
Least(e) ==
  \A f \in queue \ {e} :
    \/ Precedes(e.state, f.state)
    \/ ~Precedes(f.state, e.state) /\ e.serial < f.serial

\* Mutant: the heap is read and not popped.
PopPeek(e) ==
  /\ phase = "search" /\ work = {} /\ WithinBudget /\ Least(e)
  /\ explored' = explored + 1
  /\ current' = e.state
  /\ closed' = closed \cup {e.state}
  /\ UNCHANGED <<spec, requested, queue, seen, duplicates, serial, phase>>

\* heappop, and the counter that goes with it.
Pop(e) ==
  /\ phase = "search"
  /\ work = {}
  /\ WithinBudget
  /\ Least(e)
  /\ queue' = queue \ {e}
  /\ explored' = explored + 1
  /\ current' = e.state
  /\ closed' = closed \cup {e.state}
  /\ UNCHANGED <<spec, requested, seen, duplicates, serial, phase>>

\* Mutant: a derivation of max_depth rules is already too deep.
TooDeepEarly(s) == Depth(s) >= MaxDepth(spec)

TooDeep(s) == Depth(s) > MaxDepth(spec)
Doomed(s) == HasError(PartialErrors(spec, s))
Survives(s) == ~TooDeep(s) /\ ~Doomed(s)

PruneDeep(e) ==
  /\ Pop(e)
  /\ TooDeep(e.state)
  /\ pruned' = pruned + 1
  /\ ledger' = RecordDepth(ledger)
  /\ UNCHANGED <<completed, work>>

PrunePartial(e) ==
  /\ Pop(e)
  /\ ~TooDeep(e.state) /\ Doomed(e.state)
  /\ pruned' = pruned + 1
  /\ ledger' = RecordPartial(ledger, PartialErrors(spec, e.state))
  /\ UNCHANGED <<completed, work>>

RefuseFinal(e) ==
  /\ Pop(e)
  /\ Survives(e.state) /\ Complete(e.state)
  /\ HasError(FinalErrors(spec, e.state))
  /\ pruned' = pruned + 1
  /\ ledger' = RecordFinal(ledger, TopologySignature(spec, e.state),
                           FinalErrors(spec, e.state))
  /\ UNCHANGED <<completed, work>>

\* completed.setdefault(signature, candidate)
Accept(e) ==
  /\ Pop(e)
  /\ Survives(e.state) /\ Complete(e.state)
  /\ ~HasError(FinalErrors(spec, e.state))
  /\ completed' = [t \in DOMAIN completed \cup {TopologySignature(spec, e.state)} |->
                     IF t \in DOMAIN completed THEN completed[t] ELSE e.state]
  /\ UNCHANGED <<pruned, ledger, work>>

NoRule(e) ==
  /\ Pop(e)
  /\ Survives(e.state) /\ ~Complete(e.state)
  /\ Applicable(spec, e.state) = {}
  /\ pruned' = pruned + 1
  /\ ledger' = RecordNoRule(RecordRules(ledger, Governing(e.state), {}), FirstKind(e.state))
  /\ UNCHANGED <<completed, work>>

\* Mutant: only the first applicable rule is followed.
ExpandFirst(e) ==
  /\ Pop(e)
  /\ Survives(e.state) /\ ~Complete(e.state)
  /\ Applicable(spec, e.state) # {}
  /\ work' = {CHOOSE r \in Applicable(spec, e.state) :
                \A q \in Applicable(spec, e.state) : Position(r) <= Position(q)}
  /\ ledger' = RecordRules(ledger, Governing(e.state), Applicable(spec, e.state))
  /\ UNCHANGED <<completed, pruned>>

Expand(e) ==
  /\ Pop(e)
  /\ Survives(e.state) /\ ~Complete(e.state)
  /\ Applicable(spec, e.state) # {}
  /\ work' = Applicable(spec, e.state)
  /\ ledger' = RecordRules(ledger, Governing(e.state), Applicable(spec, e.state))
  /\ UNCHANGED <<completed, pruned>>

\* One turn of the inner loop, in catalogue order.
ApplyRule(r) ==
  /\ phase = "search"
  /\ r \in work
  /\ \A q \in work : Position(r) <= Position(q)
  /\ work' = work \ {r}
  /\ LET child == Child(spec, current, r)
         signature == StateSignature(spec, child)
     IN  \/ /\ signature \in seen
            /\ duplicates' = duplicates + 1
            /\ UNCHANGED <<queue, seen, serial>>
         \/ /\ signature \notin seen
            /\ seen' = seen \cup {signature}
            /\ serial' = serial + 1
            /\ queue' = queue \cup {[serial |-> serial + 1, state |-> child]}
            /\ UNCHANGED duplicates
  /\ UNCHANGED <<spec, requested, completed, explored, pruned, current, ledger, phase, closed>>

\* Mutant: only an empty heap ends the search.
ReturnOnEmpty ==
  /\ phase = "search"
  /\ work = {}
  /\ queue = {}
  /\ phase' = "done"
  /\ UNCHANGED <<spec, requested, queue, seen, completed, explored, pruned, duplicates,
                 serial, current, work, ledger, closed>>

\* The while condition fails: the result is ranked and returned.
Return ==
  /\ phase = "search"
  /\ work = {}
  /\ ~WithinBudget
  /\ phase' = "done"
  /\ UNCHANGED <<spec, requested, queue, seen, completed, explored, pruned, duplicates,
                 serial, current, work, ledger, closed>>

Next ==
  \/ \E e \in queue :
       \/ PruneDeep(e)
       \/ PrunePartial(e)
       \/ RefuseFinal(e)
       \/ Accept(e)
       \/ NoRule(e)
       \/ Expand(e)
  \/ \E r \in work : ApplyRule(r)
  \/ Return

Spec == Init /\ [][Next]_vars
\* A call runs until it returns: nothing in the loop blocks.
FairSpec == Spec /\ WF_vars(Next)

\* GenerationResult.exhausted
Exhausted == queue = {}
-----------------------------------------------------------------------------
LedgerType ==
  [applied : [Rules -> Nat], declined : [Rules -> Nat], causes : [Causes -> Nat],
   codes : [Codes -> Nat], obligations : [Kinds -> Nat],
   refused : SUBSET [signature : TopologySignatures, errors : ErrorCounts],
   seen : SUBSET TopologySignatures, truncated : BOOLEAN]

\* The shape of every variable; the counters are naturals, never negative.
TypeOK ==
  /\ spec \in Specs /\ requested \in Nat \ {0}
  /\ queue \subseteq Entry /\ seen \subseteq Signatures
  /\ DOMAIN completed \subseteq TopologySignatures
  /\ completed \in [DOMAIN completed -> States(spec)]
  /\ explored \in Nat /\ pruned \in Nat /\ duplicates \in Nat /\ serial \in Nat
  /\ current \in States(spec) /\ work \subseteq Rules
  /\ ledger \in LedgerType
  /\ phase \in {"search", "done"} /\ closed \subseteq States(spec)

\* The ledger explains every prune: the rejections it files by cause are
\* exactly the states the loop counted in pruned_states.
LedgerAccounts == Rejected(ledger) = pruned

\* No state is lost and none is handled twice: each pushed signature belongs to
\* one state, which is in the heap or has been popped, and never both.
Bookkeeping ==
  /\ seen = {StateSignature(spec, s) : s \in closed \cup {e.state : e \in queue}}
  /\ Cardinality(seen) = serial + 1
  /\ Cardinality(closed) = explored
  /\ explored + Cardinality(queue) = serial + 1

Rejects(s) == HasError(FinalErrors(spec, s))
Viable == {s \in closed : Survives(s)}

\* The rule has been applied to s and its result is known.
Followed(s, r) == StateSignature(spec, Child(spec, s, r)) \in seen

\* A popped state that survived pruning is settled: if complete, its topology
\* is a candidate or was refused; if not, each applicable rule was followed,
\* except those still in hand.
Frontier ==
  \A s \in Viable :
    /\ Complete(s) /\ ~Rejects(s) => TopologySignature(spec, s) \in DOMAIN completed
    /\ ~Complete(s) => \A r \in Applicable(spec, s) :
                          Followed(s, r) \/ (s = current /\ r \in work)

\* What exhausted promises (architecture.md, "whether the heap was fully
\* exhausted"): the popped states contain the start and are closed under every
\* applicable rule up to signature, and no acceptable topology among them is
\* missing from the result.
ExhaustedIsComplete ==
  phase = "done" /\ Exhausted =>
    /\ Start(spec) \in closed
    /\ \A s \in Viable :
         /\ Complete(s) /\ ~Rejects(s) => TopologySignature(spec, s) \in DOMAIN completed
         /\ ~Complete(s) =>
              \A r \in Applicable(spec, s) :
                \E d \in closed :
                  StateSignature(spec, d) = StateSignature(spec, Child(spec, s, r))

\* A candidate is what its key says: a complete, popped state without errors
\* whose topology has that signature, and there are never more than requested.
CandidatesSound ==
  /\ \A t \in DOMAIN completed :
       /\ completed[t] \in Viable
       /\ Complete(completed[t]) /\ ~Rejects(completed[t])
       /\ TopologySignature(spec, completed[t]) = t
  /\ Cardinality(DOMAIN completed) <= requested

\* The bounded refusal record (LedgerRecorder.final): one entry for a topology,
\* never more than the bound, and while it is not truncated the absence of a
\* signature proves that no such topology was built and refused.
RefusalRecord ==
  /\ ledger.seen = {x.signature : x \in ledger.refused}
  /\ \A x, y \in ledger.refused : x.signature = y.signature => x = y
  /\ Cardinality(ledger.refused) <= MaxRecorded
  /\ ledger.truncated => Cardinality(ledger.refused) = MaxRecorded
  /\ ~ledger.truncated =>
       \A s \in Viable : Complete(s) /\ Rejects(s) => TopologySignature(spec, s) \in ledger.seen

\* generate_candidates returns.
Terminates == <>(phase = "done")
=============================================================================
