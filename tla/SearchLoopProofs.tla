-------------------------- MODULE SearchLoopProofs --------------------------
(***************************************************************************)
(* What holds of the search loop for every rule catalogue, every           *)
(* specification and every limit.                                          *)
(***************************************************************************)
EXTENDS SearchLoop, FiniteSetTheorems, TLAPS

(***************************************************************************)
(* The ledger operators keep the shape of the ledger and file one          *)
(* rejection each, except RecordRules, which files none.                   *)
(***************************************************************************)
LEMMA EmptyLedgerFacts == EmptyLedger \in LedgerType /\ Rejected(EmptyLedger) = 0
  BY DEF EmptyLedger, LedgerType, Rejected, Causes, ErrorCounts

LEMMA IncrementType ==
  ASSUME NEW D, NEW f \in [D -> Nat], NEW K
  PROVE  Increment(f, K) \in [D -> Nat]
  BY DEF Increment

LEMMA RecordRulesFacts ==
  ASSUME NEW l \in LedgerType, NEW G, NEW P
  PROVE  /\ RecordRules(l, G, P) \in LedgerType
         /\ Rejected(RecordRules(l, G, P)) = Rejected(l)
         /\ RecordRules(l, G, P).refused = l.refused
         /\ RecordRules(l, G, P).seen = l.seen
         /\ RecordRules(l, G, P).truncated = l.truncated
<1> DEFINE a == Increment(l.applied, G \cap P)
           d == Increment(l.declined, G \ P)
<1>1. a \in [Rules -> Nat] /\ d \in [Rules -> Nat]
  BY IncrementType DEF LedgerType
<1> HIDE DEF a, d
<1>2. [l EXCEPT !.applied = a, !.declined = d] \in LedgerType
  BY <1>1 DEF LedgerType
<1>3. QED
  BY <1>1, <1>2 DEF RecordRules, LedgerType, Rejected, a, d

LEMMA RejectFacts ==
  ASSUME NEW l \in LedgerType, NEW cause \in Causes, NEW errors \in ErrorCounts
  PROVE  /\ Reject(l, cause, errors) \in LedgerType
         /\ Rejected(Reject(l, cause, errors)) = Rejected(l) + 1
         /\ Reject(l, cause, errors).refused = l.refused
         /\ Reject(l, cause, errors).seen = l.seen
         /\ Reject(l, cause, errors).truncated = l.truncated
         /\ Reject(l, cause, errors).obligations = l.obligations
<1> DEFINE n == Increment(l.causes, {cause})
           c == CountCodes(l.codes, errors)
<1>1. n \in [Causes -> Nat]
  BY IncrementType DEF LedgerType
<1>2. c \in [Codes -> Nat]
  BY DEF CountCodes, LedgerType, ErrorCounts
<1>3.   n["depth_limit"] + n["partial_violation"]
      + n["no_applicable_rule"] + n["final_violation"] = Rejected(l) + 1
  BY DEF LedgerType, Causes, Increment, Rejected
<1> HIDE DEF n, c
<1>4. [l EXCEPT !.causes = n, !.codes = c] \in LedgerType
  BY <1>1, <1>2 DEF LedgerType
<1>5. Reject(l, cause, errors) = [l EXCEPT !.causes = n, !.codes = c]
  BY DEF Reject, n, c
<1>6. [l EXCEPT !.causes = n, !.codes = c].causes = n
  BY DEF LedgerType
<1>7. QED
  BY <1>3, <1>4, <1>5, <1>6 DEF Rejected, LedgerType

LEMMA NoErrorsType == NoErrors \in ErrorCounts
  BY DEF NoErrors, ErrorCounts

LEMMA RecordNoRuleFacts ==
  ASSUME NEW l \in LedgerType, NEW kind
  PROVE  /\ RecordNoRule(l, kind) \in LedgerType
         /\ Rejected(RecordNoRule(l, kind)) = Rejected(l) + 1
         /\ RecordNoRule(l, kind).refused = l.refused
         /\ RecordNoRule(l, kind).seen = l.seen
         /\ RecordNoRule(l, kind).truncated = l.truncated
<1> DEFINE m == Reject(l, "no_applicable_rule", NoErrors)
           o == Increment(l.obligations, {kind})
<1>1. /\ m \in LedgerType /\ Rejected(m) = Rejected(l) + 1
      /\ m.refused = l.refused /\ m.seen = l.seen /\ m.truncated = l.truncated
  BY RejectFacts, NoErrorsType DEF Causes
<1>2. o \in [Kinds -> Nat]
  BY IncrementType DEF LedgerType
<1> HIDE DEF m, o
<1>3. [m EXCEPT !.obligations = o] \in LedgerType
  BY <1>1, <1>2 DEF LedgerType
<1>4. RecordNoRule(l, kind) = [m EXCEPT !.obligations = o]
  BY DEF RecordNoRule, m, o
<1>5. QED
  BY <1>1, <1>3, <1>4 DEF LedgerType, Rejected

LEMMA RecordFinalFacts ==
  ASSUME NEW l \in LedgerType, NEW t \in TopologySignatures, NEW errors \in ErrorCounts
  PROVE  LET full == Cardinality(l.refused) >= MaxRecorded
             new  == [signature |-> t, errors |-> errors]
             next == RecordFinal(l, t, errors)
         IN  /\ next \in LedgerType
             /\ Rejected(next) = Rejected(l) + 1
             /\ t \in l.seen => next.seen = l.seen /\ next.refused = l.refused
                                /\ next.truncated = l.truncated
             /\ t \notin l.seen /\ full => next.seen = l.seen /\ next.refused = l.refused
                                           /\ next.truncated
             /\ t \notin l.seen /\ ~full => /\ next.seen = l.seen \cup {t}
                                            /\ next.refused = l.refused \cup {new}
                                            /\ next.truncated = l.truncated
<1> DEFINE m == Reject(l, "final_violation", errors)
           full == Cardinality(l.refused) >= MaxRecorded
           keep == t \in l.seen \/ full
           new  == [signature |-> t, errors |-> errors]
           cut == l.truncated \/ (t \notin l.seen /\ full)
           s == IF keep THEN l.seen ELSE l.seen \cup {t}
           f == IF keep THEN l.refused ELSE l.refused \cup {new}
<1>1. m \in LedgerType /\ Rejected(m) = Rejected(l) + 1
  BY RejectFacts DEF Causes
<1>2. l.refused \in SUBSET [signature : TopologySignatures, errors : ErrorCounts]
  BY DEF LedgerType
<1>3. l.seen \in SUBSET TopologySignatures /\ l.truncated \in BOOLEAN
  BY DEF LedgerType
<1>4. /\ s \in SUBSET TopologySignatures
      /\ f \in SUBSET [signature : TopologySignatures, errors : ErrorCounts]
      /\ cut \in BOOLEAN
  BY <1>2, <1>3
<1>5. RecordFinal(l, t, errors) = [m EXCEPT !.truncated = cut, !.seen = s, !.refused = f]
  BY DEF RecordFinal
<1>6. /\ t \in l.seen => s = l.seen /\ f = l.refused /\ cut = l.truncated
      /\ t \notin l.seen /\ full => s = l.seen /\ f = l.refused /\ cut
      /\ t \notin l.seen /\ ~full => s = l.seen \cup {t} /\ f = l.refused \cup {new}
                                     /\ cut = l.truncated
  BY <1>3
<1> HIDE DEF m, s, f, cut, full, keep
<1>7. [m EXCEPT !.truncated = cut, !.seen = s, !.refused = f] \in LedgerType
  BY <1>1, <1>4 DEF LedgerType
<1>8. /\ [m EXCEPT !.truncated = cut, !.seen = s, !.refused = f].truncated = cut
      /\ [m EXCEPT !.truncated = cut, !.seen = s, !.refused = f].seen = s
      /\ [m EXCEPT !.truncated = cut, !.seen = s, !.refused = f].refused = f
      /\ [m EXCEPT !.truncated = cut, !.seen = s, !.refused = f].causes = m.causes
  BY <1>1 DEF LedgerType
<1>9. Rejected([m EXCEPT !.truncated = cut, !.seen = s, !.refused = f]) = Rejected(l) + 1
  BY <1>1, <1>8 DEF Rejected
<1>10. QED
  BY <1>5, <1>6, <1>7, <1>8, <1>9 DEF full

(***************************************************************************)
(* Facts about the questions the loop asks, from ProblemAssumption.        *)
(***************************************************************************)
LEMMA SpecFacts ==
  ASSUME NEW sp \in Specs
  PROVE  /\ Start(sp) \in States(sp)
         /\ MaxCandidates(sp) \in Nat \ {0}
  BY LimitsAssumption, ProblemAssumption

LEMMA StateFacts ==
  ASSUME NEW sp \in Specs, NEW s \in States(sp)
  PROVE  /\ StateSignature(sp, s) \in Signatures
         /\ TopologySignature(sp, s) \in TopologySignatures
         /\ PartialErrors(sp, s) \in ErrorCounts
         /\ FinalErrors(sp, s) \in ErrorCounts
         /\ Complete(s) \in BOOLEAN
  BY ProblemAssumption

LEMMA ChildType ==
  ASSUME NEW sp \in Specs, NEW s \in States(sp), ~Complete(s), NEW r \in Applicable(sp, s)
  PROVE  Child(sp, s, r) \in States(sp)
  BY ProblemAssumption

\* The state whose rules are in hand is incomplete, and the rules permitted.
WorkInv == work # {} => ~Complete(current) /\ work \subseteq Applicable(spec, current)

(***************************************************************************)
(* Type correctness.  WorkInv strengthens TypeOK: without it a child could *)
(* be built by a rule that does not apply, and need not be a state.        *)
(***************************************************************************)
LEMMA TypeInit == Init => TypeOK /\ WorkInv
<1> SUFFICES ASSUME Init PROVE TypeOK /\ WorkInv
  OBVIOUS
<1>1. spec \in Specs /\ Start(spec) \in States(spec)
  BY SpecFacts DEF Init
<1>2. requested \in Nat \ {0}
  BY SpecFacts, LimitsAssumption DEF Init, Clipped
<1>3. queue \subseteq Entry /\ seen \subseteq Signatures
  BY <1>1, StateFacts DEF Init, Entry
<1>4. DOMAIN completed = {} /\ completed \in [DOMAIN completed -> States(spec)]
  BY DEF Init
<1>5. ledger \in LedgerType
  BY EmptyLedgerFacts DEF Init
<1>6. QED
  BY <1>1, <1>2, <1>3, <1>4, <1>5 DEF Init, TypeOK, WorkInv

\* The shape of the variables, given that a step keeps the specification.
LEMMA TypeKept ==
  ASSUME spec' = spec, spec \in Specs
  PROVE  Entry' = Entry /\ States(spec)' = States(spec)
  BY DEF Entry

LEMMA TypePop ==
  ASSUME TypeOK, NEW e \in queue, Pop(e)
  PROVE  /\ spec' \in Specs /\ requested' \in Nat \ {0}
         /\ queue' \subseteq Entry' /\ seen' \subseteq Signatures
         /\ explored' \in Nat /\ duplicates' \in Nat /\ serial' \in Nat
         /\ current' \in States(spec)' /\ phase' \in {"search", "done"} /\ closed' \subseteq States(spec)'
         /\ e.state \in States(spec) /\ work = {} /\ spec' = spec
  BY TypeKept DEF TypeOK, Pop, Entry

LEMMA TypeNext == TypeOK /\ WorkInv /\ [Next]_vars => TypeOK' /\ WorkInv'
<1> SUFFICES ASSUME TypeOK, WorkInv, [Next]_vars PROVE TypeOK' /\ WorkInv'
  OBVIOUS
<1>1. ASSUME NEW e \in queue, PruneDeep(e) PROVE TypeOK' /\ WorkInv'
  <2>1. Pop(e) /\ pruned' = pruned + 1 /\ completed' = completed /\ work' = work
        /\ ledger' = RecordDepth(ledger)
    BY <1>1 DEF PruneDeep
  <2>2. ledger' \in LedgerType
    BY <2>1, RejectFacts, NoErrorsType DEF TypeOK, RecordDepth, Causes
  <2>3. QED
    BY <2>1, <2>2, TypePop, TypeKept DEF TypeOK, WorkInv
<1>2. ASSUME NEW e \in queue, PrunePartial(e) PROVE TypeOK' /\ WorkInv'
  <2>1. Pop(e) /\ pruned' = pruned + 1 /\ completed' = completed /\ work' = work
        /\ ledger' = RecordPartial(ledger, PartialErrors(spec, e.state))
    BY <1>2 DEF PrunePartial
  <2>2. ledger' \in LedgerType
    BY <2>1, TypePop, StateFacts, RejectFacts DEF TypeOK, RecordPartial, Causes
  <2>3. QED
    BY <2>1, <2>2, TypePop, TypeKept DEF TypeOK, WorkInv
<1>3. ASSUME NEW e \in queue, RefuseFinal(e) PROVE TypeOK' /\ WorkInv'
  <2>1. Pop(e) /\ pruned' = pruned + 1 /\ completed' = completed /\ work' = work
        /\ ledger' = RecordFinal(ledger, TopologySignature(spec, e.state),
                                 FinalErrors(spec, e.state))
    BY <1>3 DEF RefuseFinal
  <2>2. ledger' \in LedgerType
    BY <2>1, TypePop, StateFacts, RecordFinalFacts DEF TypeOK
  <2>3. QED
    BY <2>1, <2>2, TypePop, TypeKept DEF TypeOK, WorkInv
<1>4. ASSUME NEW e \in queue, Accept(e) PROVE TypeOK' /\ WorkInv'
  <2>1. Pop(e) /\ pruned' = pruned /\ ledger' = ledger /\ work' = work
    BY <1>4 DEF Accept
  <2>2. TopologySignature(spec, e.state) \in TopologySignatures /\ e.state \in States(spec)
    BY <2>1, TypePop, StateFacts DEF TypeOK
  <2>3. /\ DOMAIN completed' = DOMAIN completed \cup {TopologySignature(spec, e.state)}
        /\ completed' \in [DOMAIN completed' -> States(spec)]
    BY <1>4, <2>2 DEF Accept, TypeOK
  <2>4. DOMAIN completed' \subseteq TopologySignatures
    BY <2>2, <2>3 DEF TypeOK
  <2>5. QED
    BY <2>1, <2>3, <2>4, TypePop, TypeKept DEF TypeOK, WorkInv
<1>5. ASSUME NEW e \in queue, NoRule(e) PROVE TypeOK' /\ WorkInv'
  <2>1. Pop(e) /\ pruned' = pruned + 1 /\ completed' = completed /\ work' = work
        /\ ledger' = RecordNoRule(RecordRules(ledger, Governing(e.state), {}),
                                  FirstKind(e.state))
    BY <1>5 DEF NoRule
  <2>2. RecordRules(ledger, Governing(e.state), {}) \in LedgerType
    BY RecordRulesFacts DEF TypeOK
  <2>3. ledger' \in LedgerType
    BY <2>1, <2>2, RecordNoRuleFacts
  <2>4. QED
    BY <2>1, <2>3, TypePop, TypeKept DEF TypeOK, WorkInv
<1>6. ASSUME NEW e \in queue, Expand(e) PROVE TypeOK' /\ WorkInv'
  <2>1. Pop(e) /\ pruned' = pruned /\ completed' = completed
        /\ work' = Applicable(spec, e.state) /\ ~Complete(e.state)
        /\ ledger' = RecordRules(ledger, Governing(e.state), Applicable(spec, e.state))
    BY <1>6 DEF Expand
  <2>2. ledger' \in LedgerType
    BY <2>1, RecordRulesFacts DEF TypeOK
  <2>3. work' \subseteq Rules
    BY <2>1 DEF Applicable, Governing
  <2>4. current' = e.state
    BY <2>1 DEF Pop
  <2>5. QED
    BY <2>1, <2>2, <2>3, <2>4, TypePop, TypeKept DEF TypeOK, WorkInv
<1>7. ASSUME NEW r \in work, ApplyRule(r) PROVE TypeOK' /\ WorkInv'
  <2>1. Child(spec, current, r) \in States(spec)
    BY ChildType DEF TypeOK, WorkInv
  <2>2. StateSignature(spec, Child(spec, current, r)) \in Signatures
    BY <2>1, StateFacts DEF TypeOK
  <2>3. [serial |-> serial + 1, state |-> Child(spec, current, r)] \in Entry
    BY <2>1 DEF Entry, TypeOK
  <2>4. queue' \subseteq Entry /\ seen' \subseteq Signatures
        /\ duplicates' \in Nat /\ serial' \in Nat
    BY <1>7, <2>2, <2>3 DEF ApplyRule, TypeOK
  <2>5. QED
    BY <1>7, <2>4, TypeKept DEF ApplyRule, TypeOK, WorkInv
<1>8. CASE Return
  BY <1>8, TypeKept DEF Return, TypeOK, WorkInv
<1>9. CASE UNCHANGED vars
  BY <1>9, TypeKept DEF vars, loopVars, TypeOK, WorkInv
<1>10. QED
  BY <1>1, <1>2, <1>3, <1>4, <1>5, <1>6, <1>7, <1>8, <1>9 DEF Next

\* Whatever the catalogue, every variable of the search keeps its shape.
THEOREM TypeCorrect == Spec => [](TypeOK /\ WorkInv)
  BY TypeInit, TypeNext, PTL DEF Spec

(***************************************************************************)
(* The ledger explains every prune.                                        *)
(***************************************************************************)
LEMMA AccountsInit == Init => LedgerAccounts
  BY EmptyLedgerFacts DEF Init, LedgerAccounts

LEMMA AccountsNext == TypeOK /\ WorkInv /\ LedgerAccounts /\ [Next]_vars => LedgerAccounts'
<1> SUFFICES ASSUME TypeOK, WorkInv, LedgerAccounts, [Next]_vars PROVE LedgerAccounts'
  OBVIOUS
<1>1. ledger \in LedgerType /\ pruned \in Nat
  BY DEF TypeOK
<1>2. ASSUME NEW e \in queue, PruneDeep(e) PROVE LedgerAccounts'
  BY <1>1, <1>2, RejectFacts, NoErrorsType DEF PruneDeep, LedgerAccounts, RecordDepth, Causes
<1>3. ASSUME NEW e \in queue, PrunePartial(e) PROVE LedgerAccounts'
  <2>1. PartialErrors(spec, e.state) \in ErrorCounts
    BY <1>3, TypePop, StateFacts DEF PrunePartial, TypeOK
  <2>2. QED
    BY <1>1, <1>3, <2>1, RejectFacts DEF PrunePartial, LedgerAccounts, RecordPartial, Causes
<1>4. ASSUME NEW e \in queue, RefuseFinal(e) PROVE LedgerAccounts'
  <2>1. /\ TopologySignature(spec, e.state) \in TopologySignatures
        /\ FinalErrors(spec, e.state) \in ErrorCounts
    BY <1>4, TypePop, StateFacts DEF RefuseFinal, TypeOK
  <2>2. QED
    BY <1>1, <1>4, <2>1, RecordFinalFacts DEF RefuseFinal, LedgerAccounts
<1>5. ASSUME NEW e \in queue, Accept(e) PROVE LedgerAccounts'
  BY <1>5 DEF Accept, LedgerAccounts
<1>6. ASSUME NEW e \in queue, NoRule(e) PROVE LedgerAccounts'
  BY <1>1, <1>6, RecordRulesFacts, RecordNoRuleFacts DEF NoRule, LedgerAccounts
<1>7. ASSUME NEW e \in queue, Expand(e) PROVE LedgerAccounts'
  BY <1>1, <1>7, RecordRulesFacts DEF Expand, LedgerAccounts
<1>8. ASSUME NEW r \in work, ApplyRule(r) PROVE LedgerAccounts'
  BY <1>8 DEF ApplyRule, LedgerAccounts
<1>9. CASE Return
  BY <1>9 DEF Return, LedgerAccounts
<1>10. CASE UNCHANGED vars
  BY <1>10 DEF vars, loopVars, LedgerAccounts
<1>11. QED
  BY <1>2, <1>3, <1>4, <1>5, <1>6, <1>7, <1>8, <1>9, <1>10 DEF Next

\* generate_candidates and its LedgerRecorder never disagree on how many
\* states were thrown away.
THEOREM LedgerAccountsAlways == Spec => []LedgerAccounts
  BY AccountsInit, AccountsNext, TypeCorrect, PTL DEF Spec

(***************************************************************************)
(* The frontier: no applicable rule of a surviving state is forgotten.     *)
(* SeenInv and DoneInv carry it to the end of the loop, where the heap and *)
(* the rules in hand are both empty.                                       *)
(***************************************************************************)
Reached == closed \cup {e.state : e \in queue}
SeenInv == /\ seen = {StateSignature(spec, s) : s \in Reached}
           /\ Start(spec) \in Reached
DoneInv == phase = "done" => work = {}
FrontierInv == Frontier /\ SeenInv /\ DoneInv

\* What every pop leaves alone, and the state it moves from heap to closed.
LEMMA PopEffect ==
  ASSUME NEW e \in queue, Pop(e)
  PROVE  /\ spec' = spec /\ seen' = seen /\ current' = e.state /\ work = {}
         /\ phase = "search" /\ phase' = "search"
         /\ closed' = closed \cup {e.state} /\ queue' = queue \ {e}
         /\ SeenInv => SeenInv'
<1>1. Reached' = Reached
  <2>1. ASSUME NEW f \in queue, NEW s, s = f.state PROVE s \in Reached'
    BY <2>1 DEF Pop, Reached
  <2>2. QED
    BY <2>1 DEF Pop, Reached
<1>2. QED
  BY <1>1 DEF Pop, SeenInv

LEMMA FrontierPop ==
  ASSUME FrontierInv, NEW e \in queue, Pop(e), work' = {} \/ work' = Applicable(spec, e.state),
         DOMAIN completed \subseteq DOMAIN completed',
         Survives(e.state) =>
           /\ Complete(e.state) /\ ~Rejects(e.state)
                => TopologySignature(spec, e.state) \in DOMAIN completed'
           /\ ~Complete(e.state) => work' = Applicable(spec, e.state)
  PROVE  FrontierInv'
<1>1. SeenInv' /\ DoneInv'
  BY PopEffect DEF FrontierInv, DoneInv
<1>2. ASSUME NEW s \in Viable'
      PROVE  /\ Complete(s) /\ ~Rejects(s)' => TopologySignature(spec', s) \in DOMAIN completed'
             /\ ~Complete(s) => \A r \in Applicable(spec', s) :
                                  Followed(s, r)' \/ (s = current' /\ r \in work')
  <2>1. Survives(s) /\ spec' = spec /\ seen' = seen /\ (Rejects(s)' <=> Rejects(s))
    BY PopEffect DEF Viable, Survives, TooDeep, Doomed, Rejects
  <2>2. CASE s = e.state
    BY <2>1, <2>2, PopEffect
  <2>3. CASE s # e.state
    <3>1. s \in Viable
      BY <2>1, <2>3, PopEffect DEF Viable
    <3>2. \A r : Followed(s, r)' <=> Followed(s, r)
      BY <2>1 DEF Followed
    <3>3. QED
      BY <2>1, <3>1, <3>2, PopEffect DEF FrontierInv, Frontier
  <2>4. QED
    BY <2>2, <2>3
<1>3. Frontier'
  BY <1>2 DEF Frontier
<1>4. QED
  BY <1>1, <1>3 DEF FrontierInv

LEMMA FrontierApply ==
  ASSUME FrontierInv, NEW r \in work, ApplyRule(r)
  PROVE  FrontierInv'
<1> DEFINE child == Child(spec, current, r)
           pushed == [serial |-> serial + 1, state |-> child]
<1>1. /\ spec' = spec /\ current' = current /\ closed' = closed /\ completed' = completed
      /\ phase' = "search" /\ work' = work \ {r}
      /\ \/ StateSignature(spec, child) \in seen /\ seen' = seen /\ queue' = queue
         \/ seen' = seen \cup {StateSignature(spec, child)} /\ queue' = queue \cup {pushed}
  BY DEF ApplyRule
<1>2. Followed(current, r)'
  BY <1>1 DEF Followed
<1>3. seen \subseteq seen'
  BY <1>1
<1>4. SeenInv'
  <2>1. CASE seen' = seen /\ queue' = queue
    BY <1>1, <2>1 DEF FrontierInv, SeenInv, Reached
  <2>2. CASE seen' = seen \cup {StateSignature(spec, child)} /\ queue' = queue \cup {pushed}
    <3>1. Reached' = Reached \cup {child}
      <4>1. pushed.state = child /\ pushed \in queue'
        BY <2>2
      <4>2. \A f \in queue' : f \in queue \/ f = pushed
        BY <2>2
      <4> HIDE DEF child, pushed
      <4>3. QED
        BY <1>1, <2>2, <4>1, <4>2 DEF Reached
    <3>2. QED
      BY <1>1, <2>2, <3>1 DEF FrontierInv, SeenInv
  <2>3. QED
    BY <1>1, <2>1, <2>2
<1>5. ASSUME NEW s \in Viable'
      PROVE  /\ Complete(s) /\ ~Rejects(s)' => TopologySignature(spec', s) \in DOMAIN completed'
             /\ ~Complete(s) => \A q \in Applicable(spec', s) :
                                  Followed(s, q)' \/ (s = current' /\ q \in work')
  <2>1. s \in Viable /\ (Rejects(s)' <=> Rejects(s))
    BY <1>1 DEF Viable, Survives, TooDeep, Doomed, Rejects
  <2>2. \A q : Followed(s, q) => Followed(s, q)'
    BY <1>1, <1>3 DEF Followed
  <2>3. QED
    BY <1>1, <1>2, <2>1, <2>2 DEF FrontierInv, Frontier
<1>6. Frontier'
  BY <1>5 DEF Frontier
<1>7. QED
  BY <1>1, <1>4, <1>6 DEF FrontierInv, DoneInv

LEMMA FrontierNext == FrontierInv /\ [Next]_vars => FrontierInv'
<1> SUFFICES ASSUME FrontierInv, [Next]_vars PROVE FrontierInv'
  OBVIOUS
<1>1. ASSUME NEW e \in queue,
             PruneDeep(e) \/ PrunePartial(e) \/ RefuseFinal(e) \/ Accept(e) \/ NoRule(e) \/ Expand(e)
      PROVE  FrontierInv'
  <2>1. Pop(e) /\ work = {}
    BY <1>1 DEF PruneDeep, PrunePartial, RefuseFinal, Accept, NoRule, Expand, Pop
  <2>2. CASE PruneDeep(e) \/ PrunePartial(e)
    <3>1. ~Survives(e.state) /\ UNCHANGED <<completed, work>>
      BY <2>2 DEF PruneDeep, PrunePartial, Survives
    <3>2. QED
      BY <2>1, <3>1, FrontierPop
  <2>3. CASE RefuseFinal(e)
    <3>1. Complete(e.state) /\ Rejects(e.state) /\ completed' = completed /\ work' = {}
      BY <2>1, <2>3 DEF RefuseFinal, Rejects
    <3>2. QED
      BY <2>1, <3>1, FrontierPop
  <2>4. CASE Accept(e)
    <3>1. /\ Complete(e.state) /\ work' = {}
          /\ DOMAIN completed' = DOMAIN completed \cup {TopologySignature(spec, e.state)}
      BY <2>1, <2>4 DEF Accept
    <3>2. QED
      BY <2>1, <3>1, FrontierPop
  <2>5. CASE NoRule(e)
    <3>1. /\ ~Complete(e.state) /\ work' = {} /\ completed' = completed
          /\ Applicable(spec, e.state) = {}
      BY <2>1, <2>5 DEF NoRule
    <3>2. QED
      BY <2>1, <3>1, FrontierPop
  <2>6. CASE Expand(e)
    <3>1. ~Complete(e.state) /\ work' = Applicable(spec, e.state) /\ completed' = completed
      BY <2>1, <2>6 DEF Expand
    <3>2. QED
      BY <2>1, <3>1, FrontierPop
  <2>7. QED
    BY <1>1, <2>2, <2>3, <2>4, <2>5, <2>6
<1>2. ASSUME NEW r \in work, ApplyRule(r) PROVE FrontierInv'
  BY <1>2, FrontierApply
<1>3. CASE Return \/ UNCHANGED vars
  <2>1. /\ UNCHANGED <<spec, queue, seen, completed, current, work, closed>>
        /\ phase' = "done" => work' = {}
    BY <1>3 DEF Return, vars, loopVars, FrontierInv, DoneInv
  <2>2. QED
    BY <2>1 DEF FrontierInv, Frontier, SeenInv, DoneInv, Reached, Viable, Survives, TooDeep,
                Doomed, Rejects, Followed
<1>4. QED
  BY <1>1, <1>2, <1>3 DEF Next

LEMMA FrontierInit == Init => FrontierInv
  BY DEF Init, FrontierInv, Frontier, SeenInv, DoneInv, Reached, Viable

LEMMA FrontierMeans == FrontierInv => ExhaustedIsComplete
<1> SUFFICES ASSUME FrontierInv, phase = "done", queue = {}
             PROVE  /\ Start(spec) \in closed
                    /\ \A s \in Viable :
                         /\ Complete(s) /\ ~Rejects(s)
                              => TopologySignature(spec, s) \in DOMAIN completed
                         /\ ~Complete(s) =>
                              \A r \in Applicable(spec, s) :
                                \E d \in closed :
                                  StateSignature(spec, d) = StateSignature(spec, Child(spec, s, r))
  BY DEF ExhaustedIsComplete, Exhausted
<1>1. Reached = closed /\ work = {}
  BY DEF Reached, FrontierInv, DoneInv
<1>2. QED
  BY <1>1 DEF FrontierInv, Frontier, SeenInv, Followed

\* A result flagged exhausted is complete: the search popped the start state,
\* followed every applicable rule of every surviving state it popped, and kept
\* every acceptable topology it met.  It holds for every limit and catalogue.
THEOREM Exhaustive == Spec => []ExhaustedIsComplete
  BY FrontierMeans, FrontierInit, FrontierNext, PTL DEF Spec

(***************************************************************************)
(* Bookkeeping.  Signatures identify the states of the heap, and no state  *)
(* in the heap shares one with a popped state, so pop and push keep the    *)
(* four counts in step.                                                    *)
(***************************************************************************)
Sig(s) == StateSignature(spec, s)
KeysInv ==
  /\ \A e, f \in queue : Sig(e.state) = Sig(f.state) => e = f
  /\ \A e \in queue, c \in closed : Sig(e.state) # Sig(c)
  /\ \A e \in queue : e.serial <= serial
  /\ IsFiniteSet(queue) /\ IsFiniteSet(closed) /\ IsFiniteSet(seen)
BooksInv == SeenInv /\ KeysInv /\ Bookkeeping

LEMMA BooksInit == Init => BooksInv
<1> SUFFICES ASSUME Init PROVE BooksInv
  OBVIOUS
<1> DEFINE first == [serial |-> 0, state |-> Start(spec)]
<1>1. queue = {first} /\ seen = {Sig(Start(spec))} /\ closed = {} /\ serial = 0 /\ explored = 0
  BY DEF Init, Sig
<1>2. \A x : Cardinality({x}) = 1 /\ IsFiniteSet({x})
  BY FS_Singleton
<1>3. Reached = {Start(spec)}
  BY <1>1 DEF Reached
<1>4. SeenInv
  BY <1>1, <1>3 DEF SeenInv, Sig
<1>5. KeysInv
  <2>1. IsFiniteSet(queue) /\ IsFiniteSet(closed) /\ IsFiniteSet(seen)
    BY <1>1, <1>2, FS_EmptySet
  <2>2. \A e \in queue : e = first /\ e.serial = 0
    BY <1>1
  <2>3. QED
    BY <1>1, <2>1, <2>2 DEF KeysInv
<1>6. Cardinality(seen) = serial + 1 /\ Cardinality(closed) = explored
      /\ explored + Cardinality(queue) = serial + 1
  <2>1. Cardinality(seen) = 1 /\ Cardinality(queue) = 1 /\ Cardinality(closed) = 0
    BY <1>1, <1>2, FS_EmptySet
  <2>2. QED
    BY <1>1, <2>1
<1>7. QED
  BY <1>4, <1>5, <1>6 DEF BooksInv, Bookkeeping, SeenInv, Reached

LEMMA BooksPop ==
  ASSUME TypeOK, BooksInv, NEW e \in queue, Pop(e)
  PROVE  BooksInv'
<1>1. /\ queue' = queue \ {e} /\ closed' = closed \cup {e.state} /\ explored' = explored + 1
      /\ serial' = serial /\ seen' = seen /\ spec' = spec
  BY DEF Pop
<1>2. SeenInv'
  BY PopEffect DEF BooksInv
<1>3. e.state \notin closed
  BY DEF BooksInv, KeysInv
<1>4. /\ IsFiniteSet(queue') /\ Cardinality(queue') = Cardinality(queue) - 1
      /\ IsFiniteSet(closed') /\ Cardinality(closed') = Cardinality(closed) + 1
  BY <1>1, <1>3, FS_AddElement, FS_RemoveElement DEF BooksInv, KeysInv
<1>5. Cardinality(queue) \in Nat /\ explored \in Nat /\ serial \in Nat
  BY FS_CardinalityType DEF BooksInv, KeysInv, TypeOK
<1>6. KeysInv'
  <2>1. \A f, g \in queue' : Sig(f.state)' = Sig(g.state)' => f = g
    BY <1>1 DEF BooksInv, KeysInv, Sig
  <2>2. \A f \in queue', c \in closed' : Sig(f.state)' # Sig(c)'
    BY <1>1 DEF BooksInv, KeysInv, Sig
  <2>3. QED
    BY <1>1, <1>4, <2>1, <2>2 DEF BooksInv, KeysInv
<1>7. QED
  BY <1>1, <1>2, <1>4, <1>5, <1>6 DEF BooksInv, Bookkeeping, SeenInv, Reached

LEMMA BooksApply ==
  ASSUME TypeOK, BooksInv, NEW r \in work, ApplyRule(r)
  PROVE  BooksInv'
<1> DEFINE child == Child(spec, current, r)
           pushed == [serial |-> serial + 1, state |-> child]
<1>1. spec' = spec /\ closed' = closed /\ explored' = explored
  BY DEF ApplyRule
<1>2. CASE Sig(child) \in seen
  <2>1. UNCHANGED <<spec, closed, explored, queue, seen, serial>>
    BY <1>1, <1>2 DEF ApplyRule, Sig
  <2>2. QED
    BY <2>1 DEF BooksInv, Bookkeeping, SeenInv, KeysInv, Reached, Sig
<1>3. CASE Sig(child) \notin seen
  <2>1. /\ seen' = seen \cup {Sig(child)} /\ serial' = serial + 1
        /\ queue' = queue \cup {pushed}
    BY <1>3 DEF ApplyRule, Sig
  <2>2. pushed.state = child /\ pushed.serial = serial + 1
    OBVIOUS
  <2> HIDE DEF child, pushed
  <2>3. /\ \A f \in queue : Sig(f.state) \in seen /\ f.serial <= serial
        /\ \A c \in closed : Sig(c) \in seen
    BY DEF BooksInv, SeenInv, KeysInv, Reached, Sig
  <2>4. serial \in Nat /\ explored \in Nat
    BY DEF TypeOK
  <2>5. pushed \notin queue
    BY <1>3, <2>2, <2>3
  <2>6. /\ IsFiniteSet(queue') /\ Cardinality(queue') = Cardinality(queue) + 1
        /\ IsFiniteSet(seen') /\ Cardinality(seen') = Cardinality(seen) + 1
        /\ Cardinality(queue) \in Nat /\ Cardinality(seen) \in Nat
    BY <1>3, <2>1, <2>5, FS_AddElement, FS_CardinalityType DEF BooksInv, KeysInv
  <2>7. \A f \in queue' : f \in queue \/ f = pushed
    BY <2>1
  <2>8. KeysInv'
    <3>1. \A f, g \in queue' : Sig(f.state)' = Sig(g.state)' => f = g
      BY <1>1, <1>3, <2>2, <2>3, <2>7 DEF BooksInv, KeysInv, Sig
    <3>2. \A f \in queue', c \in closed' : Sig(f.state)' # Sig(c)'
      BY <1>1, <1>3, <2>2, <2>3, <2>7 DEF BooksInv, KeysInv, Sig
    <3>3. \A f \in queue' : f.serial <= serial'
      <4>1. \A f \in queue : f.serial \in Nat
        BY DEF TypeOK, Entry
      <4>2. QED
        BY <2>1, <2>2, <2>3, <2>4, <2>7, <4>1
    <3>4. QED
      BY <1>1, <2>6, <3>1, <3>2, <3>3 DEF BooksInv, KeysInv
  <2>9. Reached' = Reached \cup {child}
    <3>1. pushed \in queue' /\ \A f \in queue : f \in queue'
      BY <2>1
    <3>2. QED
      BY <1>1, <2>2, <2>7, <3>1 DEF Reached
  <2>10. SeenInv'
    BY <1>1, <2>1, <2>9 DEF BooksInv, SeenInv, Sig
  <2>11. /\ Cardinality(seen') = serial' + 1
         /\ Cardinality(closed') = explored'
         /\ explored' + Cardinality(queue') = serial' + 1
    BY <1>1, <2>1, <2>4, <2>6 DEF BooksInv, Bookkeeping
  <2>12. QED
    BY <2>8, <2>10, <2>11 DEF BooksInv, Bookkeeping, SeenInv, Reached
<1>4. QED
  BY <1>2, <1>3

LEMMA BooksNext == TypeOK /\ BooksInv /\ [Next]_vars => BooksInv'
<1> SUFFICES ASSUME TypeOK, BooksInv, [Next]_vars PROVE BooksInv'
  OBVIOUS
<1>1. ASSUME NEW e \in queue,
             PruneDeep(e) \/ PrunePartial(e) \/ RefuseFinal(e) \/ Accept(e) \/ NoRule(e) \/ Expand(e)
      PROVE  BooksInv'
  BY <1>1, BooksPop DEF PruneDeep, PrunePartial, RefuseFinal, Accept, NoRule, Expand
<1>2. ASSUME NEW r \in work, ApplyRule(r) PROVE BooksInv'
  BY <1>2, BooksApply
<1>3. CASE Return \/ UNCHANGED vars
  BY <1>3 DEF Return, vars, loopVars, BooksInv, Bookkeeping, SeenInv, KeysInv, Reached, Sig
<1>4. QED
  BY <1>1, <1>2, <1>3 DEF Next

\* Each pushed signature belongs to exactly one state, in the heap or popped,
\* and the counters the result reports count exactly those states.
THEOREM BookkeepingAlways == Spec => []Bookkeeping
<1>1. BooksInv => Bookkeeping
  BY DEF BooksInv
<1>2. QED
  BY <1>1, BooksInit, BooksNext, TypeCorrect, PTL DEF Spec

(***************************************************************************)
(* Candidates.  The induction needs DOMAIN completed finite, to bound its  *)
(* cardinality when a signature is added.                                  *)
(***************************************************************************)
Sound(t) == /\ completed[t] \in Viable
            /\ Complete(completed[t]) /\ ~Rejects(completed[t])
            /\ TopologySignature(spec, completed[t]) = t
CandidatesInv == /\ IsFiniteSet(DOMAIN completed)
                 /\ Cardinality(DOMAIN completed) <= requested
                 /\ \A t \in DOMAIN completed : Sound(t)

LEMMA SoundStable ==
  ASSUME NEW t, Sound(t), spec' = spec, closed \subseteq closed', completed'[t] = completed[t]
  PROVE  Sound(t)'
  BY DEF Sound, Viable, Survives, TooDeep, Doomed, Rejects

LEMMA CandidatesAccept ==
  ASSUME TypeOK, CandidatesInv, NEW e \in queue, Accept(e)
  PROVE  CandidatesInv'
<1> DEFINE new == TopologySignature(spec, e.state)
<1>1. /\ spec' = spec /\ requested' = requested /\ closed' = closed \cup {e.state}
      /\ Survives(e.state) /\ Complete(e.state) /\ ~Rejects(e.state)
      /\ Cardinality(DOMAIN completed) < requested
  BY DEF Accept, Pop, WithinBudget, Rejects
<1>2. completed' = [t \in DOMAIN completed \cup {new} |->
                      IF t \in DOMAIN completed THEN completed[t] ELSE e.state]
  BY DEF Accept
<1> HIDE DEF new
<1>3. DOMAIN completed' = DOMAIN completed \cup {new}
  BY <1>2
<1>4. /\ IsFiniteSet(DOMAIN completed')
      /\ Cardinality(DOMAIN completed') <= Cardinality(DOMAIN completed) + 1
  <2> DEFINE D == DOMAIN completed
  <2>1. IsFiniteSet(D) /\ Cardinality(D) \in Nat
    BY FS_CardinalityType DEF CandidatesInv
  <2> HIDE DEF D
  <2>2. /\ IsFiniteSet(D \cup {new})
        /\ Cardinality(D \cup {new}) = Cardinality(D) \/ Cardinality(D \cup {new}) = Cardinality(D) + 1
    BY <2>1, FS_AddElement
  <2>3. Cardinality(D \cup {new}) <= Cardinality(D) + 1
    BY <2>1, <2>2
  <2>4. QED
    BY <1>3, <2>2, <2>3 DEF D
<1>5. Cardinality(DOMAIN completed) \in Nat /\ requested \in Nat
      /\ Cardinality(DOMAIN completed') \in Nat
  BY <1>4, FS_CardinalityType DEF CandidatesInv, TypeOK
<1>6. ASSUME NEW t \in DOMAIN completed' PROVE Sound(t)'
  <2>1. CASE t \in DOMAIN completed
    BY <1>1, <1>2, <1>3, <2>1, SoundStable DEF CandidatesInv
  <2>2. CASE t \notin DOMAIN completed
    <3>1. t = new /\ completed'[t] = e.state
      BY <1>2, <1>3, <2>2
    <3>2. QED
      BY <1>1, <3>1 DEF Sound, Viable, Survives, TooDeep, Doomed, Rejects, new
  <2>3. QED
    BY <2>1, <2>2
<1>7. QED
  BY <1>1, <1>4, <1>5, <1>6 DEF CandidatesInv

LEMMA CandidatesNext == TypeOK /\ CandidatesInv /\ [Next]_vars => CandidatesInv'
<1> SUFFICES ASSUME TypeOK, CandidatesInv, [Next]_vars PROVE CandidatesInv'
  OBVIOUS
<1>1. ASSUME NEW e \in queue, Accept(e) PROVE CandidatesInv'
  BY <1>1, CandidatesAccept
<1>2. ASSUME NEW e \in queue,
             PruneDeep(e) \/ PrunePartial(e) \/ RefuseFinal(e) \/ NoRule(e) \/ Expand(e)
      PROVE  CandidatesInv'
  <2>1. UNCHANGED <<spec, requested, completed>> /\ closed \subseteq closed'
    BY <1>2 DEF PruneDeep, PrunePartial, RefuseFinal, NoRule, Expand, Pop
  <2>2. QED
    BY <2>1, SoundStable DEF CandidatesInv
<1>3. CASE (\E r \in work : ApplyRule(r)) \/ Return \/ UNCHANGED vars
  <2>1. UNCHANGED <<spec, requested, completed, closed>>
    BY <1>3 DEF ApplyRule, Return, vars, loopVars
  <2>2. QED
    BY <2>1, SoundStable DEF CandidatesInv
<1>4. QED
  BY <1>1, <1>2, <1>3 DEF Next

LEMMA CandidatesInit == Init => CandidatesInv
<1> SUFFICES ASSUME Init PROVE CandidatesInv
  OBVIOUS
<1>1. DOMAIN completed = {} /\ requested \in Nat \ {0}
  BY TypeInit DEF Init, TypeOK
<1>2. QED
  BY <1>1, FS_EmptySet DEF CandidatesInv

LEMMA CandidatesMean == CandidatesInv => CandidatesSound
  BY DEF CandidatesInv, CandidatesSound, Sound

\* Every candidate returned is complete, within the depth limit, free of
\* errors and keyed by its own topology; and at most requested are returned.
THEOREM CandidatesSoundAlways == Spec => []CandidatesSound
  BY CandidatesInit, CandidatesMean, CandidatesNext, TypeCorrect, PTL DEF Spec

(***************************************************************************)
(* The bounded record of refused topologies.                               *)
(***************************************************************************)
RefusedState(s) == s \in Viable /\ Complete(s) /\ Rejects(s)
RecordInv == RefusalRecord /\ IsFiniteSet(ledger.refused)

LEMMA RecordKept ==
  ASSUME RecordInv, spec' = spec,
         \A s \in closed' : s \in closed \/ ~(Survives(s) /\ Complete(s) /\ Rejects(s)),
         closed \subseteq closed',
         ledger'.refused = ledger.refused, ledger'.seen = ledger.seen,
         ledger'.truncated = ledger.truncated
  PROVE  RecordInv'
<1>1. \A s : Survives(s)' <=> Survives(s)
  BY DEF Survives, TooDeep, Doomed
<1>2. \A s : (s \in Viable' /\ Complete(s) /\ Rejects(s)') => RefusedState(s)
  BY <1>1 DEF RefusedState, Viable, Rejects
<1>3. QED
  BY <1>2 DEF RecordInv, RefusalRecord, RefusedState

LEMMA RecordRefuse ==
  ASSUME TypeOK, RecordInv, NEW e \in queue, RefuseFinal(e)
  PROVE  RecordInv'
<1> DEFINE t == TopologySignature(spec, e.state)
           errors == FinalErrors(spec, e.state)
           new == [signature |-> t, errors |-> errors]
           full == Cardinality(ledger.refused) >= MaxRecorded
<1>1. spec' = spec /\ closed' = closed \cup {e.state} /\ e.state \in States(spec)
  BY TypePop DEF RefuseFinal, Pop
<1>2. t \in TopologySignatures /\ errors \in ErrorCounts /\ ledger \in LedgerType
  BY <1>1, StateFacts DEF TypeOK
<1>3. ledger' = RecordFinal(ledger, t, errors)
  BY DEF RefuseFinal
<1>4. /\ t \in ledger.seen => ledger'.seen = ledger.seen /\ ledger'.refused = ledger.refused
                              /\ ledger'.truncated = ledger.truncated
      /\ t \notin ledger.seen /\ full => ledger'.seen = ledger.seen /\ ledger'.refused = ledger.refused
                                         /\ ledger'.truncated
      /\ t \notin ledger.seen /\ ~full => /\ ledger'.seen = ledger.seen \cup {t}
                                          /\ ledger'.refused = ledger.refused \cup {new}
                                          /\ ledger'.truncated = ledger.truncated
  BY <1>2, <1>3, RecordFinalFacts
<1>5. \A s \in closed' : /\ s \in Viable' /\ Complete(s) /\ Rejects(s)' => RefusedState(s) \/ s = e.state
                         /\ TopologySignature(spec', s) = TopologySignature(spec, s)
  BY <1>1 DEF RefusedState, Viable, Survives, TooDeep, Doomed, Rejects
<1>6. Cardinality(ledger.refused) \in Nat
  BY FS_CardinalityType DEF RecordInv
<1>7. new.signature = t
  OBVIOUS
<1> HIDE DEF t, new
<1>8. CASE t \in ledger.seen
  BY <1>4, <1>5, <1>8 DEF RecordInv, RefusalRecord, RefusedState, Viable, t
<1>9. CASE t \notin ledger.seen /\ full
  <2>1. Cardinality(ledger.refused) = MaxRecorded
    BY <1>6, <1>9, MaxRecordedAssumption DEF RecordInv, RefusalRecord
  <2>2. QED
    BY <1>4, <1>9, <2>1 DEF RecordInv, RefusalRecord
<1>10. CASE t \notin ledger.seen /\ ~full
  <2>1. /\ ledger'.seen = ledger.seen \cup {t} /\ ledger'.refused = ledger.refused \cup {new}
        /\ ledger'.truncated = ledger.truncated
    BY <1>4, <1>10
  <2>2. /\ IsFiniteSet(ledger'.refused)
        /\ Cardinality(ledger'.refused) <= Cardinality(ledger.refused) + 1
    <3> DEFINE R == ledger.refused
    <3>1. IsFiniteSet(R) /\ Cardinality(R) \in Nat
      BY <1>6 DEF RecordInv
    <3> HIDE DEF R
    <3>2. /\ IsFiniteSet(R \cup {new})
          /\ Cardinality(R \cup {new}) = Cardinality(R) \/ Cardinality(R \cup {new}) = Cardinality(R) + 1
      BY <3>1, FS_AddElement
    <3>3. Cardinality(R \cup {new}) <= Cardinality(R) + 1
      BY <3>1, <3>2
    <3>4. QED
      BY <2>1, <3>2, <3>3 DEF R
  <2>3. Cardinality(ledger'.refused) <= MaxRecorded
    BY <1>6, <1>10, <2>2, FS_CardinalityType, MaxRecordedAssumption
  <2>4. ~ledger.truncated
    BY <1>6, <1>10, MaxRecordedAssumption DEF RecordInv, RefusalRecord
  <2>5. ledger'.seen = {x.signature : x \in ledger'.refused}
    BY <1>7, <2>1 DEF RecordInv, RefusalRecord
  <2>6. \A x, y \in ledger'.refused : x.signature = y.signature => x = y
    BY <1>7, <1>10, <2>1 DEF RecordInv, RefusalRecord
  <2>7. \A s \in Viable' : Complete(s) /\ Rejects(s)' => TopologySignature(spec', s) \in ledger'.seen
    BY <1>5, <2>1, <2>4 DEF RecordInv, RefusalRecord, RefusedState, Viable, t
  <2>8. QED
    BY <2>1, <2>2, <2>3, <2>4, <2>5, <2>6, <2>7 DEF RecordInv, RefusalRecord
<1>11. QED
  BY <1>8, <1>9, <1>10

LEMMA RecordNext == TypeOK /\ RecordInv /\ [Next]_vars => RecordInv'
<1> SUFFICES ASSUME TypeOK, RecordInv, [Next]_vars PROVE RecordInv'
  OBVIOUS
<1>1. ASSUME NEW e \in queue, RefuseFinal(e) PROVE RecordInv'
  BY <1>1, RecordRefuse
<1>2. ASSUME NEW e \in queue,
             PruneDeep(e) \/ PrunePartial(e) \/ Accept(e) \/ NoRule(e) \/ Expand(e)
      PROVE  RecordInv'
  <2>1. /\ spec' = spec /\ closed' = closed \cup {e.state}
        /\ ~(Survives(e.state) /\ Complete(e.state) /\ Rejects(e.state))
        /\ e.state \in States(spec) /\ ledger \in LedgerType
    BY <1>2, TypePop DEF PruneDeep, PrunePartial, Accept, NoRule, Expand, Pop, Survives, Rejects,
                         TypeOK
  <2>2. PartialErrors(spec, e.state) \in ErrorCounts
    BY <2>1, StateFacts DEF TypeOK
  <2>3. /\ ledger'.refused = ledger.refused /\ ledger'.seen = ledger.seen
        /\ ledger'.truncated = ledger.truncated
    <3>1. CASE PruneDeep(e)
      BY <2>1, <3>1, RejectFacts, NoErrorsType DEF PruneDeep, RecordDepth, Causes
    <3>2. CASE PrunePartial(e)
      BY <2>1, <2>2, <3>2, RejectFacts DEF PrunePartial, RecordPartial, Causes
    <3>3. CASE NoRule(e)
      BY <2>1, <3>3, RecordRulesFacts, RecordNoRuleFacts DEF NoRule
    <3>4. CASE Expand(e)
      BY <2>1, <3>4, RecordRulesFacts DEF Expand
    <3>5. CASE Accept(e)
      BY <3>5 DEF Accept
    <3>6. QED
      BY <1>2, <3>1, <3>2, <3>3, <3>4, <3>5
  <2>4. /\ closed \subseteq closed'
        /\ \A s \in closed' : s \in closed \/ ~(Survives(s) /\ Complete(s) /\ Rejects(s))
    BY <2>1
  <2>5. QED
    BY <2>1, <2>3, <2>4, RecordKept
<1>3. CASE (\E r \in work : ApplyRule(r)) \/ Return \/ UNCHANGED vars
  <2>1. UNCHANGED <<spec, closed, ledger>>
    BY <1>3 DEF ApplyRule, Return, vars, loopVars
  <2>2. closed \subseteq closed' /\ \A s \in closed' : s \in closed
    BY <2>1
  <2>3. QED
    BY <2>1, <2>2, RecordKept
<1>4. QED
  BY <1>1, <1>2, <1>3 DEF Next

LEMMA RecordInit == Init => RecordInv
  BY FS_EmptySet, MaxRecordedAssumption
  DEF Init, EmptyLedger, RecordInv, RefusalRecord, Viable

LEMMA RecordMeans == RecordInv => RefusalRecord
  BY DEF RecordInv

\* SearchLedger.refusal_for: while the record is not truncated, finding no
\* refusal of a topology proves the search did not build and refuse it.
THEOREM RefusalRecordAlways == Spec => []RefusalRecord
  BY RecordInit, RecordMeans, RecordNext, TypeCorrect, PTL DEF Spec

(***************************************************************************)
(* The promise.  What a specification admits is defined without a search:  *)
(* the states every closed set contains, and among them the complete ones  *)
(* within the depth limit and free of errors.                              *)
(***************************************************************************)
IsClosed(sp, S) ==
  /\ Start(sp) \in S
  /\ \A s \in S : ~Complete(s) => \A r \in Applicable(sp, s) : Child(sp, s, r) \in S
Derivations(sp) == {s \in States(sp) : \A S \in SUBSET States(sp) : IsClosed(sp, S) => s \in S}
Admissible(sp) ==
  {s \in Derivations(sp) :
     Complete(s) /\ Depth(s) <= MaxDepth(sp) /\ ~HasError(FinalErrors(sp, s))}
AdmissibleTopologies(sp) == {TopologySignature(sp, s) : s \in Admissible(sp)}

Promise == INSTANCE Enumeration
             WITH Acceptable <- AdmissibleTopologies, found <- DOMAIN completed,
                  exhausted <- (phase = "done" /\ Exhausted)

LEMMA DerivationsClosed == ASSUME NEW sp \in Specs PROVE IsClosed(sp, Derivations(sp))
  BY ProblemAssumption DEF IsClosed, Derivations

\* The search only ever holds states that can be derived.
DerivedInv == Reached \subseteq Derivations(spec) /\ (work # {} => current \in Derivations(spec))

LEMMA DerivedNext == TypeOK /\ WorkInv /\ DerivedInv /\ [Next]_vars => DerivedInv'
<1> SUFFICES ASSUME TypeOK, WorkInv, DerivedInv, [Next]_vars PROVE DerivedInv'
  OBVIOUS
<1>1. ASSUME NEW e \in queue,
             PruneDeep(e) \/ PrunePartial(e) \/ RefuseFinal(e) \/ Accept(e) \/ NoRule(e) \/ Expand(e)
      PROVE  DerivedInv'
  <2>1. Pop(e)
    BY <1>1 DEF PruneDeep, PrunePartial, RefuseFinal, Accept, NoRule, Expand
  <2>2. spec' = spec /\ current' = e.state /\ closed' = closed \cup {e.state}
        /\ queue' = queue \ {e}
    BY <2>1 DEF Pop
  <2>3. e.state \in Reached /\ Reached' \subseteq Reached
    BY <2>2 DEF Reached
  <2>4. Derivations(spec)' = Derivations(spec)
    BY <2>2
  <2>5. QED
    BY <2>2, <2>3, <2>4 DEF DerivedInv
<1>2. ASSUME NEW r \in work, ApplyRule(r) PROVE DerivedInv'
  <2> DEFINE child == Child(spec, current, r)
             pushed == [serial |-> serial + 1, state |-> child]
  <2>1. spec' = spec /\ current' = current /\ closed' = closed /\ queue' \subseteq queue \cup {pushed}
    BY <1>2 DEF ApplyRule
  <2>2. pushed.state = child
    OBVIOUS
  <2>3. child \in Derivations(spec)
    BY DerivationsClosed DEF DerivedInv, WorkInv, TypeOK, IsClosed
  <2> HIDE DEF child, pushed
  <2>4. Reached' \subseteq Reached \cup {child}
    BY <2>1, <2>2 DEF Reached
  <2>5. Derivations(spec)' = Derivations(spec)
    BY <2>1
  <2>6. QED
    BY <2>1, <2>3, <2>4, <2>5 DEF DerivedInv
<1>3. CASE Return \/ UNCHANGED vars
  BY <1>3 DEF Return, vars, loopVars, DerivedInv, Reached
<1>4. QED
  BY <1>1, <1>2, <1>3 DEF Next

LEMMA DerivedInit == Init => DerivedInv
<1> SUFFICES ASSUME Init PROVE DerivedInv
  OBVIOUS
<1>1. Reached = {Start(spec)} /\ work = {} /\ spec \in Specs
  BY DEF Init, Reached
<1>2. QED
  BY <1>1, DerivationsClosed DEF DerivedInv, IsClosed

\* A state below a pruned one is pruned too, and is not accepted.
Lost(s) == ~Survives(s)

LEMMA LostStays ==
  ASSUME TypeOK, NEW s \in States(spec), Lost(s)
  PROVE  /\ Complete(s) => Rejects(s) \/ Depth(s) > MaxDepth(spec)
         /\ ~Complete(s) => \A r \in Applicable(spec, s) : Lost(Child(spec, s, r))
<1>1. spec \in Specs /\ MaxDepth(spec) \in Nat
  BY LimitsAssumption DEF TypeOK
<1>2. TooDeep(s) \/ Doomed(s)
  BY DEF Lost, Survives
<1>3. Complete(s) => Rejects(s) \/ Depth(s) > MaxDepth(spec)
  BY <1>1, <1>2, PruningAssumption DEF TooDeep, Doomed, Rejects
<1>4. ASSUME ~Complete(s), NEW r \in Applicable(spec, s) PROVE Lost(Child(spec, s, r))
  <2>1. Depth(s) \in Nat /\ Depth(Child(spec, s, r)) \in Nat
    BY <1>1, <1>4, ProblemAssumption
  <2>2. /\ Depth(Child(spec, s, r)) >= Depth(s)
        /\ Doomed(s) => Doomed(Child(spec, s, r))
    BY <1>1, <1>4, PruningAssumption DEF Doomed
  <2>3. QED
    BY <1>1, <1>2, <2>1, <2>2 DEF Lost, Survives, TooDeep
<1>5. QED
  BY <1>3, <1>4

\* An exhausted search has popped, up to signature, every derivation that is
\* not lost: the popped states and the lost ones make a closed set.
LEMMA ExhaustedCovers ==
  ASSUME TypeOK, ExhaustedIsComplete, phase = "done", Exhausted, NEW s \in Derivations(spec)
  PROVE  Lost(s) \/ \E d \in closed : StateSignature(spec, d) = StateSignature(spec, s)
<1> DEFINE Covered(u) == Lost(u) \/ \E d \in closed : StateSignature(spec, d) = StateSignature(spec, u)
           C == {u \in States(spec) : Covered(u)}
<1>1. spec \in Specs /\ closed \subseteq States(spec)
  BY DEF TypeOK
<1>2. Start(spec) \in C
  BY <1>1, ProblemAssumption DEF ExhaustedIsComplete
<1>3. ASSUME NEW u \in C, ~Complete(u), NEW r \in Applicable(spec, u)
      PROVE  Child(spec, u, r) \in C
  <2>1. u \in States(spec) /\ Child(spec, u, r) \in States(spec)
    BY <1>1, <1>3, ProblemAssumption
  <2>2. CASE Lost(u)
    BY <1>3, <2>1, <2>2, LostStays
  <2>3. CASE ~Lost(u)
    <3>1. PICK d \in closed : StateSignature(spec, d) = StateSignature(spec, u)
      BY <2>3
    <3>2. SameFuture(spec, d, u)
      BY <1>1, <2>1, <3>1, SignatureAssumption
    <3>3. d \in Viable
      BY <2>3, <3>1, <3>2 DEF SameFuture, Viable, Lost, Survives, TooDeep, Doomed
    <3>4. ~Complete(d) /\ r \in Applicable(spec, d)
      BY <1>3, <3>2 DEF SameFuture
    <3>5. PICK c \in closed : StateSignature(spec, c) = StateSignature(spec, Child(spec, d, r))
      BY <3>3, <3>4 DEF ExhaustedIsComplete
    <3>6. StateSignature(spec, Child(spec, d, r)) = StateSignature(spec, Child(spec, u, r))
      BY <3>2, <3>4 DEF SameFuture
    <3>7. QED
      BY <2>1, <3>5, <3>6
  <2>4. QED
    BY <2>2, <2>3
<1>4. IsClosed(spec, C)
  BY <1>2, <1>3 DEF IsClosed
<1>5. QED
  BY <1>4 DEF Derivations

LEMMA FoundIsAdmissible ==
  ASSUME TypeOK, DerivedInv, CandidatesSound
  PROVE  DOMAIN completed \subseteq AdmissibleTopologies(spec)
<1>1. ASSUME NEW t \in DOMAIN completed PROVE t \in AdmissibleTopologies(spec)
  <2>1. /\ completed[t] \in Viable /\ Complete(completed[t]) /\ ~Rejects(completed[t])
        /\ TopologySignature(spec, completed[t]) = t
    BY DEF CandidatesSound
  <2>2. completed[t] \in Derivations(spec) /\ ~TooDeep(completed[t])
    BY <2>1 DEF Viable, Survives, DerivedInv, Reached
  <2>3. Depth(completed[t]) \in Nat /\ MaxDepth(spec) \in Nat
    BY <2>2, ProblemAssumption, LimitsAssumption DEF TypeOK, Derivations
  <2>4. completed[t] \in Admissible(spec)
    BY <2>1, <2>2, <2>3 DEF Admissible, TooDeep, Rejects
  <2>5. QED
    BY <2>1, <2>4 DEF AdmissibleTopologies
<1>2. QED
  BY <1>1

LEMMA ExhaustedFindsAll ==
  ASSUME TypeOK, ExhaustedIsComplete, phase = "done", Exhausted
  PROVE  AdmissibleTopologies(spec) \subseteq DOMAIN completed
<1>1. ASSUME NEW s \in Admissible(spec) PROVE TopologySignature(spec, s) \in DOMAIN completed
  <2>1. /\ s \in Derivations(spec) /\ s \in States(spec)
        /\ Complete(s) /\ ~Rejects(s) /\ Depth(s) <= MaxDepth(spec)
    BY DEF Admissible, Derivations, Rejects
  <2>2. Depth(s) \in Nat /\ MaxDepth(spec) \in Nat
    BY <2>1, ProblemAssumption, LimitsAssumption DEF TypeOK
  <2>3. ~Lost(s)
    BY <2>1, <2>2, LostStays
  <2>4. PICK d \in closed : StateSignature(spec, d) = StateSignature(spec, s)
    BY <2>1, <2>3, ExhaustedCovers
  <2>5. SameFuture(spec, d, s)
    BY <2>1, <2>4, SignatureAssumption DEF TypeOK
  <2>6. d \in Viable /\ Complete(d) /\ ~Rejects(d)
    BY <2>1, <2>3, <2>4, <2>5 DEF SameFuture, Viable, Lost, Survives, TooDeep, Doomed, Rejects
  <2>7. QED
    BY <2>5, <2>6 DEF ExhaustedIsComplete, SameFuture
<1>2. QED
  BY <1>1 DEF AdmissibleTopologies

PromiseInv == TypeOK /\ WorkInv /\ DerivedInv /\ DoneInv /\ CandidatesSound /\ ExhaustedIsComplete

(***************************************************************************)
(* All of it, in one invariant: what a call of generate_candidates starts  *)
(* with and keeps.                                                         *)
(***************************************************************************)
LoopInv ==
  /\ TypeOK /\ WorkInv
  /\ LedgerAccounts
  /\ FrontierInv
  /\ BooksInv
  /\ CandidatesInv
  /\ RecordInv
  /\ DerivedInv

LEMMA LoopInit == Init => LoopInv
  BY TypeInit, AccountsInit, FrontierInit, BooksInit, CandidatesInit, RecordInit, DerivedInit
  DEF LoopInv

LEMMA LoopNext == LoopInv /\ [Next]_vars => LoopInv'
<1> SUFFICES ASSUME LoopInv, [Next]_vars PROVE LoopInv'
  OBVIOUS
<1>1. (TypeOK /\ WorkInv)' /\ LedgerAccounts'
  BY TypeNext, AccountsNext DEF LoopInv
<1>2. FrontierInv' /\ BooksInv'
  BY FrontierNext, BooksNext DEF LoopInv
<1>3. CandidatesInv' /\ RecordInv' /\ DerivedInv'
  BY CandidatesNext, RecordNext, DerivedNext DEF LoopInv
<1>4. QED
  BY <1>1, <1>2, <1>3 DEF LoopInv

LEMMA LoopMeans ==
  LoopInv => /\ TypeOK /\ LedgerAccounts /\ Bookkeeping /\ Frontier /\ ExhaustedIsComplete
             /\ CandidatesSound /\ RefusalRecord /\ PromiseInv
<1> SUFFICES ASSUME LoopInv
             PROVE  /\ TypeOK /\ LedgerAccounts /\ Bookkeeping /\ Frontier /\ ExhaustedIsComplete
                    /\ CandidatesSound /\ RefusalRecord /\ PromiseInv
  OBVIOUS
<1>1. ExhaustedIsComplete /\ CandidatesSound /\ RefusalRecord
  BY FrontierMeans, CandidatesMean, RecordMeans DEF LoopInv
<1>2. Bookkeeping /\ Frontier /\ DoneInv
  BY DEF LoopInv, BooksInv, FrontierInv
<1>3. QED
  BY <1>1, <1>2 DEF LoopInv, PromiseInv

promised == <<spec, requested, DOMAIN completed, phase, phase = "done" /\ Exhausted>>

\* Accepting a new topology finds it, returning stops, and nothing else shows.
LEMMA PromiseStep ==
  PromiseInv /\ PromiseInv' /\ [Next]_vars => [Promise!Next]_promised
<1> SUFFICES ASSUME PromiseInv, PromiseInv', [Next]_vars PROVE [Promise!Next]_promised
  OBVIOUS
<1>1. ASSUME UNCHANGED <<spec, requested, completed, phase>>, phase = "search"
      PROVE  UNCHANGED promised
  BY <1>1 DEF promised
<1>2. ASSUME NEW e \in queue,
             PruneDeep(e) \/ PrunePartial(e) \/ RefuseFinal(e) \/ NoRule(e) \/ Expand(e)
      PROVE  UNCHANGED promised
  BY <1>1, <1>2 DEF PruneDeep, PrunePartial, RefuseFinal, NoRule, Expand, Pop
<1>3. ASSUME NEW r \in work, ApplyRule(r) PROVE UNCHANGED promised
  BY <1>1, <1>3 DEF ApplyRule
<1>4. ASSUME NEW e \in queue, Accept(e) PROVE [Promise!Next]_promised
  <2> DEFINE t == TopologySignature(spec, e.state)
  <2>1. /\ UNCHANGED <<spec, requested, phase>> /\ phase = "search"
        /\ Cardinality(DOMAIN completed) < requested
        /\ DOMAIN completed' = DOMAIN completed \cup {t}
    BY <1>4 DEF Accept, Pop, WithinBudget
  <2>2. t \in AdmissibleTopologies(spec)
    <3>1. DOMAIN completed' \subseteq AdmissibleTopologies(spec)'
      <4>1. (TypeOK /\ DerivedInv /\ CandidatesSound
               => DOMAIN completed \subseteq AdmissibleTopologies(spec))'
        BY FoundIsAdmissible, PTL
      <4>2. QED
        BY <4>1 DEF PromiseInv
    <3>2. QED
      BY <2>1, <3>1
  <2>3. CASE t \in DOMAIN completed
    <3>1. DOMAIN completed' = DOMAIN completed
      BY <2>1, <2>3
    <3>2. QED
      BY <2>1, <3>1 DEF promised
  <2>4. CASE t \notin DOMAIN completed
    <3>1. Promise!Find(t)
      BY <2>1 DEF Promise!Find, Promise!Cardinality, Cardinality
    <3>2. QED
      BY <2>2, <2>4, <3>1 DEF Promise!Next
  <2>5. QED
    BY <2>3, <2>4
<1>5. CASE Return
  <2>1. /\ UNCHANGED <<spec, requested, queue, completed>>
        /\ phase = "search" /\ phase' = "done"
    BY <1>5 DEF Return
  <2>2. Exhausted' => AdmissibleTopologies(spec) = DOMAIN completed
    <3>1. (TypeOK /\ ExhaustedIsComplete /\ phase = "done" /\ Exhausted
             => AdmissibleTopologies(spec) \subseteq DOMAIN completed)'
      BY ExhaustedFindsAll, PTL
    <3>2. DOMAIN completed \subseteq AdmissibleTopologies(spec)
      BY FoundIsAdmissible DEF PromiseInv
    <3>3. QED
      BY <2>1, <3>1, <3>2 DEF PromiseInv
  <2>3. Promise!Stop
    BY <2>1, <2>2 DEF Promise!Stop
  <2>4. QED
    BY <2>3 DEF Promise!Next
<1>6. CASE UNCHANGED vars
  BY <1>6 DEF vars, loopVars, promised, Exhausted
<1>7. QED
  BY <1>2, <1>3, <1>4, <1>5, <1>6 DEF Next

(***************************************************************************)
(* The loop keeps the promise of Enumeration, for every catalogue whose    *)
(* signatures decide the future of a state and whose errors stay: what it  *)
(* finds is admissible, and when it says that it exhausted the space it    *)
(* has found everything admissible.                                        *)
(***************************************************************************)
THEOREM KeepsPromise == Spec => Promise!Spec
<1>1. Init => Promise!Init
  BY DEF Init, Promise!Init, Promise!Granted, Clipped
<1>2. Spec => []PromiseInv
  <2>1. LoopInv => PromiseInv
    BY LoopMeans
  <2>2. QED
    BY <2>1, LoopInit, LoopNext, PTL DEF Spec
<1>3. QED
  BY <1>1, <1>2, PromiseStep, PTL DEF Spec, Promise!Spec, Promise!vars, promised
=============================================================================
