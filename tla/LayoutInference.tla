--------------------------- MODULE LayoutInference ---------------------------
(***************************************************************************)
(* layout.layout_inference_report: the declared document is validated, then *)
(* infer_layout_constraints looks for MOSFET pairs that look like mirrors or *)
(* differential pairs, and groups of parallel MOSFETs that look like a common *)
(* centroid.  Every scope is prepared under limits, the candidates are     *)
(* counted before any is made, then they are made.  A caller may declare what *)
(* was inferred: the document is then validated like any other.            *)
(* A MOSFET is [id, make, s, b, g, d]; make stands for model and parameters. *)
(***************************************************************************)
EXTENDS LayoutConflicts

CONSTANT Reports    \* the calls of layout_inference_report: [document, circuit, limits]
\* A document is a sequence of constraints, a circuit of scopes
\* [devices, mosfets (a sequence), ports (nets)]; limits is [devices, pairs, constraints].

IsSequence(s) == s \in Seq(ToSet(s))
ASSUME ReportsAssumption ==
  \A report \in Reports :
    /\ IsSequence(report.document) /\ IsSequence(report.circuit)
    /\ \A c \in ToSet(report.document) :
         IsSequence(c.subjects) /\ IsSequence(c.groups) /\ \A g \in ToSet(c.groups) : IsSequence(g)
    /\ \A scope \in ToSet(report.circuit) : IsSequence(scope.mosfets)

\* The devices of a graph have identities of their own, and one scope of it holds
\* what one scope of the circuit does.
IsMosfet(m) == m = [id |-> m.id, make |-> m.make, s |-> m.s, b |-> m.b, g |-> m.g, d |-> m.d]
ASSUME DevicesAssumption ==
  \A report \in Reports : \A i, j \in DOMAIN report.circuit :
    \A m \in DOMAIN report.circuit[i].mosfets, n \in DOMAIN report.circuit[j].mosfets :
      LET this == report.circuit[i].mosfets[m]  that == report.circuit[j].mosfets[n]
      IN /\ IsMosfet(this) /\ this.id \in Placeable
         /\ this.id = that.id => i = j /\ m = n
         /\ i = j => PlacementScope[this.id] = PlacementScope[that.id]

\* _validate_inference_limits: no limit is above the built-in one, and a document
\* may have that many constraints and three times as many references.
ASSUME CeilingAssumption ==
  /\ MaxConstraints \in Nat /\ MaxReferences \in Nat
  /\ \A report \in Reports : LET limit == report.limits.constraints
                            IN limit \in Nat /\ limit <= MaxConstraints /\ 3 * limit <= MaxReferences

VARIABLES circuit, limits, prepared, devices, pairs, phase, inferred
inferring == <<circuit, limits, prepared, devices, pairs, phase, inferred>>
layoutVars == <<documentVars, inferring>>

\* _parallel_groups: the MOSFETs alike in everything, in order, if there are two.
Alike(left, right) == [left EXCEPT !.id = 0] = [right EXCEPT !.id = 0]
ParallelGroups(mosfets) ==
  {g \in {{m \in ToSet(mosfets) : Alike(m, n)} : n \in ToSet(mosfets)} : Cardinality(g) >= 2}
PairCount(n) == (n * (n - 1)) \div 2

LayoutInit ==
  /\ \E report \in Reports :
       /\ document = report.document /\ circuit = report.circuit /\ limits = report.limits
  /\ cursor = 1 /\ seen = Opened(document)
  /\ prepared = 0 /\ devices = 0 /\ pairs = 0 /\ phase = "preparing" /\ inferred = {}

\* One scope in _prepare_inference.
PrepareFailure(scope) ==
  FirstFailure(<<
    <<devices + scope.devices > limits.devices, "devices">>,
    <<pairs + PairCount(Len(scope.mosfets)) + PairCount(Cardinality(ParallelGroups(scope.mosfets))) > limits.pairs, "pairs">> >>)
Prepare ==
  /\ seen.verdict = "accepted" /\ phase = "preparing" /\ prepared < Len(circuit)
  /\ LET scope == circuit[prepared + 1]
     IN /\ devices' = devices + scope.devices
        /\ pairs' = pairs + PairCount(Len(scope.mosfets)) + PairCount(Cardinality(ParallelGroups(scope.mosfets)))
        /\ phase' = IF PrepareFailure(scope) = Passed THEN "preparing" ELSE PrepareFailure(scope)
  /\ prepared' = prepared + 1
  /\ UNCHANGED <<circuit, limits, inferred, documentVars>>
-----------------------------------------------------------------------------
\* What _pair_motif and _common_centroid_motif ask of both devices.
Comparable(left, right) == left.make = right.make /\ left.s = right.s /\ left.b = right.b

OnPorts(left, right, ports) == left.g # right.g /\ {left.g, right.g} \subseteq ports

IsMirror(left, right) == left.g = right.g /\ (left.d = left.g \/ right.d = right.g)

Motif(left, right, ports) ==
  IF ~Comparable(left, right) THEN "none"
  ELSE IF IsMirror(left, right) THEN "mirror"
  ELSE IF OnPorts(left, right, ports) /\ left.d # right.d THEN "differential" ELSE "none"

\* The first device of each group stands for it.
Centroid(left, right, ports) ==
  LET l == CHOOSE m \in left : TRUE  r == CHOOSE m \in right : TRUE
  IN /\ Cardinality(left) = Cardinality(right) /\ Comparable(l, r)
     /\ l.g # r.g /\ l.d # r.d /\ {l.g, r.g} \subseteq ports

\* Mutant: a device is paired with itself.
CombinationsSelf(list) == {ij \in (DOMAIN list) \X (DOMAIN list) : ij[1] <= ij[2]}

Combinations(list) == {ij \in (DOMAIN list) \X (DOMAIN list) : ij[1] < ij[2]}
MotifsOf(scope, motif) ==
  {ij \in Combinations(scope.mosfets) : Motif(scope.mosfets[ij[1]], scope.mosfets[ij[2]], scope.ports) = motif}
CentroidsOf(scope) ==
  {p \in kSubset(2, ParallelGroups(scope.mosfets)) : \E l, r \in p : l # r /\ Centroid(l, r, scope.ports)}

\* Mutant: a differential pair is counted once.
ScopeCountOnce(scope) ==
  Cardinality(MotifsOf(scope, "mirror")) + Cardinality(MotifsOf(scope, "differential")) + Cardinality(CentroidsOf(scope))

\* _candidate_count, of one scope and of all.
ScopeCount(scope) ==
  Cardinality(MotifsOf(scope, "mirror")) + 2 * Cardinality(MotifsOf(scope, "differential")) + Cardinality(CentroidsOf(scope))
CandidateCount ==
  LET counted[n \in 0..Len(circuit)] == IF n = 0 THEN 0 ELSE counted[n - 1] + ScopeCount(circuit[n])
  IN counted[Len(circuit)]

\* sorted, of a set of identities.
Ascending(ids) ==
  [k \in 1..Cardinality(ids) |-> CHOOSE x \in ids : Cardinality({y \in ids : y < x}) = k - 1]

\* _candidate: an inferred identity is a hash of what the constraint says.
Candidate(kind, subjects, groups, axis) ==
  [id |-> <<kind, subjects, groups, axis>>, kind |-> kind, subjects |-> Ascending(subjects),
   groups |-> [i \in DOMAIN groups |-> Ascending(groups[i])], axis |-> axis, value |-> 0]
Ids(scope, ij) == {scope.mosfets[ij[1]].id, scope.mosfets[ij[2]].id}
GroupIds(group) == {m.id : m \in group}

\* _mos_pairs, of one scope; the semantic keys of these are all different.
CandidatesOf(scope) ==
  {Candidate("matching", Ids(scope, ij), <<>>, "none") :
     ij \in MotifsOf(scope, "mirror") \cup MotifsOf(scope, "differential")}
  \cup {Candidate("symmetry", Ids(scope, ij), <<>>, "vertical") : ij \in MotifsOf(scope, "differential")}
  \cup {Candidate("common_centroid", {}, SetToSeq({GroupIds(g) : g \in p}), "both") : p \in CentroidsOf(scope)}

Infer ==
  /\ seen.verdict = "accepted" /\ phase = "preparing" /\ prepared = Len(circuit)
  /\ IF CandidateCount > limits.constraints THEN phase' = "constraints" /\ UNCHANGED inferred
     ELSE /\ inferred' = UNION {CandidatesOf(circuit[i]) : i \in DOMAIN circuit}
          /\ phase' = "inferred"
  /\ UNCHANGED <<circuit, limits, prepared, devices, pairs, documentVars>>

\* The caller declares every candidate: the report lists them by identity, that
\* is in any order.
Declare ==
  /\ phase = "inferred"
  /\ document' = FoldSet(LAMBDA c, doc : Append(doc, c), <<>>, inferred)
  /\ cursor' = 1 /\ seen' = Opened(document') /\ phase' = "declared"
  /\ UNCHANGED <<circuit, limits, prepared, devices, pairs, inferred>>

LayoutNext == (Validate /\ UNCHANGED inferring) \/ Prepare \/ Infer \/ Declare
LayoutSpec == LayoutInit /\ [][LayoutNext]_layoutVars
-----------------------------------------------------------------------------
\* The preflight count is the number of candidates made, so the limit is exact,
\* and no two candidates say the same.
CountIsExact ==
  phase = "inferred" =>
    Cardinality(inferred) = CandidateCount /\ Cardinality({SemanticKey(c) : c \in inferred}) = CandidateCount

\* A user who declares every inferred candidate is not refused: the candidates
\* are well formed, of one scope each, and do not contradict each other.
CandidatesCanBeDeclared == phase = "declared" => seen.verdict \in {"reading", "accepted"}
=============================================================================
