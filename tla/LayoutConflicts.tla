--------------------------- MODULE LayoutConflicts ---------------------------
(***************************************************************************)
(* layout.parse_layout_constraints: the shape of each declared constraint  *)
(* (_constraint), then validate_layout_conflicts, which reads the document *)
(* once, collecting what later constraints must agree with, and at the end *)
(* looks for cyclic orders, before and after aligned devices are merged.   *)
(*                                                                         *)
(* A constraint is [id, kind, subjects, groups, axis, value]: subjects is  *)
(* a sequence of graph identities, axis also stands for the direction of   *)
(* an order and value for the tolerance, margin or priority.               *)
(***************************************************************************)
EXTENDS Integers, FiniteSets, FiniteSetsExt, Reachability, Checks

CONSTANTS
  PlacementScope,   \* device or instance (a number) -> its definition scope
  NetIds,
  MaxConstraints,   \* _MAX_CONSTRAINTS
  MaxReferences     \* _MAX_REFERENCES

Placeable == DOMAIN PlacementScope
PlacementAxes == {"x", "y"}

ASSUME PlacementAssumption == IsFiniteSet(Placeable) /\ Placeable \subseteq Nat
-----------------------------------------------------------------------------
AxesOf ==
  [symmetry |-> {"horizontal", "vertical"}, common_centroid |-> {"horizontal", "vertical", "both"},
   alignment |-> PlacementAxes, order |-> {"left_to_right", "right_to_left", "bottom_to_top", "top_to_bottom"},
   matching |-> {"none"}, keepout |-> {"none"}, net_priority |-> {"none"}]
Minimum(kind) == IF kind \in {"keepout", "net_priority", "common_centroid"} THEN 1 ELSE 2
Allowed(kind) == IF kind = "net_priority" THEN NetIds ELSE Placeable

\* _subjects, then _require_same_scope for everything but nets.
SubjectsFailure(kind, subjects) ==
  FirstFailure(<<
    <<Len(subjects) < Minimum(kind), "short">>,
    <<~IsInjective(subjects), "repeated">>,
    <<~(ToSet(subjects) \subseteq Allowed(kind)), "unknown">>,
    <<kind # "net_priority" /\ Cardinality({PlacementScope[s] : s \in ToSet(subjects) \cap Placeable}) > 1, "scopes">> >>)

\* _constraint
ShapeFailure(c) ==
  IF c.kind \notin DOMAIN AxesOf THEN "kind" ELSE FirstFailure(<<
    <<c.kind # "common_centroid" /\ SubjectsFailure(c.kind, c.subjects) # Passed, "subjects">>,
    <<c.kind = "common_centroid" /\ Len(c.groups) # 2, "groups">>,
    <<c.kind = "common_centroid" /\ \E g \in ToSet(c.groups) : SubjectsFailure(c.kind, g) # Passed, "subjects">>,
    <<c.kind = "common_centroid" /\ \E g, h \in ToSet(c.groups) : Len(g) # Len(h), "sizes">>,
    <<c.kind = "common_centroid" /\ SubjectsFailure(c.kind, FlattenSeq(c.groups)) # Passed, "overlap">>,
    <<c.axis \notin AxesOf[c.kind], "axis">>,
    <<c.kind \in {"matching", "keepout", "net_priority"} /\ c.value < 0, "value">>,
    <<c.kind = "net_priority" /\ c.value > 100, "value">> >>)

\* _normalized_order
OrderAxis(c) == IF c.axis \in {"left_to_right", "right_to_left"} THEN "x" ELSE "y"
NormalizedOrder(c) == IF c.axis \in {"right_to_left", "top_to_bottom"} THEN Reverse(c.subjects) ELSE c.subjects

\* _semantic_key
SemanticKey(c) ==
  IF c.kind = "order" THEN <<c.kind, OrderAxis(c), NormalizedOrder(c)>>
  ELSE <<c.kind, c.axis, ToSet(c.subjects), {ToSet(g) : g \in ToSet(c.groups)}, c.value>>

\* _has_cycle: whether anything is left once nodes without a predecessor are
\* consumed, again and again.
HasCycle(edges) ==
  LET nodes == UNION {{e[1], e[2]} : e \in edges}
      left[n \in Nat] ==
        IF n = 0 THEN nodes ELSE LET rest == left[n - 1] IN {v \in rest : \E e \in edges : e[1] \in rest /\ e[2] = v}
  IN left[Cardinality(nodes)] # {}

\* Mutant: a group is attached to its own least member only.
MergeShallow(root, group) ==
  [v \in DOMAIN root |-> IF v \in group THEN Min(group) ELSE root[v]]

\* One group of _contract_alignment_groups: all classes it touches become one,
\* named by their least member.
Merge(root, group) ==
  LET joined == {root[v] : v \in group}
  IN [v \in DOMAIN root |-> IF root[v] \in joined THEN Min(joined) ELSE root[v]]
Contracted(edges, groups) ==
  LET roots[n \in 0..Len(groups)] ==
        IF n = 0 THEN [v \in Placeable |-> v] ELSE Merge(roots[n - 1], groups[n])
  IN {<<roots[Len(groups)][e[1]], roots[Len(groups)][e[2]]>> : e \in edges}
-----------------------------------------------------------------------------
\* What validate_layout_conflicts collects; the maps are sets of pairs.
Start ==
  [verdict |-> "reading", ids |-> {}, semantics |-> {}, symmetry_axes |-> {}, alignment_axes |-> {},
   alignment_groups |-> [a \in PlacementAxes |-> <<>>], priorities |-> {}, order_edges |-> [a \in PlacementAxes |-> {}]]

EdgesOf(c) == {<<NormalizedOrder(c)[i], NormalizedOrder(c)[i + 1]>> : i \in 1..Len(c.subjects) - 1}
Disagrees(known, key, value) == \E entry \in known : entry[1] = key /\ entry[2] # value

\* Mutant: only a priority above the one known is a conflict.
PriorityConflictAbove(seen, c) ==
  \E net \in ToSet(c.subjects) : \E entry \in seen.priorities : entry[1] = net /\ entry[2] < c.value

PriorityConflict(seen, c) == \E net \in ToSet(c.subjects) : Disagrees(seen.priorities, net, c.value)

ConflictFailure(seen, c) ==
  FirstFailure(<<
    <<c.id \in seen.ids, "duplicate id">>,
    <<SemanticKey(c) \in seen.semantics, "duplicate">>,
    <<c.kind = "symmetry" /\ Disagrees(seen.symmetry_axes, ToSet(c.subjects), c.axis), "axes">>,
    <<c.kind = "alignment" /\ Disagrees(seen.alignment_axes, ToSet(c.subjects), c.axis), "axes">>,
    <<c.kind = "net_priority" /\ PriorityConflict(seen, c), "priorities">> >>)

Collected(seen, c) ==
  LET known == [seen EXCEPT !.ids = @ \cup {c.id}, !.semantics = @ \cup {SemanticKey(c)}]
  IN CASE c.kind = "symmetry" -> [known EXCEPT !.symmetry_axes = @ \cup {<<ToSet(c.subjects), c.axis>>}]
       [] c.kind = "alignment" ->
            [known EXCEPT !.alignment_axes = @ \cup {<<ToSet(c.subjects), c.axis>>},
                          !.alignment_groups[c.axis] = Append(@, ToSet(c.subjects))]
       [] c.kind = "net_priority" -> [known EXCEPT !.priorities = @ \cup (ToSet(c.subjects) \X {c.value})]
       [] c.kind = "order" -> [known EXCEPT !.order_edges[OrderAxis(c)] = @ \cup EdgesOf(c)]
       [] OTHER -> known

Step(seen, c) ==
  IF seen.verdict # "reading" THEN seen
  ELSE IF ConflictFailure(seen, c) # Passed THEN [seen EXCEPT !.verdict = ConflictFailure(seen, c)]
  ELSE Collected(seen, c)

\* After the loop, axis by axis.
AxisFailure(seen, a) ==
  FirstFailure(<<
    <<HasCycle(seen.order_edges[a]), "cycle">>,
    <<HasCycle(Contracted(seen.order_edges[a], seen.alignment_groups[a])), "alignment">> >>)
Ended(seen) ==
  IF seen.verdict # "reading" THEN seen
  ELSE [seen EXCEPT !.verdict = FirstFailure(<<
          <<AxisFailure(seen, "x") # Passed, AxisFailure(seen, "x")>>,
          <<AxisFailure(seen, "y") # Passed, AxisFailure(seen, "y")>>,
          <<TRUE, "accepted">> >>)]

References(document) ==
  LET counted[n \in 0..Len(document)] ==
        IF n = 0 THEN 0
        ELSE counted[n - 1] + Len(document[n].subjects) + Len(FlattenSeq(document[n].groups))
  IN counted[Len(document)]

\* parse_layout_constraints up to the conflicts.
DocumentFailure(document) ==
  FirstFailure(<<
    <<Len(document) > MaxConstraints, "constraints">>,
    <<References(document) > MaxReferences, "references">>,
    <<\E i \in DOMAIN document : ShapeFailure(document[i]) # Passed, "shape">> >>)

Parsed(document) ==
  IF DocumentFailure(document) # Passed THEN DocumentFailure(document)
  ELSE LET taken[n \in 0..Len(document)] == IF n = 0 THEN Start ELSE Step(taken[n - 1], document[n])
       IN Ended(taken[Len(document)]).verdict

VARIABLES document, cursor, seen
documentVars == <<document, cursor, seen>>

\* What is known of a document before its first constraint is compared.
Opened(doc) ==
  IF DocumentFailure(doc) = Passed THEN Start ELSE [Start EXCEPT !.verdict = DocumentFailure(doc)]

Read ==
  /\ seen.verdict = "reading" /\ cursor <= Len(document)
  /\ seen' = Step(seen, document[cursor])
  /\ cursor' = cursor + 1
  /\ UNCHANGED document
End ==
  /\ seen.verdict = "reading" /\ cursor > Len(document)
  /\ seen' = Ended(seen)
  /\ UNCHANGED <<document, cursor>>
Validate == Read \/ End
-----------------------------------------------------------------------------
Of(kind) == {c \in ToSet(document) : c.kind = kind}

\* Some coordinates on axis a put every order in its order, and every one of
\* these aligned groups on one line.
HasCoordinates(a, aligned) ==
  \E place \in [Placeable -> 1..Cardinality(Placeable)] :
    /\ \A c \in aligned : c.axis = a => \A s, t \in ToSet(c.subjects) : place[s] = place[t]
    /\ \A c \in Of("order") : OrderAxis(c) = a =>
         LET least == CASE c.axis \in {"left_to_right", "bottom_to_top"} -> 1 [] OTHER -> -1
         IN \A i \in 1..Len(c.subjects) - 1 : place[c.subjects[i]] * least < place[c.subjects[i + 1]] * least

\* A document whose orders and alignments are the only doubt is accepted
\* exactly when devices can be placed that way, however many alignments have to
\* be combined to see it; alignment is blamed only where some axis has
\* coordinates without it.
PlaceableIffAccepted ==
  /\ seen.verdict \in {"accepted", "cycle", "alignment"} =>
       (seen.verdict = "accepted") = \A a \in PlacementAxes : HasCoordinates(a, Of("alignment"))
  /\ seen.verdict = "alignment" =>
       \E a \in PlacementAxes : HasCoordinates(a, {}) /\ ~HasCoordinates(a, Of("alignment"))

\* Whether a document is accepted does not depend on the order it is written in.
DocumentOrderIsIrrelevant ==
  seen.verdict \notin {"reading", "constraints", "references", "shape"} =>
    \A i, j \in DOMAIN document : i < j =>
      (Parsed([document EXCEPT ![i] = document[j], ![j] = document[i]]) = "accepted") = (seen.verdict = "accepted")
=============================================================================
