----------------------------- MODULE EulerTrails -----------------------------
(***************************************************************************)
(* graph_sequence: one scope's incidences, each an edge between an owner   *)
(* and a net, are covered by trails (_trails), and the edges are read back *)
(* from the trails (_parse).  Vertices with an odd number of incidences    *)
(* are paired by virtual edges, each component is walked in a circuit      *)
(* (Hierholzer's algorithm), and the circuits are cut at the virtual edges.*)
(*                                                                         *)
(* Which vertex or edge comes first is a hash of the seed: any is taken.   *)
(***************************************************************************)
EXTENDS Naturals, FiniteSets, FiniteSetsExt, Reachability, Checks

VARIABLES
  edges,      \* the incidences of the scope: <<owner, net>>, by owner and ordinal
  endpoints,  \* the incidences, then the virtual edges
  walk,       \* "none", "pairing", "walking", "done"
  unseen,     \* the vertices whose component has not been walked
  vertices,   \* the stack of the walk
  entered,    \* the edges that led to the vertices of the stack
  reverse_walk, used,
  trails      \* [start, steps]; a step is [edge, target]

walking == <<vertices, entered, reverse_walk, used>>
trailVars == <<edges, endpoints, walk, unseen, walking, trails>>

Ends(list, i) == {list[i][1], list[i][2]}
Degree(list, v) == Cardinality({i \in DOMAIN list : list[i][1] = v}) + Cardinality({i \in DOMAIN list : list[i][2] = v})
VerticesOf(list) == UNION {Ends(list, i) : i \in DOMAIN list}
Odd(list) == {v \in VerticesOf(list) : Degree(list, v) % 2 = 1}
Component(list, v) ==
  Reachable([u \in VerticesOf(list) |-> UNION {Ends(list, i) : i \in {j \in DOMAIN list : u \in Ends(list, j)}}], {v})

\* Every owner of a scope has an incidence, so the list names the owners.
Owners == {edges[i][1] : i \in DOMAIN edges}

NoTrails ==
  /\ edges = <<>> /\ endpoints = <<>> /\ walk = "none" /\ unseen = {}
  /\ vertices = <<>> /\ entered = <<>> /\ reverse_walk = <<>> /\ used = {}
  /\ trails = <<>>

\* The list of a scope is handed to _trails.
Lay(incidences) ==
  /\ walk = "none"
  /\ edges' = incidences /\ endpoints' = incidences
  /\ unseen' = VerticesOf(incidences)
  /\ walk' = "pairing"
  /\ UNCHANGED <<walking, trails>>
-----------------------------------------------------------------------------
\* zip(odd[::2], odd[1::2]) of one component: any matching of its odd vertices.
\* The order and direction of the pairs are those of the free choices below.
Pair(v) ==
  LET u == CHOOSE w \in Odd(endpoints) : TRUE IN
  /\ walk = "pairing" /\ Odd(endpoints) # {}
  /\ v \in (Odd(endpoints) \cap Component(edges, u)) \ {u}
  /\ endpoints' = Append(endpoints, <<u, v>>)
  /\ UNCHANGED <<edges, walk, unseen, walking, trails>>

Paired ==
  /\ walk = "pairing" /\ Odd(endpoints) = {}
  /\ walk' = "walking"
  /\ UNCHANGED <<edges, endpoints, unseen, walking, trails>>

Idle == walk = "walking" /\ vertices = <<>> /\ reverse_walk = <<>>

Begin(root) ==
  /\ Idle /\ root \in unseen
  /\ vertices' = <<root>>
  /\ unseen' = unseen \ Component(edges, root)
  /\ UNCHANGED <<edges, endpoints, walk, entered, reverse_walk, used, trails>>

\* What is left of adjacency[node] once the used edges are popped.
Unused(node) == {i \in DOMAIN endpoints \ used : node \in Ends(endpoints, i)}

Forward(i) ==
  /\ vertices # <<>> /\ i \in Unused(Last(vertices))
  /\ used' = used \cup {i}
  /\ vertices' = Append(vertices, IF Last(vertices) = endpoints[i][1] THEN endpoints[i][2] ELSE endpoints[i][1])
  /\ entered' = Append(entered, i)
  /\ UNCHANGED <<edges, endpoints, walk, unseen, reverse_walk, trails>>

Back ==
  /\ vertices # <<>> /\ Unused(Last(vertices)) = {}
  /\ vertices' = Front(vertices)
  /\ IF entered = <<>> THEN UNCHANGED <<entered, reverse_walk>>
     ELSE /\ entered' = Front(entered)
          /\ reverse_walk' = Append(reverse_walk,
               [edge |-> Last(entered), source |-> vertices[Len(vertices) - 1], target |-> Last(vertices)])
  /\ UNCHANGED <<edges, endpoints, walk, unseen, used, trails>>

IsVirtual(step) == step.edge > Len(edges)

\* Mutant: the circuit is cut where the walk happened to start.
RotatedNever(circuit) == circuit

\* The circuit, turned so that it ends in a virtual edge.
Rotated(circuit) ==
  LET virtual == SelectInSeq(circuit, IsVirtual)
  IN SubSeq(circuit, virtual + 1, Len(circuit)) \o SubSeq(circuit, 1, virtual)

\* The runs of incidences between virtual edges.
Cut(circuit) ==
  LET Add(done, step) ==
        IF IsVirtual(step) THEN [trails |-> done.trails, broken |-> TRUE]
        ELSE LET next == [edge |-> step.edge, target |-> step.target]
             IN [broken |-> FALSE,
                 trails |-> IF done.broken
                            THEN Append(done.trails, [start |-> step.source, steps |-> <<next>>])
                            ELSE [done.trails EXCEPT ![Len(done.trails)].steps = Append(@, next)]]
  IN FoldLeft(Add, [trails |-> <<>>, broken |-> TRUE], circuit).trails

Finish ==
  /\ walk = "walking" /\ vertices = <<>> /\ reverse_walk # <<>>
  /\ trails' = trails \o Cut(Rotated(Reverse(reverse_walk)))
  /\ reverse_walk' = <<>>
  /\ UNCHANGED <<edges, endpoints, walk, unseen, vertices, entered, used>>

Done ==
  /\ Idle /\ unseen = {}
  /\ walk' = "done"
  /\ UNCHANGED <<edges, endpoints, unseen, walking, trails>>

Walk ==
  \/ \E v \in VerticesOf(edges) : Pair(v)
  \/ Paired \/ \E root \in unseen : Begin(root)
  \/ \E i \in DOMAIN endpoints : Forward(i)
  \/ Back \/ Finish \/ Done
-----------------------------------------------------------------------------
\* _minimum_trail_count
MinimumTrailCount(list) ==
  MapThenSumSet(LAMBDA c : Max({1, Cardinality(Odd(list) \cap c) \div 2}),
                {Component(list, list[i][1]) : i \in DOMAIN list})

\* _parse: the vertex before each step, and the incidences the steps spell out.
Source(trail, n) == IF n = 1 THEN trail.start ELSE trail.steps[n - 1].target
Incidence(trail, n) ==
  LET current == Source(trail, n)  target == trail.steps[n].target
  IN IF current \in Owners THEN [edge |-> trail.steps[n].edge, ends |-> <<current, target>>]
     ELSE [edge |-> trail.steps[n].edge, ends |-> <<target, current>>]
Alternates(trail) ==
  \A n \in DOMAIN trail.steps : (Source(trail, n) \in Owners) # (trail.steps[n].target \in Owners)
Incidences(list) ==
  FlattenSeq([k \in DOMAIN list |-> [n \in DOMAIN list[k].steps |-> Incidence(list[k], n)]])
Decoded(list) ==
  LET sorted == SortSeq(Incidences(list), LAMBDA x, y : x.edge < y.edge)
  IN [i \in DOMAIN sorted |-> sorted[i].ends]

WrongCount(list) == Len(list) # MinimumTrailCount(Decoded(list))

DecodeFailure(list) ==
  FirstFailure(<<
    <<\E k \in DOMAIN list : ~Alternates(list[k]), "alternate">>,
    <<\E k \in DOMAIN list : list[k].steps = <<>>, "empty">>,
    <<WrongCount(list), "count">> >>)

\* The trails with one of them cut in two.
Split(k, n) ==
  LET head == [trails[k] EXCEPT !.steps = SubSeq(@, 1, n)]
      tail == [start |-> Source(trails[k], n + 1), steps |-> SubSeq(trails[k].steps, n + 1, Len(trails[k].steps))]
  IN SubSeq(trails, 1, k - 1) \o <<head, tail>> \o SubSeq(trails, k + 1, Len(trails))

\* Whatever the seed, the trails read back as the same incidences in the same
\* order, and are as few as the decoder demands: cut anywhere, they are refused.
DecodingRestores ==
  walk = "done" =>
    /\ DecodeFailure(trails) = Passed /\ Decoded(trails) = edges
    /\ \A k \in DOMAIN trails : \A n \in 1..Len(trails[k].steps) - 1 : DecodeFailure(Split(k, n)) = "count"
=============================================================================
