-------------------------- MODULE CircuitHierarchy --------------------------
(***************************************************************************)
(* From parsed scopes to the circuit graph: spice._select_top, the         *)
(* depth-first visit of _reference_closure and _build_graph.  A scope is   *)
(* [ports, defaults, nets, instances]: nets are those its primitives name, *)
(* instances maps the name of each to [of, nets, overrides].               *)
(***************************************************************************)
EXTENDS SpiceContext, Naturals, FiniteSets, FiniteSetsExt, Reachability, Checks

CONSTANT ElementOrder      \* the names of elements, in string order

NoTop == "no top"

VARIABLES
  library,    \* what was parsed: [scopes: name -> scope, globals: set of nets]
  requested,
  top,        \* the scope selected
  visiting,   \* <<name>> when the visit of that name is about to run, or <<>>
  visits,     \* the running visits: [name, left (instances the loop has not reached)]
  visited,
  builder,    \* "idle", "selecting", "closing", "building", "accepted" or the reason of an error
  graph       \* scope -> [nets: net -> identity, instances], once it is built

builderVars == <<library, requested, top, visiting, visits, visited, builder, graph>>

Scopes == DOMAIN library.scopes
InstancesOf(s) == library.scopes[s].instances
ReferencesOf(s) == {InstancesOf(s)[i].of : i \in DOMAIN InstancesOf(s)}
Referenced == UNION {ReferencesOf(s) : s \in Scopes}
-----------------------------------------------------------------------------
\* _select_top, once the request is known to exist or there is none.
Candidates == (Scopes \ {Root}) \ Referenced
HasElements(s) == library.scopes[s].nets # {} \/ DOMAIN InstancesOf(s) # {}
TopFailure(name) ==
  FirstFailure(<<
    <<name # NoTop /\ name \notin Scopes, "unknown top">>,
    <<name = NoTop /\ ~HasElements(Root) /\ Cardinality(Candidates) # 1, "ambiguous">> >>)
SelectedTop(name) ==
  IF name # NoTop THEN name ELSE IF HasElements(Root) THEN Root ELSE CHOOSE s \in Candidates : TRUE

BuilderInit ==
  /\ library = <<>> /\ requested = NoTop /\ builder = "idle"
  /\ top = NoTop /\ visiting = <<>> /\ visits = <<>> /\ visited = {} /\ graph = <<>>

\* The graph is to be built from what was parsed, under the top asked for.
StartBuilding(parsed, name) ==
  /\ builder = "idle"
  /\ library' = parsed /\ requested' = name /\ builder' = "selecting"
  /\ UNCHANGED <<top, visiting, visits, visited, graph>>

SelectTop ==
  /\ builder = "selecting"
  /\ IF TopFailure(requested) = Passed
     THEN top' = SelectedTop(requested) /\ visiting' = <<top'>> /\ builder' = "closing"
     ELSE builder' = TopFailure(requested) /\ UNCHANGED <<top, visiting>>
  /\ UNCHANGED <<library, requested, visits, visited, graph>>

\* Mutant: only the scope that holds the instance is looked at.
IsActiveParent(name) == visits # <<>> /\ Last(visits).name = name

IsActive(name) == \E i \in DOMAIN visits : visits[i].name = name

\* visit, up to its loop.  A visited scope returns before the other checks.
VisitFailure(name) ==
  FirstFailure(<<
    <<IsActive(name), "recursive">>,
    <<name \notin visited /\ Len(visits) >= limits.hierarchy_depth, "depth">>,
    <<name \notin Scopes, "undefined">> >>)

RefuseVisit ==
  /\ builder = "closing" /\ visiting # <<>>
  /\ VisitFailure(visiting[1]) # Passed
  /\ builder' = VisitFailure(visiting[1])
  /\ UNCHANGED <<library, requested, top, visiting, visits, visited, graph>>

Visit ==
  /\ builder = "closing" /\ visiting # <<>>
  /\ VisitFailure(visiting[1]) = Passed
  /\ visiting' = <<>>
  /\ visits' = IF visiting[1] \in visited THEN visits
               ELSE Append(visits, [name |-> visiting[1], left |-> DOMAIN InstancesOf(visiting[1])])
  /\ UNCHANGED <<library, requested, top, visited, builder, graph>>

\* The loop of visit over the instances, sorted by name.
Precedes(x, y) ==
  \E i, j \in DOMAIN ElementOrder : i < j /\ ElementOrder[i] = x /\ ElementOrder[j] = y

NextInstance ==
  /\ builder = "closing" /\ visiting = <<>> /\ visits # <<>>
  /\ \E x \in Last(visits).left :
       /\ ~\E y \in Last(visits).left : Precedes(y, x)
       /\ visiting' = <<InstancesOf(Last(visits).name)[x].of>>
       /\ visits' = [visits EXCEPT ![Len(visits)].left = @ \ {x}]
  /\ UNCHANGED <<library, requested, top, visited, builder, graph>>

Leave ==
  /\ builder = "closing" /\ visiting = <<>> /\ visits # <<>> /\ Last(visits).left = {}
  /\ visits' = Front(visits)
  /\ visited' = visited \cup {Last(visits).name}
  /\ builder' = IF Len(visits) = 1 THEN "building" ELSE "closing"
  /\ UNCHANGED <<library, requested, top, visiting, graph>>
-----------------------------------------------------------------------------
\* The nets of a scope and their identities.
NetsOf(s) ==
  ToSet(library.scopes[s].ports) \cup library.scopes[s].nets
    \cup UNION {ToSet(InstancesOf(s)[i].nets) : i \in DOMAIN InstancesOf(s)}

\* Mutant: only a net that is not a port of the scope is shared.
NetIdInner(s, net) ==
  <<"net", IF net \in library.globals \ ToSet(library.scopes[s].ports) THEN "__global__" ELSE s, net>>

\* stable_node_id hashes the three parts.
NetId(s, net) == <<"net", IF net \in library.globals THEN "__global__" ELSE s, net>>

InstanceFailure(instance) ==
  LET target == library.scopes[instance.of]
  IN FirstFailure(<<
       <<Len(instance.nets) # Len(target.ports), "arity">>,
       <<~(DOMAIN instance.overrides \subseteq DOMAIN target.defaults), "undeclared">> >>)

Effective(instance) == instance.overrides @@ library.scopes[instance.of].defaults

BuiltInstance(s, instance) ==
  [of |-> instance.of, parameters |-> instance.overrides, effective |-> Effective(instance),
   connections |->
     {<<library.scopes[instance.of].ports[i], NetId(s, instance.nets[i])>> : i \in DOMAIN instance.nets}]

\* The first failing instance in the order of names is reported; only which
\* of the two errors it is matters here.
RefuseBuild ==
  /\ builder = "building"
  /\ \E s \in visited : \E i \in DOMAIN InstancesOf(s) :
       /\ InstanceFailure(InstancesOf(s)[i]) # Passed
       /\ builder' = InstanceFailure(InstancesOf(s)[i])
  /\ UNCHANGED <<library, requested, top, visiting, visits, visited, graph>>

Build ==
  /\ builder = "building"
  /\ \A s \in visited : \A i \in DOMAIN InstancesOf(s) : InstanceFailure(InstancesOf(s)[i]) = Passed
  /\ graph' = [s \in visited |->
       [nets |-> [net \in NetsOf(s) |-> NetId(s, net)],
        instances |-> [i \in DOMAIN InstancesOf(s) |-> BuiltInstance(s, InstancesOf(s)[i])]]]
  /\ builder' = "accepted"
  /\ UNCHANGED <<library, requested, top, visiting, visits, visited>>

BuilderNext == SelectTop \/ RefuseVisit \/ Visit \/ NextInstance \/ Leave \/ RefuseBuild \/ Build
-----------------------------------------------------------------------------
References == [s \in Scopes \cup Referenced |-> IF s \in Scopes THEN ReferencesOf(s) ELSE {}]
Closure == Reachable(References, {top})
IsRecursive(s) == s \in Reachable(References, References[s])
\* Chains of references from the top, each scope at most once.
Chains ==
  {c \in SeqOf(Closure, Cardinality(Closure)) :
     c # <<>> /\ c[1] = top /\ IsInjective(c) /\ \A i \in 1..Len(c) - 1 : c[i + 1] \in References[c[i]]}

\* The closure that leaves the visit is what the top reaches, without recursion
\* or an undefined name; a refusal names a defect that is there, and nothing
\* within the limit on every path is refused.  A top found without a request
\* leaves out only what a recursion nobody refuses takes part in or uses.
ClosureVerdict ==
  /\ builder = "accepted" /\ requested = NoTop /\ top # Root =>
       \A s \in Scopes \ (visited \cup {Root}) :
         \E r \in Scopes : IsRecursive(r) /\ s \in Reachable(References, {r})
  /\ CASE builder \in {"building", "accepted", "arity", "undeclared"} ->
         visited = Closure /\ Closure \subseteq Scopes /\ \A s \in Closure : ~IsRecursive(s)
    [] builder = "recursive" -> \E s \in Closure : IsRecursive(s)
    [] builder = "undefined" -> ~(Closure \subseteq Scopes)
    [] builder = "depth" -> \E c \in Chains : Len(c) > limits.hierarchy_depth
    [] OTHER -> TRUE

\* Nets of two scopes share an identity exactly when both are the same global
\* net, whatever the scopes are called and whether the net is also a port.
SharedNetsAreGlobal ==
  builder = "accepted" =>
    \A s, t \in DOMAIN graph : s # t =>
      \A m \in DOMAIN graph[s].nets, n \in DOMAIN graph[t].nets :
        graph[s].nets[m] = graph[t].nets[n] <=> m = n /\ m \in library.globals

\* circuit-graph.md: the default hard limits "cover [...] hierarchy depth".  No
\* chain of references in an accepted graph is longer than the limit.
DepthIsBounded ==
  builder = "accepted" => \A c \in Chains : Len(c) <= limits.hierarchy_depth
=============================================================================
