-------------------------- MODULE ConnectivityViews --------------------------
(***************************************************************************)
(* graph_codec: the compact view of a circuit (owners, and labelled edges  *)
(* to nets), its pin view (a pin and a link for every edge), the checks of *)
(* both and the way back.  An identity is what is hashed, so identities    *)
(* are injective.  Sources, source lines, limits and the JSON text are     *)
(* left out; parameters are sequences of <<name, value>>.                  *)
(***************************************************************************)
EXTENDS Integers, FiniteSets, SequencesExt

CONSTANTS
  NameOrder,                 \* all names, in string order
  None                       \* a field that is absent

Terminals(element) ==
  CASE element = "mosfet" -> <<"d", "g", "s", "b">> [] element = "diode" -> <<"a", "c">>
    [] element = "bjt" -> <<"c", "b", "e">> [] OTHER -> <<"p", "n">>
Modelled == {"mosfet", "diode", "bjt"}

Rank(name) == CHOOSE i \in DOMAIN NameOrder : NameOrder[i] = name
Names(pairs) == {pair[1] : pair \in Range(pairs)}
AsMap(pairs) == [name \in Names(pairs) |-> (CHOOSE pair \in Range(pairs) : pair[1] = name)[2]]
Column(list, field) == [i \in DOMAIN list |-> list[i][field]]
AreSorted(names) == \A i \in 1..(Len(names) - 1) : Rank(names[i]) <= Rank(names[i + 1])
All(scopes, list) == FlattenSeq([s \in DOMAIN scopes |-> scopes[s][list]])

StableId(kind, scope, name) == <<kind, scope, name>>
NetId(scope, net) == StableId("net", IF net.is_global THEN "__global__" ELSE scope.name, net.name)
NameOf(scope, id) == (CHOOSE net \in Range(scope.nets) : net.id = id).name

\* circuit_graph_identity: neither ids, nor flags, nor the nets of ports, nor effective parameters.
Semantic(circuit) ==
  LET named(scope, ends) == [i \in DOMAIN ends |-> <<ends[i][1], NameOf(scope, ends[i][2])>>]
  IN [top |-> circuit.top,
      scopes |-> [s \in DOMAIN circuit.scopes |->
        LET scope == circuit.scopes[s]
        IN [name |-> scope.name, parameters |-> scope.parameters, ports |-> Column(scope.ports, "name"),
            nets |-> [n \in DOMAIN scope.nets |-> <<scope.nets[n].name, scope.nets[n].is_global>>],
            devices |-> [d \in DOMAIN scope.devices |->
              LET device == scope.devices[d]
              IN <<device.name, device.element, device.model, device.parameters, named(scope, device.ends)>>],
            instances |-> [x \in DOMAIN scope.instances |->
              LET instance == scope.instances[x]
              IN <<instance.name, instance.reference, instance.parameters, named(scope, instance.ends)>>]]]]
-----------------------------------------------------------------------------
\* _build_graph: all of a circuit follows from the names its identity keeps.
Built(semantic) ==
  LET globals(scope) == {net[1] : net \in {n \in Range(scope.nets) : n[2]}}
      net(scope, name) == NetId(scope, [name |-> name, is_global |-> name \in globals(scope)])
      bound(scope, ends) == [i \in DOMAIN ends |-> <<ends[i][1], net(scope, ends[i][2])>>]
      merged(instance) ==
        LET target == CHOOSE s \in Range(semantic.scopes) : s.name = instance[2]
            values == AsMap(instance[3]) @@ AsMap(target.parameters)
            names == SelectSeq(NameOrder, LAMBDA n : n \in DOMAIN values)
        IN [i \in DOMAIN names |-> <<names[i], values[names[i]]>>]
  IN [top |-> semantic.top,
      scopes |-> [s \in DOMAIN semantic.scopes |->
        LET scope == semantic.scopes[s]
        IN [id |-> StableId("scope", scope.name, scope.name), name |-> scope.name, parameters |-> scope.parameters,
            ports |-> [i \in DOMAIN scope.ports |->
              [id |-> StableId("port", scope.name, scope.ports[i]), name |-> scope.ports[i], index |-> i - 1,
               net |-> net(scope, scope.ports[i])]],
            nets |-> [i \in DOMAIN scope.nets |->
              [id |-> net(scope, scope.nets[i][1]), name |-> scope.nets[i][1],
               is_port |-> scope.nets[i][1] \in Range(scope.ports), is_global |-> scope.nets[i][2]]],
            devices |-> [i \in DOMAIN scope.devices |->
              LET d == scope.devices[i]
              IN [id |-> StableId("device", scope.name, d[1]), name |-> d[1], element |-> d[2], model |-> d[3],
                  parameters |-> d[4], ends |-> bound(scope, d[5])]],
            instances |-> [i \in DOMAIN scope.instances |->
              LET x == scope.instances[i]
              IN [id |-> StableId("instance", scope.name, x[1]), name |-> x[1], reference |-> x[2],
                  reference_id |-> StableId("scope", x[2], x[2]), parameters |-> x[3], effective |-> merged(x),
                  ends |-> bound(scope, x[4])]]]]]
-----------------------------------------------------------------------------
NoOwner == [id |-> None, name |-> None, kind |-> None, index |-> None, element |-> None, model |-> None,
            reference |-> None, reference_id |-> None, parameters |-> <<>>, effective |-> <<>>]
Owner(kind, item) == [f \in DOMAIN NoOwner |-> IF f = "kind" THEN kind ELSE IF f \in DOMAIN item THEN item[f] ELSE NoOwner[f]]

Edge(scope, owner, terminal, ordinal, net) ==
  [id |-> <<"edge", scope, owner, terminal, ordinal, net>>,
   owner |-> owner, terminal |-> terminal, ordinal |-> ordinal, net |-> net]
EndEdges(scope, owner, ends) == [i \in DOMAIN ends |-> Edge(scope, owner, ends[i][1], i - 1, ends[i][2])]

\* _scope_to_compact
CompactScope(scope) ==
  LET edges(items) == FlattenSeq([i \in DOMAIN items |-> EndEdges(scope.id, items[i].id, items[i].ends)])
  IN [id |-> scope.id, name |-> scope.name, parameters |-> scope.parameters, nets |-> scope.nets,
      owners |-> [i \in DOMAIN scope.ports |-> Owner("port", scope.ports[i])]
                 \o [i \in DOMAIN scope.devices |-> Owner("device", scope.devices[i])]
                 \o [i \in DOMAIN scope.instances |-> Owner("instance", scope.instances[i])],
      edges |-> [i \in DOMAIN scope.ports |-> Edge(scope.id, scope.ports[i].id, "port", 0, scope.ports[i].net)]
                \o edges(scope.devices) \o edges(scope.instances)]

\* body_dict: parameters become objects, so their order is forgotten.
Body(document) ==
  [source |-> document.source, top |-> document.top,
   scopes |-> [s \in DOMAIN document.scopes |->
     LET scope == document.scopes[s]
     IN [scope EXCEPT !.parameters = AsMap(@),
           !.owners = [o \in DOMAIN @ |-> [@[o] EXCEPT !.parameters = AsMap(@), !.effective = AsMap(@)]]]]]

Signed(document) == [document EXCEPT !.representation = Body(document)]

\* compact_graph, before it is validated.
CompactGraph(circuit) ==
  Signed([representation |-> None, source |-> Semantic(circuit), top |-> circuit.top,
          scopes |-> [s \in DOMAIN circuit.scopes |-> CompactScope(circuit.scopes[s])]])

PinId(edge) == <<"pin", edge>>
LinkId(pin, net) == <<"link", pin, net>>
WithoutEdges(scope) == [f \in DOMAIN scope \ {"edges", "pins", "links"} |-> scope[f]]

\* compact_to_pin, before it is validated.
ToPin(document) ==
  Signed([document EXCEPT !.scopes = [s \in DOMAIN @ |->
    WithoutEdges(@[s])
    @@ [pins |-> [i \in DOMAIN @[s].edges |->
                    LET e == @[s].edges[i] IN [id |-> PinId(e.id), owner |-> e.owner, terminal |-> e.terminal, ordinal |-> e.ordinal]],
        links |-> [i \in DOMAIN @[s].edges |->
                     LET e == @[s].edges[i] IN [id |-> LinkId(PinId(e.id), e.net), pin |-> PinId(e.id), net |-> e.net]]]]])

NetOfPin(scope, pin) == LET last == SelectLastInSeq(scope.links, LAMBDA l : l.pin = pin) IN scope.links[last].net

\* _pin_to_compact_unchecked: the edge ids are made anew.
ToCompact(document) ==
  Signed([document EXCEPT !.scopes = [s \in DOMAIN @ |->
    WithoutEdges(@[s])
    @@ [edges |-> [i \in DOMAIN @[s].pins |->
          LET p == @[s].pins[i] IN Edge(@[s].id, p.owner, p.terminal, p.ordinal, NetOfPin(@[s], p.id))]]]])

\* The edges, or pins, of an owner by ordinal.
Ordered(list, owner) == SortSeq(SelectSeq(list, LAMBDA x : x.owner = owner.id), LAMBDA x, y : x.ordinal < y.ordinal)
OfKind(scope, kind) == SelectSeq(scope.owners, LAMBDA o : o.kind = kind)
PortsByIndex(scope) == SortSeq(OfKind(scope, "port"), LAMBDA o, p : o.index < p.index)

\* _compact_to_circuit_unchecked
ToCircuit(document) ==
  LET ends(scope, owner) == LET own == Ordered(scope.edges, owner) IN [i \in DOMAIN own |-> <<own[i].terminal, own[i].net>>]
  IN [top |-> document.top,
      scopes |-> [s \in DOMAIN document.scopes |->
        LET scope == document.scopes[s]
            ports == PortsByIndex(scope)
            devices == OfKind(scope, "device")
            instances == OfKind(scope, "instance")
        IN [id |-> scope.id, name |-> scope.name, parameters |-> scope.parameters, nets |-> scope.nets,
            ports |-> [i \in DOMAIN ports |-> [id |-> ports[i].id, name |-> ports[i].name, index |-> ports[i].index,
                                               net |-> ends(scope, ports[i])[1][2]]],
            devices |-> [i \in DOMAIN devices |->
              [id |-> devices[i].id, name |-> devices[i].name, element |-> devices[i].element, model |-> devices[i].model,
               parameters |-> devices[i].parameters, ends |-> ends(scope, devices[i])]],
            instances |-> [i \in DOMAIN instances |->
              [id |-> instances[i].id, name |-> instances[i].name, reference |-> instances[i].reference,
               reference_id |-> instances[i].reference_id, parameters |-> instances[i].parameters,
               effective |-> instances[i].effective, ends |-> ends(scope, instances[i])]]]]]
-----------------------------------------------------------------------------
(* The checks, in the order of the code. *)

Lacks(owner, fields) == \A f \in fields : owner[f] = None

\* _validate_owner
IsOwner(o) ==
  /\ Cardinality(Names(o.parameters)) = Len(o.parameters) /\ Cardinality(Names(o.effective)) = Len(o.effective)
  /\ CASE o.kind = "port" ->
            /\ o.index # None /\ Lacks(o, {"element", "model", "reference", "reference_id"})
            /\ o.parameters = <<>> /\ o.effective = <<>>
       [] o.kind = "device" ->
            /\ Lacks(o, {"index", "reference", "reference_id"}) /\ o.element # None /\ o.effective = <<>>
       [] o.kind = "instance" ->
            Lacks(o, {"index", "element", "model"}) /\ o.reference # None /\ o.reference_id # None

IsEffective(o, target) ==
  Names(o.parameters) \subseteq Names(target.parameters) /\ AsMap(o.effective) = AsMap(o.parameters) @@ AsMap(target.parameters)

\* Owners come as ports by index, devices by name, instances by name.
OwnerOrder(o) ==
  CASE o.kind = "port" -> <<1, o.index>> [] o.kind = "device" -> <<2, Rank(o.name)>> [] o.kind = "instance" -> <<3, Rank(o.name)>>
InOrder(p, q) == p[1] < q[1] \/ (p[1] = q[1] /\ p[2] <= q[2])

\* _validate_common, on one scope.
ScopeHolds(scope) ==
  /\ scope.id = StableId("scope", scope.name, scope.name)
  /\ Cardinality(Names(scope.parameters)) = Len(scope.parameters)
  /\ AreSorted([i \in DOMAIN scope.parameters |-> scope.parameters[i][1]])
  /\ AreSorted(Column(scope.nets, "name"))
  /\ \A net \in Range(scope.nets) : net.id = NetId(scope, net)
  /\ IsInjective(Column(scope.nets, "id"))
  /\ \A o \in Range(scope.owners) : IsOwner(o)
  /\ \A i \in 1..(Len(scope.owners) - 1) : InOrder(OwnerOrder(scope.owners[i]), OwnerOrder(scope.owners[i + 1]))
  /\ \A o \in Range(scope.owners) : o.id = StableId(o.kind, scope.name, o.name)
  /\ {o.index : o \in Range(OfKind(scope, "port"))} = 0..(Len(OfKind(scope, "port")) - 1)

\* _validate_common
CommonHolds(document) ==
  LET scopes == document.scopes
  IN /\ scopes # <<>> /\ AreSorted(Column(scopes, "name")) /\ IsInjective(Column(scopes, "name"))
     /\ \A s \in DOMAIN scopes : ScopeHolds(scopes[s])
     /\ \A s, t \in DOMAIN scopes : s # t =>
          \A m \in Range(scopes[s].nets), n \in Range(scopes[t].nets) : m.id = n.id => m.is_global /\ n.is_global /\ m.name = n.name
     /\ IsInjective(Column(All(scopes, "owners"), "id"))
     /\ document.top \in Range(Column(scopes, "name"))
     /\ \A o \in {p \in Range(All(scopes, "owners")) : p.kind = "instance"} :
          \E target \in Range(scopes) :
            target.name = o.reference /\ target.id = o.reference_id /\ IsEffective(o, target)

\* _validate_incidence_contract
MeetsContract(owner, terminals, scopes) ==
  CASE owner.kind = "port" -> terminals = <<"port">>
    [] owner.kind = "device" -> terminals = Terminals(owner.element) /\ (owner.element \in Modelled <=> owner.model # None)
    [] owner.kind = "instance" ->
         LET target == CHOOSE s \in Range(scopes) : s.name = owner.reference
         IN terminals = Column(PortsByIndex(target), "name")

\* _validate_port_net_contract; net holds the first net of every owner.
PortsMeetNets(scope, net) ==
  /\ {net[o.id] : o \in Range(OfKind(scope, "port"))} = {n.id : n \in {m \in Range(scope.nets) : m.is_port}}
  /\ \A o \in Range(OfKind(scope, "port")) : NameOf(scope, net[o.id]) = o.name

\* Of every owner the terminals are numbered without gap, named once, and those it must have.
TerminalsHold(list, owner, scopes) ==
  LET own == Ordered(list, owner)
  IN /\ own # <<>> /\ \A i \in DOMAIN own : own[i].ordinal = i - 1
     /\ IsInjective(Column(own, "terminal"))
     /\ MeetsContract(owner, Column(own, "terminal"), scopes)

\* Mutant: the owners are in order, the terminals of one need not be.
FollowsOwnersOnly(list, owners) ==
  LET position(x) == CHOOSE i \in DOMAIN owners : owners[i].id = x.owner
  IN \A i \in 1..(Len(list) - 1) : position(list[i]) <= position(list[i + 1])

\* Edges, or pins, come owner by owner and by ordinal.
FollowsOwners(list, owners) ==
  LET position(x) == CHOOSE i \in DOMAIN owners : owners[i].id = x.owner
  IN \A i \in 1..(Len(list) - 1) :
       InOrder(<<position(list[i]), list[i].ordinal>>, <<position(list[i + 1]), list[i + 1].ordinal>>)

SourceHolds(document, compact) == document.representation = Body(document) /\ document.source = Semantic(ToCircuit(compact))

\* validate_compact_graph
IsCompact(document) ==
  /\ CommonHolds(document)
  /\ IsInjective(Column(All(document.scopes, "edges"), "id"))
  /\ \A s \in DOMAIN document.scopes :
       LET scope == document.scopes[s]
       IN /\ \A e \in Range(scope.edges) :
               /\ e.owner \in Range(Column(scope.owners, "id")) /\ e.net \in Range(Column(scope.nets, "id"))
               /\ e = Edge(scope.id, e.owner, e.terminal, e.ordinal, e.net)
          /\ IsInjective([i \in DOMAIN scope.edges |-> <<scope.edges[i].owner, scope.edges[i].ordinal>>])
          /\ \A o \in Range(scope.owners) : TerminalsHold(scope.edges, o, document.scopes)
          /\ FollowsOwners(scope.edges, scope.owners)
          /\ PortsMeetNets(scope, [o \in Range(Column(scope.owners, "id")) |-> Ordered(scope.edges, [id |-> o])[1].net])
  /\ SourceHolds(document, document)

\* Mutant: a pin that is linked need not be the pin of its incidence.
PinMatchesAnything(scope, pin) == TRUE

PinMatches(scope, pin) ==
  pin.id = PinId(Edge(scope.id, pin.owner, pin.terminal, pin.ordinal, NetOfPin(scope, pin.id)).id)

\* validate_pin_graph
IsPin(document) ==
  /\ CommonHolds(document)
  /\ IsInjective(Column(All(document.scopes, "pins"), "id")) /\ IsInjective(Column(All(document.scopes, "links"), "id"))
  /\ \A s \in DOMAIN document.scopes :
       LET scope == document.scopes[s]
       IN /\ \A p \in Range(scope.pins) : p.owner \in Range(Column(scope.owners, "id"))
          /\ IsInjective([i \in DOMAIN scope.pins |-> <<scope.pins[i].owner, scope.pins[i].ordinal>>])
          /\ \A l \in Range(scope.links) :
               /\ l.pin \in Range(Column(scope.pins, "id")) /\ l.net \in Range(Column(scope.nets, "id"))
               /\ l.id = LinkId(l.pin, l.net)
          /\ Column(scope.links, "pin") = Column(scope.pins, "id")
          /\ FollowsOwners(scope.pins, scope.owners)
          /\ \A o \in Range(scope.owners) : TerminalsHold(scope.pins, o, document.scopes)
          /\ \A p \in Range(scope.pins) : PinMatches(scope, p)
          /\ PortsMeetNets(scope, [o \in Range(Column(scope.owners, "id")) |->
                                     NetOfPin(scope, Ordered(scope.pins, [id |-> o])[1].id)])
  /\ SourceHolds(document, ToCompact(document))
=============================================================================
