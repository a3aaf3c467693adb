------------------------------ MODULE Topology ------------------------------
(***************************************************************************)
(* Circuit graphs and their identity: graph.py and canonical.py.           *)
(*                                                                         *)
(* A topology is a record of its ports (a function from names to roles),   *)
(* its nets and its devices (a function from names to kind, role and the   *)
(* net on each terminal).  The role attribute stands for all attributes:   *)
(* the only other one, value=unsized, is a function of the kind.           *)
(*                                                                         *)
(* The builder raises GraphError on a call it cannot make.  An exception   *)
(* ends the search, so here a topology remembers in raised whether it was  *)
(* made by such a call, and Derivation checks that no rule ever does.      *)
(***************************************************************************)
EXTENDS Naturals, Sequences, FiniteSets, Functions, Reachability, TLC

Transistors == {"nmos", "pmos"}
Passives == {"resistor", "capacitor"}
DeviceKinds == Transistors \cup Passives \cup {"current_source"}

Terminals(kind) == IF kind \in Transistors THEN {"d", "g", "s", "b"} ELSE {"p", "n"}

Graph(ports, nets, devices, raised) ==
  [ports |-> ports, nets |-> nets, devices |-> devices, raised |-> raised]
Device(kind, role, net) == [kind |-> kind, role |-> role, net |-> net]

EmptyTopology == Graph([p \in {} |-> ""], {}, [d \in {} |-> ""], {})

\* A dictionary with one more entry; :> and @@ would say the same, but only
\* TLC knows them.
Entered(dict, key, value) ==
  [k \in DOMAIN dict \cup {key} |-> IF k = key THEN value ELSE dict[k]]

\* What t has raised after a call that fails under the condition.
Raising(t, condition) == t.raised \cup (IF condition THEN {"GraphError"} ELSE {})

AddNets(t, names) == Graph(t.ports, t.nets \cup names, t.devices, t.raised)

AddPort(t, name, role) ==
  Graph(Entered(t.ports, name, role), t.nets \cup {name}, t.devices,
        Raising(t, name \in DOMAIN t.ports /\ t.ports[name] # role))

AddDevice(t, name, kind, role, net) ==
  Graph(t.ports, t.nets \cup Range(net), Entered(t.devices, name, Device(kind, role, net)),
        Raising(t, name \in DOMAIN t.devices \/ DOMAIN net # Terminals(kind)))

\* Merge old into new, on every device terminal; a port keeps its name.
Rewired(device, old, new) ==
  Device(device.kind, device.role,
         [x \in DOMAIN device.net |-> IF device.net[x] = old THEN new ELSE device.net[x]])

RenameNet(t, old, new) ==
  Graph(t.ports, (t.nets \ {old}) \cup {new},
        [d \in DOMAIN t.devices |-> Rewired(t.devices[d], old, new)],
        Raising(t, old \notin t.nets \/ (old \in DOMAIN t.ports /\ old # new)))

\* The nets a device touches.
NetsOf(t, d) == Range(t.devices[d].net)

\* commit validates: every port is a net, every connection names a known net.
Commit(t) ==
  Graph(t.ports, t.nets, t.devices,
        Raising(t, \/ ~(DOMAIN t.ports \subseteq t.nets)
                   \/ \E d \in DOMAIN t.devices : ~(NetsOf(t, d) \subseteq t.nets)))

Internal(t) == t.nets \ DOMAIN t.ports

\* endpoints: the device terminals on a net.
Endpoints(t, n) ==
  {e \in (DOMAIN t.devices) \X {"d", "g", "s", "b", "p", "n"} :
     e[2] \in DOMAIN t.devices[e[1]].net /\ t.devices[e[1]].net[e[2]] = n}

\* connected_components: nets on one device are adjacent, and a component is
\* what is reached from one of its nets.
Adjacency(t) ==
  [n \in t.nets |-> UNION {NetsOf(t, d) : d \in {e \in DOMAIN t.devices : n \in NetsOf(t, e)}}]
Components(t) == {Reachable(Adjacency(t), {n}) : n \in t.nets}
-----------------------------------------------------------------------------
(***************************************************************************)
(* Canonical identity.  The encoding of a topology under a labelling of    *)
(* its nets forgets device names and keeps how many devices look the same. *)
(* canonical.py takes the least encoding over all labellings of the        *)
(* internal nets; two topologies have the same least encoding exactly when *)
(* they have the same set of encodings, and that set is used here.  Beyond *)
(* the permutation budget the labels are the net names themselves          *)
(* (_labeled_collision_guard); the colour-refinement bucket kept beside    *)
(* them is a function of that labelled graph and separates nothing more.   *)
(***************************************************************************)
CanonicalNames == <<"n0", "n1", "n2", "n3">>

Encoding(t, label) ==
  LET drawn(d) == [t.devices[d] EXCEPT !.net =
                     [x \in DOMAIN t.devices[d].net |-> label[t.devices[d].net[x]]]]
  IN  [ports   |-> t.ports,
       devices |-> [look \in {drawn(d) : d \in DOMAIN t.devices} |->
                      Cardinality({d \in DOMAIN t.devices : drawn(d) = look})]]

PortLabels(t) == [p \in DOMAIN t.ports |-> p]

ExactEncodings(t) ==
  LET names == {CanonicalNames[i] : i \in 1..Cardinality(Internal(t))}
  IN  {Encoding(t, PortLabels(t) @@ label) : label \in Bijection(Internal(t), names)}

Factorial(n) == LET f[k \in 0..n] == IF k = 0 THEN 1 ELSE k * f[k - 1] IN f[n]

Canonical(t, budget) ==
  IF Factorial(Cardinality(Internal(t))) <= budget
  THEN [method |-> "exact", encodings |-> ExactEncodings(t)]
  ELSE [method |-> "refined", encodings |-> {Encoding(t, [n \in t.nets |-> n])}]
=============================================================================
