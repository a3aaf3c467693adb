--------------------------- MODULE CatalogueProofs ---------------------------
(***************************************************************************)
(* What the nine rules preserve, whatever the specification: the lemmas    *)
(* the proofs about derivations and about the search rest on.              *)
(***************************************************************************)
EXTENDS Catalogue, Foundations, SequenceTheorems, FunctionTheorems

\* A graph no call has refused: its ports and terminals are on nets it has.
Sound(t) ==
  /\ t.raised = {}
  /\ IsFiniteSet(t.nets) /\ IsFiniteSet(DOMAIN t.ports) /\ IsFiniteSet(DOMAIN t.devices)
  /\ DOMAIN t.ports \subseteq t.nets
  /\ \A d \in DOMAIN t.devices : /\ NetsOf(t, d) \subseteq t.nets
                                 /\ DOMAIN t.devices[d].net = Terminals(t.devices[d].kind)

(***************************************************************************)
(* The builder's operations, field by field.                               *)
(***************************************************************************)
LEMMA GraphFacts ==
  ASSUME NEW P, NEW N, NEW D, NEW R
  PROVE  LET t == Graph(P, N, D, R)
         IN  t.ports = P /\ t.nets = N /\ t.devices = D /\ t.raised = R
BY DEF Graph

LEMMA EnteredFacts ==
  ASSUME NEW dict, NEW key, NEW value
  PROVE  LET e == Entered(dict, key, value)
         IN  /\ DOMAIN e = DOMAIN dict \cup {key} /\ e[key] = value
             /\ \A k \in DOMAIN dict \ {key} : e[k] = dict[k]
BY DEF Entered

LEMMA RaisingFacts ==
  ASSUME NEW t, t.raised = {}
  PROVE  Raising(t, FALSE) = {}
BY DEF Raising

LEMMA AddNetsFacts ==
  ASSUME NEW t, Sound(t), NEW N, IsFiniteSet(N)
  PROVE  LET u == AddNets(t, N)
         IN  Sound(u) /\ u.ports = t.ports /\ u.devices = t.devices /\ u.nets = t.nets \cup N
<1> DEFINE u == AddNets(t, N)
<1>1. u.ports = t.ports /\ u.devices = t.devices /\ u.nets = t.nets \cup N /\ u.raised = t.raised
  BY GraphFacts DEF AddNets
<1>2. IsFiniteSet(t.nets \cup N)
  BY FS_Union DEF Sound
<1> HIDE DEF u
<1>3. Sound(u)
  BY <1>1, <1>2 DEF Sound, NetsOf
<1>4. QED
  BY <1>1, <1>3 DEF u

LEMMA AddPortFacts ==
  ASSUME NEW t, Sound(t), NEW name, NEW role, name \notin DOMAIN t.ports
  PROVE  LET u == AddPort(t, name, role)
         IN  /\ Sound(u) /\ u.devices = t.devices /\ u.nets = t.nets \cup {name}
             /\ u.ports = Entered(t.ports, name, role)
             /\ DOMAIN u.ports = DOMAIN t.ports \cup {name}
<1> DEFINE u == AddPort(t, name, role)
<1>1. /\ u.ports = Entered(t.ports, name, role) /\ u.devices = t.devices
      /\ u.nets = t.nets \cup {name}
      /\ u.raised = Raising(t, name \in DOMAIN t.ports /\ t.ports[name] # role)
  BY GraphFacts DEF AddPort
<1>2. u.raised = {}
  BY <1>1 DEF Raising, Sound
<1> HIDE DEF u
<1>3. DOMAIN u.ports = DOMAIN t.ports \cup {name}
  BY <1>1 DEF Entered
<1>4. IsFiniteSet(t.nets \cup {name}) /\ IsFiniteSet(DOMAIN t.ports \cup {name})
  BY FS_AddElement DEF Sound
<1>5. Sound(u)
  BY <1>1, <1>2, <1>3, <1>4 DEF Sound, NetsOf
<1>6. QED
  BY <1>1, <1>3, <1>5 DEF u

LEMMA AddDeviceFacts ==
  ASSUME NEW t, Sound(t), NEW name, NEW kind, NEW role, NEW net,
         name \notin DOMAIN t.devices, DOMAIN net = Terminals(kind), IsFiniteSet(Range(net))
  PROVE  LET u == AddDevice(t, name, kind, role, net)
         IN  /\ Sound(u) /\ u.ports = t.ports /\ u.nets = t.nets \cup Range(net)
             /\ DOMAIN u.devices = DOMAIN t.devices \cup {name}
             /\ \A d \in DOMAIN t.devices : u.devices[d] = t.devices[d]
<1> DEFINE u == AddDevice(t, name, kind, role, net)
<1>1. /\ u.ports = t.ports /\ u.nets = t.nets \cup Range(net)
      /\ u.devices = Entered(t.devices, name, Device(kind, role, net))
      /\ u.raised = Raising(t, name \in DOMAIN t.devices \/ DOMAIN net # Terminals(kind))
  BY GraphFacts DEF AddDevice
<1>2. u.raised = {}
  BY <1>1 DEF Raising, Sound
<1> HIDE DEF u
<1>3. /\ DOMAIN u.devices = DOMAIN t.devices \cup {name}
      /\ u.devices[name] = Device(kind, role, net)
      /\ \A d \in DOMAIN t.devices : u.devices[d] = t.devices[d]
  BY <1>1 DEF Entered
<1>4. IsFiniteSet(t.nets \cup Range(net)) /\ IsFiniteSet(DOMAIN t.devices \cup {name})
  BY FS_AddElement, FS_Union DEF Sound
<1>5. Device(kind, role, net).kind = kind /\ Device(kind, role, net).net = net
  BY DEF Device
<1>6. ASSUME NEW d \in DOMAIN u.devices
      PROVE  Range(u.devices[d].net) \subseteq u.nets /\ DOMAIN u.devices[d].net = Terminals(u.devices[d].kind)
  BY <1>1, <1>3, <1>5 DEF Sound, NetsOf
<1>7. Sound(u)
  BY <1>1, <1>2, <1>3, <1>4, <1>6 DEF Sound, NetsOf
<1>8. QED
  BY <1>1, <1>3, <1>7 DEF u

LEMMA RewiredFacts ==
  ASSUME NEW device, NEW old, NEW new
  PROVE  LET u == Rewired(device, old, new)
         IN  /\ u.kind = device.kind /\ DOMAIN u.net = DOMAIN device.net
             /\ \A x \in DOMAIN device.net :
                  u.net[x] = IF device.net[x] = old THEN new ELSE device.net[x]
<1> DEFINE net == [x \in DOMAIN device.net |-> IF device.net[x] = old THEN new ELSE device.net[x]]
<1>1. Rewired(device, old, new).kind = device.kind /\ Rewired(device, old, new).net = net
  BY DEF Rewired, Device
<1>2. /\ DOMAIN net = DOMAIN device.net
      /\ \A x \in DOMAIN device.net : net[x] = IF device.net[x] = old THEN new ELSE device.net[x]
  OBVIOUS
<1> HIDE DEF net
<1>3. QED
  BY <1>1, <1>2

LEMMA RenameNetFacts ==
  ASSUME NEW t, Sound(t), NEW old \in t.nets, NEW new, old \notin DOMAIN t.ports
  PROVE  LET u == RenameNet(t, old, new)
         IN  /\ Sound(u) /\ u.ports = t.ports /\ u.nets = (t.nets \ {old}) \cup {new}
             /\ DOMAIN u.devices = DOMAIN t.devices
             /\ \A d \in DOMAIN t.devices : u.devices[d] = Rewired(t.devices[d], old, new)
<1> DEFINE u == RenameNet(t, old, new)
<1>1. /\ u.ports = t.ports /\ u.nets = (t.nets \ {old}) \cup {new}
      /\ u.devices = [d \in DOMAIN t.devices |-> Rewired(t.devices[d], old, new)]
      /\ u.raised = Raising(t, old \notin t.nets \/ (old \in DOMAIN t.ports /\ old # new))
  BY GraphFacts DEF RenameNet
<1>2. u.raised = {}
  BY <1>1 DEF Raising, Sound
<1>3. /\ DOMAIN u.devices = DOMAIN t.devices
      /\ \A d \in DOMAIN t.devices : u.devices[d] = Rewired(t.devices[d], old, new)
  BY <1>1
<1>4. IsFiniteSet((t.nets \ {old}) \cup {new})
  BY FS_AddElement, FS_RemoveElement DEF Sound
<1> HIDE DEF u
<1>5. ASSUME NEW d \in DOMAIN u.devices
      PROVE  Range(u.devices[d].net) \subseteq u.nets /\ DOMAIN u.devices[d].net = Terminals(u.devices[d].kind)
  <2>1. /\ u.devices[d].kind = t.devices[d].kind
        /\ DOMAIN u.devices[d].net = DOMAIN t.devices[d].net
        /\ \A x \in DOMAIN t.devices[d].net :
             u.devices[d].net[x] = IF t.devices[d].net[x] = old THEN new ELSE t.devices[d].net[x]
    BY <1>3, RewiredFacts
  <2>2. \A x \in DOMAIN t.devices[d].net : t.devices[d].net[x] \in t.nets
    BY <1>3 DEF Sound, NetsOf, Range
  <2>3. DOMAIN t.devices[d].net = Terminals(t.devices[d].kind)
    BY <1>3 DEF Sound
  <2>4. QED
    BY <1>1, <2>1, <2>2, <2>3 DEF Range
<1>6. Sound(u)
  BY <1>1, <1>2, <1>3, <1>4, <1>5 DEF Sound, NetsOf
<1>7. QED
  BY <1>1, <1>3, <1>6 DEF u

LEMMA CommitFacts ==
  ASSUME NEW t, Sound(t)
  PROVE  LET u == Commit(t)
         IN  Sound(u) /\ u.ports = t.ports /\ u.nets = t.nets /\ u.devices = t.devices
<1> DEFINE u == Commit(t)
<1>1. u.ports = t.ports /\ u.nets = t.nets /\ u.devices = t.devices
  BY DEF Commit, Graph
<1>2. u.raised = {}
  BY DEF Commit, Graph, Raising, Sound
<1> HIDE DEF u
<1>3. QED
  BY <1>1, <1>2 DEF u, Sound, NetsOf

LEMMA AcrossFacts ==
  ASSUME NEW p, NEW n
  PROVE  /\ DOMAIN Across(p, n) = {"p", "n"} /\ Range(Across(p, n)) = {p, n}
         /\ IsFiniteSet(Range(Across(p, n)))
<1>1. DOMAIN Across(p, n) = {"p", "n"} /\ Range(Across(p, n)) = {p, n}
  BY DEF Across, Range
<1>2. IsFiniteSet({p, n})
  <2>1. {p, n} = {p} \cup {n}
    OBVIOUS
  <2>2. IsFiniteSet({p}) /\ IsFiniteSet({n})
    BY FS_Singleton
  <2>3. QED
    BY <2>1, <2>2, FS_Union
<1>3. QED
  BY <1>1, <1>2

LEMMA MosFacts ==
  ASSUME NEW d, NEW g, NEW s, NEW b
  PROVE  /\ DOMAIN Mos(d, g, s, b) = {"d", "g", "s", "b"}
         /\ Range(Mos(d, g, s, b)) = {d, g, s, b}
         /\ IsFiniteSet(Range(Mos(d, g, s, b)))
<1>1. DOMAIN Mos(d, g, s, b) = {"d", "g", "s", "b"} /\ Range(Mos(d, g, s, b)) = {d, g, s, b}
  BY DEF Mos, Range
<1>2. IsFiniteSet({d, g, s, b})
  <2>1. {d, g, s, b} = Range(Across(d, g)) \cup Range(Across(s, b))
    BY AcrossFacts
  <2>2. IsFiniteSet(Range(Across(d, g))) /\ IsFiniteSet(Range(Across(s, b)))
    BY AcrossFacts
  <2>3. QED
    BY <2>1, <2>2, FS_Union
<1>3. QED
  BY <1>1, <1>2

(***************************************************************************)
(* What a rule does to the graph.  Each device has a name of its own, so a *)
(* rule whose obligation is still open finds its names free.               *)
(***************************************************************************)
Owned(kind) ==
  CASE kind = "input_stage"  -> {"M_IN_P", "M_IN_N", "M_IN"}
    [] kind = "tail_bias"    -> {"I_TAIL", "R_TAIL"}
    [] kind = "load"         -> {"R_LOAD_1", "R_LOAD_2", "M_LOAD", "M_LOAD_REF", "M_LOAD_OUT"}
    [] kind = "compensation" -> {"C_COMP"}
    [] kind = "output"       -> {"M_BUFFER", "I_BUFFER"}

\* u is t with more nets and with devices of the kind.
Extends(t, u, kind) ==
  /\ Sound(u) /\ u.ports = t.ports /\ t.nets \subseteq u.nets
  /\ DOMAIN t.devices \subseteq DOMAIN u.devices
  /\ DOMAIN u.devices \subseteq DOMAIN t.devices \cup Owned(kind)
  /\ \A d \in DOMAIN t.devices : u.devices[d] = t.devices[d]

LEMMA ExtendsDevice ==
  ASSUME NEW t, NEW u, NEW kind, Extends(t, u, kind),
         NEW name \in Owned(kind), name \notin DOMAIN u.devices,
         NEW family, NEW role, NEW net,
         DOMAIN net = Terminals(family), IsFiniteSet(Range(net))
  PROVE  /\ Extends(t, AddDevice(u, name, family, role, net), kind)
         /\ DOMAIN AddDevice(u, name, family, role, net).devices = DOMAIN u.devices \cup {name}
<1> DEFINE v == AddDevice(u, name, family, role, net)
<1>1. /\ Sound(v) /\ v.ports = u.ports /\ v.nets = u.nets \cup Range(net)
      /\ DOMAIN v.devices = DOMAIN u.devices \cup {name}
      /\ \A d \in DOMAIN u.devices : v.devices[d] = u.devices[d]
  BY AddDeviceFacts DEF Extends
<1> HIDE DEF v
<1>2. Extends(t, v, kind)
  BY <1>1 DEF Extends
<1>3. QED
  BY <1>1, <1>2 DEF v

LEMMA ExtendsTransistor ==
  ASSUME NEW t, NEW u, NEW kind, Extends(t, u, kind),
         NEW name \in Owned(kind), name \notin DOMAIN u.devices,
         NEW family \in Transistors, NEW role, NEW d, NEW g, NEW s, NEW b
  PROVE  LET v == AddDevice(u, name, family, role, Mos(d, g, s, b))
         IN  /\ Extends(t, v, kind) /\ DOMAIN v.devices = DOMAIN u.devices \cup {name}
             /\ v.nets = u.nets \cup {d, g, s, b}
<1> DEFINE v == AddDevice(u, name, family, role, Mos(d, g, s, b))
<1>1. /\ DOMAIN Mos(d, g, s, b) = Terminals(family) /\ IsFiniteSet(Range(Mos(d, g, s, b)))
      /\ Range(Mos(d, g, s, b)) = {d, g, s, b}
  BY MosFacts DEF Terminals
<1>2. Extends(t, v, kind) /\ DOMAIN v.devices = DOMAIN u.devices \cup {name}
  BY <1>1, ExtendsDevice
<1>3. v.nets = u.nets \cup Range(Mos(d, g, s, b))
  BY DEF AddDevice, Graph
<1>4. QED
  BY <1>1, <1>2, <1>3

LEMMA ExtendsTwoPole ==
  ASSUME NEW t, NEW u, NEW kind, Extends(t, u, kind),
         NEW name \in Owned(kind), name \notin DOMAIN u.devices,
         NEW family \in DeviceKinds \ Transistors, NEW role, NEW p, NEW n
  PROVE  LET v == AddDevice(u, name, family, role, Across(p, n))
         IN  Extends(t, v, kind) /\ DOMAIN v.devices = DOMAIN u.devices \cup {name}
<1>1. DOMAIN Across(p, n) = Terminals(family) /\ IsFiniteSet(Range(Across(p, n)))
  BY AcrossFacts DEF Terminals, DeviceKinds
<1>2. QED
  BY <1>1, ExtendsDevice

LEMMA ExtendsCommit ==
  ASSUME NEW t, NEW u, NEW kind, Extends(t, u, kind)
  PROVE  Extends(t, Commit(u), kind) /\ Commit(u).nets = u.nets
<1>1. /\ Sound(Commit(u)) /\ Commit(u).ports = u.ports
      /\ Commit(u).nets = u.nets /\ Commit(u).devices = u.devices
  BY CommitFacts DEF Extends
<1>2. QED
  BY <1>1 DEF Extends

LEMMA ExtendsItself ==
  ASSUME NEW t, Sound(t), NEW kind PROVE Extends(t, t, kind)
BY DEF Extends

LEMMA ExtendsNets ==
  ASSUME NEW t, Sound(t), NEW kind, NEW N, IsFiniteSet(N)
  PROVE  /\ Extends(t, AddNets(t, N), kind) /\ AddNets(t, N).nets = t.nets \cup N
         /\ AddNets(t, N).devices = t.devices
BY AddNetsFacts DEF Extends

LEMMA FamilyFacts ==
  ASSUME NEW sp PROVE InputKind(sp) \in Transistors /\ LoadKind(sp) \in Transistors
BY DEF InputKind, LoadKind, Transistors

\* Every rule but the direct output only adds to the graph.
LEMMA RewriteFacts ==
  ASSUME NEW s, NEW r, NEW topology, NEW updates
  PROVE  LET c == Rewrite(s, r, topology, updates)
         IN  /\ c.topology = Commit(topology) /\ c.obligations = Tail(s.obligations)
             /\ c.trace = Append(s.trace, r)
             /\ DOMAIN c.facts = DOMAIN updates \cup DOMAIN s.facts
             /\ \A f \in DOMAIN updates : c.facts[f] = updates[f]
             /\ \A f \in DOMAIN s.facts \ DOMAIN updates : c.facts[f] = s.facts[f]
BY DEF Rewrite

Fresh(s, r) == Owned(Answers(r)) \cap DOMAIN s.topology.devices = {}

LEMMA InputPairExtends ==
  ASSUME NEW sp, NEW s, Sound(s.topology), Fresh(s, "input.diff_pair")
  PROVE  LET u == InputPair(sp, s, "input.diff_pair").topology
         IN  /\ Extends(s.topology, u, "input_stage")
             /\ {"n_left", "n_right", "n_tail"} \subseteq u.nets
<1> DEFINE t == s.topology
           nets == AddNets(t, {"n_left", "n_right", "n_tail"})
           first == AddDevice(nets, "M_IN_P", InputKind(sp), "differential_input",
                              Mos("n_left", "vinp", "n_tail", InputRail(sp)))
           second == AddDevice(first, "M_IN_N", InputKind(sp), "differential_input",
                               Mos("n_right", "vinn", "n_tail", InputRail(sp)))
<1>1. IsFiniteSet({"n_left", "n_right", "n_tail"})
  <2>1. {"n_left", "n_right", "n_tail"} = Range(Across("n_left", "n_right")) \cup Range(Across("n_tail", "n_tail"))
    BY AcrossFacts
  <2>2. /\ IsFiniteSet(Range(Across("n_left", "n_right")))
        /\ IsFiniteSet(Range(Across("n_tail", "n_tail")))
    BY AcrossFacts
  <2>3. QED
    BY <2>1, <2>2, FS_Union
<1>2. /\ Extends(t, nets, "input_stage") /\ nets.devices = t.devices
      /\ {"n_left", "n_right", "n_tail"} \subseteq nets.nets
  <2> DEFINE N == {"n_left", "n_right", "n_tail"}
  <2> HIDE DEF N
  <2>1. Extends(t, AddNets(t, N), "input_stage") /\ AddNets(t, N).nets = t.nets \cup N
        /\ AddNets(t, N).devices = t.devices
    BY <1>1, ExtendsNets DEF N
  <2>2. QED
    BY <2>1 DEF N
<1>3. "M_IN_P" \in Owned("input_stage") \ DOMAIN t.devices
      /\ "M_IN_N" \in Owned("input_stage") \ DOMAIN t.devices
  BY DEF Fresh, Owned, Answers
<1> HIDE DEF nets
<1>4. /\ Extends(t, first, "input_stage") /\ DOMAIN first.devices = DOMAIN t.devices \cup {"M_IN_P"}
      /\ {"n_left", "n_right", "n_tail"} \subseteq first.nets
  BY <1>2, <1>3, FamilyFacts, ExtendsTransistor
<1> HIDE DEF first
<1>5. Extends(t, second, "input_stage") /\ {"n_left", "n_right", "n_tail"} \subseteq second.nets
  BY <1>3, <1>4, FamilyFacts, ExtendsTransistor
<1> HIDE DEF second
<1>6. InputPair(sp, s, "input.diff_pair").topology = Commit(second)
  BY RewriteFacts DEF InputPair, nets, first, second
<1>7. QED
  BY <1>5, <1>6, ExtendsCommit

LEMMA SingleTransconductorExtends ==
  ASSUME NEW sp, NEW s, Sound(s.topology), Fresh(s, "input.common_source")
  PROVE  LET u == SingleTransconductor(sp, s, "input.common_source").topology
         IN  Extends(s.topology, u, "input_stage") /\ "n_gain" \in u.nets
<1> DEFINE t == s.topology
           nets == AddNets(t, {"n_gain"})
           first == AddDevice(nets, "M_IN", InputKind(sp), "common_source",
                              Mos("n_gain", "vin", InputRail(sp), InputRail(sp)))
<1>1. /\ Extends(t, nets, "input_stage") /\ nets.devices = t.devices /\ "n_gain" \in nets.nets
  <2> DEFINE N == {"n_gain"}
  <2> HIDE DEF N
  <2>1. IsFiniteSet(N)
    BY FS_Singleton DEF N
  <2>2. Extends(t, AddNets(t, N), "input_stage") /\ AddNets(t, N).nets = t.nets \cup N
        /\ AddNets(t, N).devices = t.devices
    BY <2>1, ExtendsNets
  <2>3. QED
    BY <2>2 DEF N
<1>2. "M_IN" \in Owned("input_stage") \ DOMAIN t.devices
  BY DEF Fresh, Owned, Answers
<1> HIDE DEF nets
<1>3. Extends(t, first, "input_stage") /\ "n_gain" \in first.nets
  BY <1>1, <1>2, FamilyFacts, ExtendsTransistor
<1> HIDE DEF first
<1>4. SingleTransconductor(sp, s, "input.common_source").topology = Commit(first)
  BY RewriteFacts DEF SingleTransconductor, nets, first
<1>5. QED
  BY <1>3, <1>4, ExtendsCommit

\* A rule that adds one device with two terminals.
LEMMA OneTwoPole ==
  ASSUME NEW s, Sound(s.topology), NEW kind, NEW name \in Owned(kind) \ DOMAIN s.topology.devices,
         NEW family \in DeviceKinds \ Transistors, NEW role, NEW p, NEW n, NEW r, NEW updates
  PROVE  Extends(s.topology,
                 Rewrite(s, r, AddDevice(s.topology, name, family, role, Across(p, n)),
                         updates).topology, kind)
<1> DEFINE u == AddDevice(s.topology, name, family, role, Across(p, n))
<1>1. Extends(s.topology, u, kind)
  BY ExtendsItself, ExtendsTwoPole
<1> HIDE DEF u
<1>2. Rewrite(s, r, u, updates).topology = Commit(u)
  BY RewriteFacts
<1>3. QED
  BY <1>1, <1>2, ExtendsCommit DEF u

LEMMA TailExtends ==
  ASSUME NEW sp, NEW s, Sound(s.topology), Owned("tail_bias") \cap DOMAIN s.topology.devices = {}, NEW r
  PROVE  /\ Extends(s.topology, TailCurrent(sp, s, r).topology, "tail_bias")
         /\ Extends(s.topology, TailResistor(sp, s, r).topology, "tail_bias")
<1>1. /\ "I_TAIL" \in Owned("tail_bias") \ DOMAIN s.topology.devices
      /\ "R_TAIL" \in Owned("tail_bias") \ DOMAIN s.topology.devices
      /\ "current_source" \in DeviceKinds \ Transistors /\ "resistor" \in DeviceKinds \ Transistors
  BY DEF Owned, DeviceKinds, Transistors, Passives
<1>2. Extends(s.topology, TailResistor(sp, s, r).topology, "tail_bias")
  BY <1>1, OneTwoPole DEF TailResistor
<1>3. Extends(s.topology, TailCurrent(sp, s, r).topology, "tail_bias")
  <2>1. PICK p, n : (IF sp.polarity = "nmos_input" THEN Across(s.facts["tail_net"], "vss")
                     ELSE Across("vdd", s.facts["tail_net"])) = Across(p, n)
    BY Zenon
  <2>2. QED
    BY <1>1, <2>1, OneTwoPole DEF TailCurrent
<1>4. QED
  BY <1>2, <1>3

LEMMA CompensationExtends ==
  ASSUME NEW sp, NEW s, Sound(s.topology),
         Owned("compensation") \cap DOMAIN s.topology.devices = {}, NEW r
  PROVE  Extends(s.topology, CompensationCap(sp, s, r).topology, "compensation")
<1>1. /\ "C_COMP" \in Owned("compensation") \ DOMAIN s.topology.devices
      /\ "capacitor" \in DeviceKinds \ Transistors
  BY DEF Owned, DeviceKinds, Transistors, Passives
<1>2. QED
  BY <1>1, OneTwoPole DEF CompensationCap

LEMMA ResistiveLoadExtends ==
  ASSUME NEW sp, NEW s, Sound(s.topology), Owned("load") \cap DOMAIN s.topology.devices = {}, NEW r
  PROVE  Extends(s.topology, ResistiveLoad(sp, s, r).topology, "load")
<1> DEFINE t == s.topology
           left == s.facts["left_drain"]
           right == s.facts["right_drain"]
           first == AddDevice(t, "R_LOAD_1", "resistor", "load", Across(LoadRail(sp), left))
           second == AddDevice(first, "R_LOAD_2", "resistor", "load", Across(LoadRail(sp), right))
<1>1. /\ "R_LOAD_1" \in Owned("load") \ DOMAIN t.devices
      /\ "R_LOAD_2" \in Owned("load") \ DOMAIN t.devices
      /\ "resistor" \in DeviceKinds \ Transistors
  BY DEF Owned, DeviceKinds, Transistors, Passives
<1>2. Extends(t, first, "load") /\ DOMAIN first.devices = DOMAIN t.devices \cup {"R_LOAD_1"}
  BY <1>1, ExtendsItself, ExtendsTwoPole
<1> HIDE DEF first
<1>3. Extends(t, second, "load")
  BY <1>1, <1>2, ExtendsTwoPole
<1> HIDE DEF second
<1>4. ResistiveLoad(sp, s, r).topology = Commit(IF left = right THEN first ELSE second)
  BY RewriteFacts DEF ResistiveLoad, first, second
<1>5. QED
  BY <1>2, <1>3, <1>4, ExtendsCommit

LEMMA ActiveMirrorLoadExtends ==
  ASSUME NEW sp, NEW s, Sound(s.topology), Owned("load") \cap DOMAIN s.topology.devices = {}, NEW r
  PROVE  Extends(s.topology, ActiveMirrorLoad(sp, s, r).topology, "load")
<1> DEFINE t == s.topology
           left == s.facts["left_drain"]
           right == s.facts["right_drain"]
           load(u, name, role, drain) ==
             AddDevice(u, name, LoadKind(sp), role, Mos(drain, left, LoadRail(sp), LoadRail(sp)))
           diode == load(t, "M_LOAD", "diode_load", left)
           first == load(t, "M_LOAD_REF", "mirror_reference", left)
           second == load(first, "M_LOAD_OUT", "mirror_output", right)
<1>1. /\ "M_LOAD" \in Owned("load") \ DOMAIN t.devices
      /\ "M_LOAD_REF" \in Owned("load") \ DOMAIN t.devices
      /\ "M_LOAD_OUT" \in Owned("load") \ DOMAIN t.devices
  BY DEF Owned
<1>2. Extends(t, diode, "load")
  BY <1>1, FamilyFacts, ExtendsItself, ExtendsTransistor
<1>3. Extends(t, first, "load") /\ DOMAIN first.devices = DOMAIN t.devices \cup {"M_LOAD_REF"}
  BY <1>1, FamilyFacts, ExtendsItself, ExtendsTransistor
<1> HIDE DEF diode, first
<1>4. Extends(t, second, "load")
  BY <1>1, <1>3, FamilyFacts, ExtendsTransistor
<1> HIDE DEF second
<1>5. ActiveMirrorLoad(sp, s, r).topology = Commit(IF left = right THEN diode ELSE second)
  BY RewriteFacts DEF ActiveMirrorLoad, diode, first, second
<1>6. QED
  BY <1>2, <1>4, <1>5, ExtendsCommit

LEMMA BufferedOutputExtends ==
  ASSUME NEW sp, NEW s, Sound(s.topology), Owned("output") \cap DOMAIN s.topology.devices = {}, NEW r
  PROVE  Extends(s.topology, BufferedOutput(sp, s, r).topology, "output")
<1> DEFINE t == s.topology
           follower == AddDevice(t, "M_BUFFER", InputKind(sp), "source_follower",
                                 Mos(LoadRail(sp), s.facts["right_drain"], "vout", InputRail(sp)))
           bias == IF sp.polarity = "nmos_input" THEN Across("vout", "vss") ELSE Across("vdd", "vout")
           second == AddDevice(follower, "I_BUFFER", "current_source", "buffer_bias", bias)
<1>1. /\ "M_BUFFER" \in Owned("output") \ DOMAIN t.devices
      /\ "I_BUFFER" \in Owned("output") \ DOMAIN t.devices
      /\ "current_source" \in DeviceKinds \ Transistors
  BY DEF Owned, DeviceKinds, Transistors, Passives
<1>2. Extends(t, follower, "output") /\ DOMAIN follower.devices = DOMAIN t.devices \cup {"M_BUFFER"}
  BY <1>1, FamilyFacts, ExtendsItself, ExtendsTransistor
<1>3. PICK p, n : bias = Across(p, n)
  BY Zenon
<1> HIDE DEF follower, bias
<1>4. Extends(t, second, "output")
  BY <1>1, <1>2, <1>3, ExtendsTwoPole
<1> HIDE DEF second
<1>5. BufferedOutput(sp, s, r).topology = Commit(second)
  BY RewriteFacts DEF BufferedOutput, follower, bias, second
<1>6. QED
  BY <1>4, <1>5, ExtendsCommit

\* The rules that add to the graph: all but the direct output.
LEMMA ChildExtends ==
  ASSUME NEW sp, NEW s, Sound(s.topology), NEW r \in Rules \ {"output.direct"}, Fresh(s, r)
  PROVE  Extends(s.topology, Child(sp, s, r).topology, Answers(r))
<1>1. CASE r = "input.diff_pair"
  BY <1>1, InputPairExtends DEF Child, Answers
<1>2. CASE r = "input.common_source"
  BY <1>2, SingleTransconductorExtends DEF Child, Answers
<1>3. CASE r = "tail.current_source"
  BY <1>3, TailExtends DEF Child, Answers, Fresh
<1>4. CASE r = "tail.resistor"
  BY <1>4, TailExtends DEF Child, Answers, Fresh
<1>5. CASE r = "load.resistive"
  BY <1>5, ResistiveLoadExtends DEF Child, Answers, Fresh
<1>6. CASE r = "load.active_mirror"
  BY <1>6, ActiveMirrorLoadExtends DEF Child, Answers, Fresh
<1>7. CASE r = "compensation.capacitor"
  BY <1>7, CompensationExtends DEF Child, Answers, Fresh
<1>8. CASE r = "output.source_follower"
  BY <1>8, BufferedOutputExtends DEF Child, Answers, Fresh
<1>9. QED
  BY <1>1, <1>2, <1>3, <1>4, <1>5, <1>6, <1>7, <1>8 DEF Rules

\* u has the devices of t, with the same terminals on one net, and no terminal
\* has moved to a rail.
Keeps(t, u) ==
  /\ DOMAIN t.devices \subseteq DOMAIN u.devices
  /\ \A d \in DOMAIN t.devices :
       /\ u.devices[d].kind = t.devices[d].kind
       /\ DOMAIN u.devices[d].net = DOMAIN t.devices[d].net
       /\ \A x, y \in DOMAIN t.devices[d].net :
            t.devices[d].net[x] = t.devices[d].net[y] => u.devices[d].net[x] = u.devices[d].net[y]
       /\ \A x \in DOMAIN t.devices[d].net :
            u.devices[d].net[x] = t.devices[d].net[x] \/ u.devices[d].net[x] \notin {"vdd", "vss"}

LEMMA ExtendsKeeps ==
  ASSUME NEW t, NEW u, NEW kind, Extends(t, u, kind) PROVE Keeps(t, u)
BY DEF Extends, Keeps

LEMMA RenameKeeps ==
  ASSUME NEW t, Sound(t), NEW old \in t.nets, NEW new, old \notin DOMAIN t.ports,
         new \notin {"vdd", "vss"}
  PROVE  Keeps(t, RenameNet(t, old, new))
<1> DEFINE u == RenameNet(t, old, new)
<1>1. DOMAIN u.devices = DOMAIN t.devices /\ \A d \in DOMAIN t.devices : u.devices[d] = Rewired(t.devices[d], old, new)
  BY RenameNetFacts
<1> HIDE DEF u
<1>2. ASSUME NEW d \in DOMAIN t.devices
      PROVE  /\ u.devices[d].kind = t.devices[d].kind
             /\ DOMAIN u.devices[d].net = DOMAIN t.devices[d].net
             /\ \A x \in DOMAIN t.devices[d].net :
                  u.devices[d].net[x] = IF t.devices[d].net[x] = old THEN new ELSE t.devices[d].net[x]
  BY <1>1, RewiredFacts
<1>3. QED
  BY <1>1, <1>2 DEF Keeps, u

\* The direct output turns the drains into the output ports.
LEMMA DirectOutputFacts ==
  ASSUME NEW sp, NEW s, NEW r, Sound(s.topology),
         NEW left, left = s.facts["left_drain"], NEW right, right = s.facts["right_drain"],
         left \in s.topology.nets \ DOMAIN s.topology.ports,
         right \in s.topology.nets \ DOMAIN s.topology.ports,
         left \notin {"vout", "voutp", "voutn"}, right \notin {"vout", "voutp", "voutn"},
         sp.output_mode = "differential" => left # right
  PROVE  LET t == s.topology
             u == DirectOutput(sp, s, r).topology
         IN  /\ Sound(u) /\ u.ports = t.ports /\ DOMAIN u.devices = DOMAIN t.devices /\ Keeps(t, u)
             /\ u.nets = IF sp.output_mode = "differential"
                         THEN (((t.nets \ {left}) \cup {"voutp"}) \ {right}) \cup {"voutn"}
                         ELSE (t.nets \ {right}) \cup {"vout"}
<1> DEFINE t == s.topology
           u == DirectOutput(sp, s, r).topology
<1>1. CASE sp.output_mode = "differential"
  <2> DEFINE v == RenameNet(t, left, "voutp")
             w == RenameNet(v, right, "voutn")
  <2>1. /\ Sound(v) /\ v.ports = t.ports /\ v.nets = (t.nets \ {left}) \cup {"voutp"}
        /\ DOMAIN v.devices = DOMAIN t.devices /\ Keeps(t, v)
    BY RenameNetFacts, RenameKeeps
  <2> HIDE DEF v
  <2>2. right \in v.nets /\ right \notin DOMAIN v.ports
    BY <1>1, <2>1
  <2>3. /\ Sound(w) /\ w.ports = v.ports /\ w.nets = (v.nets \ {right}) \cup {"voutn"}
        /\ DOMAIN w.devices = DOMAIN v.devices /\ Keeps(v, w)
    BY <2>1, <2>2, RenameNetFacts, RenameKeeps
  <2> HIDE DEF w
  <2>4. Keeps(t, w)
    BY <2>1, <2>3 DEF Keeps
  <2>5. u = Commit(w)
    BY <1>1, RewriteFacts DEF DirectOutput, v, w
  <2> HIDE DEF u
  <2>6. Sound(u) /\ u.ports = w.ports /\ u.nets = w.nets /\ u.devices = w.devices
    BY <2>3, <2>5, CommitFacts
  <2>7. QED
    BY <1>1, <2>1, <2>3, <2>4, <2>6 DEF Keeps, u
<1>2. CASE sp.output_mode # "differential"
  <2> DEFINE w == RenameNet(t, right, "vout")
  <2>1. /\ Sound(w) /\ w.ports = t.ports /\ w.nets = (t.nets \ {right}) \cup {"vout"}
        /\ DOMAIN w.devices = DOMAIN t.devices /\ Keeps(t, w)
    BY RenameNetFacts, RenameKeeps
  <2> HIDE DEF w
  <2>2. u = Commit(w)
    BY <1>2, RewriteFacts DEF DirectOutput, w
  <2> HIDE DEF u
  <2>3. Sound(u) /\ u.ports = w.ports /\ u.nets = w.nets /\ u.devices = w.devices
    BY <2>1, <2>2, CommitFacts
  <2>4. QED
    BY <1>2, <2>1, <2>3 DEF Keeps, u
<1>3. QED
  BY <1>1, <1>2

(***************************************************************************)
(* What a rule does to the facts.  The facts remember which rule answered  *)
(* each kind of obligation.                                                *)
(***************************************************************************)
Key(kind) ==
  CASE kind = "input_stage"  -> "input_structure"
    [] kind = "tail_bias"    -> "tail_structure"
    [] kind = "load"         -> "load_structure"
    [] kind = "compensation" -> "compensation"
    [] kind = "output"       -> "output_structure"

Recalled(kind, value) ==
  CASE kind = "input_stage"  -> IF value = "common_source" THEN "input.common_source" ELSE "input.diff_pair"
    [] kind = "tail_bias"    -> IF value = "resistor" THEN "tail.resistor" ELSE "tail.current_source"
    [] kind = "load"         -> IF value = "resistive" THEN "load.resistive" ELSE "load.active_mirror"
    [] kind = "compensation" -> "compensation.capacitor"
    [] kind = "output"       -> IF value = "source_follower" THEN "output.source_follower" ELSE "output.direct"

Wires == {"left_drain", "right_drain", "tail_net"}
Keys == {"input_structure", "tail_structure", "load_structure", "compensation", "output_structure"}

LEMMA KeyFacts ==
  /\ \A kind \in Kinds : Key(kind) \in Keys
  /\ \A k, m \in Kinds : Key(k) = Key(m) => k = m
  /\ \A r \in Rules : Answers(r) \in Kinds
<1>1. \A kind \in Kinds : Key(kind) \in Keys
  BY DEF Key, Kinds, Keys
<1>2. \A k, m \in Kinds : Key(k) = Key(m) => k = m
  BY DEF Key, Kinds
<1>3. \A r \in Rules : Answers(r) \in Kinds
  BY DEF Answers, Rules, Kinds
<1>4. QED
  BY <1>1, <1>2, <1>3

\* A rule writes the key of its kind and leaves those of the other kinds alone.
Notes(s, c, r) ==
  LET k == Key(Answers(r))
  IN  /\ c.obligations = Tail(s.obligations) /\ c.trace = Append(s.trace, r)
      /\ DOMAIN s.facts \subseteq DOMAIN c.facts
      /\ k \in DOMAIN c.facts /\ Recalled(Answers(r), c.facts[k]) = r
      /\ \A f \in Keys \ {k} : /\ f \in DOMAIN c.facts => f \in DOMAIN s.facts
                               /\ f \in DOMAIN s.facts => c.facts[f] = s.facts[f]

\* The facts that name nets are those of s.
SameWires(s, c) ==
  /\ Wires \cap DOMAIN c.facts = Wires \cap DOMAIN s.facts
  /\ \A f \in Wires \cap DOMAIN s.facts : c.facts[f] = s.facts[f]

LEMMA RewriteNotes ==
  ASSUME NEW s, NEW r, NEW topology, NEW updates,
         DOMAIN updates \cap Keys = {Key(Answers(r))},
         Recalled(Answers(r), updates[Key(Answers(r))]) = r
  PROVE  /\ Notes(s, Rewrite(s, r, topology, updates), r)
         /\ Wires \cap DOMAIN updates = {} => SameWires(s, Rewrite(s, r, topology, updates))
<1> DEFINE c == Rewrite(s, r, topology, updates)
           k == Key(Answers(r))
<1>1. /\ c.obligations = Tail(s.obligations) /\ c.trace = Append(s.trace, r)
      /\ DOMAIN c.facts = DOMAIN updates \cup DOMAIN s.facts
      /\ \A f \in DOMAIN updates : c.facts[f] = updates[f]
      /\ \A f \in DOMAIN s.facts \ DOMAIN updates : c.facts[f] = s.facts[f]
  BY RewriteFacts
<1>2. k \in DOMAIN updates /\ Recalled(Answers(r), updates[k]) = r
  OBVIOUS
<1> HIDE DEF c
<1>3. Recalled(Answers(r), c.facts[k]) = r /\ k \in DOMAIN c.facts
  BY <1>1, <1>2
<1>4. \A f \in Keys \ {k} : f \notin DOMAIN updates
  OBVIOUS
<1>5. Notes(s, c, r)
  <2> HIDE DEF k
  <2>1. QED
    BY <1>1, <1>3, <1>4 DEF Notes, k
<1>6. Wires \cap DOMAIN updates = {} => SameWires(s, c)
  BY <1>1 DEF SameWires
<1>7. QED
  BY <1>5, <1>6 DEF c

LEMMA InputNotes ==
  ASSUME NEW sp, NEW s
  PROVE  /\ LET c == InputPair(sp, s, "input.diff_pair")
            IN  /\ Notes(s, c, "input.diff_pair") /\ c.facts["input_structure"] = "differential_pair"
                /\ Wires \subseteq DOMAIN c.facts /\ c.facts["left_drain"] = "n_left"
                /\ c.facts["right_drain"] = "n_right" /\ c.facts["tail_net"] = "n_tail"
         /\ LET c == SingleTransconductor(sp, s, "input.common_source")
            IN  /\ Notes(s, c, "input.common_source") /\ c.facts["input_structure"] = "common_source"
                /\ c.facts["left_drain"] = "n_gain" /\ c.facts["right_drain"] = "n_gain"
                /\ Wires \cap DOMAIN c.facts = {"left_drain", "right_drain"} \cup (Wires \cap DOMAIN s.facts)
<1>1. LET c == InputPair(sp, s, "input.diff_pair")
      IN  /\ Notes(s, c, "input.diff_pair") /\ c.facts["input_structure"] = "differential_pair"
          /\ Wires \subseteq DOMAIN c.facts /\ c.facts["left_drain"] = "n_left"
          /\ c.facts["right_drain"] = "n_right" /\ c.facts["tail_net"] = "n_tail"
  <2> DEFINE updates == [input_structure |-> "differential_pair", left_drain |-> "n_left",
                         right_drain |-> "n_right", tail_net |-> "n_tail", stage_count |-> "1",
                         symmetry |-> "paired"]
             r == "input.diff_pair"
             c == InputPair(sp, s, r)
  <2>1. PICK topology : c = Rewrite(s, r, topology, updates)
    BY Zenon DEF InputPair
  <2>2. DOMAIN updates \cap Keys = {Key(Answers(r))} /\ Recalled(Answers(r), updates[Key(Answers(r))]) = r
    BY DEF Keys, Key, Answers, Recalled
  <2>3. /\ {"input_structure", "left_drain", "right_drain", "tail_net"} \subseteq DOMAIN updates
        /\ updates["input_structure"] = "differential_pair" /\ updates["left_drain"] = "n_left"
        /\ updates["right_drain"] = "n_right" /\ updates["tail_net"] = "n_tail"
    OBVIOUS
  <2> HIDE DEF updates, c
  <2>4. Notes(s, c, r)
    BY <2>1, <2>2, RewriteNotes
  <2>5. DOMAIN updates \subseteq DOMAIN c.facts /\ \A f \in DOMAIN updates : c.facts[f] = updates[f]
    BY <2>1, RewriteFacts
  <2>6. QED
    BY <2>3, <2>4, <2>5 DEF c, Wires
<1>2. LET c == SingleTransconductor(sp, s, "input.common_source")
      IN  /\ Notes(s, c, "input.common_source") /\ c.facts["input_structure"] = "common_source"
          /\ c.facts["left_drain"] = "n_gain" /\ c.facts["right_drain"] = "n_gain"
          /\ Wires \cap DOMAIN c.facts = {"left_drain", "right_drain"} \cup (Wires \cap DOMAIN s.facts)
  <2> DEFINE updates == [input_structure |-> "common_source", left_drain |-> "n_gain",
                         right_drain |-> "n_gain", stage_count |-> "1",
                         symmetry |-> "single_ended"]
             r == "input.common_source"
             c == SingleTransconductor(sp, s, r)
  <2>1. PICK topology : c = Rewrite(s, r, topology, updates)
    BY Zenon DEF SingleTransconductor
  <2>2. DOMAIN updates \cap Keys = {Key(Answers(r))} /\ Recalled(Answers(r), updates[Key(Answers(r))]) = r
    BY DEF Keys, Key, Answers, Recalled
  <2>3. /\ "input_structure" \in DOMAIN updates /\ updates["input_structure"] = "common_source"
        /\ updates["left_drain"] = "n_gain" /\ updates["right_drain"] = "n_gain"
        /\ Wires \cap DOMAIN updates = {"left_drain", "right_drain"}
    BY DEF Wires
  <2> HIDE DEF updates, c
  <2>4. Notes(s, c, r)
    BY <2>1, <2>2, RewriteNotes
  <2>5. /\ DOMAIN c.facts = DOMAIN updates \cup DOMAIN s.facts
        /\ \A f \in DOMAIN updates : c.facts[f] = updates[f]
    BY <2>1, RewriteFacts
  <2>6. QED
    BY <2>3, <2>4, <2>5 DEF c
<1>3. QED
  BY <1>1, <1>2

LEMMA TailNotes ==
  ASSUME NEW sp, NEW s
  PROVE  /\ LET r == "tail.current_source"
            IN  Notes(s, TailCurrent(sp, s, r), r) /\ SameWires(s, TailCurrent(sp, s, r))
         /\ LET r == "tail.resistor"
            IN  Notes(s, TailResistor(sp, s, r), r) /\ SameWires(s, TailResistor(sp, s, r))
<1>1. ASSUME NEW r \in {"tail.current_source", "tail.resistor"}, NEW topology, NEW v,
             Recalled("tail_bias", v) = r, NEW w
      PROVE  LET c == Rewrite(s, r, topology, [tail_structure |-> v, headroom_units |-> w])
             IN  Notes(s, c, r) /\ SameWires(s, c)
  <2> DEFINE updates == [tail_structure |-> v, headroom_units |-> w]
  <2>1. /\ DOMAIN updates \cap Keys = {Key(Answers(r))} /\ DOMAIN updates \cap Wires = {}
        /\ Recalled(Answers(r), updates[Key(Answers(r))]) = r
    BY <1>1 DEF Keys, Key, Answers, Wires
  <2> HIDE DEF updates
  <2>2. QED
    BY <2>1, RewriteNotes DEF updates
<1>2. Recalled("tail_bias", "current_source") = "tail.current_source" /\ Recalled("tail_bias", "resistor") = "tail.resistor"
  BY DEF Recalled
<1>3. QED
  BY <1>1, <1>2 DEF TailCurrent, TailResistor

LEMMA LoadNotes ==
  ASSUME NEW sp, NEW s
  PROVE  /\ LET r == "load.resistive"
            IN  Notes(s, ResistiveLoad(sp, s, r), r) /\ SameWires(s, ResistiveLoad(sp, s, r))
         /\ LET r == "load.active_mirror"
            IN  Notes(s, ActiveMirrorLoad(sp, s, r), r) /\ SameWires(s, ActiveMirrorLoad(sp, s, r))
<1>1. LET r == "load.resistive"
      IN  Notes(s, ResistiveLoad(sp, s, r), r) /\ SameWires(s, ResistiveLoad(sp, s, r))
  <2> DEFINE updates == [load_structure |-> "resistive"]
             r == "load.resistive"
  <2>1. /\ DOMAIN updates \cap Keys = {Key(Answers(r))} /\ DOMAIN updates \cap Wires = {}
        /\ Recalled(Answers(r), updates[Key(Answers(r))]) = r
    BY DEF Keys, Key, Answers, Wires, Recalled
  <2>2. PICK topology : ResistiveLoad(sp, s, r) = Rewrite(s, r, topology, updates)
    BY Zenon DEF ResistiveLoad
  <2> HIDE DEF updates
  <2>3. QED
    BY <2>1, <2>2, RewriteNotes
<1>2. LET r == "load.active_mirror"
      IN  Notes(s, ActiveMirrorLoad(sp, s, r), r) /\ SameWires(s, ActiveMirrorLoad(sp, s, r))
  <2> DEFINE updates(v) == [load_structure |-> v, headroom_units |-> "2"]
             r == "load.active_mirror"
  <2>1. \A v \in {"diode_connected", "current_mirror"} :
          /\ DOMAIN updates(v) \cap Keys = {Key(Answers(r))} /\ DOMAIN updates(v) \cap Wires = {}
          /\ Recalled(Answers(r), updates(v)[Key(Answers(r))]) = r
    BY DEF Keys, Key, Answers, Wires, Recalled
  <2>2. CASE s.facts["left_drain"] = s.facts["right_drain"]
    <3>1. PICK topology : ActiveMirrorLoad(sp, s, r) = Rewrite(s, r, topology, updates("diode_connected"))
      BY <2>2, Zenon DEF ActiveMirrorLoad
    <3> HIDE DEF updates
    <3>2. QED
      BY <2>1, <3>1, RewriteNotes
  <2>3. CASE s.facts["left_drain"] # s.facts["right_drain"]
    <3>1. PICK topology : ActiveMirrorLoad(sp, s, r) = Rewrite(s, r, topology, updates("current_mirror"))
      BY <2>3, Zenon DEF ActiveMirrorLoad
    <3> HIDE DEF updates
    <3>2. QED
      BY <2>1, <3>1, RewriteNotes
  <2>4. QED
    BY <2>2, <2>3
<1>3. QED
  BY <1>1, <1>2

LEMMA CompensationNotes ==
  ASSUME NEW sp, NEW s
  PROVE  LET r == "compensation.capacitor"
         IN  Notes(s, CompensationCap(sp, s, r), r) /\ SameWires(s, CompensationCap(sp, s, r))
<1> DEFINE updates == [compensation |-> "explicit_capacitor"]
           r == "compensation.capacitor"
<1>1. /\ DOMAIN updates \cap Keys = {Key(Answers(r))} /\ DOMAIN updates \cap Wires = {}
      /\ Recalled(Answers(r), updates[Key(Answers(r))]) = r
  BY DEF Keys, Key, Answers, Wires, Recalled
<1>2. PICK topology : CompensationCap(sp, s, r) = Rewrite(s, r, topology, updates)
  BY Zenon DEF CompensationCap
<1> HIDE DEF updates
<1>3. QED
  BY <1>1, <1>2, RewriteNotes

LEMMA BufferedOutputNotes ==
  ASSUME NEW sp, NEW s
  PROVE  LET r == "output.source_follower"
         IN  Notes(s, BufferedOutput(sp, s, r), r) /\ SameWires(s, BufferedOutput(sp, s, r))
<1> DEFINE updates == [output_structure |-> "source_follower", stage_count |-> "2",
                       headroom_units |-> "3"]
           r == "output.source_follower"
<1>1. /\ DOMAIN updates \cap Keys = {Key(Answers(r))} /\ DOMAIN updates \cap Wires = {}
      /\ Recalled(Answers(r), updates[Key(Answers(r))]) = r
  BY DEF Keys, Key, Answers, Wires, Recalled
<1>2. PICK topology : BufferedOutput(sp, s, r) = Rewrite(s, r, topology, updates)
  BY Zenon DEF BufferedOutput
<1> HIDE DEF updates
<1>3. QED
  BY <1>1, <1>2, RewriteNotes

LEMMA DirectOutputNotes ==
  ASSUME NEW sp, NEW s
  PROVE  LET r == "output.direct"
             c == DirectOutput(sp, s, r)
             left == s.facts["left_drain"]
             right == s.facts["right_drain"]
             differential == sp.output_mode = "differential"
         IN  /\ Notes(s, c, r)
             /\ Wires \cap DOMAIN c.facts = {"left_drain", "right_drain"} \cup (Wires \cap DOMAIN s.facts)
             /\ "tail_net" \in DOMAIN s.facts => c.facts["tail_net"] = s.facts["tail_net"]
             /\ c.facts["right_drain"] = IF differential THEN "voutn" ELSE "vout"
             /\ c.facts["left_drain"] = IF differential THEN "voutp"
                                        ELSE IF left = right THEN "vout" ELSE left
<1> DEFINE r == "output.direct"
           c == DirectOutput(sp, s, r)
           left == s.facts["left_drain"]
           right == s.facts["right_drain"]
           updates(v, w, x) == [left_drain |-> v, right_drain |-> w, output_structure |-> x]
<1>1. ASSUME NEW topology, NEW v, NEW w, NEW x \in {"direct_drain", "differential_drains"},
             c = Rewrite(s, r, topology, updates(v, w, x))
      PROVE  /\ Notes(s, c, r)
             /\ Wires \cap DOMAIN c.facts = {"left_drain", "right_drain"} \cup (Wires \cap DOMAIN s.facts)
             /\ "tail_net" \in DOMAIN s.facts => c.facts["tail_net"] = s.facts["tail_net"]
             /\ c.facts["left_drain"] = v /\ c.facts["right_drain"] = w
  <2> DEFINE u == updates(v, w, x)
  <2>1. /\ DOMAIN u \cap Keys = {Key(Answers(r))} /\ DOMAIN u \cap Wires = {"left_drain", "right_drain"}
        /\ Recalled(Answers(r), u[Key(Answers(r))]) = r
        /\ u["left_drain"] = v /\ u["right_drain"] = w /\ "tail_net" \notin DOMAIN u
    BY DEF Keys, Key, Answers, Wires, Recalled
  <2> HIDE DEF u, c
  <2>2. c = Rewrite(s, r, topology, u)
    BY <1>1 DEF u
  <2>3. Notes(s, c, r)
    BY <2>1, <2>2, RewriteNotes
  <2>4. /\ DOMAIN c.facts = DOMAIN u \cup DOMAIN s.facts
        /\ \A f \in DOMAIN u : c.facts[f] = u[f]
        /\ \A f \in DOMAIN s.facts \ DOMAIN u : c.facts[f] = s.facts[f]
    BY <2>2, RewriteFacts
  <2>5. QED
    BY <2>1, <2>3, <2>4
<1>2. CASE sp.output_mode = "differential"
  <2>1. PICK topology : c = Rewrite(s, r, topology, updates("voutp", "voutn", "differential_drains"))
    BY <1>2, Zenon DEF DirectOutput
  <2> HIDE DEF c, updates
  <2>2. QED
    BY <1>1, <1>2, <2>1 DEF c
<1>3. CASE sp.output_mode # "differential"
  <2>1. PICK topology : c = Rewrite(s, r, topology, updates(IF left = right THEN "vout" ELSE left,
                                                            "vout", "direct_drain"))
    BY <1>3, Zenon DEF DirectOutput
  <2> HIDE DEF c, updates
  <2>2. QED
    BY <1>1, <1>3, <2>1 DEF c
<1>4. QED
  BY <1>2, <1>3

\* What every rule notes, and that only input and direct output name other nets.
LEMMA ChildNotes ==
  ASSUME NEW sp, NEW s, NEW r \in Rules
  PROVE  /\ Notes(s, Child(sp, s, r), r)
         /\ r \notin {"input.diff_pair", "input.common_source", "output.direct"} =>
              SameWires(s, Child(sp, s, r))
<1>1. CASE r = "input.diff_pair"
  BY <1>1, InputNotes DEF Child
<1>2. CASE r = "input.common_source"
  BY <1>2, InputNotes DEF Child
<1>3. CASE r = "tail.current_source"
  BY <1>3, TailNotes DEF Child
<1>4. CASE r = "tail.resistor"
  BY <1>4, TailNotes DEF Child
<1>5. CASE r = "load.resistive"
  BY <1>5, LoadNotes DEF Child
<1>6. CASE r = "load.active_mirror"
  BY <1>6, LoadNotes DEF Child
<1>7. CASE r = "compensation.capacitor"
  BY <1>7, CompensationNotes DEF Child
<1>8. CASE r = "output.source_follower"
  BY <1>8, BufferedOutputNotes DEF Child
<1>9. CASE r = "output.direct"
  BY <1>9, DirectOutputNotes DEF Child
<1>10. QED
  BY <1>1, <1>2, <1>3, <1>4, <1>5, <1>6, <1>7, <1>8, <1>9 DEF Rules

(***************************************************************************)
(* The order of the obligations, and the state before the first rule.      *)
(***************************************************************************)
Plan(sp) == Start(sp).obligations

LEMMA PlanFacts ==
  ASSUME NEW sp
  PROVE  /\ Plan(sp) \in Seq(Kinds) /\ Len(Plan(sp)) \in 3..5
         /\ Plan(sp)[1] = "input_stage" /\ Plan(sp)[Len(Plan(sp))] = "output"
         /\ \A i, j \in 1..Len(Plan(sp)) : Plan(sp)[i] = Plan(sp)[j] => i = j
         /\ \A i \in 1..Len(Plan(sp)) : Plan(sp)[i] = "tail_bias" => sp.input_mode = "differential"
<1> DEFINE tail == IF sp.input_mode = "differential" THEN <<"tail_bias">> ELSE <<>>
           comp == IF sp.require_compensation THEN <<"compensation">> ELSE <<>>
<1>1. Plan(sp) = <<"input_stage">> \o tail \o <<"load">> \o comp \o <<"output">>
  BY DEF Plan, Start
<1>2. /\ tail \in Seq(Kinds) /\ Len(tail) \in 0..1
      /\ \A i \in 1..Len(tail) : tail[i] = "tail_bias" /\ sp.input_mode = "differential"
  BY DEF Kinds
<1>3. /\ comp \in Seq(Kinds) /\ Len(comp) \in 0..1
      /\ \A i \in 1..Len(comp) : comp[i] = "compensation"
  <2>1. comp = <<"compensation">> \/ comp = <<>>
    BY Zenon
  <2> HIDE DEF comp
  <2>2. CASE comp = <<"compensation">>
    BY <2>2 DEF Kinds
  <2>3. CASE comp = <<>>
    BY <2>3 DEF Kinds
  <2>4. QED
    BY <2>1, <2>2, <2>3
<1>4. \A kind \in Kinds : <<kind>> \in Seq(Kinds) /\ Len(<<kind>>) = 1 /\ <<kind>>[1] = kind
  OBVIOUS
<1> HIDE DEF tail, comp
<1> DEFINE p1 == <<"input_stage">> \o tail
           p2 == p1 \o <<"load">>
           p3 == p2 \o comp
           p4 == p3 \o <<"output">>
           a == Len(tail)
           b == Len(comp)
<1>5. p1 \in Seq(Kinds) /\ Len(p1) = 1 + a /\ \A i \in 1..Len(p1) : p1[i] = IF i = 1 THEN "input_stage" ELSE "tail_bias"
  BY <1>2, <1>4, ConcatProperties DEF Kinds
<1> HIDE DEF p1
<1>6. /\ p2 \in Seq(Kinds) /\ Len(p2) = 2 + a
      /\ \A i \in 1..Len(p2) : p2[i] = IF i \in 1..(1 + a) THEN p1[i] ELSE "load"
  BY <1>2, <1>4, <1>5, ConcatProperties DEF Kinds
<1> HIDE DEF p2
<1>7. /\ p3 \in Seq(Kinds) /\ Len(p3) = 2 + a + b
      /\ \A i \in 1..Len(p3) : p3[i] = IF i \in 1..(2 + a) THEN p2[i] ELSE "compensation"
  BY <1>2, <1>3, <1>6, ConcatProperties
<1> HIDE DEF p3
<1>8. /\ p4 \in Seq(Kinds) /\ Len(p4) = 3 + a + b
      /\ \A i \in 1..Len(p4) : p4[i] = IF i \in 1..(2 + a + b) THEN p3[i] ELSE "output"
  BY <1>2, <1>3, <1>4, <1>7, ConcatProperties DEF Kinds
<1>9. Plan(sp) = p4
  BY <1>1 DEF p1, p2, p3
<1> HIDE DEF p4
<1>10. \A i \in 1..Len(p4) :
         p4[i] = IF i = 1 THEN "input_stage" ELSE IF i \in 1..(1 + a) THEN "tail_bias"
                 ELSE IF i = 2 + a THEN "load" ELSE IF i \in 1..(2 + a + b) THEN "compensation"
                 ELSE "output"
  BY <1>2, <1>3, <1>5, <1>6, <1>7, <1>8
<1>11. (a = 0 \/ a = 1) /\ (b = 0 \/ b = 1) /\ Len(p4) = 3 + a + b
  BY <1>2, <1>3, <1>8
<1> HIDE DEF a, b
<1>12. \A i, j \in 1..Len(p4) : p4[i] = p4[j] => i = j
  <2>1. CASE a = 0 /\ b = 0
    BY <1>10, <1>11, <2>1
  <2>2. CASE a = 0 /\ b = 1
    BY <1>10, <1>11, <2>2
  <2>3. CASE a = 1 /\ b = 0
    BY <1>10, <1>11, <2>3
  <2>4. CASE a = 1 /\ b = 1
    BY <1>10, <1>11, <2>4
  <2>5. QED
    BY <1>11, <2>1, <2>2, <2>3, <2>4
<1>13. /\ Len(p4) \in 3..5 /\ p4[1] = "input_stage" /\ p4[Len(p4)] = "output"
       /\ \A i \in 1..Len(p4) : p4[i] = "tail_bias" => sp.input_mode = "differential"
  <2>1. \A i \in 1..Len(p4) : p4[i] = "tail_bias" => sp.input_mode = "differential"
    BY <1>2, <1>10, <1>11 DEF a, b
  <2>2. Len(p4) \in 3..5
    BY <1>11
  <2>3. p4[1] = "input_stage"
    BY <1>10, <2>2
  <2>4. p4[Len(p4)] = "output"
    <3>1. Len(p4) \in 1..Len(p4) /\ Len(p4) # 1 /\ Len(p4) \notin 1..(1 + a) /\ Len(p4) # 2 + a
          /\ Len(p4) \notin 1..(2 + a + b)
      BY <1>11
    <3>2. QED
      BY <1>10, <3>1
  <2>5. QED
    BY <2>1, <2>2, <2>3, <2>4
<1>14. QED
  BY <1>8, <1>9, <1>12, <1>13

Drains == {"n_left", "n_right", "n_gain"}

LEMMA StartFacts ==
  ASSUME NEW sp
  PROVE  /\ Sound(Start(sp).topology) /\ DOMAIN Start(sp).topology.devices = {}
         /\ DOMAIN Start(sp).topology.ports \cap Drains = {}
         /\ DOMAIN Start(sp).facts = {} /\ Start(sp).trace = <<>>
<1> DEFINE differential(mode) == mode = "differential"
           supply == AddPort(EmptyTopology, "vdd", "supply")
           rails == AddPort(supply, "vss", "ground")
           inputs == IF sp.input_mode = "differential"
                     THEN AddPort(AddPort(rails, "vinp", "input"), "vinn", "input")
                     ELSE AddPort(rails, "vin", "input")
           outputs == IF sp.output_mode = "differential"
                      THEN AddPort(AddPort(inputs, "voutp", "output"), "voutn", "output")
                      ELSE AddPort(inputs, "vout", "output")
<1>1. Sound(EmptyTopology) /\ DOMAIN EmptyTopology.devices = {} /\ DOMAIN EmptyTopology.ports = {}
  BY FS_EmptySet DEF Sound, EmptyTopology, Graph
<1>2. Sound(supply) /\ DOMAIN supply.devices = {} /\ DOMAIN supply.ports = {"vdd"}
  BY <1>1, AddPortFacts
<1> HIDE DEF supply
<1>3. Sound(rails) /\ DOMAIN rails.devices = {} /\ DOMAIN rails.ports = {"vdd", "vss"}
  BY <1>2, AddPortFacts
<1> HIDE DEF rails
<1>4. /\ Sound(inputs) /\ DOMAIN inputs.devices = {}
      /\ DOMAIN inputs.ports \subseteq {"vdd", "vss", "vinp", "vinn", "vin"}
  <2>1. /\ Sound(AddPort(rails, "vin", "input")) /\ DOMAIN AddPort(rails, "vin", "input").devices = {}
        /\ DOMAIN AddPort(rails, "vin", "input").ports = {"vdd", "vss", "vin"}
    BY <1>3, AddPortFacts
  <2> DEFINE first == AddPort(rails, "vinp", "input")
             second == AddPort(first, "vinn", "input")
  <2>2. Sound(first) /\ DOMAIN first.devices = {} /\ DOMAIN first.ports = {"vdd", "vss", "vinp"}
    BY <1>3, AddPortFacts
  <2> HIDE DEF first
  <2>3. Sound(second) /\ DOMAIN second.devices = {} /\ DOMAIN second.ports = {"vdd", "vss", "vinp", "vinn"}
    BY <2>2, AddPortFacts
  <2>4. QED
    BY <2>1, <2>3 DEF first
<1> HIDE DEF inputs
<1>5. /\ Sound(outputs) /\ DOMAIN outputs.devices = {}
      /\ DOMAIN outputs.ports \subseteq {"vdd", "vss", "vinp", "vinn", "vin", "voutp", "voutn", "vout"}
  <2>1. /\ Sound(AddPort(inputs, "vout", "output")) /\ DOMAIN AddPort(inputs, "vout", "output").devices = {}
        /\ DOMAIN AddPort(inputs, "vout", "output").ports = DOMAIN inputs.ports \cup {"vout"}
    BY <1>4, AddPortFacts
  <2> DEFINE first == AddPort(inputs, "voutp", "output")
             second == AddPort(first, "voutn", "output")
  <2>2. /\ Sound(first) /\ DOMAIN first.devices = {}
        /\ DOMAIN first.ports = DOMAIN inputs.ports \cup {"voutp"}
    BY <1>4, AddPortFacts
  <2> HIDE DEF first
  <2>3. /\ Sound(second) /\ DOMAIN second.devices = {}
        /\ DOMAIN second.ports = DOMAIN first.ports \cup {"voutn"}
    BY <1>4, <2>2, AddPortFacts
  <2>4. QED
    BY <1>4, <2>1, <2>2, <2>3 DEF first
<1> HIDE DEF outputs
<1>6. /\ Start(sp).topology = Commit(outputs) /\ Start(sp).facts = [f \in {} |-> ""]
      /\ Start(sp).trace = <<>>
  BY DEF Start, outputs, inputs, rails, supply
<1>7. /\ Sound(Commit(outputs)) /\ Commit(outputs).ports = outputs.ports
      /\ Commit(outputs).devices = outputs.devices
  BY <1>5, CommitFacts
<1>8. QED
  BY <1>5, <1>6, <1>7 DEF Drains

(***************************************************************************)
(* What holds of every state derived from a specification.                 *)
(***************************************************************************)

\* The open obligations are the plan without those a rule has answered.
Ordered(sp, s) ==
  /\ s.trace \in Seq(Rules) /\ s.obligations \in Seq(Kinds)
  /\ Len(s.trace) + Len(s.obligations) = Len(Plan(sp))
  /\ \A i \in 1..Len(s.obligations) : s.obligations[i] = Plan(sp)[Len(s.trace) + i]

\* Every device belongs to an obligation that was answered.
Furnished(sp, s) ==
  /\ Sound(s.topology) /\ DOMAIN s.topology.ports \cap Drains = {}
  /\ \A d \in DOMAIN s.topology.devices : \E i \in 1..Len(s.trace) : d \in Owned(Plan(sp)[i])

\* The facts that name nets name nets of the graph, two if the input is a pair.
Wired(sp, s) ==
  LET pair == sp.input_mode = "differential"
  IN  /\ Wires \cap DOMAIN s.facts =
           IF Len(s.trace) = 0 THEN {} ELSE IF pair THEN Wires ELSE {"left_drain", "right_drain"}
      /\ \A f \in Wires \cap DOMAIN s.facts : s.facts[f] \in s.topology.nets
      /\ Len(s.trace) > 0 =>
           /\ s.facts["input_structure"] = IF pair THEN "differential_pair" ELSE "common_source"
           /\ s.facts["left_drain"] # s.facts["right_drain"] <=> pair
           /\ pair => s.facts["tail_net"] = "n_tail"
           /\ s.obligations # <<>> => {s.facts["left_drain"], s.facts["right_drain"]} \subseteq Drains

\* The facts tell which rules were applied.
Recorded(sp, s) ==
  \A i \in 1..Len(s.trace) :
    /\ Key(Plan(sp)[i]) \in DOMAIN s.facts
    /\ s.trace[i] = Recalled(Plan(sp)[i], s.facts[Key(Plan(sp)[i])])

Derived(sp, s) == Ordered(sp, s) /\ Furnished(sp, s) /\ Wired(sp, s) /\ Recorded(sp, s)

LEMMA DerivedStart ==
  ASSUME NEW sp PROVE Derived(sp, Start(sp))
<1> DEFINE s == Start(sp)
<1>1. /\ Sound(s.topology) /\ DOMAIN s.topology.devices = {}
      /\ DOMAIN s.topology.ports \cap Drains = {} /\ DOMAIN s.facts = {} /\ s.trace = <<>>
  BY StartFacts
<1>2. s.obligations = Plan(sp) /\ Plan(sp) \in Seq(Kinds) /\ Len(Plan(sp)) \in 3..5
  BY PlanFacts DEF Plan
<1> HIDE DEF s
<1>3. Len(s.trace) = 0 /\ s.trace \in Seq(Rules)
  BY <1>1
<1>4. Ordered(sp, s)
  BY <1>2, <1>3 DEF Ordered
<1>5. Furnished(sp, s) /\ Wired(sp, s) /\ Recorded(sp, s)
  BY <1>1, <1>3 DEF Furnished, Wired, Recorded
<1>6. QED
  BY <1>4, <1>5 DEF Derived, s

\* A rule the search or a replay may apply.
MayApply(sp, s, r) == ~Complete(s) /\ r \in Rules /\ Answers(r) = FirstKind(s) /\ Permits(sp, s, r)

LEMMA SuffixStep ==
  ASSUME NEW plan \in Seq(Kinds), NEW open \in Seq(Kinds), open # <<>>, NEW n \in Nat,
         n + Len(open) = Len(plan), \A i \in 1..Len(open) : open[i] = plan[n + i]
  PROVE  /\ n + 1 \in 1..Len(plan) /\ Head(open) = plan[n + 1]
         /\ Tail(open) \in Seq(Kinds) /\ n + 1 + Len(Tail(open)) = Len(plan)
         /\ \A i \in 1..Len(Tail(open)) : Tail(open)[i] = plan[n + 1 + i]
         /\ Tail(open) = <<>> <=> n + 1 = Len(plan)
<1>1. Len(open) \in Nat \ {0} /\ Len(plan) \in Nat
  BY EmptySeq, LenProperties
<1>2. n + 1 \in 1..Len(plan) /\ Head(open) = plan[n + 1]
  BY <1>1, HeadTailProperties
<1>3. /\ Tail(open) \in Seq(Kinds) /\ Len(Tail(open)) = Len(open) - 1
      /\ \A i \in 1..Len(Tail(open)) : Tail(open)[i] = open[i + 1]
  BY HeadTailProperties
<1>4. \A i \in 1..Len(Tail(open)) : Tail(open)[i] = plan[n + 1 + i]
  BY <1>1, <1>3
<1>5. Tail(open) = <<>> <=> Len(Tail(open)) = 0
  BY <1>3, EmptySeq
<1>6. QED
  BY <1>1, <1>2, <1>3, <1>4, <1>5

LEMMA OrderedStep ==
  ASSUME NEW sp, NEW s, Ordered(sp, s), NEW r, MayApply(sp, s, r), NEW c,
         c.obligations = Tail(s.obligations), c.trace = Append(s.trace, r)
  PROVE  /\ Ordered(sp, c) /\ Len(s.trace) \in Nat /\ Len(c.trace) = Len(s.trace) + 1
         /\ c.trace[Len(s.trace) + 1] = r /\ \A i \in 1..Len(s.trace) : c.trace[i] = s.trace[i]
         /\ Complete(c) <=> Len(c.trace) = Len(Plan(sp))
         /\ Answers(r) = Plan(sp)[Len(s.trace) + 1] /\ Len(s.trace) + 1 \in 1..Len(Plan(sp))
<1>1. s.obligations # <<>> /\ r \in Rules /\ Answers(r) = Head(s.obligations)
  BY DEF MayApply, Complete, FirstKind
<1>2. /\ s.trace \in Seq(Rules) /\ s.obligations \in Seq(Kinds)
      /\ Len(s.trace) + Len(s.obligations) = Len(Plan(sp))
      /\ \A i \in 1..Len(s.obligations) : s.obligations[i] = Plan(sp)[Len(s.trace) + i]
  BY DEF Ordered
<1>3. Len(s.trace) \in Nat /\ Plan(sp) \in Seq(Kinds)
  BY <1>2, PlanFacts, LenProperties
<1>4. /\ c.trace \in Seq(Rules) /\ Len(c.trace) = Len(s.trace) + 1
      /\ c.trace[Len(s.trace) + 1] = r /\ \A i \in 1..Len(s.trace) : c.trace[i] = s.trace[i]
  BY <1>1, <1>2, AppendProperties
<1> DEFINE n == Len(s.trace)
           plan == Plan(sp)
           open == s.obligations
<1>5. /\ n + 1 \in 1..Len(plan) /\ Head(open) = plan[n + 1]
      /\ Tail(open) \in Seq(Kinds) /\ n + 1 + Len(Tail(open)) = Len(plan)
      /\ \A i \in 1..Len(Tail(open)) : Tail(open)[i] = plan[n + 1 + i]
      /\ Tail(open) = <<>> <=> n + 1 = Len(plan)
  <2>1. n \in Nat /\ plan \in Seq(Kinds) /\ open \in Seq(Kinds) /\ open # <<>>
        /\ n + Len(open) = Len(plan) /\ \A i \in 1..Len(open) : open[i] = plan[n + i]
    BY <1>1, <1>2, <1>3
  <2> HIDE DEF n, plan, open
  <2>2. QED
    BY <2>1, SuffixStep
<1>6. /\ c.trace \in Seq(Rules) /\ c.obligations \in Seq(Kinds)
      /\ Len(c.trace) + Len(c.obligations) = Len(Plan(sp))
      /\ \A i \in 1..Len(c.obligations) : c.obligations[i] = Plan(sp)[Len(c.trace) + i]
  BY <1>4, <1>5
<1>7. QED
  BY <1>1, <1>3, <1>4, <1>5, <1>6 DEF Ordered, Complete

LEMMA PlanPlaces ==
  ASSUME NEW sp, NEW n \in Nat, n + 1 \in 1..Len(Plan(sp)), NEW kind, kind = Plan(sp)[n + 1]
  PROVE  /\ kind \in Kinds
         /\ kind = "input_stage" <=> n = 0
         /\ kind = "output" <=> n + 1 = Len(Plan(sp))
         /\ kind = "tail_bias" => sp.input_mode = "differential"
         /\ \A i \in 1..n : i \in 1..Len(Plan(sp)) /\ Plan(sp)[i] \in Kinds /\ Plan(sp)[i] # kind
<1> DEFINE plan == Plan(sp)
<1>1. /\ plan \in Seq(Kinds) /\ Len(plan) \in 3..5
      /\ plan[1] = "input_stage" /\ plan[Len(plan)] = "output"
      /\ \A i, j \in 1..Len(plan) : plan[i] = plan[j] => i = j
      /\ \A i \in 1..Len(plan) : plan[i] = "tail_bias" => sp.input_mode = "differential"
  BY PlanFacts
<1>2. n + 1 \in 1..Len(plan) /\ kind = plan[n + 1]
  OBVIOUS
<1> HIDE DEF plan
<1>3. \A i \in 1..Len(plan) : plan[i] \in Kinds
  BY <1>1, ElementOfSeq
<1>4. 1 \in 1..Len(plan) /\ Len(plan) \in 1..Len(plan)
  BY <1>1
<1>5. kind = "input_stage" <=> n = 0
  BY <1>1, <1>2, <1>4
<1>6. kind = "output" <=> n + 1 = Len(plan)
  BY <1>1, <1>2, <1>4
<1>7. \A i \in 1..n : i \in 1..Len(plan) /\ plan[i] # kind
  BY <1>1, <1>2
<1>8. QED
  BY <1>1, <1>2, <1>3, <1>5, <1>6, <1>7 DEF plan

LEMMA OwnedApart ==
  ASSUME NEW k \in Kinds, NEW m \in Kinds, k # m PROVE Owned(k) \cap Owned(m) = {}
<1>1. Owned("input_stage") = {"M_IN_P", "M_IN_N", "M_IN"} /\ Owned("tail_bias") = {"I_TAIL", "R_TAIL"}
      /\ Owned("load") = {"R_LOAD_1", "R_LOAD_2", "M_LOAD", "M_LOAD_REF", "M_LOAD_OUT"}
      /\ Owned("compensation") = {"C_COMP"} /\ Owned("output") = {"M_BUFFER", "I_BUFFER"}
  BY DEF Owned
<1>2. k \in {"input_stage", "tail_bias", "load", "compensation", "output"}
      /\ m \in {"input_stage", "tail_bias", "load", "compensation", "output"}
  BY DEF Kinds
<1>3. QED
  BY <1>1, <1>2

LEMMA StillFresh ==
  ASSUME NEW sp, NEW s, Ordered(sp, s), Furnished(sp, s), NEW r, MayApply(sp, s, r)
  PROVE  Fresh(s, r)
<1> DEFINE n == Len(s.trace)
<1>1. n \in Nat /\ n + 1 \in 1..Len(Plan(sp)) /\ Answers(r) = Plan(sp)[n + 1]
  <2>1. PICK c : c = [obligations |-> Tail(s.obligations), trace |-> Append(s.trace, r)]
    OBVIOUS
  <2>2. c.obligations = Tail(s.obligations) /\ c.trace = Append(s.trace, r)
    BY <2>1
  <2>3. QED
    BY <2>2, OrderedStep
<1>2. /\ Answers(r) \in Kinds
      /\ \A i \in 1..n : Plan(sp)[i] \in Kinds /\ Plan(sp)[i] # Answers(r)
  BY <1>1, PlanPlaces
<1>3. \A d \in DOMAIN s.topology.devices : \E i \in 1..n : d \in Owned(Plan(sp)[i])
  BY DEF Furnished
<1>4. QED
  BY <1>2, <1>3, OwnedApart DEF Fresh

LEMMA RecordedStep ==
  ASSUME NEW sp, NEW s, Ordered(sp, s), Recorded(sp, s), NEW r, MayApply(sp, s, r),
         NEW c, Notes(s, c, r)
  PROVE  Recorded(sp, c)
<1> DEFINE n == Len(s.trace)
           k == Key(Answers(r))
<1>1. /\ n \in Nat /\ n + 1 \in 1..Len(Plan(sp)) /\ Answers(r) = Plan(sp)[n + 1] /\ Len(c.trace) = n + 1
      /\ c.trace[n + 1] = r /\ \A i \in 1..n : c.trace[i] = s.trace[i]
  BY OrderedStep DEF Notes
<1> HIDE DEF n, k
<1>2. /\ Answers(r) \in Kinds
      /\ \A i \in 1..n : Plan(sp)[i] \in Kinds /\ Plan(sp)[i] # Answers(r)
  <2>1. n \in Nat /\ n + 1 \in 1..Len(Plan(sp)) /\ Answers(r) = Plan(sp)[n + 1]
    BY <1>1
  <2>2. QED
    BY <2>1, PlanPlaces
<1>3. \A i \in 1..n : Key(Plan(sp)[i]) \in Keys \ {k}
  BY <1>2, KeyFacts DEF k
<1>4. /\ k \in DOMAIN c.facts /\ Recalled(Answers(r), c.facts[k]) = r
      /\ \A f \in Keys \ {k} : f \in DOMAIN s.facts => f \in DOMAIN c.facts /\ c.facts[f] = s.facts[f]
  BY DEF Notes, k
<1>5. \A i \in 1..n : /\ Key(Plan(sp)[i]) \in DOMAIN s.facts
                      /\ s.trace[i] = Recalled(Plan(sp)[i], s.facts[Key(Plan(sp)[i])])
  BY DEF Recorded, n
<1>6. ASSUME NEW i \in 1..(n + 1)
      PROVE  /\ Key(Plan(sp)[i]) \in DOMAIN c.facts
             /\ c.trace[i] = Recalled(Plan(sp)[i], c.facts[Key(Plan(sp)[i])])
  <2>1. CASE i = n + 1
    BY <1>1, <1>4, <2>1 DEF k
  <2>2. CASE i \in 1..n
    <3>1. Key(Plan(sp)[i]) \in DOMAIN c.facts /\ c.facts[Key(Plan(sp)[i])] = s.facts[Key(Plan(sp)[i])]
      BY <1>3, <1>4, <1>5, <2>2
    <3>2. QED
      BY <1>1, <1>5, <2>2, <3>1
  <2>3. QED
    BY <1>1, <2>1, <2>2
<1>7. QED
  BY <1>1, <1>6 DEF Recorded

LEMMA FurnishedStep ==
  ASSUME NEW sp, NEW s, Ordered(sp, s), Furnished(sp, s), NEW r, MayApply(sp, s, r), NEW c,
         Len(c.trace) = Len(s.trace) + 1, Sound(c.topology), c.topology.ports = s.topology.ports,
         DOMAIN c.topology.devices \subseteq DOMAIN s.topology.devices \cup Owned(Answers(r)),
         Len(s.trace) \in Nat, Answers(r) = Plan(sp)[Len(s.trace) + 1]
  PROVE  Furnished(sp, c)
<1>1. ASSUME NEW d \in DOMAIN c.topology.devices
      PROVE  \E i \in 1..(Len(s.trace) + 1) : d \in Owned(Plan(sp)[i])
  <2>1. CASE d \in DOMAIN s.topology.devices
    <3>1. PICK i \in 1..Len(s.trace) : d \in Owned(Plan(sp)[i])
      BY <2>1 DEF Furnished
    <3>2. i \in 1..(Len(s.trace) + 1)
      OBVIOUS
    <3>3. QED
      BY <3>1, <3>2
  <2>2. CASE d \in Owned(Answers(r))
    <3>1. Len(s.trace) + 1 \in 1..(Len(s.trace) + 1)
      OBVIOUS
    <3>2. QED
      BY <2>2, <3>1
  <2>3. QED
    BY <2>1, <2>2
<1>2. QED
  BY <1>1 DEF Furnished

\* Every rule that leaves the drains alone keeps the wiring.
LEMMA SameWiresKept ==
  ASSUME NEW sp, NEW s, Derived(sp, s), NEW r, MayApply(sp, s, r), NEW c, Notes(s, c, r),
         SameWires(s, c), s.topology.nets \subseteq c.topology.nets, Answers(r) # "input_stage"
  PROVE  Wired(sp, c)
<1>1. /\ Len(s.trace) \in Nat /\ Len(c.trace) = Len(s.trace) + 1
      /\ Answers(r) = Plan(sp)[Len(s.trace) + 1] /\ Len(s.trace) + 1 \in 1..Len(Plan(sp))
  BY OrderedStep DEF Derived, Notes
<1>2. Len(s.trace) > 0 /\ Len(c.trace) > 0
  BY <1>1, PlanPlaces
<1>3. s.obligations # <<>>
  BY DEF MayApply, Complete
<1>4. "input_structure" \in DOMAIN s.facts
  <2>1. 1 \in 1..Len(s.trace) /\ Key(Plan(sp)[1]) = "input_structure"
    <3>1. Plan(sp)[1] = "input_stage" /\ Key("input_stage") = "input_structure"
      BY PlanFacts DEF Key
    <3>2. QED
      BY <1>1, <1>2, <3>1
  <2>2. QED
    BY <2>1 DEF Derived, Recorded
<1>5. c.facts["input_structure"] = s.facts["input_structure"]
  <2>1. "input_structure" \in Keys \ {Key(Answers(r))}
    <3>1. Answers(r) \in Kinds /\ "input_stage" \in Kinds
      BY KeyFacts DEF Kinds, MayApply
    <3>2. Key("input_stage") = "input_structure"
      BY DEF Key
    <3>3. QED
      BY <3>1, <3>2, KeyFacts
  <2>2. QED
    BY <1>4, <2>1 DEF Notes
<1>6. /\ Wires \cap DOMAIN s.facts =
           IF sp.input_mode = "differential" THEN Wires ELSE {"left_drain", "right_drain"}
      /\ \A f \in Wires \cap DOMAIN s.facts : s.facts[f] \in s.topology.nets
      /\ s.facts["input_structure"] =
           IF sp.input_mode = "differential" THEN "differential_pair" ELSE "common_source"
      /\ s.facts["left_drain"] # s.facts["right_drain"] <=> sp.input_mode = "differential"
      /\ sp.input_mode = "differential" => s.facts["tail_net"] = "n_tail"
      /\ {s.facts["left_drain"], s.facts["right_drain"]} \subseteq Drains
  BY <1>2, <1>3 DEF Derived, Wired
<1>7. {"left_drain", "right_drain"} \subseteq Wires \cap DOMAIN s.facts
  BY <1>6 DEF Wires
<1>8. /\ c.facts["left_drain"] = s.facts["left_drain"]
      /\ c.facts["right_drain"] = s.facts["right_drain"]
      /\ sp.input_mode = "differential" => c.facts["tail_net"] = s.facts["tail_net"]
  BY <1>6, <1>7 DEF SameWires, Wires
<1>9. \A f \in Wires \cap DOMAIN c.facts : c.facts[f] \in c.topology.nets
  BY <1>6 DEF SameWires
<1>10. Wires \cap DOMAIN c.facts =
         IF Len(c.trace) = 0 THEN {} ELSE IF sp.input_mode = "differential" THEN Wires
                                  ELSE {"left_drain", "right_drain"}
  BY <1>2, <1>6 DEF SameWires
<1>11. QED
  BY <1>2, <1>5, <1>6, <1>8, <1>9, <1>10 DEF Wired

LEMMA InputWires ==
  ASSUME NEW sp, Described(sp), NEW s, Derived(sp, s),
         NEW r \in {"input.diff_pair", "input.common_source"}, MayApply(sp, s, r)
  PROVE  LET c == Child(sp, s, r)
         IN  Wired(sp, c) /\ Extends(s.topology, c.topology, "input_stage")
<1> DEFINE c == Child(sp, s, r)
           pair == sp.input_mode = "differential"
<1>1. Notes(s, c, r) /\ Answers(r) = "input_stage" /\ r \in Rules
  BY ChildNotes DEF Answers, MayApply
<1>2. /\ Len(s.trace) = 0 /\ Len(c.trace) = 1
  <2> HIDE DEF c
  <2>1. /\ Len(s.trace) \in Nat /\ Len(c.trace) = Len(s.trace) + 1
        /\ Answers(r) = Plan(sp)[Len(s.trace) + 1] /\ Len(s.trace) + 1 \in 1..Len(Plan(sp))
    BY <1>1, OrderedStep DEF Derived, Notes
  <2>2. Len(s.trace) = 0
    BY <1>1, <2>1, PlanPlaces
  <2>3. QED
    BY <2>1, <2>2
<1>3. Wires \cap DOMAIN s.facts = {}
  BY <1>2 DEF Derived, Wired
<1>4. Sound(s.topology) /\ Fresh(s, r)
  BY StillFresh DEF Derived, Furnished
<1>5. CASE r = "input.diff_pair"
  <2>1. pair
    BY <1>5 DEF MayApply, Permits
  <2>2. /\ c.facts["input_structure"] = "differential_pair"
        /\ Wires \subseteq DOMAIN c.facts /\ c.facts["left_drain"] = "n_left"
        /\ c.facts["right_drain"] = "n_right" /\ c.facts["tail_net"] = "n_tail"
    BY <1>5, InputNotes DEF Child
  <2>3. Extends(s.topology, c.topology, "input_stage") /\ {"n_left", "n_right", "n_tail"} \subseteq c.topology.nets
    BY <1>4, <1>5, InputPairExtends DEF Child
  <2> HIDE DEF c
  <2>4. \A f \in Wires \cap DOMAIN c.facts : c.facts[f] \in c.topology.nets
    BY <2>2, <2>3 DEF Wires
  <2>5. Wires \cap DOMAIN c.facts = Wires
    BY <2>2
  <2>6. Wired(sp, c)
    BY <1>2, <2>1, <2>2, <2>4, <2>5 DEF Wired, Drains
  <2>7. QED
    BY <2>3, <2>6 DEF c
<1>6. CASE r = "input.common_source"
  <2>1. ~pair
    BY <1>6 DEF MayApply, Permits
  <2>2. /\ c.facts["input_structure"] = "common_source"
        /\ c.facts["left_drain"] = "n_gain" /\ c.facts["right_drain"] = "n_gain"
        /\ Wires \cap DOMAIN c.facts = {"left_drain", "right_drain"}
    BY <1>3, <1>6, InputNotes DEF Child
  <2>3. Extends(s.topology, c.topology, "input_stage") /\ "n_gain" \in c.topology.nets
    BY <1>4, <1>6, SingleTransconductorExtends DEF Child
  <2> HIDE DEF c
  <2>4. \A f \in Wires \cap DOMAIN c.facts : c.facts[f] \in c.topology.nets
    BY <2>2, <2>3
  <2>5. Wired(sp, c)
    BY <1>2, <2>1, <2>2, <2>4 DEF Wired, Drains
  <2>6. QED
    BY <2>3, <2>5 DEF c
<1>7. QED
  BY <1>5, <1>6

LEMMA OutputWires ==
  ASSUME NEW sp, Described(sp), NEW s, Derived(sp, s), NEW r, r = "output.direct", MayApply(sp, s, r)
  PROVE  LET t == s.topology
             c == Child(sp, s, r)
         IN  /\ Wired(sp, c) /\ Sound(c.topology) /\ c.topology.ports = t.ports
             /\ DOMAIN c.topology.devices = DOMAIN t.devices /\ Keeps(t, c.topology)
<1> DEFINE t == s.topology
           c == Child(sp, s, r)
           left == s.facts["left_drain"]
           right == s.facts["right_drain"]
           pair == sp.input_mode = "differential"
           differential == sp.output_mode = "differential"
<1>1. c = DirectOutput(sp, s, r)
  BY DEF Child
<1>2. Answers(r) = "output" /\ r \in Rules
  BY DEF Answers, MayApply
<1>3. Notes(s, c, r)
  BY <1>2, ChildNotes
<1> HIDE DEF c
<1>4. /\ Len(s.trace) \in Nat /\ Len(c.trace) = Len(s.trace) + 1
      /\ Complete(c) <=> Len(c.trace) = Len(Plan(sp))
      /\ Answers(r) = Plan(sp)[Len(s.trace) + 1] /\ Len(s.trace) + 1 \in 1..Len(Plan(sp))
  BY <1>3, OrderedStep DEF Derived, Notes
<1>5. Len(s.trace) > 0 /\ Len(c.trace) > 0 /\ Complete(c)
  <2>1. Len(s.trace) # 0 /\ Len(s.trace) + 1 = Len(Plan(sp))
    BY <1>2, <1>4, PlanPlaces
  <2>2. QED
    BY <1>4, <2>1
<1>6. s.obligations # <<>>
  BY DEF MayApply, Complete
<1>7. /\ Wires \cap DOMAIN s.facts = IF pair THEN Wires ELSE {"left_drain", "right_drain"}
      /\ \A f \in Wires \cap DOMAIN s.facts : s.facts[f] \in t.nets
      /\ s.facts["input_structure"] = IF pair THEN "differential_pair" ELSE "common_source"
      /\ left # right <=> pair
      /\ pair => s.facts["tail_net"] = "n_tail"
      /\ {left, right} \subseteq Drains
  BY <1>5, <1>6 DEF Derived, Wired
<1>8. left \in t.nets /\ right \in t.nets /\ (pair => "n_tail" \in t.nets)
  BY <1>7 DEF Wires
<1>9. Sound(t) /\ DOMAIN t.ports \cap Drains = {}
  BY DEF Derived, Furnished
<1>10. differential => pair
  BY DEF Described, Valid
<1> HIDE DEF left, right, t
<1>11. /\ left \notin {"vout", "voutp", "voutn"} /\ right \notin {"vout", "voutp", "voutn"}
       /\ left \in t.nets \ DOMAIN t.ports /\ right \in t.nets \ DOMAIN t.ports
       /\ left # "n_tail" /\ right # "n_tail"
  BY <1>7, <1>8, <1>9 DEF Drains
<1>12. /\ Sound(c.topology) /\ c.topology.ports = t.ports
       /\ DOMAIN c.topology.devices = DOMAIN t.devices /\ Keeps(t, c.topology)
       /\ c.topology.nets = IF differential
                            THEN (((t.nets \ {left}) \cup {"voutp"}) \ {right}) \cup {"voutn"}
                            ELSE (t.nets \ {right}) \cup {"vout"}
  <2>1. differential => left # right
    BY <1>7, <1>10
  <2>2. QED
    BY <1>1, <1>9, <1>11, <2>1, DirectOutputFacts DEF t, left, right
<1>13. /\ Wires \cap DOMAIN c.facts = {"left_drain", "right_drain"} \cup (Wires \cap DOMAIN s.facts)
       /\ "tail_net" \in DOMAIN s.facts => c.facts["tail_net"] = s.facts["tail_net"]
       /\ c.facts["right_drain"] = IF differential THEN "voutn" ELSE "vout"
       /\ c.facts["left_drain"] = IF differential THEN "voutp" ELSE IF left = right THEN "vout" ELSE left
  BY <1>1, DirectOutputNotes DEF left, right
<1>14. c.facts["input_structure"] = s.facts["input_structure"]
  <2>1. "input_structure" \in DOMAIN s.facts
    <3>1. Plan(sp)[1] = "input_stage" /\ Key("input_stage") = "input_structure"
      BY PlanFacts DEF Key
    <3>2. 1 \in 1..Len(s.trace)
      BY <1>4, <1>5
    <3>3. QED
      BY <3>1, <3>2 DEF Derived, Recorded
  <2>2. "input_structure" \in Keys \ {Key(Answers(r))}
    BY <1>2 DEF Keys, Key
  <2>3. QED
    BY <1>3, <2>1, <2>2 DEF Notes
<1>15. c.facts["left_drain"] # c.facts["right_drain"] <=> pair
  BY <1>7, <1>10, <1>11, <1>13
<1>16. c.facts["left_drain"] \in c.topology.nets /\ c.facts["right_drain"] \in c.topology.nets
  BY <1>8, <1>11, <1>12, <1>13
<1>17. pair => "n_tail" \in c.topology.nets /\ c.facts["tail_net"] = "n_tail"
  <2>1. pair => "tail_net" \in DOMAIN s.facts
    BY <1>7 DEF Wires
  <2>2. QED
    BY <1>7, <1>8, <1>11, <1>12, <1>13, <2>1
<1>18. Wires \cap DOMAIN c.facts = IF pair THEN Wires ELSE {"left_drain", "right_drain"}
  BY <1>7, <1>13 DEF Wires
<1>19. Wired(sp, c)
  <2>1. \A f \in Wires \cap DOMAIN c.facts : c.facts[f] \in c.topology.nets
    BY <1>16, <1>17, <1>18 DEF Wires
  <2>2. QED
    BY <1>5, <1>7, <1>14, <1>15, <1>17, <1>18, <2>1 DEF Wired, Complete
<1>20. QED
  BY <1>12, <1>19 DEF c, t

LEMMA DerivedStep ==
  ASSUME NEW sp, Described(sp), NEW s, Derived(sp, s), NEW r, MayApply(sp, s, r)
  PROVE  Derived(sp, Child(sp, s, r)) /\ Keeps(s.topology, Child(sp, s, r).topology)
<1> DEFINE t == s.topology
           c == Child(sp, s, r)
<1>1. Ordered(sp, s) /\ Furnished(sp, s) /\ Recorded(sp, s) /\ r \in Rules /\ Sound(t)
  BY DEF Derived, MayApply, Furnished
<1>2. /\ Notes(s, c, r)
      /\ r \notin {"input.diff_pair", "input.common_source", "output.direct"} => SameWires(s, c)
  BY <1>1, ChildNotes
<1>3. r # "output.direct" => Extends(t, c.topology, Answers(r))
  BY <1>1, StillFresh, ChildExtends
<1>4. r \in {"input.diff_pair", "input.common_source"} => Wired(sp, c)
  BY InputWires
<1>5. r = "output.direct" =>
        /\ Wired(sp, c) /\ Sound(c.topology) /\ c.topology.ports = t.ports
        /\ DOMAIN c.topology.devices = DOMAIN t.devices /\ Keeps(t, c.topology)
  BY OutputWires
<1> HIDE DEF t, c
<1>6. r \notin {"input.diff_pair", "input.common_source", "output.direct"} => Wired(sp, c)
  <2>1. SUFFICES ASSUME r \notin {"input.diff_pair", "input.common_source", "output.direct"}
                 PROVE  Wired(sp, c)
    OBVIOUS
  <2>2. s.topology.nets \subseteq c.topology.nets
    BY <1>3, <2>1 DEF Extends, t
  <2>3. Answers(r) # "input_stage"
    BY <1>1, <2>1 DEF Answers, Rules
  <2>4. QED
    BY <1>2, <2>1, <2>2, <2>3, SameWiresKept
<1>7. Wired(sp, c)
  BY <1>4, <1>5, <1>6
<1>8. /\ Sound(c.topology) /\ c.topology.ports = t.ports /\ Keeps(t, c.topology)
      /\ DOMAIN c.topology.devices \subseteq DOMAIN t.devices \cup Owned(Answers(r))
  BY <1>3, <1>5, ExtendsKeeps DEF Extends
<1>9. /\ Ordered(sp, c) /\ Len(s.trace) \in Nat /\ Len(c.trace) = Len(s.trace) + 1
      /\ Answers(r) = Plan(sp)[Len(s.trace) + 1]
  BY <1>1, <1>2, OrderedStep DEF Notes
<1>10. Recorded(sp, c)
  BY <1>1, <1>2, RecordedStep
<1>11. Furnished(sp, c)
  BY <1>1, <1>8, <1>9, FurnishedStep DEF t
<1>12. QED
  BY <1>7, <1>8, <1>9, <1>10, <1>11 DEF Derived, c, t

(***************************************************************************)
(* The errors of a sound graph, and why a rule never removes one.          *)
(***************************************************************************)
LEMMA CountOfSome ==
  ASSUME NEW S, IsFiniteSet(S) PROVE Cardinality(S) \in Nat /\ (Cardinality(S) > 0 <=> S # {})
<1>1. Cardinality(S) \in Nat /\ (Cardinality(S) = 0 <=> S = {})
  BY FS_CardinalityType, FS_EmptySet
<1>2. QED
  BY <1>1

LEMMA OnceFacts ==
  ASSUME NEW condition \in BOOLEAN
  PROVE  Once(condition) \in Nat /\ (Once(condition) > 0 <=> condition)
BY DEF Once

\* The rail the bulk of a transistor must be on.
Bulk(kind) == IF kind = "nmos" THEN "vss" ELSE "vdd"

LEMMA PartialErrorsMean ==
  ASSUME NEW sp, NEW s, Sound(s.topology)
  PROVE  LET e       == PartialErrors(sp, s)
             devices == s.topology.devices
             mos     == {d \in DOMAIN devices : devices[d].kind \in Transistors}
         IN  /\ e \in [Codes -> Nat] /\ \A c \in Codes \ PartialCodes : e[c] = 0
             /\ e["LIM001"] > 0 <=> OverLimit(sp, s)
             /\ e["DEV001"] > 0 <=> \E d \in DOMAIN devices : devices[d].kind \notin sp.allowed_devices
             /\ e["MOS001"] > 0 <=> \E d \in mos : devices[d].net["d"] = devices[d].net["s"]
             /\ e["MOS002"] > 0 <=> \E d \in mos : devices[d].net["b"] # Bulk(devices[d].kind)
<1> DEFINE devices == s.topology.devices
           mos == {d \in DOMAIN devices : devices[d].kind \in Transistors}
           foreign == \E d \in DOMAIN devices : devices[d].kind \notin sp.allowed_devices
           short == {d \in mos : devices[d].net["d"] = devices[d].net["s"]}
           loose == {d \in mos : devices[d].net["b"] # (IF devices[d].kind = "nmos" THEN "vss" ELSE "vdd")}
           over == OverLimit(sp, s)
           e == PartialErrors(sp, s)
<1>1. e = [c \in Codes |-> CASE c = "LIM001" -> Once(over)
                             [] c = "DEV001" -> Once(foreign)
                             [] c = "MOS001" -> Cardinality(short)
                             [] c = "MOS002" -> Cardinality(loose)
                             [] OTHER        -> 0]
  BY DEF PartialErrors
<1>2. IsFiniteSet(short) /\ IsFiniteSet(loose)
  BY FS_Subset DEF Sound
<1>3. over \in BOOLEAN /\ foreign \in BOOLEAN
  BY DEF OverLimit
<1>4. \A d \in mos : (IF devices[d].kind = "nmos" THEN "vss" ELSE "vdd") = Bulk(devices[d].kind)
  BY DEF Bulk
<1>5. /\ (\E d \in mos : devices[d].net["d"] = devices[d].net["s"]) <=> short # {}
      /\ (\E d \in mos : devices[d].net["b"] # Bulk(devices[d].kind)) <=> loose # {}
  BY <1>4
<1> HIDE DEF short, loose, over, foreign, e
<1>6. /\ Once(over) \in Nat /\ (Once(over) > 0 <=> over)
      /\ Once(foreign) \in Nat /\ (Once(foreign) > 0 <=> foreign)
      /\ Cardinality(short) \in Nat /\ (Cardinality(short) > 0 <=> short # {})
      /\ Cardinality(loose) \in Nat /\ (Cardinality(loose) > 0 <=> loose # {})
  BY <1>2, <1>3, OnceFacts, CountOfSome
<1>7. /\ e \in [Codes -> Nat] /\ \A c \in Codes \ PartialCodes : e[c] = 0
      /\ e["LIM001"] = Once(over) /\ e["DEV001"] = Once(foreign)
      /\ e["MOS001"] = Cardinality(short) /\ e["MOS002"] = Cardinality(loose)
  BY <1>1, <1>6 DEF Codes, PartialCodes
<1>8. QED
  BY <1>5, <1>6, <1>7 DEF e, over, foreign

LEMMA ErrorsStay ==
  ASSUME NEW sp, sp.limits.max_devices \in Nat, NEW s, NEW c, Sound(s.topology), Sound(c.topology),
         Keeps(s.topology, c.topology)
  PROVE  \A code \in PartialCodes : PartialErrors(sp, s)[code] > 0 => PartialErrors(sp, c)[code] > 0
<1> DEFINE t == s.topology
           u == c.topology
           tmos == {d \in DOMAIN t.devices : t.devices[d].kind \in Transistors}
           umos == {d \in DOMAIN u.devices : u.devices[d].kind \in Transistors}
           before == PartialErrors(sp, s)
           after == PartialErrors(sp, c)
<1>1. /\ before["LIM001"] > 0 <=> OverLimit(sp, s)
      /\ before["DEV001"] > 0 <=> \E d \in DOMAIN t.devices : t.devices[d].kind \notin sp.allowed_devices
      /\ before["MOS001"] > 0 <=> \E d \in tmos : t.devices[d].net["d"] = t.devices[d].net["s"]
      /\ before["MOS002"] > 0 <=> \E d \in tmos : t.devices[d].net["b"] # Bulk(t.devices[d].kind)
  BY PartialErrorsMean
<1>2. /\ after["LIM001"] > 0 <=> OverLimit(sp, c)
      /\ after["DEV001"] > 0 <=> \E d \in DOMAIN u.devices : u.devices[d].kind \notin sp.allowed_devices
      /\ after["MOS001"] > 0 <=> \E d \in umos : u.devices[d].net["d"] = u.devices[d].net["s"]
      /\ after["MOS002"] > 0 <=> \E d \in umos : u.devices[d].net["b"] # Bulk(u.devices[d].kind)
  BY PartialErrorsMean
<1>3. OverLimit(sp, s) => OverLimit(sp, c)
  <2>1. /\ IsFiniteSet(DOMAIN u.devices) /\ DOMAIN t.devices \subseteq DOMAIN u.devices
        /\ IsFiniteSet(DOMAIN t.devices)
    BY DEF Sound, Keeps
  <2>2. /\ Cardinality(DOMAIN t.devices) <= Cardinality(DOMAIN u.devices)
        /\ Cardinality(DOMAIN t.devices) \in Nat /\ Cardinality(DOMAIN u.devices) \in Nat
    BY <2>1, FS_Subset, FS_CardinalityType
  <2>3. QED
    BY <2>2 DEF OverLimit
<1>4. ASSUME NEW d \in DOMAIN t.devices
      PROVE  /\ d \in DOMAIN u.devices /\ u.devices[d].kind = t.devices[d].kind
             /\ \A x, y \in DOMAIN t.devices[d].net :
                  t.devices[d].net[x] = t.devices[d].net[y] => u.devices[d].net[x] = u.devices[d].net[y]
             /\ \A x \in DOMAIN t.devices[d].net :
                  u.devices[d].net[x] = t.devices[d].net[x] \/ u.devices[d].net[x] \notin {"vdd", "vss"}
             /\ t.devices[d].kind \in Transistors => {"d", "s", "b"} \subseteq DOMAIN t.devices[d].net
  BY DEF Keeps, Sound, Terminals
<1> HIDE DEF t, u, before, after
<1>5. ASSUME NEW d \in tmos, t.devices[d].net["d"] = t.devices[d].net["s"]
      PROVE  d \in umos /\ u.devices[d].net["d"] = u.devices[d].net["s"]
  BY <1>4, <1>5
<1>6. ASSUME NEW d \in tmos, t.devices[d].net["b"] # Bulk(t.devices[d].kind)
      PROVE  d \in umos /\ u.devices[d].net["b"] # Bulk(u.devices[d].kind)
  <2>1. d \in umos /\ u.devices[d].kind = t.devices[d].kind /\ "b" \in DOMAIN t.devices[d].net
    BY <1>4
  <2>2. u.devices[d].net["b"] = t.devices[d].net["b"] \/ u.devices[d].net["b"] \notin {"vdd", "vss"}
    BY <1>4, <2>1
  <2>3. Bulk(t.devices[d].kind) \in {"vdd", "vss"}
    BY DEF Bulk
  <2>4. QED
    BY <1>6, <2>1, <2>2, <2>3
<1>7. /\ before["LIM001"] > 0 => after["LIM001"] > 0
      /\ before["DEV001"] > 0 => after["DEV001"] > 0
      /\ before["MOS001"] > 0 => after["MOS001"] > 0
      /\ before["MOS002"] > 0 => after["MOS002"] > 0
  <2>1. before["LIM001"] > 0 => after["LIM001"] > 0
    BY <1>1, <1>2, <1>3
  <2>2. before["DEV001"] > 0 => after["DEV001"] > 0
    BY <1>1, <1>2, <1>4
  <2>3. before["MOS001"] > 0 => after["MOS001"] > 0
    BY <1>1, <1>2, <1>5
  <2>4. before["MOS002"] > 0 => after["MOS002"] > 0
    BY <1>1, <1>2, <1>6
  <2>5. QED
    BY <2>1, <2>2, <2>3, <2>4
<1>8. QED
  BY <1>7 DEF PartialCodes, before, after

\* What the final check counts is finite, and it repeats the partial one.
LEMMA FinalErrorsType ==
  ASSUME NEW sp, NEW s, Sound(s.topology)
  PROVE  /\ FinalErrors(sp, s) \in [Codes -> Nat]
         /\ \A code \in PartialCodes : FinalErrors(sp, s)[code] = PartialErrors(sp, s)[code]
<1> DEFINE t == s.topology
           partial == PartialErrors(sp, s)
           loose == {p \in DOMAIN t.ports : Endpoints(t, p) = {}}
           single == {n \in Internal(t) : Cardinality(Endpoints(t, n)) < 2}
           inputs == Cardinality(Ports(t, "input")) # Expected(sp.input_mode)
           outputs == Cardinality(Ports(t, "output")) # Expected(sp.output_mode)
           split == Cardinality(Components(t)) > 1
           bare == /\ sp.require_compensation
                   /\ Fact(s, "compensation") # "explicit_capacitor"
           e == FinalErrors(sp, s)
<1>1. e = [c \in Codes |-> CASE c \in PartialCodes -> partial[c]
                             [] c = "PORT001" -> Cardinality(loose)
                             [] c = "NET001"  -> Cardinality(single)
                             [] c = "OBL001"  -> Once(~Complete(s))
                             [] c = "PORT002" -> Once(inputs)
                             [] c = "PORT003" -> Once(outputs)
                             [] c = "CONN001" -> Once(split)
                             [] c = "COMP001" -> Once(bare)]
  BY DEF FinalErrors
<1>2. IsFiniteSet(loose) /\ IsFiniteSet(single)
  BY FS_Subset DEF Sound, Internal
<1>3. partial \in [Codes -> Nat]
  BY PartialErrorsMean
<1> HIDE DEF loose, single, inputs, outputs, split, bare, partial, e
<1>4. Cardinality(loose) \in Nat /\ Cardinality(single) \in Nat
  BY <1>2, FS_CardinalityType
<1>5. Once(~Complete(s)) \in Nat /\ Once(inputs) \in Nat /\ Once(outputs) \in Nat
      /\ Once(split) \in Nat /\ Once(bare) \in Nat
  BY DEF Once
<1>6. QED
  BY <1>1, <1>3, <1>4, <1>5 DEF Codes, PartialCodes, partial, e

(***************************************************************************)
(* What the facts and the open obligations tell of a derivation.           *)
(***************************************************************************)
LEMMA SameTrace ==
  ASSUME NEW sp, NEW s, Derived(sp, s), NEW t, Derived(sp, t),
         s.obligations = t.obligations, s.facts = t.facts
  PROVE  s.trace = t.trace
<1>1. /\ s.trace \in Seq(Rules) /\ t.trace \in Seq(Rules) /\ s.obligations \in Seq(Kinds)
      /\ Len(s.trace) + Len(s.obligations) = Len(Plan(sp))
      /\ Len(t.trace) + Len(t.obligations) = Len(Plan(sp))
  BY DEF Derived, Ordered
<1>2. Len(s.trace) = Len(t.trace)
  <2>1. Len(s.trace) \in Nat /\ Len(t.trace) \in Nat /\ Len(s.obligations) \in Nat
    BY <1>1, LenProperties
  <2>2. Len(s.trace) + Len(s.obligations) = Len(t.trace) + Len(s.obligations)
    BY <1>1
  <2>3. \A m, n, k \in Nat : m + k = n + k => m = n
    OBVIOUS
  <2>4. QED
    BY <2>1, <2>2, <2>3
<1>3. \A i \in 1..Len(s.trace) : s.trace[i] = t.trace[i]
  BY <1>2 DEF Derived, Recorded
<1>4. QED
  BY <1>1, <1>2, <1>3, SeqEqual

LEMMA DerivedNets ==
  ASSUME NEW sp, NEW s, Derived(sp, s)
  PROVE  /\ s.topology.raised = {} /\ Sound(s.topology)
         /\ \A f \in Wires \cap DOMAIN s.facts : s.facts[f] \in s.topology.nets
         /\ "left_drain" \in DOMAIN s.facts =>
              (s.facts["left_drain"] # s.facts["right_drain"]
                 <=> s.facts["input_structure"] = "differential_pair")
<1>1. Sound(s.topology) /\ s.topology.raised = {} /\ Len(s.trace) \in Nat
  BY LenProperties DEF Derived, Furnished, Sound, Ordered
<1>2. "left_drain" \in DOMAIN s.facts => Len(s.trace) > 0
  BY <1>1 DEF Derived, Wired, Wires
<1>3. QED
  BY <1>1, <1>2 DEF Derived, Wired

(***************************************************************************)
(* What a graph shows of its derivation: the kinds and roles of its        *)
(* devices.  Every rule but the direct output leaves a mark of its own.    *)
(***************************************************************************)
Look(kind, role) == [kind |-> kind, role |-> role]
Seen(t) == {Look(t.devices[d].kind, t.devices[d].role) : d \in DOMAIN t.devices}

Marks(r, p) ==
  CASE r = "input.diff_pair"        -> p.role = "differential_input"
    [] r = "input.common_source"    -> p.role = "common_source"
    [] r = "tail.current_source"    -> p.kind = "current_source" /\ p.role = "tail_bias"
    [] r = "tail.resistor"          -> p.kind = "resistor" /\ p.role = "tail_bias"
    [] r = "load.resistive"         -> p.role = "load"
    [] r = "load.active_mirror"     -> p.role \in {"diode_load", "mirror_reference"}
    [] r = "compensation.capacitor" -> p.role = "compensation"
    [] r = "output.source_follower" -> p.role = "source_follower"
    [] OTHER                        -> FALSE

\* The nets are the ports of the specification and at most four others.
PortNames(sp) ==
  {"vdd", "vss"}
    \cup (IF sp.input_mode = "differential" THEN {"vinp", "vinn"} ELSE {"vin"})
    \cup (IF sp.output_mode = "differential" THEN {"voutp", "voutn"} ELSE {"vout"})
Inner == {"n_left", "n_right", "n_tail", "n_gain"}
Formed(t) == \A d \in DOMAIN t.devices : \E k, l, n : t.devices[d] = Device(k, l, n)
NetNames(sp) == PortNames(sp) \cup Inner
Shaped(sp, t) ==
  Formed(t) /\ DOMAIN t.ports = PortNames(sp) /\ t.nets \subseteq NetNames(sp)

LEMMA ShapedDevice ==
  ASSUME NEW sp, NEW t, Shaped(sp, t), NEW name, name \notin DOMAIN t.devices,
         NEW kind, NEW role, NEW net, Range(net) \subseteq NetNames(sp)
  PROVE  LET u == AddDevice(t, name, kind, role, net)
         IN  /\ Shaped(sp, u) /\ Seen(u) = Seen(t) \cup {Look(kind, role)}
             /\ DOMAIN u.devices = DOMAIN t.devices \cup {name}
<1> DEFINE u == AddDevice(t, name, kind, role, net)
           new == Device(kind, role, net)
<1>1. /\ u.ports = t.ports /\ u.nets = t.nets \cup Range(net)
      /\ u.devices = Entered(t.devices, name, new)
  BY GraphFacts DEF AddDevice
<1>2. new.kind = kind /\ new.role = role
  BY DEF Device
<1>3. \E k, l, n : new = Device(k, l, n)
  OBVIOUS
<1> HIDE DEF u, new
<1>4. /\ DOMAIN u.devices = DOMAIN t.devices \cup {name} /\ u.devices[name] = new
      /\ \A d \in DOMAIN t.devices : u.devices[d] = t.devices[d]
  BY <1>1 DEF Entered
<1>5. Shaped(sp, u)
  BY <1>1, <1>3, <1>4 DEF Shaped, Formed
<1>6. Seen(u) = Seen(t) \cup {Look(kind, role)}
  BY <1>2, <1>4 DEF Seen
<1>7. QED
  BY <1>4, <1>5, <1>6 DEF u

LEMMA ShapedTransistor ==
  ASSUME NEW sp, NEW t, Shaped(sp, t), NEW name, name \notin DOMAIN t.devices,
         NEW kind, NEW role, NEW d, NEW g, NEW s, NEW b, {d, g, s, b} \subseteq NetNames(sp)
  PROVE  LET u == AddDevice(t, name, kind, role, Mos(d, g, s, b))
         IN  /\ Shaped(sp, u) /\ Seen(u) = Seen(t) \cup {Look(kind, role)}
             /\ DOMAIN u.devices = DOMAIN t.devices \cup {name}
<1>1. Range(Mos(d, g, s, b)) \subseteq NetNames(sp)
  BY MosFacts
<1>2. QED
  BY <1>1, ShapedDevice

LEMMA ShapedTwoPole ==
  ASSUME NEW sp, NEW t, Shaped(sp, t), NEW name, name \notin DOMAIN t.devices,
         NEW kind, NEW role, NEW p, NEW n, {p, n} \subseteq NetNames(sp)
  PROVE  LET u == AddDevice(t, name, kind, role, Across(p, n))
         IN  /\ Shaped(sp, u) /\ Seen(u) = Seen(t) \cup {Look(kind, role)}
             /\ DOMAIN u.devices = DOMAIN t.devices \cup {name}
<1>1. Range(Across(p, n)) \subseteq NetNames(sp)
  BY AcrossFacts
<1>2. QED
  BY <1>1, ShapedDevice

LEMMA ShapedNets ==
  ASSUME NEW sp, NEW t, Shaped(sp, t), NEW N, N \subseteq NetNames(sp)
  PROVE  LET u == AddNets(t, N)
         IN  Shaped(sp, u) /\ Seen(u) = Seen(t) /\ DOMAIN u.devices = DOMAIN t.devices
<1> DEFINE u == AddNets(t, N)
<1>1. u.ports = t.ports /\ u.nets = t.nets \cup N /\ u.devices = t.devices
  BY GraphFacts DEF AddNets
<1> HIDE DEF u
<1>2. Shaped(sp, u) /\ Seen(u) = Seen(t) /\ DOMAIN u.devices = DOMAIN t.devices
  BY <1>1 DEF Shaped, Formed, Seen
<1>3. QED
  BY <1>2 DEF u

LEMMA ShapedRename ==
  ASSUME NEW sp, NEW t, Shaped(sp, t), NEW old, NEW new \in PortNames(sp)
  PROVE  LET u == RenameNet(t, old, new)
         IN  Shaped(sp, u) /\ Seen(u) = Seen(t)
<1> DEFINE u == RenameNet(t, old, new)
<1>1. /\ u.ports = t.ports /\ u.nets = (t.nets \ {old}) \cup {new}
      /\ u.devices = [d \in DOMAIN t.devices |-> Rewired(t.devices[d], old, new)]
  BY GraphFacts DEF RenameNet
<1>2. \A device : /\ \E k, l, n : Rewired(device, old, new) = Device(k, l, n)
                  /\ Rewired(device, old, new).kind = device.kind
                  /\ Rewired(device, old, new).role = device.role
  BY DEF Rewired, Device
<1> HIDE DEF u
<1>3. /\ DOMAIN u.devices = DOMAIN t.devices
      /\ \A d \in DOMAIN t.devices : u.devices[d] = Rewired(t.devices[d], old, new)
  BY <1>1
<1>4. Shaped(sp, u)
  BY <1>1, <1>2, <1>3 DEF Shaped, Formed, NetNames
<1>5. Seen(u) = Seen(t)
  BY <1>2, <1>3 DEF Seen
<1>6. QED
  BY <1>4, <1>5 DEF u

LEMMA ShapedCommit ==
  ASSUME NEW sp, NEW t, Shaped(sp, t) PROVE Shaped(sp, Commit(t)) /\ Seen(Commit(t)) = Seen(t)
<1>1. Commit(t).ports = t.ports /\ Commit(t).nets = t.nets /\ Commit(t).devices = t.devices
  BY DEF Commit, Graph
<1>2. QED
  BY <1>1 DEF Shaped, Formed, Seen

LEMMA ShapedPort ==
  ASSUME NEW t, Formed(t), DOMAIN t.devices = {}, t.nets \subseteq DOMAIN t.ports, NEW name, NEW role
  PROVE  LET u == AddPort(t, name, role)
         IN  /\ Formed(u) /\ DOMAIN u.devices = {} /\ u.nets \subseteq DOMAIN u.ports
             /\ DOMAIN u.ports = DOMAIN t.ports \cup {name}
<1> DEFINE u == AddPort(t, name, role)
<1>1. u.ports = Entered(t.ports, name, role) /\ u.nets = t.nets \cup {name} /\ u.devices = t.devices
  BY GraphFacts DEF AddPort
<1>2. DOMAIN Entered(t.ports, name, role) = DOMAIN t.ports \cup {name}
  BY DEF Entered
<1> HIDE DEF u
<1>3. /\ Formed(u) /\ DOMAIN u.devices = {} /\ u.nets \subseteq DOMAIN u.ports
      /\ DOMAIN u.ports = DOMAIN t.ports \cup {name}
  BY <1>1, <1>2 DEF Formed
<1>4. QED
  BY <1>3 DEF u

\* No device yet, and the ports of the specification.
Bare(t, P) == Formed(t) /\ DOMAIN t.devices = {} /\ t.nets \subseteq DOMAIN t.ports /\ DOMAIN t.ports = P

LEMMA BarePort ==
  ASSUME NEW t, NEW P, Bare(t, P), NEW name, NEW role
  PROVE  Bare(AddPort(t, name, role), P \cup {name})
  BY ShapedPort DEF Bare

LEMMA ShapedStart ==
  ASSUME NEW sp PROVE Shaped(sp, Start(sp).topology) /\ Seen(Start(sp).topology) = {}
<1> DEFINE supply == AddPort(EmptyTopology, "vdd", "supply")
           rails == AddPort(supply, "vss", "ground")
           vinp == AddPort(rails, "vinp", "input")
           inputs == IF sp.input_mode = "differential"
                     THEN AddPort(AddPort(rails, "vinp", "input"), "vinn", "input")
                     ELSE AddPort(rails, "vin", "input")
           voutp == AddPort(inputs, "voutp", "output")
           outputs == IF sp.output_mode = "differential"
                      THEN AddPort(AddPort(inputs, "voutp", "output"), "voutn", "output")
                      ELSE AddPort(inputs, "vout", "output")
           I == IF sp.input_mode = "differential" THEN {"vinp", "vinn"} ELSE {"vin"}
           O == IF sp.output_mode = "differential" THEN {"voutp", "voutn"} ELSE {"vout"}
<1>1. Bare(EmptyTopology, {})
  BY DEF Bare, Formed, EmptyTopology, Graph
<1>2. Bare(supply, {"vdd"})
  <2>1. Bare(supply, {} \cup {"vdd"})
    BY <1>1, BarePort
  <2>2. QED
    BY <2>1
<1> HIDE DEF supply
<1>3. Bare(rails, {"vdd", "vss"})
  <2>1. Bare(rails, {"vdd"} \cup {"vss"})
    BY <1>2, BarePort
  <2>2. {"vdd"} \cup {"vss"} = {"vdd", "vss"}
    OBVIOUS
  <2>3. QED
    BY <2>1, <2>2
<1> HIDE DEF rails
<1>4. Bare(inputs, {"vdd", "vss"} \cup I)
  <2>1. Bare(AddPort(rails, "vin", "input"), {"vdd", "vss"} \cup {"vin"})
    BY <1>3, BarePort
  <2>2. Bare(vinp, {"vdd", "vss"} \cup {"vinp"})
    BY <1>3, BarePort
  <2> HIDE DEF vinp
  <2>3. Bare(AddPort(vinp, "vinn", "input"), ({"vdd", "vss"} \cup {"vinp"}) \cup {"vinn"})
    BY <2>2, BarePort
  <2>4. ({"vdd", "vss"} \cup {"vinp"}) \cup {"vinn"} = {"vdd", "vss"} \cup {"vinp", "vinn"}
    OBVIOUS
  <2>5. QED
    BY <2>1, <2>3, <2>4 DEF vinp
<1> HIDE DEF inputs
<1> DEFINE P == {"vdd", "vss"} \cup I
<1>5. Bare(outputs, P \cup O)
  <2> HIDE DEF P
  <2>1. Bare(AddPort(inputs, "vout", "output"), P \cup {"vout"})
    BY <1>4, BarePort DEF P
  <2>2. Bare(voutp, P \cup {"voutp"})
    BY <1>4, BarePort DEF P
  <2> HIDE DEF voutp
  <2>3. Bare(AddPort(voutp, "voutn", "output"), (P \cup {"voutp"}) \cup {"voutn"})
    BY <2>2, BarePort
  <2>4. (P \cup {"voutp"}) \cup {"voutn"} = P \cup {"voutp", "voutn"}
    OBVIOUS
  <2>5. QED
    BY <2>1, <2>3, <2>4 DEF voutp
<1> HIDE DEF outputs
<1>6. Start(sp).topology = Commit(outputs)
  BY DEF Start, outputs, inputs, rails, supply
<1>7. P \cup O = PortNames(sp)
  BY DEF PortNames
<1>8. Shaped(sp, outputs) /\ Seen(outputs) = {}
  BY <1>5, <1>7 DEF Bare, Shaped, NetNames, Seen
<1>9. QED
  BY <1>6, <1>8, ShapedCommit

(***************************************************************************)
(* Every rule leaves its own mark and no other, so the kinds and roles of  *)
(* the devices tell which rules were applied.                              *)
(***************************************************************************)
Grows(sp, t, u, r) ==
  /\ Shaped(sp, u)
  /\ \E P : /\ Seen(u) = Seen(t) \cup P
           /\ \A q \in Rules : (\E p \in P : Marks(q, p)) <=> q = r

LEMMA RailsKnown ==
  ASSUME NEW sp
  PROVE  /\ "vdd" \in NetNames(sp) /\ "vss" \in NetNames(sp)
         /\ InputRail(sp) \in NetNames(sp) /\ LoadRail(sp) \in NetNames(sp)
BY DEF InputRail, LoadRail, NetNames, PortNames

\* Two marks for a rule that adds two devices, the same one twice if it adds one.
LEMMA MarksOfPair ==
  ASSUME NEW r \in Rules, NEW a, NEW b,
         \A q \in Rules : (Marks(q, a) \/ Marks(q, b)) <=> q = r,
         NEW sp, NEW t, NEW u, Shaped(sp, u), Seen(u) = (Seen(t) \cup {a}) \cup {b}
  PROVE  Grows(sp, t, u, r)
<1> DEFINE P == {a, b}
<1>1. Seen(u) = Seen(t) \cup P
  OBVIOUS
<1>2. \A q \in Rules : (\E p \in P : Marks(q, p)) <=> q = r
  OBVIOUS
<1> HIDE DEF P
<1>3. QED
  BY <1>1, <1>2 DEF Grows

LEMMA MarksOfOne ==
  ASSUME NEW r \in Rules, NEW a, \A q \in Rules : Marks(q, a) <=> q = r,
         NEW sp, NEW t, NEW u, Shaped(sp, u), Seen(u) = Seen(t) \cup {a}
  PROVE  Grows(sp, t, u, r)
<1> DEFINE P == {a}
<1>1. Seen(u) = Seen(t) \cup P
  OBVIOUS
<1>2. \A q \in Rules : (\E p \in P : Marks(q, p)) <=> q = r
  OBVIOUS
<1> HIDE DEF P
<1>3. QED
  BY <1>1, <1>2 DEF Grows

LEMMA InputPairGrows ==
  ASSUME NEW sp, NEW s, Shaped(sp, s.topology), Fresh(s, "input.diff_pair"),
         sp.input_mode = "differential"
  PROVE  Grows(sp, s.topology, InputPair(sp, s, "input.diff_pair").topology, "input.diff_pair")
<1> DEFINE t == s.topology
           N == {"n_left", "n_right", "n_tail"}
           nets == AddNets(t, N)
           mark == Look(InputKind(sp), "differential_input")
           first == AddDevice(nets, "M_IN_P", InputKind(sp), "differential_input",
                              Mos("n_left", "vinp", "n_tail", InputRail(sp)))
           second == AddDevice(first, "M_IN_N", InputKind(sp), "differential_input",
                               Mos("n_right", "vinn", "n_tail", InputRail(sp)))
<1>1. /\ N \subseteq NetNames(sp)
      /\ {"n_left", "vinp", "n_tail", InputRail(sp)} \subseteq NetNames(sp)
      /\ {"n_right", "vinn", "n_tail", InputRail(sp)} \subseteq NetNames(sp)
  BY RailsKnown DEF NetNames, Inner, PortNames
<1>2. "M_IN_P" \notin DOMAIN t.devices /\ "M_IN_N" \notin DOMAIN t.devices \cup {"M_IN_P"}
  BY DEF Fresh, Owned, Answers
<1>3. Shaped(sp, nets) /\ Seen(nets) = Seen(t) /\ DOMAIN nets.devices = DOMAIN t.devices
  BY <1>1, ShapedNets
<1> HIDE DEF t, N, nets, mark
<1>4. /\ Shaped(sp, first) /\ Seen(first) = Seen(t) \cup {mark}
      /\ DOMAIN first.devices = DOMAIN t.devices \cup {"M_IN_P"}
  BY <1>1, <1>2, <1>3, ShapedTransistor DEF mark
<1> HIDE DEF first
<1>5. Shaped(sp, second) /\ Seen(second) = (Seen(t) \cup {mark}) \cup {mark}
  BY <1>1, <1>2, <1>4, ShapedTransistor DEF mark
<1> HIDE DEF second
<1>6. InputPair(sp, s, "input.diff_pair").topology = Commit(second)
  BY RewriteFacts DEF InputPair, nets, first, second, t, N
<1>7. \A q \in Rules : (Marks(q, mark) \/ Marks(q, mark)) <=> q = "input.diff_pair"
  BY DEF Rules, Marks, Look, mark
<1>8. QED
  BY <1>5, <1>6, <1>7, ShapedCommit, MarksOfPair DEF Rules, t

LEMMA SingleTransconductorGrows ==
  ASSUME NEW sp, NEW s, Shaped(sp, s.topology), Fresh(s, "input.common_source"),
         sp.input_mode # "differential"
  PROVE  Grows(sp, s.topology, SingleTransconductor(sp, s, "input.common_source").topology,
               "input.common_source")
<1> DEFINE t == s.topology
           N == {"n_gain"}
           nets == AddNets(t, N)
           mark == Look(InputKind(sp), "common_source")
           first == AddDevice(nets, "M_IN", InputKind(sp), "common_source",
                              Mos("n_gain", "vin", InputRail(sp), InputRail(sp)))
<1>1. /\ N \subseteq NetNames(sp) 
      /\ {"n_gain", "vin", InputRail(sp), InputRail(sp)} \subseteq NetNames(sp)
  BY RailsKnown DEF NetNames, Inner, PortNames
<1>2. "M_IN" \notin DOMAIN t.devices
  BY DEF Fresh, Owned, Answers
<1>3. Shaped(sp, nets) /\ Seen(nets) = Seen(t) /\ DOMAIN nets.devices = DOMAIN t.devices
  BY <1>1, ShapedNets
<1> HIDE DEF t, N, nets, mark
<1>4. Shaped(sp, first) /\ Seen(first) = Seen(t) \cup {mark}
  BY <1>1, <1>2, <1>3, ShapedTransistor DEF mark
<1> HIDE DEF first
<1>5. SingleTransconductor(sp, s, "input.common_source").topology = Commit(first)
  BY RewriteFacts DEF SingleTransconductor, nets, first, t, N
<1>6. \A q \in Rules : Marks(q, mark) <=> q = "input.common_source"
  BY DEF Rules, Marks, Look, mark
<1>7. QED
  BY <1>4, <1>5, <1>6, ShapedCommit, MarksOfOne DEF Rules, t

LEMMA TailGrows ==
  ASSUME NEW sp, NEW s, Shaped(sp, s.topology), NEW r \in {"tail.current_source", "tail.resistor"},
         Fresh(s, r), s.facts["tail_net"] \in NetNames(sp)
  PROVE  Grows(sp, s.topology, Child(sp, s, r).topology, r)
<1> DEFINE t == s.topology
           tail == s.facts["tail_net"]
           source(p, n) == AddDevice(t, "I_TAIL", "current_source", "tail_bias", Across(p, n))
           resistor == AddDevice(t, "R_TAIL", "resistor", "tail_bias", Across(tail, InputRail(sp)))
<1>1. /\ {tail, "vss"} \subseteq NetNames(sp) /\ {"vdd", tail} \subseteq NetNames(sp)
      /\ {tail, InputRail(sp)} \subseteq NetNames(sp)
      /\ "I_TAIL" \notin DOMAIN t.devices /\ "R_TAIL" \notin DOMAIN t.devices
      /\ Shaped(sp, t)
  BY RailsKnown DEF Fresh, Owned, Answers
<1> HIDE DEF t, tail
<1>2. ASSUME NEW p, NEW n, {p, n} \subseteq NetNames(sp)
      PROVE  Shaped(sp, source(p, n)) /\ Seen(source(p, n)) = Seen(t) \cup {Look("current_source", "tail_bias")}
  BY <1>1, <1>2, ShapedTwoPole
<1>3. Shaped(sp, resistor) /\ Seen(resistor) = Seen(t) \cup {Look("resistor", "tail_bias")}
  BY <1>1, ShapedTwoPole
<1>4. CASE r = "tail.current_source"
  <2>1. PICK p, n : {p, n} \subseteq NetNames(sp) /\ Child(sp, s, r).topology = Commit(source(p, n))
    <3>1. Child(sp, s, r).topology = IF sp.polarity = "nmos_input" THEN Commit(source(tail, "vss"))
                                     ELSE Commit(source("vdd", tail))
      BY <1>4, RewriteFacts DEF Child, TailCurrent, t, tail
    <3> HIDE DEF source
    <3>2. QED
      BY <1>1, <3>1
  <2>2. \A q \in Rules : Marks(q, Look("current_source", "tail_bias")) <=> q = r
    BY <1>4 DEF Rules, Marks, Look
  <2> HIDE DEF source
  <2>3. QED
    BY <1>2, <1>4, <2>1, <2>2, ShapedCommit, MarksOfOne DEF Rules, t
<1>5. CASE r = "tail.resistor"
  <2>1. Child(sp, s, r).topology = Commit(resistor)
    BY <1>5, RewriteFacts DEF Child, TailResistor, t, tail
  <2>2. \A q \in Rules : Marks(q, Look("resistor", "tail_bias")) <=> q = r
    BY <1>5 DEF Rules, Marks, Look
  <2> HIDE DEF resistor
  <2>3. QED
    BY <1>3, <1>5, <2>1, <2>2, ShapedCommit, MarksOfOne DEF Rules, t
<1>6. QED
  BY <1>4, <1>5

\* The drain facts, as the loads, the capacitor and the outputs read them.
DrainsKnown(sp, s) == s.facts["left_drain"] \in NetNames(sp) /\ s.facts["right_drain"] \in NetNames(sp)

LEMMA ResistiveLoadGrows ==
  ASSUME NEW sp, NEW s, Shaped(sp, s.topology), Fresh(s, "load.resistive"), DrainsKnown(sp, s)
  PROVE  Grows(sp, s.topology, ResistiveLoad(sp, s, "load.resistive").topology, "load.resistive")
<1> DEFINE t == s.topology
           left == s.facts["left_drain"]
           right == s.facts["right_drain"]
           mark == Look("resistor", "load")
           first == AddDevice(t, "R_LOAD_1", "resistor", "load", Across(LoadRail(sp), left))
           second == AddDevice(first, "R_LOAD_2", "resistor", "load", Across(LoadRail(sp), right))
<1>1. /\ Shaped(sp, t) /\ {LoadRail(sp), left} \subseteq NetNames(sp) /\ {LoadRail(sp), right} \subseteq NetNames(sp)
      /\ "R_LOAD_1" \notin DOMAIN t.devices /\ "R_LOAD_2" \notin DOMAIN t.devices \cup {"R_LOAD_1"}
  BY RailsKnown DEF DrainsKnown, Fresh, Owned, Answers
<1> HIDE DEF t, left, right, mark
<1>2. /\ Shaped(sp, first) /\ Seen(first) = Seen(t) \cup {mark}
      /\ DOMAIN first.devices = DOMAIN t.devices \cup {"R_LOAD_1"}
  BY <1>1, ShapedTwoPole DEF mark
<1> HIDE DEF first
<1>3. Shaped(sp, second) /\ Seen(second) = (Seen(t) \cup {mark}) \cup {mark}
  BY <1>1, <1>2, ShapedTwoPole DEF mark
<1> HIDE DEF second
<1>4. ResistiveLoad(sp, s, "load.resistive").topology = IF left = right THEN Commit(first) ELSE Commit(second)
  BY RewriteFacts DEF ResistiveLoad, first, second, t, left, right
<1>5. \A q \in Rules : Marks(q, mark) <=> q = "load.resistive"
  BY DEF Rules, Marks, Look, mark
<1>6. Grows(sp, t, Commit(first), "load.resistive")
  BY <1>2, <1>5, ShapedCommit, MarksOfOne DEF Rules
<1>7. Grows(sp, t, Commit(second), "load.resistive")
  BY <1>3, <1>5, ShapedCommit, MarksOfPair DEF Rules
<1>8. QED
  BY <1>4, <1>6, <1>7 DEF t

LEMMA ActiveMirrorLoadGrows ==
  ASSUME NEW sp, NEW s, Shaped(sp, s.topology), Fresh(s, "load.active_mirror"), DrainsKnown(sp, s)
  PROVE  Grows(sp, s.topology, ActiveMirrorLoad(sp, s, "load.active_mirror").topology, "load.active_mirror")
<1> DEFINE t == s.topology
           left == s.facts["left_drain"]
           right == s.facts["right_drain"]
           diode == Look(LoadKind(sp), "diode_load")
           reference == Look(LoadKind(sp), "mirror_reference")
           output == Look(LoadKind(sp), "mirror_output")
           one == AddDevice(t, "M_LOAD", LoadKind(sp), "diode_load",
                            Mos(left, left, LoadRail(sp), LoadRail(sp)))
           first == AddDevice(t, "M_LOAD_REF", LoadKind(sp), "mirror_reference",
                              Mos(left, left, LoadRail(sp), LoadRail(sp)))
           second == AddDevice(first, "M_LOAD_OUT", LoadKind(sp), "mirror_output",
                               Mos(right, left, LoadRail(sp), LoadRail(sp)))
<1>1. /\ Shaped(sp, t)
      /\ {left, left, LoadRail(sp), LoadRail(sp)} \subseteq NetNames(sp)
      /\ {right, left, LoadRail(sp), LoadRail(sp)} \subseteq NetNames(sp)
      /\ "M_LOAD" \notin DOMAIN t.devices /\ "M_LOAD_REF" \notin DOMAIN t.devices
      /\ "M_LOAD_OUT" \notin DOMAIN t.devices \cup {"M_LOAD_REF"}
  BY RailsKnown DEF DrainsKnown, Fresh, Owned, Answers
<1> HIDE DEF t, left, right, diode, reference, output
<1>2. Shaped(sp, one) /\ Seen(one) = Seen(t) \cup {diode}
  BY <1>1, ShapedTransistor DEF diode
<1>3. /\ Shaped(sp, first) /\ Seen(first) = Seen(t) \cup {reference}
      /\ DOMAIN first.devices = DOMAIN t.devices \cup {"M_LOAD_REF"}
  BY <1>1, ShapedTransistor DEF reference
<1> HIDE DEF one, first
<1>4. Shaped(sp, second) /\ Seen(second) = (Seen(t) \cup {reference}) \cup {output}
  BY <1>1, <1>3, ShapedTransistor DEF output
<1> HIDE DEF second
<1>5. ActiveMirrorLoad(sp, s, "load.active_mirror").topology =
        IF left = right THEN Commit(one) ELSE Commit(second)
  BY RewriteFacts DEF ActiveMirrorLoad, one, first, second, t, left, right
<1>6. \A q \in Rules : Marks(q, diode) <=> q = "load.active_mirror"
  BY DEF Rules, Marks, Look, diode
<1>7. \A q \in Rules : (Marks(q, reference) \/ Marks(q, output)) <=> q = "load.active_mirror"
  BY DEF Rules, Marks, Look, reference, output
<1>8. Grows(sp, t, Commit(one), "load.active_mirror")
  BY <1>2, <1>6, ShapedCommit, MarksOfOne DEF Rules
<1>9. Grows(sp, t, Commit(second), "load.active_mirror")
  BY <1>4, <1>7, ShapedCommit, MarksOfPair DEF Rules
<1>10. QED
  BY <1>5, <1>8, <1>9 DEF t

LEMMA CompensationGrows ==
  ASSUME NEW sp, NEW s, Shaped(sp, s.topology), Fresh(s, "compensation.capacitor"), DrainsKnown(sp, s)
  PROVE  Grows(sp, s.topology, CompensationCap(sp, s, "compensation.capacitor").topology,
               "compensation.capacitor")
<1> DEFINE t == s.topology
           left == s.facts["left_drain"]
           right == s.facts["right_drain"]
           other == IF left # right THEN left ELSE "vss"
           mark == Look("capacitor", "compensation")
           first == AddDevice(t, "C_COMP", "capacitor", "compensation", Across(right, other))
<1>1. /\ Shaped(sp, t) /\ {right, other} \subseteq NetNames(sp) /\ "C_COMP" \notin DOMAIN t.devices
  BY RailsKnown DEF DrainsKnown, Fresh, Owned, Answers
<1> HIDE DEF t, right, other, mark
<1>2. Shaped(sp, first) /\ Seen(first) = Seen(t) \cup {mark}
  BY <1>1, ShapedTwoPole DEF mark
<1> HIDE DEF first
<1>3. CompensationCap(sp, s, "compensation.capacitor").topology = Commit(first)
  BY RewriteFacts DEF CompensationCap, first, t, right, other
<1>4. \A q \in Rules : Marks(q, mark) <=> q = "compensation.capacitor"
  BY DEF Rules, Marks, Look, mark
<1>5. QED
  BY <1>2, <1>3, <1>4, ShapedCommit, MarksOfOne DEF Rules, t

LEMMA BufferedOutputGrows ==
  ASSUME NEW sp, NEW s, Shaped(sp, s.topology), Fresh(s, "output.source_follower"), DrainsKnown(sp, s),
         sp.output_mode # "differential"
  PROVE  Grows(sp, s.topology, BufferedOutput(sp, s, "output.source_follower").topology,
               "output.source_follower")
<1> DEFINE t == s.topology
           raw == s.facts["right_drain"]
           follower == Look(InputKind(sp), "source_follower")
           bias == Look("current_source", "buffer_bias")
           first == AddDevice(t, "M_BUFFER", InputKind(sp), "source_follower",
                              Mos(LoadRail(sp), raw, "vout", InputRail(sp)))
           second(p, n) == AddDevice(first, "I_BUFFER", "current_source", "buffer_bias", Across(p, n))
<1>1. /\ Shaped(sp, t) /\ {LoadRail(sp), raw, "vout", InputRail(sp)} \subseteq NetNames(sp)
      /\ "vdd" \in NetNames(sp) /\ "vss" \in NetNames(sp) /\ "vout" \in NetNames(sp)
      /\ "M_BUFFER" \notin DOMAIN t.devices /\ "I_BUFFER" \notin DOMAIN t.devices \cup {"M_BUFFER"}
  <2>1. "vout" \in NetNames(sp)
    BY DEF NetNames, PortNames
  <2>2. QED
    BY <2>1, RailsKnown DEF DrainsKnown, Fresh, Owned, Answers
<1> HIDE DEF t, raw, follower, bias
<1>2. /\ Shaped(sp, first) /\ Seen(first) = Seen(t) \cup {follower}
      /\ DOMAIN first.devices = DOMAIN t.devices \cup {"M_BUFFER"}
  BY <1>1, ShapedTransistor DEF follower
<1> HIDE DEF first
<1>3. ASSUME NEW p, NEW n, {p, n} \subseteq NetNames(sp)
      PROVE  Shaped(sp, second(p, n)) /\ Seen(second(p, n)) = (Seen(t) \cup {follower}) \cup {bias}
  BY <1>1, <1>2, <1>3, ShapedTwoPole DEF bias
<1>4. PICK p, n : /\ {p, n} \subseteq NetNames(sp)
                  /\ BufferedOutput(sp, s, "output.source_follower").topology = Commit(second(p, n))
  <2>1. BufferedOutput(sp, s, "output.source_follower").topology =
          IF sp.polarity = "nmos_input" THEN Commit(second("vout", "vss")) ELSE Commit(second("vdd", "vout"))
    BY RewriteFacts DEF BufferedOutput, first, t, raw
  <2> HIDE DEF second
  <2>2. QED
    BY <1>1, <2>1
<1>5. Shaped(sp, second(p, n)) /\ Seen(second(p, n)) = (Seen(t) \cup {follower}) \cup {bias}
  BY <1>3, <1>4
<1> HIDE DEF second
<1>6. \A q \in Rules : (Marks(q, follower) \/ Marks(q, bias)) <=> q = "output.source_follower"
  BY DEF Rules, Marks, Look, follower, bias
<1>7. QED
  BY <1>4, <1>5, <1>6, ShapedCommit, MarksOfPair DEF Rules, t

LEMMA DirectOutputGrows ==
  ASSUME NEW sp, NEW s, Shaped(sp, s.topology)
  PROVE  LET u == DirectOutput(sp, s, "output.direct").topology
         IN  Shaped(sp, u) /\ Seen(u) = Seen(s.topology)
<1> DEFINE t == s.topology
           left == s.facts["left_drain"]
           right == s.facts["right_drain"]
           first == RenameNet(t, left, "voutp")
           second == RenameNet(first, right, "voutn")
           one == RenameNet(t, right, "vout")
           u == DirectOutput(sp, s, "output.direct").topology
<1>1. u = IF sp.output_mode = "differential" THEN Commit(second) ELSE Commit(one)
  BY RewriteFacts DEF DirectOutput
<1>2. CASE sp.output_mode = "differential"
  <2>1. "voutp" \in PortNames(sp) /\ "voutn" \in PortNames(sp)
    BY <1>2 DEF PortNames
  <2>2. Shaped(sp, first) /\ Seen(first) = Seen(t)
    BY <2>1, ShapedRename
  <2> HIDE DEF first
  <2>3. Shaped(sp, second) /\ Seen(second) = Seen(t)
    BY <2>1, <2>2, ShapedRename
  <2> HIDE DEF second, u
  <2>4. QED
    BY <1>1, <1>2, <2>3, ShapedCommit DEF u
<1>3. CASE sp.output_mode # "differential"
  <2>1. "vout" \in PortNames(sp)
    BY <1>3 DEF PortNames
  <2>2. Shaped(sp, one) /\ Seen(one) = Seen(t)
    BY <2>1, ShapedRename
  <2> HIDE DEF one, u
  <2>3. QED
    BY <1>1, <1>3, <2>2, ShapedCommit DEF u
<1>4. QED
  BY <1>2, <1>3

LEMMA WiresAreKnown ==
  ASSUME NEW sp, NEW s, Derived(sp, s), Shaped(sp, s.topology), NEW r, MayApply(sp, s, r)
  PROVE  /\ Answers(r) # "input_stage" => DrainsKnown(sp, s)
         /\ Answers(r) = "tail_bias" => s.facts["tail_net"] \in NetNames(sp)
<1> DEFINE n == Len(s.trace)
<1>1. Ordered(sp, s) /\ Wired(sp, s) /\ s.topology.nets \subseteq NetNames(sp)
  BY DEF Derived, Shaped
<1>2. n \in Nat /\ n + 1 \in 1..Len(Plan(sp)) /\ Answers(r) = Plan(sp)[n + 1]
  <2>1. PICK c : c = [obligations |-> Tail(s.obligations), trace |-> Append(s.trace, r)]
    OBVIOUS
  <2>2. c.obligations = Tail(s.obligations) /\ c.trace = Append(s.trace, r)
    BY <2>1
  <2>3. QED
    BY <1>1, <2>2, OrderedStep
<1>3. /\ Answers(r) = "input_stage" <=> n = 0
      /\ Answers(r) = "tail_bias" => sp.input_mode = "differential"
  BY <1>2, PlanPlaces
<1>4. \A f \in Wires \cap DOMAIN s.facts : s.facts[f] \in NetNames(sp)
  BY <1>1 DEF Wired
<1>5. n # 0 => {"left_drain", "right_drain"} \subseteq Wires \cap DOMAIN s.facts
  BY <1>1 DEF Wired, Wires
<1>6. n # 0 /\ sp.input_mode = "differential" => "tail_net" \in Wires \cap DOMAIN s.facts
  BY <1>1 DEF Wired, Wires
<1>7. QED
  BY <1>3, <1>4, <1>5, <1>6 DEF DrainsKnown

LEMMA ChildGrows ==
  ASSUME NEW sp, NEW s, Derived(sp, s), Shaped(sp, s.topology), NEW r, MayApply(sp, s, r)
  PROVE  LET u == Child(sp, s, r).topology
         IN  IF r = "output.direct" THEN Shaped(sp, u) /\ Seen(u) = Seen(s.topology)
             ELSE Grows(sp, s.topology, u, r)
<1>1. r \in Rules /\ Permits(sp, s, r) /\ Fresh(s, r)
  BY StillFresh DEF Derived, MayApply
<1>2. /\ Answers(r) # "input_stage" => DrainsKnown(sp, s)
      /\ Answers(r) = "tail_bias" => s.facts["tail_net"] \in NetNames(sp)
  BY WiresAreKnown
<1>3. CASE r = "input.diff_pair"
  BY <1>1, <1>3, InputPairGrows DEF Child, Permits
<1>4. CASE r = "input.common_source"
  <2>1. sp.input_mode # "differential"
    BY <1>1, <1>4 DEF Permits
  <2>2. QED
    BY <1>1, <1>4, <2>1, SingleTransconductorGrows DEF Child
<1>5. CASE r \in {"tail.current_source", "tail.resistor"}
  <2>1. s.facts["tail_net"] \in NetNames(sp)
    BY <1>2, <1>5 DEF Answers
  <2>2. QED
    BY <1>1, <1>5, <2>1, TailGrows
<1>6. CASE r = "load.resistive"
  BY <1>1, <1>2, <1>6, ResistiveLoadGrows DEF Child, Answers
<1>7. CASE r = "load.active_mirror"
  BY <1>1, <1>2, <1>7, ActiveMirrorLoadGrows DEF Child, Answers
<1>8. CASE r = "compensation.capacitor"
  BY <1>1, <1>2, <1>8, CompensationGrows DEF Child, Answers
<1>9. CASE r = "output.source_follower"
  <2>1. sp.output_mode # "differential"
    BY <1>1, <1>9 DEF Permits, BufferAllowed
  <2>2. QED
    BY <1>1, <1>2, <1>9, <2>1, BufferedOutputGrows DEF Child, Answers
<1>10. CASE r = "output.direct"
  BY <1>10, DirectOutputGrows DEF Child
<1>11. QED
  BY <1>1, <1>3, <1>4, <1>5, <1>6, <1>7, <1>8, <1>9, <1>10 DEF Rules

(***************************************************************************)
(* So the graph shows which rules were applied, and only permitted ones    *)
(* were.  The direct output shows by the absence of a follower.            *)
(***************************************************************************)
Applied(s, r) == \E i \in 1..Len(s.trace) : s.trace[i] = r

Shown(sp, s) ==
  /\ Shaped(sp, s.topology)
  /\ \A r \in Rules \ {"output.direct"} :
       Applied(s, r) <=> \E p \in Seen(s.topology) : Marks(r, p)
  /\ \A r \in Rules : Applied(s, r) => Permits(sp, s, r)

LEMMA ShownStart ==
  ASSUME NEW sp PROVE Shown(sp, Start(sp))
<1>1. Shaped(sp, Start(sp).topology) /\ Seen(Start(sp).topology) = {}
  BY ShapedStart
<1>2. Len(Start(sp).trace) = 0
  BY StartFacts
<1>3. QED
  BY <1>1, <1>2 DEF Shown, Applied

LEMMA PermitsReads ==
  ASSUME NEW sp, NEW s, NEW c, NEW r PROVE Permits(sp, s, r) = Permits(sp, c, r)
BY DEF Permits, ResistiveAllowed

LEMMA ShownStep ==
  ASSUME NEW sp, NEW s, Derived(sp, s), Shown(sp, s), NEW r, MayApply(sp, s, r)
  PROVE  Shown(sp, Child(sp, s, r))
<1> DEFINE c == Child(sp, s, r)
           t == s.topology
           u == c.topology
<1>1. r \in Rules /\ Permits(sp, s, r) /\ Shaped(sp, t)
  BY DEF MayApply, Shown
<1>2. \A q : Applied(c, q) <=> Applied(s, q) \/ q = r
  <2>1. Notes(s, c, r)
    BY <1>1, ChildNotes
  <2>2. /\ Len(s.trace) \in Nat /\ Len(c.trace) = Len(s.trace) + 1
        /\ c.trace[Len(s.trace) + 1] = r /\ \A i \in 1..Len(s.trace) : c.trace[i] = s.trace[i]
    BY <2>1, OrderedStep DEF Notes, Derived
  <2> HIDE DEF c
  <2>3. QED
    BY <2>2 DEF Applied
<1>3. IF r = "output.direct" THEN Shaped(sp, u) /\ Seen(u) = Seen(t) ELSE Grows(sp, t, u, r)
  BY <1>1, ChildGrows
<1> HIDE DEF c, t, u
<1>4. Shaped(sp, u)
  BY <1>3 DEF Grows
<1>5. ASSUME NEW q \in Rules \ {"output.direct"}
      PROVE  Applied(c, q) <=> \E p \in Seen(u) : Marks(q, p)
  <2>1. Applied(s, q) <=> \E p \in Seen(t) : Marks(q, p)
    BY DEF Shown, t
  <2>2. CASE r = "output.direct"
    BY <1>2, <1>3, <2>1, <2>2
  <2>3. CASE r # "output.direct"
    <3>1. PICK P : /\ Seen(u) = Seen(t) \cup P
                   /\ \A k \in Rules : (\E p \in P : Marks(k, p)) <=> k = r
      BY <1>3, <2>3 DEF Grows
    <3>2. (\E p \in Seen(u) : Marks(q, p)) <=> (\E p \in Seen(t) : Marks(q, p)) \/ \E p \in P : Marks(q, p)
      BY <3>1
    <3>3. QED
      BY <1>2, <2>1, <3>1, <3>2
  <2>4. QED
    BY <2>2, <2>3
<1>6. ASSUME NEW q \in Rules, Applied(c, q) PROVE Permits(sp, c, q)
  <2>1. Permits(sp, s, q)
    BY <1>1, <1>2, <1>6 DEF Shown
  <2>2. QED
    BY <2>1, PermitsReads
<1>7. QED
  BY <1>4, <1>5, <1>6 DEF Shown, c, u

(***************************************************************************)
(* Two complete derivations that show the same devices are the same.       *)
(***************************************************************************)
LEMMA RecalledAnswers ==
  ASSUME NEW kind \in Kinds, NEW value
  PROVE  Recalled(kind, value) \in Rules /\ Answers(Recalled(kind, value)) = kind
BY DEF Kinds, Recalled, Rules, Answers

\* In a complete derivation the rules stand where the plan has their kinds.
LEMMA CompleteTrace ==
  ASSUME NEW sp, NEW s, Derived(sp, s), Complete(s)
  PROVE  /\ s.trace \in Seq(Rules) /\ Len(s.trace) = Len(Plan(sp)) /\ Len(Plan(sp)) \in Nat
         /\ \A i \in 1..Len(Plan(sp)) : s.trace[i] \in Rules /\ Answers(s.trace[i]) = Plan(sp)[i]
         /\ \A i, j \in 1..Len(Plan(sp)) : Plan(sp)[i] = Plan(sp)[j] => i = j
<1>1. /\ Plan(sp) \in Seq(Kinds) /\ Len(Plan(sp)) \in Nat
      /\ \A i, j \in 1..Len(Plan(sp)) : Plan(sp)[i] = Plan(sp)[j] => i = j
  BY PlanFacts, LenProperties
<1>2. s.trace \in Seq(Rules) /\ Len(s.trace) = Len(Plan(sp))
  <2>1. /\ s.trace \in Seq(Rules) /\ s.obligations = <<>>
        /\ Len(s.trace) + Len(s.obligations) = Len(Plan(sp))
    BY DEF Derived, Ordered, Complete
  <2>2. Len(s.obligations) = 0 /\ Len(s.trace) \in Nat
    BY <2>1, LenProperties
  <2>3. QED
    BY <2>1, <2>2
<1>3. ASSUME NEW i \in 1..Len(Plan(sp)) PROVE s.trace[i] \in Rules /\ Answers(s.trace[i]) = Plan(sp)[i]
  <2>1. Plan(sp)[i] \in Kinds
    BY <1>1, ElementOfSeq
  <2>2. s.trace[i] = Recalled(Plan(sp)[i], s.facts[Key(Plan(sp)[i])])
    BY <1>2 DEF Derived, Recorded
  <2>3. QED
    BY <2>1, <2>2, RecalledAnswers
<1>4. QED
  BY <1>1, <1>2, <1>3

LEMMA SameLook ==
  ASSUME NEW sp, NEW s, Derived(sp, s), Shown(sp, s), Complete(s),
         NEW t, Derived(sp, t), Shown(sp, t), Complete(t),
         Seen(s.topology) = Seen(t.topology)
  PROVE  s.trace = t.trace
<1> DEFINE n == Len(Plan(sp))
<1>1. /\ s.trace \in Seq(Rules) /\ Len(s.trace) = n /\ n \in Nat
      /\ \A i \in 1..n : s.trace[i] \in Rules /\ Answers(s.trace[i]) = Plan(sp)[i]
      /\ \A i, j \in 1..n : Plan(sp)[i] = Plan(sp)[j] => i = j
  BY CompleteTrace
<1>2. /\ t.trace \in Seq(Rules) /\ Len(t.trace) = n
      /\ \A i \in 1..n : t.trace[i] \in Rules /\ Answers(t.trace[i]) = Plan(sp)[i]
  BY CompleteTrace
<1> HIDE DEF n
<1>3. \A r \in Rules \ {"output.direct"} : Applied(s, r) <=> Applied(t, r)
  BY DEF Shown
<1>4. ASSUME NEW i \in 1..n PROVE s.trace[i] = t.trace[i]
  <2>1. CASE s.trace[i] # "output.direct"
    <3>1. Applied(s, s.trace[i])
      BY <1>1 DEF Applied
    <3>2. PICK j \in 1..n : t.trace[j] = s.trace[i]
      BY <1>1, <1>2, <1>3, <2>1, <3>1 DEF Applied
    <3>3. Plan(sp)[i] = Plan(sp)[j]
      BY <1>1, <1>2, <3>2
    <3>4. QED
      BY <1>1, <3>2, <3>3
  <2>2. CASE t.trace[i] # "output.direct"
    <3>1. Applied(t, t.trace[i])
      BY <1>2 DEF Applied
    <3>2. PICK j \in 1..n : s.trace[j] = t.trace[i]
      BY <1>1, <1>2, <1>3, <2>2, <3>1 DEF Applied
    <3>3. Plan(sp)[i] = Plan(sp)[j]
      BY <1>1, <1>2, <3>2
    <3>4. QED
      BY <1>1, <3>2, <3>3
  <2>3. QED
    BY <2>1, <2>2
<1>5. QED
  BY <1>1, <1>2, <1>4, SeqEqual

(***************************************************************************)
(* The canonical encodings show the devices, and there is always one.      *)
(***************************************************************************)
LEMMA EncodingShows ==
  ASSUME NEW t, Formed(t), NEW label
  PROVE  Seen(t) = {Look(x.kind, x.role) : x \in DOMAIN Encoding(t, label).devices}
<1> DEFINE net(d) == [x \in DOMAIN t.devices[d].net |-> label[t.devices[d].net[x]]]
           drawn(d) == [t.devices[d] EXCEPT !.net = net(d)]
<1>1. ASSUME NEW d \in DOMAIN t.devices
      PROVE  drawn(d).kind = t.devices[d].kind /\ drawn(d).role = t.devices[d].role
  <2>1. PICK k, l, m : t.devices[d] = Device(k, l, m)
    BY DEF Formed
  <2> HIDE DEF net
  <2>2. QED
    BY <2>1 DEF Device
<1>2. DOMAIN Encoding(t, label).devices = {drawn(d) : d \in DOMAIN t.devices}
  BY DEF Encoding
<1> HIDE DEF drawn
<1>3. QED
  BY <1>1, <1>2 DEF Seen

\* The four canonical names are enough for the inner nets.
LEMMA InnerCount ==
  ASSUME NEW sp, NEW t, Shaped(sp, t)
  PROVE  /\ IsFiniteSet(Internal(t)) /\ Cardinality(Internal(t)) \in 0..4
<1>1. Internal(t) \subseteq Inner
  BY DEF Internal, Shaped, NetNames
<1>2. IsFiniteSet(Inner) /\ Cardinality(Inner) <= 4
  <2>1. ASSUME NEW S, IsFiniteSet(S), NEW m \in Nat, Cardinality(S) <= m, NEW x
        PROVE  IsFiniteSet(S \cup {x}) /\ Cardinality(S \cup {x}) <= m + 1
    <3>1. IsFiniteSet(S \cup {x}) /\ Cardinality(S) \in Nat
          /\ (Cardinality(S \cup {x}) = Cardinality(S) \/ Cardinality(S \cup {x}) = Cardinality(S) + 1)
      BY <2>1, FS_AddElement, FS_CardinalityType
    <3>2. QED
      BY <2>1, <3>1
  <2> DEFINE one == {} \cup {"n_left"}
             two == one \cup {"n_right"}
             three == two \cup {"n_tail"}
             four == three \cup {"n_gain"}
  <2>2. IsFiniteSet({}) /\ Cardinality({}) <= 0
    BY FS_EmptySet
  <2>3. IsFiniteSet(one) /\ Cardinality(one) <= 0 + 1
    BY <2>1, <2>2
  <2>4. four = Inner
    BY DEF Inner
  <2> HIDE DEF one
  <2>5. IsFiniteSet(two) /\ Cardinality(two) <= 1 + 1
    <3>1. Cardinality(one) <= 1
      BY <2>3
    <3>2. QED
      BY <2>1, <2>3, <3>1
  <2> HIDE DEF two
  <2>6. IsFiniteSet(three) /\ Cardinality(three) <= 2 + 1
    <3>1. Cardinality(two) <= 2
      BY <2>5
    <3>2. QED
      BY <2>1, <2>5, <3>1
  <2> HIDE DEF three
  <2>7. IsFiniteSet(four) /\ Cardinality(four) <= 3 + 1
    <3>1. Cardinality(three) <= 3
      BY <2>6
    <3>2. QED
      BY <2>1, <2>6, <3>1
  <2>8. QED
    BY <2>4, <2>7
<1>3. /\ IsFiniteSet(Internal(t)) /\ Cardinality(Internal(t)) <= Cardinality(Inner)
  BY <1>1, <1>2, FS_Subset
<1>4. QED
  BY <1>2, <1>3, FS_CardinalityType

LEMMA EncodingsExist ==
  ASSUME NEW sp, NEW t, Shaped(sp, t) PROVE ExactEncodings(t) # {}
<1> DEFINE k == Cardinality(Internal(t))
           names == {CanonicalNames[i] : i \in 1..k}
           number == [i \in 1..k |-> CanonicalNames[i]]
<1>1. IsFiniteSet(Internal(t)) /\ k \in 0..4
  BY InnerCount
<1>2. ExistsBijection(1..k, Internal(t))
  BY <1>1, FS_CardinalityType
<1>3. ExistsBijection(Internal(t), 1..k)
  BY <1>2, Fun_ExistsBijSymmetric
<1>4. ExistsBijection(1..k, names)
  <2> HIDE DEF k
  <2>1. \A i, j \in 1..4 : CanonicalNames[i] = CanonicalNames[j] => i = j
    BY DEF CanonicalNames
  <2>2. 1..k \subseteq 1..4
    BY <1>1
  <2>3. number \in [1..k -> names] /\ \A i \in 1..k : number[i] = CanonicalNames[i]
    OBVIOUS
  <2>4. \A n \in names : \E i \in 1..k : number[i] = n
    OBVIOUS
  <2> HIDE DEF names, number
  <2>5. number \in Bijection(1..k, names)
    BY <2>1, <2>2, <2>3, <2>4 DEF Bijection, Injection, Surjection, IsInjective
  <2>6. QED
    BY <2>5 DEF ExistsBijection
<1>5. ExistsBijection(Internal(t), names)
  BY <1>3, <1>4, Fun_ExistsBijTransitive
<1> HIDE DEF names
<1>6. PICK label : label \in Bijection(Internal(t), names)
  BY <1>5 DEF ExistsBijection
<1>7. Encoding(t, PortLabels(t) @@ label) \in ExactEncodings(t)
  BY <1>6 DEF ExactEncodings, names
<1>8. QED
  BY <1>7

LEMMA SameEncodings ==
  ASSUME NEW sp, NEW s, Shaped(sp, s), NEW sq, NEW t, Shaped(sq, t),
         ExactEncodings(s) = ExactEncodings(t)
  PROVE  Seen(s) = Seen(t)
<1>1. PICK e : e \in ExactEncodings(s) /\ e \in ExactEncodings(t)
  BY EncodingsExist
<1>2. PICK l : e = Encoding(s, l)
  BY <1>1 DEF ExactEncodings
<1>3. PICK m : e = Encoding(t, m)
  BY <1>1 DEF ExactEncodings
<1>4. QED
  BY <1>2, <1>3, EncodingShows DEF Shaped

LEMMA SameCanonical ==
  ASSUME NEW sp, NEW s, Shaped(sp, s), NEW sq, NEW t, Shaped(sq, t), NEW budget,
         Canonical(s, budget) = Canonical(t, budget)
  PROVE  Seen(s) = Seen(t)
<1> DEFINE refined(u) == Encoding(u, [n \in u.nets |-> n])
<1>1. \A u : \/ Canonical(u, budget) = [method |-> "exact", encodings |-> ExactEncodings(u)]
             \/ Canonical(u, budget) = [method |-> "refined", encodings |-> {refined(u)}]
  BY DEF Canonical
<1> HIDE DEF refined
<1>2. ExactEncodings(s) = ExactEncodings(t) \/ refined(s) = refined(t)
  BY <1>1
<1>3. CASE ExactEncodings(s) = ExactEncodings(t)
  BY <1>3, SameEncodings
<1>4. CASE refined(s) = refined(t)
  BY <1>4, EncodingShows DEF Shaped, refined
<1>5. QED
  BY <1>2, <1>3, <1>4
=============================================================================
