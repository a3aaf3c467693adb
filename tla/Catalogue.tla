------------------------------ MODULE Catalogue ------------------------------
(***************************************************************************)
(* The design intent, the nine rewrite rules and the constraints: spec.py  *)
(* (validate), obligations.py, rules.py and constraints.py.                *)
(*                                                                         *)
(* A specification is a record of the fields the rules read, with its      *)
(* limits.  A search state is a record of its topology, the kinds of its   *)
(* open obligations in order (key and details are functions of the kind    *)
(* and the specification), its facts and the rule ids of its trace.  The   *)
(* four facts copied from the specification never change and are left out. *)
(***************************************************************************)
EXTENDS Topology

Rules == {"input.diff_pair", "input.common_source", "tail.current_source", "tail.resistor",
          "load.resistive", "load.active_mirror", "compensation.capacitor",
          "output.direct", "output.source_follower"}

\* The RULES tuple, and the rule ids in string order.
Catalog == <<"input.diff_pair", "input.common_source", "tail.current_source", "tail.resistor",
             "load.resistive", "load.active_mirror", "compensation.capacitor",
             "output.direct", "output.source_follower">>
Alphabetical == <<"compensation.capacitor", "input.common_source", "input.diff_pair",
                  "load.active_mirror", "load.resistive", "output.direct",
                  "output.source_follower", "tail.current_source", "tail.resistor">>
Index(order, r) == CHOOSE i \in DOMAIN order : order[i] = r
Position(r) == Index(Catalog, r)

Kinds == {"input_stage", "tail_bias", "load", "compensation", "output"}
Answers(r) ==
  CASE r \in {"input.diff_pair", "input.common_source"}     -> "input_stage"
    [] r \in {"tail.current_source", "tail.resistor"}       -> "tail_bias"
    [] r \in {"load.resistive", "load.active_mirror"}       -> "load"
    [] r = "compensation.capacitor"                         -> "compensation"
    [] r \in {"output.direct", "output.source_follower"}    -> "output"
-----------------------------------------------------------------------------
(* The specification. *)

InputKind(sp) == IF sp.polarity = "nmos_input" THEN "nmos" ELSE "pmos"
LoadKind(sp) == IF sp.polarity = "nmos_input" THEN "pmos" ELSE "nmos"
\* The rail the input devices stand on, and the one the load hangs from.
InputRail(sp) == IF sp.polarity = "nmos_input" THEN "vss" ELSE "vdd"
LoadRail(sp) == IF sp.polarity = "nmos_input" THEN "vdd" ELSE "vss"

Modes == {"single", "differential"}
Intents == [input_mode : Modes, output_mode : Modes, polarity : {"nmos_input", "pmos_input"},
            load_preference : {"active", "resistive", "either"},
            require_compensation : BOOLEAN, allow_resistive_bias : BOOLEAN,
            allowed_devices : SUBSET DeviceKinds]

\* DesignSpec.validate, on the fields modelled here.
Valid(sp) ==
  /\ sp.output_mode = "differential" => sp.input_mode = "differential"
  /\ InputKind(sp) \in sp.allowed_devices

\* A specification a caller can hold: it passed validate, and from_mapping before.
Described(sp) ==
  /\ sp.input_mode \in Modes /\ sp.output_mode \in Modes /\ Valid(sp)
  /\ sp.limits.max_devices \in Nat

\* initial_state: the ports, and the obligations in order.
Start(sp) ==
  LET rails    == AddPort(AddPort(EmptyTopology, "vdd", "supply"), "vss", "ground")
      inputs   == IF sp.input_mode = "differential"
                  THEN AddPort(AddPort(rails, "vinp", "input"), "vinn", "input")
                  ELSE AddPort(rails, "vin", "input")
      outputs  == IF sp.output_mode = "differential"
                  THEN AddPort(AddPort(inputs, "voutp", "output"), "voutn", "output")
                  ELSE AddPort(inputs, "vout", "output")
  IN  [topology    |-> Commit(outputs),
       obligations |-> <<"input_stage">>
                       \o (IF sp.input_mode = "differential" THEN <<"tail_bias">> ELSE <<>>)
                       \o <<"load">>
                       \o (IF sp.require_compensation THEN <<"compensation">> ELSE <<>>)
                       \o <<"output">>,
       facts       |-> [f \in {} |-> ""],
       trace       |-> <<>>]

Complete(s) == s.obligations = <<>>
FirstKind(s) == Head(s.obligations)
Depth(s) == Len(s.trace)
Fact(s, name) == IF name \in DOMAIN s.facts THEN s.facts[name] ELSE "unset"
-----------------------------------------------------------------------------
(* The rules.  Each predicate reads only the specification. *)

ResistorTailAllowed(sp) == sp.allow_resistive_bias /\ "resistor" \in sp.allowed_devices

\* Mutant: the active load asks for the input family instead of the opposite.
ActiveAllowedSameFamily(sp) ==
  /\ sp.output_mode = "single"
  /\ InputKind(sp) \in sp.allowed_devices
  /\ sp.load_preference \in {"active", "either"}

ActiveAllowed(sp) ==
  /\ sp.output_mode = "single"
  /\ LoadKind(sp) \in sp.allowed_devices
  /\ sp.load_preference \in {"active", "either"}

\* Mutant: either means resistive only where an active load is impossible.
ResistiveAllowedFallback(sp, s) ==
  /\ "resistor" \in sp.allowed_devices
  /\ sp.load_preference = "resistive" \/ (sp.load_preference = "either" /\ ~ActiveAllowed(sp))

ResistiveAllowed(sp, s) ==
  "resistor" \in sp.allowed_devices /\ sp.load_preference \in {"resistive", "either"}

BufferAllowed(sp) ==
  /\ sp.output_mode = "single"
  /\ {InputKind(sp), "current_source"} \subseteq sp.allowed_devices

Permits(sp, s, r) ==
  CASE r = "input.diff_pair"        -> sp.input_mode = "differential"
    [] r = "input.common_source"    -> sp.input_mode = "single"
    [] r = "tail.current_source"    -> "current_source" \in sp.allowed_devices
    [] r = "tail.resistor"          -> ResistorTailAllowed(sp)
    [] r = "load.resistive"         -> ResistiveAllowed(sp, s)
    [] r = "load.active_mirror"     -> ActiveAllowed(sp)
    [] r = "compensation.capacitor" -> "capacitor" \in sp.allowed_devices
    [] r = "output.direct"          -> TRUE
    [] r = "output.source_follower" -> BufferAllowed(sp)

\* SearchState(builder.commit(), replace_obligation(...), merge_facts(...), trace),
\* and the trace step that apply adds.
Rewrite(s, r, topology, updates) ==
  [topology    |-> Commit(topology),
   obligations |-> Tail(s.obligations),
   facts       |-> [f \in DOMAIN updates \cup DOMAIN s.facts |->
                      IF f \in DOMAIN updates THEN updates[f] ELSE s.facts[f]],
   trace       |-> Append(s.trace, r)]

Mos(d, g, source, b) == [d |-> d, g |-> g, s |-> source, b |-> b]
Across(p, n) == [p |-> p, n |-> n]

InputPair(sp, s, r) ==
  LET input(t, name, drain, gate) ==
        AddDevice(t, name, InputKind(sp), "differential_input",
                  Mos(drain, gate, "n_tail", InputRail(sp)))
      nets == AddNets(s.topology, {"n_left", "n_right", "n_tail"})
  IN  Rewrite(s, r,
        input(input(nets, "M_IN_P", "n_left", "vinp"), "M_IN_N", "n_right", "vinn"),
        [input_structure |-> "differential_pair", left_drain |-> "n_left",
         right_drain |-> "n_right", tail_net |-> "n_tail", stage_count |-> "1",
         symmetry |-> "paired"])

SingleTransconductor(sp, s, r) ==
  Rewrite(s, r,
    AddDevice(AddNets(s.topology, {"n_gain"}), "M_IN", InputKind(sp), "common_source",
              Mos("n_gain", "vin", InputRail(sp), InputRail(sp))),
    [input_structure |-> "common_source", left_drain |-> "n_gain", right_drain |-> "n_gain",
     stage_count |-> "1", symmetry |-> "single_ended"])

\* Mutant: the pmos branch keeps the nmos orientation.
TailCurrentOneWay(sp, s, r) ==
  Rewrite(s, r,
    AddDevice(s.topology, "I_TAIL", "current_source", "tail_bias",
              Across(s.facts["tail_net"], InputRail(sp))),
    [tail_structure |-> "current_source", headroom_units |-> "2"])

\* The current flows from p to n.
TailCurrent(sp, s, r) ==
  LET tail == s.facts["tail_net"]
  IN  Rewrite(s, r,
        AddDevice(s.topology, "I_TAIL", "current_source", "tail_bias",
                  IF sp.polarity = "nmos_input" THEN Across(tail, "vss") ELSE Across("vdd", tail)),
        [tail_structure |-> "current_source", headroom_units |-> "2"])

\* Mutant: the body of the other tail rule, pasted.
TailResistorPasted(sp, s, r) == TailCurrent(sp, s, r)

TailResistor(sp, s, r) ==
  Rewrite(s, r,
    AddDevice(s.topology, "R_TAIL", "resistor", "tail_bias",
              Across(s.facts["tail_net"], InputRail(sp))),
    [tail_structure |-> "resistor", headroom_units |-> "1"])

ResistiveLoad(sp, s, r) ==
  LET left   == s.facts["left_drain"]
      right  == s.facts["right_drain"]
      load(t, name, drain) == AddDevice(t, name, "resistor", "load", Across(LoadRail(sp), drain))
      first  == load(s.topology, "R_LOAD_1", left)
  IN  Rewrite(s, r, IF left = right THEN first ELSE load(first, "R_LOAD_2", right),
              [load_structure |-> "resistive"])

ActiveMirrorLoad(sp, s, r) ==
  LET left  == s.facts["left_drain"]
      right == s.facts["right_drain"]
      load(t, name, role, drain) ==
        AddDevice(t, name, LoadKind(sp), role, Mos(drain, left, LoadRail(sp), LoadRail(sp)))
  IN  IF left = right
      THEN Rewrite(s, r, load(s.topology, "M_LOAD", "diode_load", left),
                   [load_structure |-> "diode_connected", headroom_units |-> "2"])
      ELSE Rewrite(s, r, load(load(s.topology, "M_LOAD_REF", "mirror_reference", left),
                              "M_LOAD_OUT", "mirror_output", right),
                   [load_structure |-> "current_mirror", headroom_units |-> "2"])

CompensationCap(sp, s, r) ==
  LET left  == s.facts["left_drain"]
      right == s.facts["right_drain"]
  IN  Rewrite(s, r,
        AddDevice(s.topology, "C_COMP", "capacitor", "compensation",
                  Across(right, IF left # right THEN left ELSE "vss")),
        [compensation |-> "explicit_capacitor"])

\* Mutant: the left drain fact is not updated when it is the same net.
DirectOutputStale(sp, s, r) ==
  LET left  == s.facts["left_drain"]
      right == s.facts["right_drain"]
  IN  IF sp.output_mode = "differential"
      THEN Rewrite(s, r, RenameNet(RenameNet(s.topology, left, "voutp"), right, "voutn"),
                   [left_drain |-> "voutp", right_drain |-> "voutn",
                    output_structure |-> "differential_drains"])
      ELSE Rewrite(s, r, RenameNet(s.topology, right, "vout"),
                   [right_drain |-> "vout", output_structure |-> "direct_drain"])

\* The drains become the output ports.
DirectOutput(sp, s, r) ==
  LET left  == s.facts["left_drain"]
      right == s.facts["right_drain"]
  IN  IF sp.output_mode = "differential"
      THEN Rewrite(s, r, RenameNet(RenameNet(s.topology, left, "voutp"), right, "voutn"),
                   [left_drain |-> "voutp", right_drain |-> "voutn",
                    output_structure |-> "differential_drains"])
      ELSE Rewrite(s, r, RenameNet(s.topology, right, "vout"),
                   [left_drain |-> IF left = right THEN "vout" ELSE left,
                    right_drain |-> "vout", output_structure |-> "direct_drain"])

BufferedOutput(sp, s, r) ==
  LET raw      == s.facts["right_drain"]
      follower == AddDevice(s.topology, "M_BUFFER", InputKind(sp), "source_follower",
                            Mos(LoadRail(sp), raw, "vout", InputRail(sp)))
      bias     == IF sp.polarity = "nmos_input" THEN Across("vout", "vss") ELSE Across("vdd", "vout")
  IN  Rewrite(s, r, AddDevice(follower, "I_BUFFER", "current_source", "buffer_bias", bias),
              [output_structure |-> "source_follower", stage_count |-> "2",
               headroom_units |-> "3"])

\* RewriteRule.apply, by rule id.
Child(sp, s, r) ==
  CASE r = "input.diff_pair"        -> InputPair(sp, s, r)
    [] r = "input.common_source"    -> SingleTransconductor(sp, s, r)
    [] r = "tail.current_source"    -> TailCurrent(sp, s, r)
    [] r = "tail.resistor"          -> TailResistor(sp, s, r)
    [] r = "load.resistive"         -> ResistiveLoad(sp, s, r)
    [] r = "load.active_mirror"     -> ActiveMirrorLoad(sp, s, r)
    [] r = "compensation.capacitor" -> CompensationCap(sp, s, r)
    [] r = "output.direct"          -> DirectOutput(sp, s, r)
    [] r = "output.source_follower" -> BufferedOutput(sp, s, r)
-----------------------------------------------------------------------------
(* The constraints that carry an error; warnings and notes never prune. *)

PartialCodes == {"LIM001", "DEV001", "MOS001", "MOS002"}
Codes == PartialCodes \cup {"PORT001", "NET001", "OBL001", "PORT002", "PORT003", "CONN001",
                            "COMP001"}

\* 1 if the condition holds, the number of violations it adds.
Once(condition) == IF condition THEN 1 ELSE 0

\* Mutant: an open obligation is expected to add a device, and counted.
OverLimitAhead(sp, s) ==
  Cardinality(DOMAIN s.topology.devices) + Len(s.obligations) > sp.limits.max_devices

OverLimit(sp, s) == Cardinality(DOMAIN s.topology.devices) > sp.limits.max_devices

PartialErrors(sp, s) ==
  LET devices == s.topology.devices
      mos     == {d \in DOMAIN devices : devices[d].kind \in Transistors}
      bulk(d) == IF devices[d].kind = "nmos" THEN "vss" ELSE "vdd"
  IN  [c \in Codes |->
         CASE c = "LIM001" -> Once(OverLimit(sp, s))
           [] c = "DEV001" -> Once(\E d \in DOMAIN devices : devices[d].kind \notin sp.allowed_devices)
           [] c = "MOS001" -> Cardinality({d \in mos : devices[d].net["d"] = devices[d].net["s"]})
           [] c = "MOS002" -> Cardinality({d \in mos : devices[d].net["b"] # bulk(d)})
           [] OTHER        -> 0]

Ports(t, role) == {p \in DOMAIN t.ports : t.ports[p] = role}
Expected(mode) == IF mode = "differential" THEN 2 ELSE 1

FinalErrors(sp, s) ==
  LET t       == s.topology
      partial == PartialErrors(sp, s)
  IN  [c \in Codes |->
         CASE c \in PartialCodes -> partial[c]
           [] c = "PORT001" -> Cardinality({p \in DOMAIN t.ports : Endpoints(t, p) = {}})
           [] c = "NET001"  -> Cardinality({n \in Internal(t) : Cardinality(Endpoints(t, n)) < 2})
           [] c = "OBL001"  -> Once(~Complete(s))
           [] c = "PORT002" -> Once(Cardinality(Ports(t, "input")) # Expected(sp.input_mode))
           [] c = "PORT003" -> Once(Cardinality(Ports(t, "output")) # Expected(sp.output_mode))
           [] c = "CONN001" -> Once(Cardinality(Components(t)) > 1)
           [] c = "COMP001" -> Once(/\ sp.require_compensation
                                    /\ Fact(s, "compensation") # "explicit_capacitor")]
-----------------------------------------------------------------------------
(* Identity and order of states, as the search uses them. *)

TopologySignature(sp, s) == Canonical(s.topology, sp.limits.max_canonical_permutations)

StateSignature(sp, s) ==
  [topology |-> TopologySignature(sp, s), obligations |-> s.obligations, facts |-> s.facts]

\* _priority, as one tuple compared lexicographically.
Priority(s) ==
  <<Len(s.obligations), Cardinality(DOMAIN s.topology.devices), Len(s.trace)>>
    \o [i \in DOMAIN s.trace |-> Index(Alphabetical, s.trace[i])]

Precedes(s, t) ==
  LET p == Priority(s)
      q == Priority(t)
  IN  \E i \in DOMAIN q :
        /\ \A j \in 1..(i - 1) : j \in DOMAIN p /\ p[j] = q[j]
        /\ i \in DOMAIN p => p[i] < q[i]

MaxCandidates(sp) == sp.limits.max_candidates
MaxStates(sp) == sp.limits.max_states
MaxDepth(sp) == sp.limits.max_depth
=============================================================================
