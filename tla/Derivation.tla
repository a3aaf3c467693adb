----------------------------- MODULE Derivation -----------------------------
(***************************************************************************)
(* One derivation: a specification and one rule after another on the first *)
(* open obligation, as replay_rule_ids in explain.py and the sampler in    *)
(* sequence_baseline.py run it, and as each path of the search does.       *)
(* Nothing is pruned here, so the properties say what the catalogue itself *)
(* guarantees, whichever permitted rules are chosen.                       *)
(***************************************************************************)
EXTENDS Catalogue, SequencesExt

CONSTANT Specs   \* the specifications a caller may pass

VARIABLES spec, state

vars == <<spec, state>>

Applicable(sp, s) == {r \in Rules : Answers(r) = FirstKind(s) /\ Permits(sp, s, r)}

Begin(sp) == spec' = sp /\ state' = Start(sp)

Derive(r) ==
  /\ ~Complete(state)
  /\ r \in Applicable(spec, state)
  /\ state' = Child(spec, state, r)
  /\ UNCHANGED spec

Next == \E r \in Rules : Derive(r)

\* The state a given sequence of rules ends in.
Replay(sp, rules) ==
  LET after[n \in 0..Len(rules)] == IF n = 0 THEN Start(sp) ELSE Child(sp, after[n - 1], rules[n])
  IN after[Len(rules)]
-----------------------------------------------------------------------------
\* The builder accepts every call the rules make (graph.py raises on an unknown
\* net or a duplicate device): the facts a later rule reads name nets the graph
\* really has, also after a drain was renamed to an output port; and the two
\* drains stay apart exactly when the input is a pair, which the load and the
\* capacitor branch on.
FactsNameNets ==
  /\ state.topology.raised = {}
  /\ \A f \in {"left_drain", "right_drain", "tail_net"} \cap DOMAIN state.facts :
        state.facts[f] \in state.topology.nets
  /\ "left_drain" \in DOMAIN state.facts =>
        (state.facts["left_drain"] # state.facts["right_drain"]
           <=> state.facts["input_structure"] = "differential_pair")

\* The rules never build what the constraints reject: on a complete derivation
\* the device limit is the only error final_violations can find.
OnlyTheLimitRejects ==
  Complete(state) => \A c \in Codes \ {"LIM001"} : FinalErrors(spec, state)[c] = 0

\* architecture.md on the incremental checks: "These properties cannot be
\* repaired by a later obligation", so pruning a state that has an error loses
\* no candidate.
PruningIsSafe ==
  [][(\E r \in Rules : Derive(r)) =>
       \A c \in PartialCodes :
         PartialErrors(spec, state)[c] > 0 => PartialErrors(spec, state')[c] > 0]_vars

Opposite(kind) == CASE kind = "nmos" -> "pmos" [] kind = "pmos" -> "nmos" [] OTHER -> kind
OppositeRail(n) == CASE n = "vdd" -> "vss" [] n = "vss" -> "vdd" [] OTHER -> n

\* The specification with nmos and pmos exchanged.
DualSpec(sp) ==
  [sp EXCEPT !.polarity = IF @ = "nmos_input" THEN "pmos_input" ELSE "nmos_input",
             !.allowed_devices = {Opposite(k) : k \in @}]

\* A device seen upside down: families and rails exchange, a current source
\* turns around so that current still flows down; the capacitor stays at vss.
DualDevice(d) ==
  CASE d.kind = "capacitor" -> d
    [] d.kind = "current_source" ->
         [d EXCEPT !.net = Across(OppositeRail(d.net["n"]), OppositeRail(d.net["p"]))]
    [] OTHER ->
         [d EXCEPT !.kind = Opposite(d.kind),
                   !.net = [x \in DOMAIN d.net |-> OppositeRail(d.net[x])]]

\* The two polarity branches of every rule mirror each other: the same rules
\* build the dual graph for the dual specification (the polarity-dual variant
\* of sequence_baseline.py relies on it).
PolarityDual ==
  LET t    == state.topology
      dual == Replay(DualSpec(spec), state.trace).topology
  IN  /\ dual.nets = t.nets
      /\ dual.devices = [d \in DOMAIN t.devices |-> DualDevice(t.devices[d])]
=============================================================================
