------------------------- MODULE MCSequenceBaseline -------------------------
(***************************************************************************)
(* Every valid specification is replayed, with a device limit that binds   *)
(* and one that does not.  Corpora have two specifications; among them     *)
(* duals, renamed ones, and such whose depth, device, candidate or state   *)
(* limit cuts some derivations off; each is built with a limit argument    *)
(* that binds and one that does not.                                       *)
(***************************************************************************)
EXTENDS SequenceBaseline

\* At most 16 states follow from one specification.
MCLimits(depth, devices, candidates, states) ==
  [max_depth |-> depth, max_devices |-> devices, max_candidates |-> candidates, max_states |-> states]
MCWide(depth, devices) == MCLimits(depth, devices, 20, 20)
MCSpecs ==
  {i @@ [limits |-> MCWide(8, n), name |-> "a"] : i \in {j \in Intents : Valid(j)}, n \in {3, 24}}

\* The best-first search of search.py; no rule reaches a state twice.  A state
\* that has an error is expanded here, as if nothing were known of pruning: the
\* candidates are checked at the end.
MCSearch(sp, n) ==
  LET Keeps(s) == Depth(s) <= MaxDepth(sp)
      Turn(q) ==
        LET s == CHOOSE t \in q.queue : \A u \in q.queue \ {t} : Precedes(t, u)
        IN  [queue |-> (q.queue \ {s}) \cup {Child(sp, s, r) : r \in {x \in Rules : Keeps(s) /\ ~Complete(s) /\ x \in Applicable(sp, s)}},
             found |-> q.found \cup {t.trace : t \in {u \in {s} : Acceptable(sp, u)}}]
      after[k \in 0..MaxStates(sp)] ==
        IF k = 0 THEN [queue |-> {Start(sp)}, found |-> {}]
        ELSE LET q == after[k - 1]
             IN  IF q.queue # {} /\ Cardinality(q.found) < Granted(sp, n) THEN Turn(q) ELSE q
  IN  after[MaxStates(sp)].found

\* The sequence corpora.
MCIntent(mode, polarity, load, resistive, families) ==
  [input_mode |-> mode, output_mode |-> "single", polarity |-> polarity, load_preference |-> load,
   require_compensation |-> FALSE, allow_resistive_bias |-> resistive, allowed_devices |-> families]
MCBases ==
  {MCIntent("differential", p, "either", TRUE, DeviceKinds) @@ [limits |-> l] :
     p \in {"nmos_input", "pmos_input"}, l \in {MCWide(3, 9), MCWide(4, 9), MCWide(4, 5)}}
  \cup {MCIntent("single", p, "either", TRUE, families) @@ [limits |-> MCWide(8, 9)] :
          p \in {"nmos_input", "pmos_input"}, families \in {DeviceKinds, {"nmos", "resistor"}}}
  \cup {MCIntent("differential", "nmos_input", "either", TRUE, DeviceKinds) @@ [limits |-> l] :
          l \in {MCLimits(4, 9, 3, 20), MCLimits(4, 9, 20, 12)}}
MCNamed == {b @@ [name |-> n] : b \in {i \in MCBases : Valid(i)}, n \in {"a", "b"}}
\* Every way to reject a draw: too deep, too many devices before the end or at it.
MCSampled ==
  {sp \in MCNamed : sp.name = "a" /\ sp.polarity = "nmos_input" /\ sp.limits.max_states = 20}
  \cup {MCIntent("differential", "nmos_input", "either", TRUE, DeviceKinds) @@ [limits |-> MCWide(8, n), name |-> "a"] :
          n \in {3, 4}}
\* One of the two is the plain specification, or both have a limit of depth or devices.
MCPlain == MCIntent("differential", "nmos_input", "either", TRUE, DeviceKinds) @@ [limits |-> MCWide(4, 9), name |-> "a"]
MCCut(sp) == sp.input_mode = "differential" /\ sp.limits # MCWide(4, 9) /\ sp.name = "a"
MCCorpora ==
  {{MCPlain, sp} : sp \in MCNamed \ {MCPlain}}
  \cup {c \in SUBSET {sp \in MCNamed : MCCut(sp)} : Cardinality(c) = 2}
MCBuilds ==
  [specs : MCCorpora, augment : BOOLEAN, limit : {100}]
  \cup [specs : {{MCPlain, sp} : sp \in {x \in MCNamed : x.name = "a" /\ x.input_mode = "single"}},
        augment : BOOLEAN, limit : {2}]
\* A relative of the plain specification next to one of another family.
MCRebuilds ==
  [specs : {{MCPlain, [MCPlain EXCEPT !.limits = MCWide(4, 5)]}, {[MCPlain EXCEPT !.limits = MCLimits(4, 9, 20, 12)]}},
   augment : {FALSE}, limit : {1, 100}]
=============================================================================
