---------------------------- MODULE MCCompareRuns ----------------------------
(***************************************************************************)
(* Every valid intent is searched with roomy limits, and those that allow  *)
(* every family with each limit tight as well.  Pairs of related           *)
(* specifications are compared: one differential amplifier and one         *)
(* common-source stage, each with fewer families, another load preference, *)
(* no resistive bias or a required capacitor, and with a search cut short  *)
(* by its state or candidate limit.                                        *)
(***************************************************************************)
EXTENDS CompareRuns

Limits(candidates, states, depth, devices, permutations) ==
  [max_candidates |-> candidates, max_states |-> states, max_depth |-> depth,
   max_devices |-> devices, max_canonical_permutations |-> permutations]
Roomy == Limits(12, 5000, 8, 24, 40320)
Tight == {Limits(2, 5000, 8, 24, 40320), Limits(12, 6, 8, 24, 40320),
          Limits(12, 5000, 2, 24, 40320), Limits(12, 5000, 4, 24, 40320),
          Limits(12, 5000, 8, 5, 40320), Limits(12, 5000, 8, 24, 1)}

ValidIntents == {i \in Intents : Valid(i)}
Searched == {i @@ [limits |-> Roomy] : i \in ValidIntents}
            \cup {i @@ [limits |-> l] :
                    i \in {j \in ValidIntents : j.allowed_devices = DeviceKinds}, l \in Tight}

Pair == [input_mode |-> "differential", output_mode |-> "single", polarity |-> "nmos_input",
         load_preference |-> "either", require_compensation |-> FALSE,
         allow_resistive_bias |-> TRUE, allowed_devices |-> DeviceKinds, limits |-> Roomy]
Stage == [Pair EXCEPT !.input_mode = "single"]

Variants(base) ==
  {base, [base EXCEPT !.load_preference = "active"], [base EXCEPT !.load_preference = "resistive"],
   [base EXCEPT !.require_compensation = TRUE], [base EXCEPT !.allow_resistive_bias = FALSE],
   [base EXCEPT !.allowed_devices = @ \ {"current_source"}],
   [base EXCEPT !.allowed_devices = @ \ {"resistor"}]}
Related == Variants(Pair) \cup Variants(Stage)
           \cup {[Pair EXCEPT !.polarity = "pmos_input"],
                  [Pair EXCEPT !.output_mode = "differential"],
                  [Pair EXCEPT !.limits.max_states = 3],
                  [Pair EXCEPT !.limits.max_candidates = 2]}

MCSpecs == Searched \cup Related
MCComparisons == Related \X Related
MCRequests == {3, 12}

\* One specification, and the same with less depth.
DepthSpecs == {Pair, [Pair EXCEPT !.limits.max_depth = 3]}
DepthComparisons == DepthSpecs \X DepthSpecs
RoomyRequest == {12}
=============================================================================
