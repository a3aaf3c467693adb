-------------------------- MODULE SequenceBaseline --------------------------
(***************************************************************************)
(* sequence_baseline: a corpus of rule sequences found by the search, its  *)
(* split by lineage, bigram counts as a checkpoint, and draws that choose  *)
(* rules by these counts under the predicates and constraints the search   *)
(* uses.  The search is a function of the specification and the limit of   *)
(* which its promise (Enumeration) is assumed: it may stop at the limit or *)
(* at max_states.  A fingerprint is the specification.  A digest decides   *)
(* each choice: any rule of positive weight can be drawn.                  *)
(***************************************************************************)
EXTENDS Derivation, Checks

CONSTANTS
  Builds,                    \* the calls that build a corpus: [specs, augment, limit]
  Rebuilds,                  \* those that build held-out examples for one evaluation
  Search(_, _),              \* generate_candidates(spec, limit): the rules of its candidates
  Sampled,                   \* the specifications a caller samples for
  MaxExamples, MaxSteps      \* MaxSteps: no derivation is longer

\* Every specification went through validate, and has the fields of a DesignSpec;
\* MaxSteps leaves no derivation out.
Fields == {"name", "input_mode", "output_mode", "polarity", "load_preference", "require_compensation",
           "allow_resistive_bias", "allowed_devices", "limits"}
ASSUME SpecsAssumption ==
  /\ Specs # {}
  /\ \A sp \in Specs \cup Sampled \cup UNION {b.specs : b \in Builds \cup Rebuilds} :
       /\ Described(sp) /\ DOMAIN sp = Fields /\ MaxDepth(sp) \in Nat \ {0}
       /\ MaxCandidates(sp) \in Nat \ {0} /\ MaxStates(sp) \in Nat \ {0}
  /\ \A b \in Builds \cup Rebuilds : b.augment \in BOOLEAN /\ b.limit \in Nat \ {0}
  /\ MaxSteps \in Nat /\ MaxSteps >= 5

VARIABLES
  phase, examples,
  training, heldout, checkpoint,
  asked,                     \* the limit of the call that built heldout
  previous,                  \* of the draw under way
  left, outcome,             \* specifications not yet drawn for; how the last draw ended
  scores                     \* [valid, exact]
corpus == <<examples, training, heldout, checkpoint, asked>>
drawing == <<spec, state, previous>>
baselineVars == <<phase, corpus, drawing, left, outcome, scores>>

Descendants(sp, s) ==
  LET level[n \in 0..MaxSteps] ==
        IF n = 0 THEN {s} ELSE UNION {{Child(sp, t, r) : r \in Applicable(sp, t)} : t \in {u \in level[n - 1] : ~Complete(u)}}
  IN UNION {level[n] : n \in 0..MaxSteps}
HasError(errors) == \E c \in Codes : errors[c] > 0

\* What generate_candidates returns when nothing but depth and errors bounds it.
Acceptable(sp, s) == Complete(s) /\ Depth(s) <= MaxDepth(sp) /\ ~HasError(FinalErrors(sp, s))
Candidates(sp) == {s \in Descendants(sp, Start(sp)) : Acceptable(sp, s)}

Granted(sp, n) == IF n < MaxCandidates(sp) THEN n ELSE MaxCandidates(sp)

\* The state budget may end the search before the space does.
IsCut(sp) == MaxStates(sp) < Cardinality(Descendants(sp, Start(sp)))

\* One candidate for a topology, and no topology has two derivations.
MayReturn(sp, n, found) ==
  /\ found \subseteq {s.trace : s \in Candidates(sp)}
  /\ IsFiniteSet(found) /\ Cardinality(found) <= Granted(sp, n)
  /\ \/ found = {s.trace : s \in Candidates(sp)}
     \/ Cardinality(found) = Granted(sp, n)
     \/ IsCut(sp)
-----------------------------------------------------------------------------
\* Mutant: the lineage keeps the polarity.
LineagePolar(sp) == [sp EXCEPT !.name = "any"]

\* spec_lineage_id: the name and the polarity are forgotten.
Lineage(sp) == [sp EXCEPT !.name = "any", !.polarity = "any"]

\* _spec_variants: the specification, and its polarity dual.
Variants(sp, augment) ==
  {sp} \cup (IF augment /\ {"nmos", "pmos"} \subseteq sp.allowed_devices
             THEN {[sp EXCEPT !.polarity = IF @ = "nmos_input" THEN "pmos_input" ELSE "nmos_input"]}
             ELSE {})

Example(lineage, sp, rules) == [lineage |-> lineage, spec |-> sp, rules |-> rules]

ASSUME SearchAssumption ==
  \A b \in Builds \cup Rebuilds : \A sp \in b.specs : \A v \in Variants(sp, b.augment) :
    MayReturn(v, b.limit, Search(v, b.limit))

\* Every example of a call; what names the variant only labels one.
Made(b) ==
  UNION {UNION {{Example(Lineage(sp), v, rules) : rules \in Search(v, b.limit)} : v \in Variants(sp, b.augment)} : sp \in b.specs}

\* Mutant: the key of an example is the text of its sequence alone.
ExamplesByText(b) ==
  {CHOOSE e \in Made(b) : e.rules = rules : rules \in {e.rules : e \in Made(b)}}

\* build_sequence_examples: the key is the whole example.
Examples(b) == Made(b)

\* verify_replay: the rules can be replayed, and what is asked of the state they
\* end in.
CanReplay(sp, rules) ==
  \A i \in DOMAIN rules :
    LET s == Replay(sp, SubSeq(rules, 1, i - 1)) IN ~Complete(s) /\ rules[i] \in Applicable(sp, s)
IsReplay(sp, rules) ==
  CanReplay(sp, rules) /\ Complete(Replay(sp, rules)) /\ ~HasError(FinalErrors(sp, Replay(sp, rules)))

\* _validate_example, with replay_compact_sequence.
ExampleFailure(e) ==
  FirstFailure(<<
    <<Lineage(e.spec) # e.lineage, "lineage">>,
    <<~IsReplay(e.spec, e.rules), "replay">> >>)

LineagesOf(list) == {e.lineage : e \in list}

\* train_sequence_baseline: the rule before, and the rule, at each step.
Bigrams(rules) == [i \in DOMAIN rules |-> <<IF i = 1 THEN "<start>" ELSE rules[i - 1], rules[i]>>]
Count(list, pair) == SumFunctionOnSet([e \in list |-> Cardinality({i \in DOMAIN e.rules : Bigrams(e.rules)[i] = pair})], list)
Counted(list, pairs) ==
  [counts |-> [p \in pairs |-> Count(list, p)], sequences |-> Cardinality(list), lineages |-> LineagesOf(list)]
PairsOf(list) == UNION {Range(Bigrams(e.rules)) : e \in list}

Trained(list) == Counted(list, PairsOf(list))

\* parse_sequence_checkpoint
CheckpointFailure(c) ==
  FirstFailure(<<
    <<c.sequences \notin 1..MaxExamples, "sequence_count">>,
    <<c.lineages = {}, "lineages">>,
    <<Cardinality(DOMAIN c.counts) \notin 1..100, "transitions">>,
    <<\E p \in DOMAIN c.counts : p[1] \notin Rules \cup {"<start>"} \/ p[2] \notin Rules, "unknown">>,
    <<\E p \in DOMAIN c.counts : c.counts[p] \notin 1..MaxExamples, "count">>,
    <<SumFunctionOnSet(c.counts, {p \in DOMAIN c.counts : p[1] = "<start>"}) # c.sequences, "start counts">> >>)

\* _weighted_rule gives every rule a weight.
Weight(c, from, r) == 1 + (IF <<from, r>> \in DOMAIN c.counts THEN c.counts[<<from, r>>] ELSE 0)
-----------------------------------------------------------------------------
NoSpec == CHOOSE sp \in Specs : TRUE   \* before the first draw or replay
NoScores == [valid |-> 0, exact |-> 0]
BaselineInit ==
  /\ phase = "start" /\ examples = {} /\ training = {} /\ heldout = {}
  /\ checkpoint = [counts |-> [p \in {} |-> 0], sequences |-> 0, lineages |-> {}]
  /\ asked = 0
  /\ spec = NoSpec /\ state = Start(NoSpec) /\ previous = "<start>"
  /\ left = {} /\ outcome = "none" /\ scores = NoScores

\* replay_rule_ids on its own: any specification, any sequence of rules.
StartReplay ==
  /\ phase = "start"
  /\ \E sp \in Specs : Begin(sp)
  /\ phase' = "replaying"
  /\ UNCHANGED <<corpus, previous, left, outcome, scores>>
ReplayRule ==
  phase = "replaying" /\ Next /\ UNCHANGED <<phase, corpus, previous, left, outcome, scores>>

Build ==
  /\ phase = "start"
  /\ \E b \in Builds : examples' = Examples(b) /\ asked' = b.limit
  /\ Cardinality(examples') \in 1..MaxExamples
  /\ phase' = "built"
  /\ UNCHANGED <<training, heldout, checkpoint, drawing, left, outcome, scores>>

\* An example read from elsewhere carries the lineage of another.
Falsify ==
  /\ phase = "built"
  /\ \E e, f \in examples : e.lineage # f.lineage /\ examples' = (examples \ {e}) \cup {[e EXCEPT !.lineage = f.lineage]}
  /\ phase' = "falsified"
  /\ UNCHANGED <<training, heldout, checkpoint, asked, drawing, left, outcome, scores>>

\* split_sequence_examples; a digest orders the lineages, the fraction counts them.
Split ==
  /\ phase \in {"built", "falsified"} /\ \A e \in examples : ExampleFailure(e) = Passed
  /\ \E out \in SUBSET LineagesOf(examples) \ {{}, LineagesOf(examples)} :
       /\ heldout' = {e \in examples : e.lineage \in out}
       /\ training' = {e \in examples : e.lineage \notin out}
  /\ phase' = "split"
  /\ UNCHANGED <<examples, checkpoint, asked, drawing, left, outcome, scores>>

\* A caller who separates the polarities instead.
SplitByPolarity ==
  /\ phase \in {"built", "falsified"}
  /\ training' = {e \in examples : e.spec.polarity = "nmos_input"} /\ heldout' = examples \ training'
  /\ phase' = "split"
  /\ UNCHANGED <<examples, checkpoint, asked, drawing, left, outcome, scores>>

Train ==
  /\ phase = "split" /\ training # {}
  /\ \A e \in training \cup heldout : ExampleFailure(e) = Passed
  /\ LineagesOf(training) \cap LineagesOf(heldout) = {}
  /\ checkpoint' = Trained(training)
  /\ phase' = "trained"
  /\ UNCHANGED <<examples, training, heldout, asked, drawing, left, outcome, scores>>

\* baseline-evaluate builds other held-out examples, with its own limit; they may
\* be relatives of what was trained on, or be misread as FalsifyHeldout does.
Rebuild ==
  /\ phase = "trained"
  /\ \E b \in Rebuilds : heldout' = Examples(b) /\ asked' = b.limit
  /\ Cardinality(heldout') \in 1..MaxExamples
  /\ phase' = "rebuilt"
  /\ UNCHANGED <<examples, training, checkpoint, drawing, left, outcome, scores>>
FalsifyHeldout ==
  /\ phase = "rebuilt"
  /\ \E e, f \in heldout : e.lineage # f.lineage /\ heldout' = (heldout \ {e}) \cup {[e EXCEPT !.lineage = f.lineage]}
  /\ phase' = "misread"
  /\ UNCHANGED <<examples, training, checkpoint, asked, drawing, left, outcome, scores>>

\* evaluate_sequence_baseline draws for every held-out specification;
\* sample_sequence_baseline for any one, known or not.
Evaluate ==
  /\ phase \in {"trained", "rebuilt", "misread"} /\ CheckpointFailure(checkpoint) = Passed
  /\ heldout # {} /\ \A e \in heldout : ExampleFailure(e) = Passed
  /\ checkpoint.lineages \cap LineagesOf(heldout) = {}
  /\ left' = {e.spec : e \in heldout} /\ phase' = "drawing" /\ outcome' = "none"
  /\ UNCHANGED <<corpus, drawing, scores>>
Sample ==
  /\ phase = "trained" /\ CheckpointFailure(checkpoint) = Passed
  /\ \E sp \in Sampled : left' = {sp}
  /\ phase' = "drawing" /\ outcome' = "none"
  /\ UNCHANGED <<corpus, drawing, scores>>

StartDraw ==
  /\ phase = "drawing" /\ outcome # "open"
  /\ \E sp \in left :
       /\ Begin(sp) /\ previous' = "<start>" /\ left' = left \ {sp}
  /\ outcome' = "open"
  /\ UNCHANGED <<phase, corpus, scores>>

\* Mutant: the draw stops one rule before the limit.
DepthReachedEarly(sp, s) == Depth(s) >= MaxDepth(sp) - 1

DepthReached(sp, s) == Depth(s) >= MaxDepth(sp)

RejectDraw ==
  /\ outcome = "open" /\ ~Complete(state)
  /\ outcome' = FirstFailure(<<
       <<DepthReached(spec, state), "depth_limit">>,
       <<HasError(PartialErrors(spec, state)), "partial_constraint">>,
       <<Applicable(spec, state) = {}, "no_applicable_rule">> >>)
  /\ outcome' # Passed
  /\ UNCHANGED <<phase, corpus, drawing, left, scores>>

DrawRule(r) ==
  /\ outcome = "open"
  /\ ~DepthReached(spec, state) /\ ~HasError(PartialErrors(spec, state))
  /\ Weight(checkpoint, previous, r) > 0
  /\ Derive(r) /\ previous' = r
  /\ UNCHANGED <<phase, corpus, left, outcome, scores>>

\* candidate_from_state, then encode_rule_sequence replays the trace.
IsValidDraw(sp, s) == ~HasError(FinalErrors(sp, s)) /\ IsReplay(sp, s.trace) /\ Replay(sp, s.trace) = s

\* The counts of an evaluation after one more valid draw.
Scored ==
  [valid |-> scores.valid + 1,
   exact |-> scores.exact + Once(\E e \in heldout : e.spec = spec /\ e.rules = state.trace)]

EndDraw ==
  /\ outcome = "open" /\ Complete(state)
  /\ outcome' = IF IsValidDraw(spec, state) THEN "valid" ELSE "final_constraint"
  /\ scores' = IF IsValidDraw(spec, state) THEN Scored ELSE scores
  /\ UNCHANGED <<phase, corpus, drawing, left>>

BaselineNext ==
  \/ StartReplay \/ ReplayRule
  \/ Build \/ Falsify \/ Split \/ SplitByPolarity \/ Train
  \/ Rebuild \/ FalsifyHeldout \/ Evaluate \/ Sample
  \/ StartDraw \/ RejectDraw \/ (\E r \in Rules : DrawRule(r)) \/ EndDraw
BaselineSpec == BaselineInit /\ [][BaselineNext]_baselineVars
-----------------------------------------------------------------------------
Rejections == {"depth_limit", "partial_constraint", "no_applicable_rule", "final_constraint"}

\* The sampler gives up exactly where the search prunes: from a state a draw is
\* rejected in, no continuation at all is a candidate of the search; and a valid
\* draw is such a candidate.
DrawsMatchSearch ==
  /\ outcome \in Rejections => \A s \in Descendants(spec, state) : ~Acceptable(spec, s)
  /\ outcome = "valid" => state \in Candidates(spec)

\* If a valid draw is missing among the examples of a held-out specification, a
\* limit explains it: that of the call that built them, or the specification's on
\* candidates or states.  Neither the corpus nor the split loses part of the
\* sequences of one specification, with its dual, its relatives or others beside it.
HeldoutOf(sp) == {e \in heldout : e.spec = sp}
MissedOnlyByLimit ==
  outcome = "valid" /\ HeldoutOf(spec) # {} =>
    \/ \E e \in HeldoutOf(spec) : e.rules = state.trace
    \/ Cardinality(HeldoutOf(spec)) = Granted(spec, asked)
    \/ IsCut(spec)

\* No specification trained on is a held-out one with another name or the other
\* polarity, also when a caller splits by hand, an example lies about its lineage
\* or an evaluation builds held-out examples of its own.
NoFamilyCrosses ==
  phase \in {"trained", "drawing"} =>
    \A e \in training, h \in heldout :
      \E f \in DOMAIN e.spec \ {"name", "polarity"} : e.spec[f] # h.spec[f]
=============================================================================
