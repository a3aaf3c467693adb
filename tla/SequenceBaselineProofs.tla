----------------------- MODULE SequenceBaselineProofs -----------------------
(***************************************************************************)
(* Theorems about replays, corpora and draws, for every set of             *)
(* specifications.  What the rules preserve comes from CatalogueProofs;    *)
(* the rest is that no action loses it.                                    *)
(***************************************************************************)
EXTENDS SequenceBaseline, CatalogueProofs

Known(sp) == Described(sp) /\ DOMAIN sp = Fields /\ MaxDepth(sp) \in Nat \ {0}

\* The derivation under way is one of its specification, and the examples are
\* of specifications that went through validate.
BaselineInv ==
  /\ Known(spec) /\ Derived(spec, state)
  /\ \A e \in examples \cup training \cup heldout : Known(e.spec)
  /\ \A sp \in left : Known(sp)

\* What Train checked stays true of what was trained on, and the checkpoint names
\* its lineages; held-out examples are checked again before they are drawn for.
SplitInv ==
  /\ phase \in {"trained", "rebuilt", "misread", "drawing"} =>
       /\ \A e \in training : Lineage(e.spec) = e.lineage
       /\ checkpoint.lineages = LineagesOf(training)
  /\ phase \in {"trained", "drawing"} =>
       /\ \A e \in heldout : Lineage(e.spec) = e.lineage
       /\ LineagesOf(training) \cap LineagesOf(heldout) = {}

LEMMA VariantsKnown ==
  ASSUME NEW sp, Known(sp), NEW augment \in BOOLEAN PROVE \A v \in Variants(sp, augment) : Known(v)
<1>1. SUFFICES ASSUME {"nmos", "pmos"} \subseteq sp.allowed_devices,
                      NEW v, v = [sp EXCEPT !.polarity = IF @ = "nmos_input" THEN "pmos_input" ELSE "nmos_input"]
               PROVE  Known(v)
  BY DEF Variants
<1>2. /\ DOMAIN v = Fields /\ v.input_mode = sp.input_mode /\ v.output_mode = sp.output_mode
      /\ v.limits = sp.limits /\ v.allowed_devices = sp.allowed_devices
  BY <1>1 DEF Known, Fields
<1>3. InputKind(v) \in v.allowed_devices
  BY <1>1, <1>2 DEF InputKind
<1>4. QED
  BY <1>2, <1>3 DEF Known, Described, Valid, MaxDepth

LEMMA ExamplesKnown ==
  ASSUME NEW b \in Builds \cup Rebuilds
  PROVE  \A e \in Examples(b) : Known(e.spec)
<1>1. SUFFICES ASSUME NEW e \in Examples(b) PROVE Known(e.spec)
  OBVIOUS
<1>2. PICK sp \in b.specs : \E v \in Variants(sp, b.augment) : \E rules \in Search(v, b.limit) :
                              e = Example(Lineage(sp), v, rules)
  BY <1>1 DEF Examples, Made
<1>3. PICK v \in Variants(sp, b.augment) : \E rules \in Search(v, b.limit) : e = Example(Lineage(sp), v, rules)
  BY <1>2
<1>4. Known(sp) /\ b.augment \in BOOLEAN
  BY SpecsAssumption DEF Known
<1>5. e.spec = v
  BY <1>3 DEF Example
<1>6. QED
  BY <1>4, <1>5, VariantsKnown

LEMMA BaselineStart == BaselineInit => BaselineInv
<1>1. NoSpec \in Specs
  BY SpecsAssumption DEF NoSpec
<1>2. Known(NoSpec)
  BY <1>1, SpecsAssumption DEF Known
<1>3. QED
  BY <1>2, DerivedStart DEF BaselineInit, BaselineInv

\* A rule a replay or a draw applies is one the lemmas about rules speak of.
LEMMA DeriveStep ==
  ASSUME BaselineInv, NEW r \in Rules, Derive(r)
  PROVE  /\ spec' = spec /\ Derived(spec, state') /\ Sound(state.topology) /\ Sound(state'.topology)
         /\ Keeps(state.topology, state'.topology)
<1>1. /\ Described(spec) /\ Derived(spec, state) /\ MayApply(spec, state, r)
      /\ spec' = spec /\ state' = Child(spec, state, r)
  BY DEF BaselineInv, Known, Derive, MayApply, Applicable
<1>2. Derived(spec, state') /\ Keeps(state.topology, state'.topology)
  BY <1>1, DerivedStep
<1>3. QED
  BY <1>1, <1>2, DerivedNets

LEMMA BaselineKept == BaselineInv /\ [BaselineNext]_baselineVars => BaselineInv'
<1> SUFFICES ASSUME BaselineInv, [BaselineNext]_baselineVars PROVE BaselineInv'
  OBVIOUS
<1> USE DEF BaselineInv
<1>1. ASSUME NEW sp, Known(sp), Begin(sp)
      PROVE  Known(spec') /\ Derived(spec', state')
  BY <1>1, DerivedStart DEF Begin
<1>2. ASSUME NEW r \in Rules, Derive(r)
      PROVE  Known(spec') /\ Derived(spec', state')
  BY <1>2, DeriveStep
<1>3. CASE StartReplay
  <2>1. PICK sp \in Specs : Begin(sp)
    BY <1>3 DEF StartReplay
  <2>2. Known(sp)
    BY SpecsAssumption DEF Known
  <2>3. QED
    BY <1>1, <1>3, <2>1, <2>2 DEF StartReplay, corpus
<1>4. CASE ReplayRule
  BY <1>2, <1>4 DEF ReplayRule, Next, corpus
<1>5. CASE Build
  BY <1>5, ExamplesKnown DEF Build, drawing
<1>6. CASE Falsify
  <2>1. PICK e, f \in examples : examples' = (examples \ {e}) \cup {[e EXCEPT !.lineage = f.lineage]}
    BY <1>6 DEF Falsify
  <2>2. [e EXCEPT !.lineage = f.lineage].spec = e.spec
    OBVIOUS
  <2>3. QED
    BY <1>6, <2>1, <2>2 DEF Falsify, drawing
<1>7. CASE Split
  BY <1>7 DEF Split, drawing
<1>8. CASE SplitByPolarity
  BY <1>8 DEF SplitByPolarity, drawing
<1>9. CASE Train
  BY <1>9 DEF Train, drawing
<1>10. CASE Evaluate
  BY <1>10 DEF Evaluate, corpus, drawing
<1>18. CASE Rebuild
  BY <1>18, ExamplesKnown DEF Rebuild, drawing
<1>19. CASE FalsifyHeldout
  <2>1. PICK e, f \in heldout : heldout' = (heldout \ {e}) \cup {[e EXCEPT !.lineage = f.lineage]}
    BY <1>19 DEF FalsifyHeldout
  <2>2. [e EXCEPT !.lineage = f.lineage].spec = e.spec
    OBVIOUS
  <2>3. QED
    BY <1>19, <2>1, <2>2 DEF FalsifyHeldout, drawing
<1>11. CASE Sample
  BY <1>11, SpecsAssumption DEF Sample, corpus, drawing, Known
<1>12. CASE StartDraw
  BY <1>1, <1>12 DEF StartDraw, corpus
<1>13. CASE RejectDraw
  BY <1>13 DEF RejectDraw, corpus, drawing
<1>14. ASSUME NEW r \in Rules, DrawRule(r) PROVE BaselineInv'
  BY <1>2, <1>14 DEF DrawRule, corpus
<1>15. CASE EndDraw
  BY <1>15 DEF EndDraw, corpus, drawing
<1>16. CASE UNCHANGED baselineVars
  BY <1>16 DEF baselineVars, corpus, drawing
<1>17. QED
  BY <1>3, <1>4, <1>5, <1>6, <1>7, <1>8, <1>9, <1>10, <1>11, <1>12, <1>13, <1>14, <1>15, <1>16, <1>18, <1>19
     DEF BaselineNext

LEMMA BaselineAlways == BaselineSpec => []BaselineInv
BY BaselineStart, BaselineKept, PTL DEF BaselineSpec

\* Whatever rules are chosen, the builder accepts every call, the facts that name
\* nets name nets of the graph, and the drains are apart exactly for a pair.
THEOREM FactsAlwaysNameNets == BaselineSpec => []FactsNameNets
<1>1. BaselineInv => FactsNameNets
  BY DerivedNets DEF BaselineInv, FactsNameNets, Wires
<1>2. QED
  BY <1>1, BaselineAlways, PTL

\* No rule removes an error the partial check can find: a state the search
\* prunes, or a draw rejects, has no valid continuation.
THEOREM PruningIsAlwaysSafe == BaselineSpec => PruningIsSafe
<1>1. BaselineInv /\ [BaselineNext]_baselineVars =>
        [(\E r \in Rules : Derive(r)) =>
           \A c \in PartialCodes :
             PartialErrors(spec, state)[c] > 0 => PartialErrors(spec, state')[c] > 0]_vars
  <2>1. SUFFICES ASSUME BaselineInv, NEW r \in Rules, Derive(r), NEW c \in PartialCodes,
                        PartialErrors(spec, state)[c] > 0
                 PROVE  PartialErrors(spec, state')[c] > 0
    OBVIOUS
  <2>2. spec.limits.max_devices \in Nat
    BY <2>1 DEF BaselineInv, Known, Described
  <2>3. QED
    BY <2>1, <2>2, DeriveStep, ErrorsStay
<1>2. QED
  BY <1>1, BaselineAlways, PTL DEF BaselineSpec, PruningIsSafe

LEMMA PassedExample ==
  ASSUME NEW e, ExampleFailure(e) = Passed PROVE Lineage(e.spec) = e.lineage
<1> DEFINE a1 == Lineage(e.spec) # e.lineage
           a2 == ~IsReplay(e.spec, e.rules)
<1>1. FirstFailure(<< <<a1, "lineage">>, <<a2, "replay">> >>) = Passed
  BY Zenon DEF ExampleFailure
<1> HIDE DEF a1, a2
<1>2. "lineage" # Passed /\ "replay" # Passed
  BY DEF Passed
<1>3. ~a1
  BY <1>1, <1>2, TwoChecks
<1>4. QED
  BY <1>3 DEF a1

LEMMA SplitKept == SplitInv /\ [BaselineNext]_baselineVars => SplitInv'
<1> SUFFICES ASSUME SplitInv, [BaselineNext]_baselineVars PROVE SplitInv'
  OBVIOUS
<1>1. CASE Train
  <2>1. checkpoint'.lineages = LineagesOf(training')
    BY <1>1 DEF Train, Trained, Counted
  <2>2. QED
    BY <1>1, <2>1, PassedExample DEF Train, SplitInv, LineagesOf
<1>2. CASE StartReplay \/ ReplayRule \/ Build \/ Falsify \/ Split \/ SplitByPolarity
  BY <1>2 DEF SplitInv, StartReplay, ReplayRule, Build, Falsify, Split, SplitByPolarity
<1>3. CASE Rebuild \/ FalsifyHeldout
  BY <1>3 DEF SplitInv, Rebuild, FalsifyHeldout, LineagesOf
<1>4. CASE Evaluate
  BY <1>4, PassedExample DEF SplitInv, Evaluate, corpus, LineagesOf
<1>5. CASE Sample
  BY <1>5 DEF SplitInv, Sample, corpus, LineagesOf
<1>6. CASE StartDraw \/ RejectDraw \/ (\E r \in Rules : DrawRule(r)) \/ EndDraw
  BY <1>6 DEF SplitInv, StartDraw, RejectDraw, DrawRule, EndDraw, corpus, LineagesOf
<1>7. CASE UNCHANGED baselineVars
  BY <1>7 DEF SplitInv, baselineVars, corpus, LineagesOf
<1>8. QED
  BY <1>1, <1>2, <1>3, <1>4, <1>5, <1>6, <1>7 DEF BaselineNext

\* Two specifications of different lineages differ in more than name and polarity.
LEMMA OtherLineage ==
  ASSUME NEW sp, Known(sp), NEW other, Known(other), Lineage(sp) # Lineage(other)
  PROVE  \E f \in DOMAIN sp \ {"name", "polarity"} : sp[f] # other[f]
<1>1. SUFFICES ASSUME \A f \in Fields \ {"name", "polarity"} : sp[f] = other[f]
               PROVE  Lineage(sp) = Lineage(other)
  BY DEF Known
<1>2. DOMAIN sp = Fields /\ DOMAIN other = Fields
  BY DEF Known
<1>3. QED
  BY <1>1, <1>2 DEF Lineage

\* No specification trained on is a held-out one with another name or polarity.
THEOREM NoFamilyEverCrosses == BaselineSpec => []NoFamilyCrosses
<1>1. BaselineInit => SplitInv
  BY DEF BaselineInit, SplitInv
<1>2. BaselineInv /\ SplitInv => NoFamilyCrosses
  <2>1. SUFFICES ASSUME BaselineInv, SplitInv, phase \in {"trained", "drawing"},
                        NEW e \in training, NEW h \in heldout
                 PROVE  \E f \in DOMAIN e.spec \ {"name", "polarity"} : e.spec[f] # h.spec[f]
    BY DEF NoFamilyCrosses
  <2>2. e.lineage \in LineagesOf(training) /\ h.lineage \in LineagesOf(heldout)
    BY DEF LineagesOf
  <2>3. Lineage(e.spec) # Lineage(h.spec)
    BY <2>1, <2>2 DEF SplitInv
  <2>4. QED
    BY <2>1, <2>3, OtherLineage DEF BaselineInv
<1>3. QED
  BY <1>1, <1>2, SplitKept, BaselineAlways, PTL DEF BaselineSpec

(***************************************************************************)
(* A sequence of rules, replayed.                                          *)
(***************************************************************************)
\* The states after each rule.
IsRun(sp, rules, n, after) ==
  after = [m \in 0..n |-> IF m = 0 THEN Start(sp) ELSE Child(sp, after[m - 1], rules[m])]

LEMMA RunExists ==
  ASSUME NEW sp, NEW rules PROVE \A n \in Nat : \E after : IsRun(sp, rules, n, after)
<1> DEFINE T == {n \in Nat : \E after : IsRun(sp, rules, n, after)}
<1>1. 0 \in T
  <2> DEFINE after == [m \in 0..0 |-> Start(sp)]
  <2>1. IsRun(sp, rules, 0, after)
    BY DEF IsRun
  <2>2. QED
    BY <2>1
<1>2. ASSUME NEW n \in Nat, n \in T PROVE n + 1 \in T
  <2>1. PICK after : IsRun(sp, rules, n, after)
    BY <1>2
  <2> DEFINE longer == [m \in 0..(n + 1) |-> IF m = n + 1 THEN Child(sp, after[n], rules[n + 1]) ELSE after[m]]
  <2>2. /\ DOMAIN after = 0..n
        /\ \A m \in 0..n : after[m] = IF m = 0 THEN Start(sp) ELSE Child(sp, after[m - 1], rules[m])
    BY <2>1 DEF IsRun
  <2>3. /\ \A m \in 0..n : longer[m] = after[m]
        /\ longer[n + 1] = Child(sp, after[n], rules[n + 1]) /\ DOMAIN longer = 0..(n + 1)
    OBVIOUS
  <2>4. ASSUME NEW m \in 0..(n + 1)
        PROVE  longer[m] = IF m = 0 THEN Start(sp) ELSE Child(sp, longer[m - 1], rules[m])
    <3> HIDE DEF longer
    <3>1. CASE m \in 0..n
      <4>1. m = 0 \/ m - 1 \in 0..n
        BY <3>1
      <4>2. QED
        BY <2>2, <2>3, <3>1, <4>1
    <3>2. CASE m = n + 1
      <4>1. m # 0 /\ m - 1 = n /\ n \in 0..n
        BY <3>2
      <4>2. QED
        BY <2>3, <3>2, <4>1
    <3>3. QED
      BY <3>1, <3>2
  <2>5. longer = [m \in 0..(n + 1) |-> IF m = 0 THEN Start(sp) ELSE Child(sp, longer[m - 1], rules[m])]
    <3> DEFINE other == [m \in 0..(n + 1) |-> IF m = 0 THEN Start(sp) ELSE Child(sp, longer[m - 1], rules[m])]
    <3>1. longer = [m \in 0..(n + 1) |-> longer[m]] /\ other = [m \in 0..(n + 1) |-> other[m]]
      OBVIOUS
    <3>2. \A m \in 0..(n + 1) : longer[m] = other[m]
      <4> HIDE DEF longer
      <4>1. QED
        BY <2>4
    <3> HIDE DEF longer, other
    <3>3. longer = other
      BY <3>1, <3>2
    <3>4. QED
      BY <3>3 DEF other
  <2> HIDE DEF longer
  <2>6. IsRun(sp, rules, n + 1, longer)
    BY <2>5 DEF IsRun
  <2>7. QED
    BY <2>6
<1> HIDE DEF T
<1>3. \A n \in Nat : n \in T
  BY <1>1, <1>2, NaturalInduction
<1>4. QED
  BY <1>3 DEF T

\* Two runs agree as far as their rules do.
LEMMA RunsAgree ==
  ASSUME NEW sp, NEW rules, NEW others, NEW n \in Nat, NEW after, IsRun(sp, rules, n, after),
         NEW m \in Nat, NEW along, IsRun(sp, others, m, along),
         NEW k \in Nat, k <= n, k <= m, \A i \in 1..k : rules[i] = others[i]
  PROVE  after[k] = along[k]
<1> DEFINE T == {i \in Nat : i <= k => after[i] = along[i]}
<1>1. /\ \A i \in 0..n : after[i] = IF i = 0 THEN Start(sp) ELSE Child(sp, after[i - 1], rules[i])
      /\ \A i \in 0..m : along[i] = IF i = 0 THEN Start(sp) ELSE Child(sp, along[i - 1], others[i])
  BY DEF IsRun
<1>2. 0 \in T
  BY <1>1
<1>3. ASSUME NEW i \in Nat, i \in T PROVE i + 1 \in T
  <2>1. SUFFICES ASSUME i + 1 <= k PROVE after[i + 1] = along[i + 1]
    OBVIOUS
  <2>2. i + 1 \in 0..n /\ i + 1 \in 0..m /\ i + 1 # 0 /\ (i + 1) - 1 = i /\ i + 1 \in 1..k /\ after[i] = along[i]
    BY <1>3, <2>1
  <2>3. QED
    BY <1>1, <2>2
<1> HIDE DEF T
<1>4. \A i \in Nat : i \in T
  BY <1>2, <1>3, NaturalInduction
<1>5. QED
  BY <1>4 DEF T

RunOf(sp, list) == CHOOSE after : IsRun(sp, list, Len(list), after)

LEMMA ReplayFacts ==
  ASSUME NEW sp, NEW rules \in Seq(Rules)
  PROVE  /\ Len(rules) = 0 => Replay(sp, rules) = Start(sp)
         /\ \A r \in Rules : Replay(sp, Append(rules, r)) = Child(sp, Replay(sp, rules), r)
<1>1. ASSUME NEW list \in Seq(Rules)
      PROVE  IsRun(sp, list, Len(list), RunOf(sp, list)) /\ Replay(sp, list) = RunOf(sp, list)[Len(list)]
  <2>1. Len(list) \in Nat
    BY <1>1, LenProperties
  <2>2. IsRun(sp, list, Len(list), RunOf(sp, list))
    BY <2>1, RunExists, Zenon DEF RunOf
  <2>3. Replay(sp, list) = RunOf(sp, list)[Len(list)]
    BY Zenon DEF Replay, RunOf, IsRun
  <2>4. QED
    BY <2>2, <2>3
<1>2. Len(rules) = 0 => Replay(sp, rules) = Start(sp)
  <2>1. SUFFICES ASSUME Len(rules) = 0 PROVE Replay(sp, rules) = Start(sp)
    OBVIOUS
  <2>2. IsRun(sp, rules, 0, RunOf(sp, rules)) /\ Replay(sp, rules) = RunOf(sp, rules)[0]
    BY <1>1, <2>1
  <2>3. QED
    BY <2>2 DEF IsRun
<1>3. ASSUME NEW r \in Rules PROVE Replay(sp, Append(rules, r)) = Child(sp, Replay(sp, rules), r)
  <2> DEFINE longer == Append(rules, r)
             n == Len(rules)
  <2>1. /\ longer \in Seq(Rules) /\ Len(longer) = n + 1 /\ n \in Nat /\ longer[n + 1] = r
        /\ \A i \in 1..n : longer[i] = rules[i]
    BY AppendProperties, LenProperties
  <2> HIDE DEF longer, n
  <2>2. /\ IsRun(sp, longer, n + 1, RunOf(sp, longer)) /\ Replay(sp, longer) = RunOf(sp, longer)[n + 1]
        /\ IsRun(sp, rules, n, RunOf(sp, rules)) /\ Replay(sp, rules) = RunOf(sp, rules)[n]
    BY <1>1, <2>1 DEF n
  <2>3. RunOf(sp, rules)[n] = RunOf(sp, longer)[n]
    <3>1. n \in Nat /\ n + 1 \in Nat /\ n <= n /\ n <= n + 1 /\ \A i \in 1..n : rules[i] = longer[i]
      BY <2>1
    <3>2. IsRun(sp, longer, n + 1, RunOf(sp, longer)) /\ IsRun(sp, rules, n, RunOf(sp, rules))
      BY <2>2
    <3> DEFINE after == RunOf(sp, rules)
               along == RunOf(sp, longer)
    <3> HIDE DEF after, along
    <3>3. IsRun(sp, longer, n + 1, along) /\ IsRun(sp, rules, n, after)
      BY <3>2 DEF after, along
    <3>4. after[n] = along[n]
      BY <3>1, <3>3, RunsAgree
    <3>5. QED
      BY <3>4 DEF after, along
  <2>4. RunOf(sp, longer)[n + 1] = Child(sp, RunOf(sp, longer)[n], longer[n + 1])
    <3>1. n + 1 \in 0..(n + 1) /\ n + 1 # 0 /\ (n + 1) - 1 = n
      BY <2>1
    <3>2. QED
      BY <2>2, <3>1 DEF IsRun
  <2>5. QED
    BY <2>1, <2>2, <2>3, <2>4 DEF longer
<1>4. QED
  BY <1>2, <1>3

\* A state is what replaying its trace ends in, and the replay is accepted.
Replayed(sp, s) == s.trace \in Seq(Rules) /\ Replay(sp, s.trace) = s /\ CanReplay(sp, s.trace)

LEMMA ReplayedStart ==
  ASSUME NEW sp PROVE Replayed(sp, Start(sp))
<1>1. Start(sp).trace = <<>> /\ <<>> \in Seq(Rules) /\ Len(<<>>) = 0 /\ DOMAIN <<>> = {}
  BY StartFacts
<1>2. QED
  BY <1>1, ReplayFacts DEF Replayed, CanReplay

LEMMA ReplayedStep ==
  ASSUME NEW sp, NEW s, Replayed(sp, s), Derived(sp, s), NEW r \in Applicable(sp, s), ~Complete(s)
  PROVE  Replayed(sp, Child(sp, s, r))
<1> DEFINE c == Child(sp, s, r)
           n == Len(s.trace)
<1>1. r \in Rules /\ MayApply(sp, s, r) /\ s.trace \in Seq(Rules) /\ n \in Nat
  BY LenProperties DEF Applicable, MayApply, Replayed
<1>2. c.trace = Append(s.trace, r)
  BY <1>1, ChildNotes DEF Notes, MayApply, Derived, Ordered
<1>3. /\ c.trace \in Seq(Rules) /\ Len(c.trace) = n + 1 /\ c.trace[n + 1] = r
      /\ \A i \in 1..n : c.trace[i] = s.trace[i]
  BY <1>1, <1>2, AppendProperties
<1>4. Replay(sp, c.trace) = c
  BY <1>1, <1>2, ReplayFacts DEF Replayed
<1>5. ASSUME NEW i \in 1..(n + 1)
      PROVE  SubSeq(c.trace, 1, i - 1) = SubSeq(s.trace, 1, i - 1)
  <2>1. i - 1 \in 0..n
    BY <1>1, <1>5
  <2> HIDE DEF c, n
  <2> DEFINE k == i - 1
  <2>2. k \in 0..n
    BY <2>1
  <2> HIDE DEF k
  <2>3. /\ SubSeq(c.trace, 1, k) = [j \in 1..k |-> c.trace[j]] /\ SubSeq(s.trace, 1, k) = [j \in 1..k |-> s.trace[j]]
    <3>1. \A j \in 1..k : 1 + j - 1 = j
      BY <1>1, <2>2
    <3>2. /\ SubSeq(c.trace, 1, k) \in Seq(Rules) /\ Len(SubSeq(c.trace, 1, k)) = k
          /\ \A j \in 1..k : SubSeq(c.trace, 1, k)[j] = c.trace[j]
      BY <1>1, <1>3, <2>2, SubSeqProperties DEF n
    <3>3. /\ SubSeq(s.trace, 1, k) \in Seq(Rules) /\ Len(SubSeq(s.trace, 1, k)) = k
          /\ \A j \in 1..k : SubSeq(s.trace, 1, k)[j] = s.trace[j]
      BY <1>1, <2>2, SubSeqProperties DEF n
    <3>4. QED
      BY <3>2, <3>3
  <2>4. \A j \in 1..k : c.trace[j] = s.trace[j]
    <3>1. \A j \in 1..k : j \in 1..n
      BY <1>1, <2>2
    <3>2. QED
      BY <1>3, <3>1
  <2>5. QED
    BY <2>3, <2>4 DEF k
<1>6. SubSeq(s.trace, 1, n) = s.trace
  <2> HIDE DEF n
  <2>1. n = Len(s.trace)
    BY DEF n
  <2>2. QED
    BY <1>1, <2>1, SubSeqProperties, SeqEqual
<1>7. CanReplay(sp, c.trace)
  <2> HIDE DEF c
  <2>1. SUFFICES ASSUME NEW i \in 1..(n + 1)
                 PROVE  LET u == Replay(sp, SubSeq(c.trace, 1, i - 1))
                        IN ~Complete(u) /\ c.trace[i] \in Applicable(sp, u)
    BY <1>3, LenProperties DEF CanReplay
  <2>2. CASE i = n + 1
    <3>1. i - 1 = n
      BY <1>1, <2>2
    <3>2. Replay(sp, SubSeq(c.trace, 1, i - 1)) = s
      BY <1>5, <1>6, <3>1 DEF Replayed
    <3>3. QED
      BY <1>3, <2>2, <3>2
  <2>3. CASE i \in 1..n
    <3>1. i \in DOMAIN s.trace /\ c.trace[i] = s.trace[i]
      BY <1>1, <1>3, <2>3, LenProperties
    <3>2. QED
      BY <1>5, <3>1 DEF Replayed, CanReplay
  <2>4. QED
    BY <1>1, <2>2, <2>3
<1>8. QED
  BY <1>3, <1>4, <1>7 DEF Replayed

(***************************************************************************)
(* What can still be derived from a state.                                 *)
(***************************************************************************)
Further(sp, states) ==
  UNION {{Child(sp, t, r) : r \in Applicable(sp, t)} : t \in {u \in states : ~Complete(u)}}

IsDescent(sp, s, n, level) ==
  level = [m \in 0..n |-> IF m = 0 THEN {s} ELSE Further(sp, level[m - 1])]

LEMMA DescentExists ==
  ASSUME NEW sp, NEW s PROVE \A n \in Nat : \E level : IsDescent(sp, s, n, level)
<1> DEFINE T == {n \in Nat : \E level : IsDescent(sp, s, n, level)}
<1>1. 0 \in T
  <2> DEFINE level == [m \in 0..0 |-> {s}]
  <2>1. IsDescent(sp, s, 0, level)
    BY DEF IsDescent
  <2>2. QED
    BY <2>1
<1>2. ASSUME NEW n \in Nat, n \in T PROVE n + 1 \in T
  <2>1. PICK level : IsDescent(sp, s, n, level)
    BY <1>2
  <2> DEFINE longer == [m \in 0..(n + 1) |-> IF m = n + 1 THEN Further(sp, level[n]) ELSE level[m]]
  <2>2. /\ DOMAIN level = 0..n
        /\ \A m \in 0..n : level[m] = IF m = 0 THEN {s} ELSE Further(sp, level[m - 1])
    BY <2>1 DEF IsDescent
  <2>3. /\ \A m \in 0..n : longer[m] = level[m]
        /\ longer[n + 1] = Further(sp, level[n]) /\ DOMAIN longer = 0..(n + 1)
    OBVIOUS
  <2>4. ASSUME NEW m \in 0..(n + 1)
        PROVE  longer[m] = IF m = 0 THEN {s} ELSE Further(sp, longer[m - 1])
    <3> HIDE DEF longer
    <3>1. CASE m \in 0..n
      <4>1. m = 0 \/ m - 1 \in 0..n
        BY <3>1
      <4>2. QED
        BY <2>2, <2>3, <3>1, <4>1
    <3>2. CASE m = n + 1
      <4>1. m # 0 /\ m - 1 = n /\ n \in 0..n
        BY <3>2
      <4>2. QED
        BY <2>3, <3>2, <4>1
    <3>3. QED
      BY <3>1, <3>2
  <2>5. longer = [m \in 0..(n + 1) |-> IF m = 0 THEN {s} ELSE Further(sp, longer[m - 1])]
    <3> DEFINE other == [m \in 0..(n + 1) |-> IF m = 0 THEN {s} ELSE Further(sp, longer[m - 1])]
    <3>1. longer = [m \in 0..(n + 1) |-> longer[m]] /\ other = [m \in 0..(n + 1) |-> other[m]]
      OBVIOUS
    <3>2. \A m \in 0..(n + 1) : longer[m] = other[m]
      <4> HIDE DEF longer
      <4>1. QED
        BY <2>4
    <3> HIDE DEF longer, other
    <3>3. longer = other
      BY <3>1, <3>2
    <3>4. QED
      BY <3>3 DEF other
  <2> HIDE DEF longer
  <2>6. IsDescent(sp, s, n + 1, longer)
    BY <2>5 DEF IsDescent
  <2>7. QED
    BY <2>6
<1> HIDE DEF T
<1>3. \A n \in Nat : n \in T
  BY <1>1, <1>2, NaturalInduction
<1>4. QED
  BY <1>3 DEF T

Descent(sp, s) == CHOOSE level : IsDescent(sp, s, MaxSteps, level)

LEMMA DescentFacts ==
  ASSUME NEW sp, NEW s
  PROVE  /\ Descendants(sp, s) = UNION {Descent(sp, s)[n] : n \in 0..MaxSteps}
         /\ Descent(sp, s)[0] = {s}
         /\ \A n \in 1..MaxSteps : Descent(sp, s)[n] = Further(sp, Descent(sp, s)[n - 1])
<1>1. MaxSteps \in Nat
  BY SpecsAssumption
<1>2. IsDescent(sp, s, MaxSteps, Descent(sp, s))
  BY <1>1, DescentExists DEF Descent
<1>3. Descendants(sp, s) = UNION {Descent(sp, s)[n] : n \in 0..MaxSteps}
  BY Zenon DEF Descendants, Descent, IsDescent, Further
<1> DEFINE level == Descent(sp, s)
<1> HIDE DEF level
<1>4. \A n \in 0..MaxSteps : level[n] = IF n = 0 THEN {s} ELSE Further(sp, level[n - 1])
  BY <1>2 DEF IsDescent, level
<1>5. level[0] = {s} /\ \A n \in 1..MaxSteps : level[n] = Further(sp, level[n - 1])
  BY <1>1, <1>4
<1>6. QED
  BY <1>3, <1>5 DEF level

\* What every rule keeps holds of all that can be derived.
LEMMA DescentInduction ==
  ASSUME NEW sp, NEW s, NEW S, s \in S,
         \A t \in S : ~Complete(t) =>
           \A r \in Applicable(sp, t) : Child(sp, t, r) \in Descendants(sp, s) => Child(sp, t, r) \in S
  PROVE  Descendants(sp, s) \subseteq S
<1> DEFINE T == {n \in Nat : n \in 0..MaxSteps => Descent(sp, s)[n] \subseteq S}
<1>1. 0 \in T
  BY DescentFacts
<1>2. ASSUME NEW n \in Nat, n \in T PROVE n + 1 \in T
  <2>1. SUFFICES ASSUME n + 1 \in 0..MaxSteps PROVE Descent(sp, s)[n + 1] \subseteq S
    OBVIOUS
  <2>2. n \in 0..MaxSteps /\ n + 1 \in 1..MaxSteps /\ (n + 1) - 1 = n /\ Descent(sp, s)[n] \subseteq S
    BY <1>2, <2>1, SpecsAssumption
  <2>3. Descent(sp, s)[n + 1] = Further(sp, Descent(sp, s)[n])
    BY <2>2, DescentFacts
  <2>4. Descent(sp, s)[n + 1] \subseteq Descendants(sp, s)
    BY <2>1, DescentFacts
  <2>5. QED
    BY <2>2, <2>3, <2>4 DEF Further
<1> HIDE DEF T
<1>3. \A n \in Nat : n \in T
  BY <1>1, <1>2, NaturalInduction
<1>4. QED
  BY <1>3, SpecsAssumption, DescentFacts DEF T

LEMMA DescendantsStart ==
  ASSUME NEW sp, NEW s PROVE s \in Descendants(sp, s)
BY DescentFacts, SpecsAssumption

\* A derived state stands in the level of its depth, and is a descendant of the start.
AtItsDepth(sp, s) == Depth(s) \in 0..MaxSteps /\ s \in Descent(sp, Start(sp))[Depth(s)]

LEMMA DepthStart ==
  ASSUME NEW sp PROVE AtItsDepth(sp, Start(sp))
<1>1. Depth(Start(sp)) = 0
  BY StartFacts DEF Depth
<1>2. QED
  BY <1>1, DescentFacts, SpecsAssumption DEF AtItsDepth

LEMMA ChildDepth ==
  ASSUME NEW sp, NEW s, Derived(sp, s), NEW r \in Applicable(sp, s), ~Complete(s)
  PROVE  Depth(s) \in Nat /\ Depth(Child(sp, s, r)) = Depth(s) + 1 /\ Depth(s) + 1 \in 1..MaxSteps
<1> DEFINE c == Child(sp, s, r)
<1>1. MayApply(sp, s, r) /\ Ordered(sp, s)
  BY DEF Applicable, MayApply, Derived
<1>2. c.obligations = Tail(s.obligations) /\ c.trace = Append(s.trace, r)
  BY <1>1, ChildNotes DEF Notes, MayApply
<1> HIDE DEF c
<1>3. Len(s.trace) \in Nat /\ Len(c.trace) = Len(s.trace) + 1 /\ Len(s.trace) + 1 \in 1..Len(Plan(sp))
  BY <1>1, <1>2, OrderedStep
<1>4. PICK k \in 3..5 : k = Len(Plan(sp))
  BY PlanFacts
<1>5. QED
  BY <1>3, <1>4, SpecsAssumption DEF Depth, c

LEMMA DepthStep ==
  ASSUME NEW sp, NEW s, Derived(sp, s), AtItsDepth(sp, s), NEW r \in Applicable(sp, s), ~Complete(s)
  PROVE  AtItsDepth(sp, Child(sp, s, r))
<1> DEFINE c == Child(sp, s, r)
           n == Depth(s)
<1>1. n \in Nat /\ Depth(c) = n + 1 /\ n + 1 \in 1..MaxSteps
  BY ChildDepth
<1>2. s \in Descent(sp, Start(sp))[n] /\ c \in Further(sp, Descent(sp, Start(sp))[n])
  BY DEF AtItsDepth, Further
<1> HIDE DEF c, n
<1>3. (n + 1) - 1 = n /\ n + 1 \in 0..MaxSteps
  BY <1>1
<1>4. Descent(sp, Start(sp))[n + 1] = Further(sp, Descent(sp, Start(sp))[n])
  BY <1>1, <1>3, DescentFacts
<1>5. AtItsDepth(sp, c)
  BY <1>1, <1>2, <1>3, <1>4 DEF AtItsDepth
<1>6. QED
  BY <1>5 DEF c

LEMMA DepthDescends ==
  ASSUME NEW sp, NEW s, AtItsDepth(sp, s) PROVE s \in Descendants(sp, Start(sp))
BY DescentFacts DEF AtItsDepth

(***************************************************************************)
(* A draw that is rejected.                                                *)
(***************************************************************************)
Hopeless(sp, s) == \A t \in Descendants(sp, s) : ~Acceptable(sp, t)

LEMMA DerivedChild ==
  ASSUME NEW sp, Known(sp), NEW s, Derived(sp, s), ~Complete(s), NEW r \in Applicable(sp, s)
  PROVE  /\ Derived(sp, Child(sp, s, r)) /\ Sound(s.topology) /\ Sound(Child(sp, s, r).topology)
         /\ Keeps(s.topology, Child(sp, s, r).topology)
<1>1. Described(sp) /\ MayApply(sp, s, r)
  BY DEF Known, Applicable, MayApply
<1>2. Derived(sp, Child(sp, s, r)) /\ Keeps(s.topology, Child(sp, s, r).topology)
  BY <1>1, DerivedStep
<1>3. QED
  BY <1>2, DerivedNets

LEMMA TooDeep ==
  ASSUME NEW sp, Known(sp), NEW s, Derived(sp, s), ~Complete(s), DepthReached(sp, s)
  PROVE  Hopeless(sp, s)
<1> DEFINE S == {t \in Descendants(sp, s) :
                   /\ Derived(sp, t) /\ Depth(t) \in Nat /\ Depth(t) >= Depth(s)
                   /\ Complete(t) => Depth(t) > Depth(s)}
<1>1. Depth(s) \in Nat /\ MaxDepth(sp) \in Nat /\ Depth(s) >= MaxDepth(sp)
  BY LenProperties DEF Derived, Ordered, Depth, Known, DepthReached
<1>2. s \in S
  BY <1>1, DescendantsStart
<1>3. ASSUME NEW t \in S, ~Complete(t), NEW r \in Applicable(sp, t), Child(sp, t, r) \in Descendants(sp, s)
      PROVE  Child(sp, t, r) \in S
  BY <1>1, <1>3, ChildDepth, DerivedChild
<1>4. Descendants(sp, s) \subseteq S
  <2> HIDE DEF S
  <2>1. QED
    BY <1>2, <1>3, DescentInduction
<1>5. QED
  BY <1>1, <1>4 DEF Hopeless, Acceptable

LEMMA ErrorsLast ==
  ASSUME NEW sp, Known(sp), NEW s, Derived(sp, s), HasError(PartialErrors(sp, s))
  PROVE  Hopeless(sp, s)
<1>1. Sound(s.topology) /\ sp.limits.max_devices \in Nat
  BY DerivedNets DEF Known, Described
<1>2. PICK c \in PartialCodes : PartialErrors(sp, s)[c] > 0
  BY <1>1, PartialErrorsMean DEF HasError
<1> DEFINE S == {t \in Descendants(sp, s) : Derived(sp, t) /\ PartialErrors(sp, t)[c] > 0}
<1>3. s \in S
  BY <1>2, DescendantsStart
<1>4. ASSUME NEW t \in S, ~Complete(t), NEW r \in Applicable(sp, t), Child(sp, t, r) \in Descendants(sp, s)
      PROVE  Child(sp, t, r) \in S
  <2>1. /\ Derived(sp, Child(sp, t, r)) /\ Sound(t.topology) /\ Sound(Child(sp, t, r).topology)
        /\ Keeps(t.topology, Child(sp, t, r).topology)
    BY <1>4, DerivedChild
  <2>2. PartialErrors(sp, Child(sp, t, r))[c] > 0
    BY <1>1, <1>2, <1>4, <2>1, ErrorsStay
  <2>3. QED
    BY <1>4, <2>1, <2>2
<1>5. Descendants(sp, s) \subseteq S
  <2> HIDE DEF S
  <2>1. QED
    BY <1>3, <1>4, DescentInduction
<1>6. ASSUME NEW t \in Descendants(sp, s) PROVE HasError(FinalErrors(sp, t))
  <2>1. Sound(t.topology) /\ PartialErrors(sp, t)[c] > 0
    BY <1>5, <1>6, DerivedNets
  <2>2. FinalErrors(sp, t)[c] > 0 /\ c \in Codes
    BY <1>2, <2>1, FinalErrorsType DEF Codes
  <2>3. QED
    BY <2>2 DEF HasError
<1>7. QED
  BY <1>6 DEF Hopeless, Acceptable

LEMMA NoRuleLeft ==
  ASSUME NEW sp, NEW s, Complete(s) \/ Applicable(sp, s) = {}
  PROVE  Descendants(sp, s) \subseteq {s}
<1> DEFINE S == {s}
<1>1. s \in S
  OBVIOUS
<1>2. ASSUME NEW t \in S, ~Complete(t), NEW r \in Applicable(sp, t), Child(sp, t, r) \in Descendants(sp, s)
      PROVE  Child(sp, t, r) \in S
  <2>1. t = s
    OBVIOUS
  <2>2. QED
    BY <1>2, <2>1
<1>3. Descendants(sp, s) \subseteq S
  <2> HIDE DEF S
  <2>1. QED
    BY <1>1, <1>2, DescentInduction
<1>4. QED
  BY <1>3

\* What is remembered of the draw under way.
DrawInv ==
  /\ outcome # "none" => phase = "drawing"
  /\ phase = "drawing" /\ outcome # "none" =>
       Replayed(spec, state) /\ AtItsDepth(spec, state) /\ Depth(state) <= MaxDepth(spec)
  /\ outcome \in Rejections => Hopeless(spec, state)
  /\ outcome = "valid" => Acceptable(spec, state)

LEMMA DrawStart == BaselineInit => DrawInv
BY DEF BaselineInit, DrawInv, Rejections

LEMMA RejectionMeans ==
  ASSUME BaselineInv, RejectDraw PROVE Hopeless(spec, state)
<1> DEFINE a1 == DepthReached(spec, state)
           a2 == HasError(PartialErrors(spec, state))
           a3 == Applicable(spec, state) = {}
<1>1. /\ FirstFailure(<< <<a1, "depth_limit">>, <<a2, "partial_constraint">>, <<a3, "no_applicable_rule">> >>) # Passed
      /\ ~Complete(state) /\ Known(spec) /\ Derived(spec, state)
  BY Zenon DEF RejectDraw, BaselineInv
<1>2. "depth_limit" # Passed /\ "partial_constraint" # Passed /\ "no_applicable_rule" # Passed
  BY DEF Passed
<1> HIDE DEF a1, a2, a3
<1>3. a1 \/ a2 \/ a3
  BY <1>1, <1>2, ThreeChecks
<1>4. CASE a1
  BY <1>1, <1>4, TooDeep DEF a1
<1>5. CASE a2
  BY <1>1, <1>5, ErrorsLast DEF a2
<1>6. CASE a3
  BY <1>1, <1>6, NoRuleLeft DEF a3, Hopeless, Acceptable
<1>7. QED
  BY <1>3, <1>4, <1>5, <1>6

LEMMA DrawKept == BaselineInv /\ DrawInv /\ [BaselineNext]_baselineVars => DrawInv'
<1> SUFFICES ASSUME BaselineInv, DrawInv, [BaselineNext]_baselineVars PROVE DrawInv'
  OBVIOUS
<1>1. CASE StartReplay \/ ReplayRule \/ Build \/ Falsify \/ Split \/ SplitByPolarity \/ Train
           \/ Rebuild \/ FalsifyHeldout
  <2>1. phase # "drawing" /\ outcome' = outcome
    BY <1>1 DEF StartReplay, ReplayRule, Build, Falsify, Split, SplitByPolarity, Train, Rebuild, FalsifyHeldout
  <2>2. QED
    BY <2>1 DEF DrawInv, Rejections
<1>2. CASE Evaluate \/ Sample
  BY <1>2 DEF DrawInv, Rejections, Evaluate, Sample
<1>3. CASE StartDraw
  <2>1. PICK sp \in left : spec' = sp /\ state' = Start(sp)
    BY <1>3 DEF StartDraw, Begin
  <2>2. Known(sp)
    BY <2>1 DEF BaselineInv
  <2>3. Depth(Start(sp)) <= MaxDepth(sp)
    BY <2>2, StartFacts DEF Depth, Known
  <2>4. QED
    BY <1>3, <2>1, <2>3, ReplayedStart, DepthStart DEF DrawInv, Rejections, StartDraw
<1>4. CASE RejectDraw
  <2>1. Hopeless(spec, state) /\ outcome' \in Rejections
    <3> DEFINE a1 == DepthReached(spec, state)
               a2 == HasError(PartialErrors(spec, state))
               a3 == Applicable(spec, state) = {}
    <3>1. /\ outcome' = FirstFailure(<< <<a1, "depth_limit">>, <<a2, "partial_constraint">>,
                                        <<a3, "no_applicable_rule">> >>)
          /\ outcome' # Passed
      BY <1>4, Zenon DEF RejectDraw
    <3>2. "depth_limit" # Passed /\ "partial_constraint" # Passed /\ "no_applicable_rule" # Passed
      BY DEF Passed
    <3> HIDE DEF a1, a2, a3
    <3>3. a1 \/ a2 \/ a3
      BY <3>1, <3>2, ThreeChecks
    <3>4. outcome' \in {"depth_limit", "partial_constraint", "no_applicable_rule"}
      BY <3>1, <3>3, ThreeReasons
    <3>5. QED
      BY <1>4, <3>4, RejectionMeans DEF Rejections
  <2>2. "valid" \notin Rejections /\ "none" \notin Rejections
    BY DEF Rejections
  <2>3. QED
    BY <1>4, <2>1, <2>2 DEF DrawInv, RejectDraw, drawing
<1>5. ASSUME NEW r \in Rules, DrawRule(r) PROVE DrawInv'
  <2>1. /\ outcome = "open" /\ outcome' = "open" /\ phase = "drawing" /\ phase' = "drawing"
        /\ ~DepthReached(spec, state) /\ ~Complete(state) /\ r \in Applicable(spec, state)
        /\ state' = Child(spec, state, r) /\ spec' = spec /\ Derived(spec, state) /\ Known(spec)
        /\ Replayed(spec, state) /\ AtItsDepth(spec, state)
    BY <1>5 DEF DrawInv, DrawRule, Derive, BaselineInv
  <2>2. Replayed(spec, state')
    BY <2>1, ReplayedStep
  <2>3. AtItsDepth(spec, state')
    BY <2>1, DepthStep
  <2>4. Depth(state') <= MaxDepth(spec)
    BY <2>1, ChildDepth DEF DepthReached, Known
  <2>5. QED
    BY <2>1, <2>2, <2>3, <2>4 DEF DrawInv, Rejections
<1>6. CASE EndDraw
  <2>1. /\ outcome = "open" /\ Complete(state) /\ phase' = phase /\ spec' = spec /\ state' = state
        /\ phase = "drawing"
        /\ outcome' = IF IsValidDraw(spec, state) THEN "valid" ELSE "final_constraint"
    BY <1>6 DEF EndDraw, drawing, DrawInv
  <2>2. Replayed(spec, state) /\ AtItsDepth(spec, state) /\ Depth(state) <= MaxDepth(spec)
    BY <2>1 DEF DrawInv
  <2>3. CASE IsValidDraw(spec, state)
    <3>1. Acceptable(spec, state)
      BY <2>1, <2>2, <2>3 DEF Acceptable, IsValidDraw
    <3>2. QED
      BY <2>1, <2>2, <2>3, <3>1 DEF DrawInv, Rejections
  <2>4. CASE ~IsValidDraw(spec, state)
    <3>1. HasError(FinalErrors(spec, state))
      BY <2>1, <2>2, <2>4 DEF IsValidDraw, IsReplay, Replayed
    <3>2. Hopeless(spec, state)
      BY <2>1, <3>1, NoRuleLeft DEF Hopeless, Acceptable
    <3>3. QED
      BY <2>1, <2>2, <2>4, <3>2 DEF DrawInv, Rejections
  <2>5. QED
    BY <2>3, <2>4
<1>7. CASE UNCHANGED baselineVars
  BY <1>7 DEF DrawInv, baselineVars, drawing
<1>8. QED
  BY <1>1, <1>2, <1>3, <1>4, <1>5, <1>6, <1>7 DEF BaselineNext

(***************************************************************************)
(* What the split may separate.                                            *)
(***************************************************************************)
Honest(list) == \A e \in list : Lineage(e.spec) = e.lineage

\* A specification with one example has all the search found for it.
OfSpec(list, sp) == {e \in list : e.spec = sp}
Searched(sp, n) == {Example(Lineage(sp), sp, rules) : rules \in Search(sp, n)}
Whole(list, n) ==
  \A e \in list : MayReturn(e.spec, n, Search(e.spec, n)) /\ OfSpec(list, e.spec) = Searched(e.spec, n)
Labelled(list) == \A e \in list : "lineage" \in DOMAIN e

CorpusInv ==
  /\ phase = "built" => Honest(examples) /\ Whole(examples, asked) /\ Labelled(examples)
  /\ phase = "falsified" => ~Honest(examples)
  /\ phase = "split" => training \cup heldout = examples /\ (Honest(examples) => Whole(examples, asked))
  /\ phase = "misread" => ~Honest(heldout)
  /\ phase = "rebuilt" => Labelled(heldout)
  /\ phase \in {"trained", "rebuilt", "drawing"} => Honest(heldout) /\ Whole(heldout, asked)

LEMMA VariantLineage ==
  ASSUME NEW sp, Known(sp), NEW augment, NEW v \in Variants(sp, augment) PROVE Lineage(v) = Lineage(sp)
<1>1. CASE v = sp
  BY <1>1
<1>2. CASE v = [sp EXCEPT !.polarity = IF @ = "nmos_input" THEN "pmos_input" ELSE "nmos_input"]
  BY <1>2 DEF Lineage, Known, Fields
<1>3. QED
  BY <1>1, <1>2 DEF Variants

LEMMA ExamplesWhole ==
  ASSUME NEW b \in Builds \cup Rebuilds
  PROVE  Honest(Examples(b)) /\ Whole(Examples(b), b.limit) /\ Labelled(Examples(b))
<1>1. \A e : e \in Examples(b) <=>
               \E sp \in b.specs : \E v \in Variants(sp, b.augment) : \E rules \in Search(v, b.limit) :
                 e = Example(Lineage(sp), v, rules)
  BY DEF Examples, Made
<1>2. \A sp \in b.specs : \A v \in Variants(sp, b.augment) : Lineage(v) = Lineage(sp)
  BY VariantLineage, SpecsAssumption DEF Known
<1>3. ASSUME NEW e \in Examples(b)
      PROVE  \E sp \in b.specs : \E v \in Variants(sp, b.augment) : \E rules \in Search(v, b.limit) :
               /\ e = Example(Lineage(v), v, rules) /\ e.spec = v /\ e.lineage = Lineage(v)
               /\ "lineage" \in DOMAIN e
  BY <1>1, <1>2 DEF Example
<1>4. ASSUME NEW e \in Examples(b)
      PROVE  /\ MayReturn(e.spec, b.limit, Search(e.spec, b.limit))
             /\ OfSpec(Examples(b), e.spec) = Searched(e.spec, b.limit)
  <2>1. PICK sp \in b.specs : e.spec \in Variants(sp, b.augment)
    BY <1>3
  <2>2. MayReturn(e.spec, b.limit, Search(e.spec, b.limit))
    BY <2>1, SearchAssumption
  <2>3. \A x \in OfSpec(Examples(b), e.spec) : x \in Searched(e.spec, b.limit)
    BY <1>3 DEF OfSpec, Searched
  <2>4. ASSUME NEW rules \in Search(e.spec, b.limit)
        PROVE  Example(Lineage(e.spec), e.spec, rules) \in OfSpec(Examples(b), e.spec)
    BY <1>1, <1>2, <2>1 DEF OfSpec, Example
  <2>5. QED
    BY <2>2, <2>3, <2>4 DEF Searched
<1>5. QED
  BY <1>3, <1>4 DEF Honest, Whole, Labelled

\* What is whole stays so when whole lineages are taken from it.
LEMMA PartWhole ==
  ASSUME NEW list, NEW part \in SUBSET list, NEW n, Whole(list, n), Honest(list),
         LineagesOf(list \ part) \cap LineagesOf(part) = {}
  PROVE  Whole(part, n)
<1>1. SUFFICES ASSUME NEW e \in part PROVE OfSpec(part, e.spec) = OfSpec(list, e.spec)
  BY DEF Whole
<1>2. ASSUME NEW x \in list, x.spec = e.spec PROVE x \in part
  BY <1>1, <1>2 DEF Honest, LineagesOf
<1>3. QED
  BY <1>2 DEF OfSpec

LEMMA MisnamedIsFalse ==
  ASSUME NEW list, Honest(list), Labelled(list), NEW e \in list, NEW f \in list, e.lineage # f.lineage
  PROVE  ~Honest((list \ {e}) \cup {[e EXCEPT !.lineage = f.lineage]})
<1> DEFINE g == [e EXCEPT !.lineage = f.lineage]
<1>1. g.spec = e.spec /\ g.lineage = f.lineage
  BY DEF Labelled
<1> HIDE DEF g
<1>2. Lineage(g.spec) # g.lineage
  BY <1>1 DEF Honest
<1>3. QED
  BY <1>2 DEF Honest, g

LEMMA CorpusKept == CorpusInv /\ [BaselineNext]_baselineVars => CorpusInv'
<1> SUFFICES ASSUME CorpusInv, [BaselineNext]_baselineVars PROVE CorpusInv'
  OBVIOUS
<1>1. CASE StartReplay \/ ReplayRule
  BY <1>1 DEF CorpusInv, StartReplay, ReplayRule
<1>2. CASE Build
  BY <1>2, ExamplesWhole DEF CorpusInv, Build
<1>3. CASE Falsify
  <2>1. ~Honest(examples')
    BY <1>3, MisnamedIsFalse DEF CorpusInv, Falsify
  <2>2. QED
    BY <1>3, <2>1 DEF CorpusInv, Falsify
<1>4. CASE Split
  <2>1. /\ phase \in {"built", "falsified"} /\ phase' = "split" /\ examples' = examples /\ asked' = asked
        /\ training' \cup heldout' = examples
    BY <1>4 DEF Split
  <2>2. QED
    BY <2>1 DEF CorpusInv
<1>5. CASE SplitByPolarity
  <2>1. /\ phase \in {"built", "falsified"} /\ phase' = "split" /\ examples' = examples /\ asked' = asked
        /\ training' \cup heldout' = examples
    BY <1>5 DEF SplitByPolarity
  <2>2. QED
    BY <2>1 DEF CorpusInv
<1>6. CASE Train
  <2>1. Honest(examples) /\ Honest(heldout)
    BY <1>6, PassedExample DEF Train, Honest, CorpusInv
  <2>2. Whole(examples, asked) /\ heldout \subseteq examples /\ examples \ heldout \subseteq training
    BY <1>6, <2>1 DEF Train, CorpusInv
  <2>3. LineagesOf(examples \ heldout) \cap LineagesOf(heldout) = {}
    BY <1>6, <2>2 DEF Train, LineagesOf
  <2>4. Whole(heldout, asked)
    BY <2>1, <2>2, <2>3, PartWhole
  <2>5. phase' = "trained" /\ heldout' = heldout /\ asked' = asked
    BY <1>6 DEF Train
  <2>6. QED
    BY <2>1, <2>4, <2>5 DEF CorpusInv
<1>7. CASE Rebuild
  <2>1. PICK b \in Rebuilds : heldout' = Examples(b) /\ asked' = b.limit
    BY <1>7 DEF Rebuild
  <2>2. Honest(heldout') /\ Whole(heldout', asked') /\ Labelled(heldout')
    BY <2>1, ExamplesWhole
  <2>3. QED
    BY <1>7, <2>2 DEF CorpusInv, Rebuild
<1>8. CASE FalsifyHeldout
  <2>1. ~Honest(heldout')
    BY <1>8, MisnamedIsFalse DEF CorpusInv, FalsifyHeldout
  <2>2. QED
    BY <1>8, <2>1 DEF CorpusInv, FalsifyHeldout
<1>9. CASE Evaluate
  <2>1. Honest(heldout)
    BY <1>9, PassedExample DEF Evaluate, Honest
  <2>2. /\ phase \in {"trained", "rebuilt"} /\ phase' = "drawing"
        /\ heldout' = heldout /\ asked' = asked
    BY <1>9, <2>1 DEF Evaluate, CorpusInv, corpus
  <2>3. QED
    BY <2>2 DEF CorpusInv
<1>10. CASE Sample
  BY <1>10 DEF CorpusInv, Sample, corpus
<1>11. CASE StartDraw \/ RejectDraw \/ (\E r \in Rules : DrawRule(r)) \/ EndDraw
  BY <1>11 DEF CorpusInv, StartDraw, RejectDraw, DrawRule, EndDraw, corpus
<1>12. CASE UNCHANGED baselineVars
  BY <1>12 DEF CorpusInv, baselineVars, corpus
<1>13. QED
  BY <1>1, <1>2, <1>3, <1>4, <1>5, <1>6, <1>7, <1>8, <1>9, <1>10, <1>11, <1>12 DEF BaselineNext

(***************************************************************************)
(* DrawsMatchSearch: the sampler gives up only where the search would      *)
(* prune, and what it draws the search has, for every specification.       *)
(***************************************************************************)
LEMMA DrawInvMeans == BaselineInv /\ DrawInv => DrawsMatchSearch
<1>1. SUFFICES ASSUME BaselineInv, DrawInv, outcome = "valid" PROVE state \in Candidates(spec)
  BY DEF DrawsMatchSearch, DrawInv, Hopeless
<1>2. QED
  BY <1>1, DepthDescends DEF DrawInv, Candidates

THEOREM DrawsAlwaysMatchSearch == BaselineSpec => []DrawsMatchSearch
BY DrawInvMeans, DrawStart, DrawKept, BaselineAlways, PTL DEF BaselineSpec

\* As many examples of a specification as sequences the search found for it.
LEMMA SearchedCardinality ==
  ASSUME NEW sp, NEW n, IsFiniteSet(Search(sp, n))
  PROVE  Cardinality(Searched(sp, n)) = Cardinality(Search(sp, n))
<1> DEFINE f == [rules \in Search(sp, n) |-> Example(Lineage(sp), sp, rules)]
<1>1. \A rules \in Search(sp, n) : f[rules].rules = rules
  BY DEF Example
<1>2. f \in Bijection(Search(sp, n), Searched(sp, n))
  <2>1. f \in [Search(sp, n) -> Searched(sp, n)]
    BY DEF Searched
  <2>2. IsInjective(f)
    BY <1>1 DEF IsInjective
  <2>3. \A e \in Searched(sp, n) : \E rules \in Search(sp, n) : f[rules] = e
    BY DEF Searched
  <2>4. QED
    BY <2>1, <2>2, <2>3 DEF Bijection, Injection, Surjection
<1>3. ExistsBijection(Search(sp, n), Searched(sp, n))
  BY <1>2 DEF ExistsBijection
<1>4. QED
  BY <1>3, FS_Bijection

(***************************************************************************)
(* MissedOnlyByLimit: a valid draw that is no example of its held-out      *)
(* specification is one a limit kept from being found, for every corpus,   *)
(* split, limit and specification, and whatever the search finds first.    *)
(***************************************************************************)
THEOREM MissedAlwaysByLimit == BaselineSpec => []MissedOnlyByLimit
<1>1. BaselineInit => CorpusInv
  BY DEF BaselineInit, CorpusInv
<1>2. BaselineInv /\ DrawInv /\ CorpusInv => MissedOnlyByLimit
  <2>1. SUFFICES ASSUME BaselineInv, DrawInv, CorpusInv, outcome = "valid", NEW e \in HeldoutOf(spec)
                 PROVE  \/ \E f \in HeldoutOf(spec) : f.rules = state.trace
                        \/ Cardinality(HeldoutOf(spec)) = Granted(spec, asked)
                        \/ IsCut(spec)
    BY DEF MissedOnlyByLimit
  <2> DEFINE found == Search(spec, asked)
  <2>2. state \in Candidates(spec) /\ phase = "drawing"
    BY <2>1, DrawInvMeans DEF DrawsMatchSearch, DrawInv
  <2>3. e \in heldout /\ e.spec = spec
    BY DEF HeldoutOf
  <2>4. MayReturn(spec, asked, found) /\ HeldoutOf(spec) = Searched(spec, asked)
    BY <2>1, <2>2, <2>3 DEF CorpusInv, Whole, HeldoutOf, OfSpec
  <2> HIDE DEF found
  <2>5. CASE found = {s.trace : s \in Candidates(spec)}
    <3>1. state.trace \in Search(spec, asked)
      BY <2>2, <2>5 DEF found
    <3>2. Example(Lineage(spec), spec, state.trace) \in HeldoutOf(spec)
      BY <2>4, <3>1 DEF Searched
    <3>3. Example(Lineage(spec), spec, state.trace).rules = state.trace
      BY DEF Example
    <3>4. QED
      BY <3>2, <3>3
  <2>6. CASE Cardinality(found) = Granted(spec, asked)
    BY <2>4, <2>6, SearchedCardinality DEF MayReturn, found
  <2>7. QED
    BY <2>4, <2>5, <2>6 DEF MayReturn
<1>3. QED
  BY <1>1, <1>2, DrawStart, DrawKept, CorpusKept, BaselineAlways, PTL DEF BaselineSpec

(***************************************************************************)
(* A circuit and its dual: nmos and pmos, and the rails, exchanged.        *)
(***************************************************************************)
Rails == {"vdd", "vss"}
Railed(t) == Rails \subseteq t.nets

\* A device is a record of the right terminals.
Built(t) ==
  \A d \in DOMAIN t.devices :
    \E k, l, n : t.devices[d] = Device(k, l, n) /\ DOMAIN n = Terminals(k)

DualOf(t, u) ==
  /\ u.nets = t.nets
  /\ u.devices = [d \in DOMAIN t.devices |-> DualDevice(t.devices[d])]

LEMMA OppositeRailFacts ==
  /\ \A n : n \notin Rails => OppositeRail(n) = n
  /\ \A n : n \in Rails <=> OppositeRail(n) \in Rails
  /\ \A n : OppositeRail(OppositeRail(n)) = n
BY DEF OppositeRail, Rails

LEMMA DualMos ==
  ASSUME NEW kind \in Transistors, NEW role, NEW d, NEW g, NEW s, NEW b
  PROVE  DualDevice(Device(kind, role, Mos(d, g, s, b)))
           = Device(Opposite(kind), role, Mos(OppositeRail(d), OppositeRail(g), OppositeRail(s), OppositeRail(b)))
<1> DEFINE net == Mos(d, g, s, b)
<1>1. DOMAIN net = {"d", "g", "s", "b"} /\ net["d"] = d /\ net["g"] = g /\ net["s"] = s /\ net["b"] = b
  BY DEF Mos
<1>2. [x \in DOMAIN net |-> OppositeRail(net[x])]
        = Mos(OppositeRail(d), OppositeRail(g), OppositeRail(s), OppositeRail(b))
  BY DEF Mos
<1> HIDE DEF net
<1>3. DualDevice(Device(kind, role, net)) = Device(Opposite(kind), role, [x \in DOMAIN net |-> OppositeRail(net[x])])
  BY DEF DualDevice, Device, Transistors
<1>4. QED
  BY <1>2, <1>3 DEF net

LEMMA DualResistor ==
  ASSUME NEW role, NEW p, NEW n
  PROVE  DualDevice(Device("resistor", role, Across(p, n)))
           = Device("resistor", role, Across(OppositeRail(p), OppositeRail(n)))
<1> DEFINE net == Across(p, n)
<1>1. [x \in DOMAIN net |-> OppositeRail(net[x])] = Across(OppositeRail(p), OppositeRail(n))
  BY DEF Across
<1> HIDE DEF net
<1>2. DualDevice(Device("resistor", role, net)) = Device("resistor", role, [x \in DOMAIN net |-> OppositeRail(net[x])])
  BY DEF DualDevice, Device, Opposite
<1>3. QED
  BY <1>1, <1>2 DEF net

LEMMA DualSource ==
  ASSUME NEW role, NEW p, NEW n
  PROVE  DualDevice(Device("current_source", role, Across(p, n)))
           = Device("current_source", role, Across(OppositeRail(n), OppositeRail(p)))
<1> DEFINE net == Across(p, n)
<1>1. net["p"] = p /\ net["n"] = n
  BY DEF Across
<1> HIDE DEF net
<1>2. DualDevice(Device("current_source", role, net))
        = Device("current_source", role, Across(OppositeRail(net["n"]), OppositeRail(net["p"])))
  BY DEF DualDevice, Device
<1>3. QED
  BY <1>1, <1>2 DEF net

LEMMA DualCapacitor ==
  ASSUME NEW role, NEW net PROVE DualDevice(Device("capacitor", role, net)) = Device("capacitor", role, net)
BY DEF DualDevice, Device

LEMMA DualAdd ==
  ASSUME NEW t, NEW u, DualOf(t, u), NEW name, NEW kind, NEW role, NEW net, NEW other, NEW wires,
         DualDevice(Device(kind, role, net)) = Device(other, role, wires),
         t.nets \cup Range(wires) = t.nets \cup Range(net)
  PROVE  DualOf(AddDevice(t, name, kind, role, net), AddDevice(u, name, other, role, wires))
<1> DEFINE v == Device(kind, role, net)
           w == Device(other, role, wires)
           a == AddDevice(t, name, kind, role, net)
           b == AddDevice(u, name, other, role, wires)
<1>1. a.nets = t.nets \cup Range(net) /\ a.devices = Entered(t.devices, name, v)
  BY GraphFacts DEF AddDevice
<1>2. b.nets = u.nets \cup Range(wires) /\ b.devices = Entered(u.devices, name, w)
  BY GraphFacts DEF AddDevice
<1> HIDE DEF v, w, a, b
<1>3. DualDevice(v) = w
  BY DEF v, w
<1>4. Entered(u.devices, name, w) = [d \in DOMAIN Entered(t.devices, name, v) |-> DualDevice(Entered(t.devices, name, v)[d])]
  <2> DEFINE D == t.devices
             E == [d \in DOMAIN D |-> DualDevice(D[d])]
  <2>1. u.devices = E
    BY DEF DualOf
  <2> HIDE DEF D
  <2>2. DOMAIN Entered(D, name, v) = DOMAIN D \cup {name}
    BY DEF Entered
  <2>3. ASSUME NEW d \in DOMAIN D \cup {name}
        PROVE  (IF d = name THEN w ELSE E[d]) = DualDevice(Entered(D, name, v)[d])
    BY <1>3 DEF Entered
  <2>4. Entered(E, name, w) = [d \in DOMAIN D \cup {name} |-> IF d = name THEN w ELSE E[d]]
    BY DEF Entered
  <2> HIDE DEF E
  <2>5. [d \in DOMAIN D \cup {name} |-> IF d = name THEN w ELSE E[d]]
          = [d \in DOMAIN D \cup {name} |-> DualDevice(Entered(D, name, v)[d])]
    BY <2>3
  <2>6. QED
    BY <2>1, <2>2, <2>4, <2>5 DEF D
<1>5. DualOf(a, b)
  BY <1>1, <1>2, <1>4 DEF DualOf
<1>6. QED
  BY <1>5 DEF a, b

LEMMA AddedNets ==
  ASSUME NEW t, NEW name, NEW kind, NEW role, NEW net
  PROVE  AddDevice(t, name, kind, role, net).nets = t.nets \cup Range(net)
BY DEF AddDevice, Graph

LEMMA DualAddMos ==
  ASSUME NEW t, NEW u, DualOf(t, u), Railed(t), NEW name, NEW kind \in Transistors, NEW role,
         NEW d, NEW g, NEW s, NEW b
  PROVE  LET a == AddDevice(t, name, kind, role, Mos(d, g, s, b))
         IN  /\ DualOf(a, AddDevice(u, name, Opposite(kind), role,
                                    Mos(OppositeRail(d), OppositeRail(g), OppositeRail(s), OppositeRail(b))))
             /\ Railed(a)
<1> DEFINE net == Mos(d, g, s, b)
           wires == Mos(OppositeRail(d), OppositeRail(g), OppositeRail(s), OppositeRail(b))
<1>1. /\ Range(net) = {d, g, s, b}
      /\ Range(wires) = {OppositeRail(d), OppositeRail(g), OppositeRail(s), OppositeRail(b)}
  BY MosFacts
<1>2. t.nets \cup Range(wires) = t.nets \cup Range(net)
  BY <1>1, OppositeRailFacts DEF Railed
<1>3. DualDevice(Device(kind, role, net)) = Device(Opposite(kind), role, wires)
  BY DualMos
<1> HIDE DEF net, wires
<1>4. DualOf(AddDevice(t, name, kind, role, net), AddDevice(u, name, Opposite(kind), role, wires))
  BY <1>2, <1>3, DualAdd
<1>5. Railed(AddDevice(t, name, kind, role, net))
  BY AddedNets DEF Railed
<1>6. QED
  BY <1>4, <1>5 DEF net, wires

LEMMA DualAddResistor ==
  ASSUME NEW t, NEW u, DualOf(t, u), Railed(t), NEW name, NEW role, NEW p, NEW n
  PROVE  LET a == AddDevice(t, name, "resistor", role, Across(p, n))
         IN  /\ DualOf(a, AddDevice(u, name, "resistor", role, Across(OppositeRail(p), OppositeRail(n))))
             /\ Railed(a)
<1> DEFINE net == Across(p, n)
           wires == Across(OppositeRail(p), OppositeRail(n))
<1>1. Range(net) = {p, n} /\ Range(wires) = {OppositeRail(p), OppositeRail(n)}
  BY AcrossFacts
<1>2. t.nets \cup Range(wires) = t.nets \cup Range(net)
  BY <1>1, OppositeRailFacts DEF Railed
<1>3. DualDevice(Device("resistor", role, net)) = Device("resistor", role, wires)
  BY DualResistor
<1> HIDE DEF net, wires
<1>4. DualOf(AddDevice(t, name, "resistor", role, net), AddDevice(u, name, "resistor", role, wires))
  BY <1>2, <1>3, DualAdd
<1>5. Railed(AddDevice(t, name, "resistor", role, net))
  BY AddedNets DEF Railed
<1>6. QED
  BY <1>4, <1>5 DEF net, wires

LEMMA DualAddSource ==
  ASSUME NEW t, NEW u, DualOf(t, u), Railed(t), NEW name, NEW role, NEW p, NEW n
  PROVE  LET a == AddDevice(t, name, "current_source", role, Across(p, n))
         IN  /\ DualOf(a, AddDevice(u, name, "current_source", role, Across(OppositeRail(n), OppositeRail(p))))
             /\ Railed(a)
<1> DEFINE net == Across(p, n)
           wires == Across(OppositeRail(n), OppositeRail(p))
<1>1. Range(net) = {p, n} /\ Range(wires) = {OppositeRail(p), OppositeRail(n)}
  BY AcrossFacts
<1>2. t.nets \cup Range(wires) = t.nets \cup Range(net)
  BY <1>1, OppositeRailFacts DEF Railed
<1>3. DualDevice(Device("current_source", role, net)) = Device("current_source", role, wires)
  BY DualSource
<1> HIDE DEF net, wires
<1>4. DualOf(AddDevice(t, name, "current_source", role, net), AddDevice(u, name, "current_source", role, wires))
  BY <1>2, <1>3, DualAdd
<1>5. Railed(AddDevice(t, name, "current_source", role, net))
  BY AddedNets DEF Railed
<1>6. QED
  BY <1>4, <1>5 DEF net, wires

LEMMA DualAddCapacitor ==
  ASSUME NEW t, NEW u, DualOf(t, u), Railed(t), NEW name, NEW role, NEW net
  PROVE  LET a == AddDevice(t, name, "capacitor", role, net)
         IN  DualOf(a, AddDevice(u, name, "capacitor", role, net)) /\ Railed(a)
<1>1. DualOf(AddDevice(t, name, "capacitor", role, net), AddDevice(u, name, "capacitor", role, net))
  BY DualCapacitor, DualAdd
<1>2. QED
  BY <1>1, AddedNets DEF Railed

LEMMA DualNets ==
  ASSUME NEW t, NEW u, DualOf(t, u), Railed(t), NEW N
  PROVE  DualOf(AddNets(t, N), AddNets(u, N)) /\ Railed(AddNets(t, N))
BY DEF DualOf, Railed, AddNets, Graph

LEMMA DualCommit ==
  ASSUME NEW t, NEW u, DualOf(t, u) PROVE DualOf(Commit(t), Commit(u))
BY DEF DualOf, Commit, Graph

\* Renaming a net that is no rail commutes with exchanging the rails.
LEMMA DualRewired ==
  ASSUME NEW k, NEW l, NEW n, DOMAIN n = Terminals(k), NEW old, old \notin Rails, NEW new, new \notin Rails
  PROVE  DualDevice(Rewired(Device(k, l, n), old, new)) = Rewired(DualDevice(Device(k, l, n)), old, new)
<1> DEFINE named(x) == IF x = old THEN new ELSE x
           wires == [x \in DOMAIN n |-> named(n[x])]
<1>1. \A x : named(OppositeRail(x)) = OppositeRail(named(x))
  BY OppositeRailFacts
<1>2. Rewired(Device(k, l, n), old, new) = Device(k, l, wires)
  BY DEF Rewired, Device
<1>3. \A kind, role, net : Rewired(Device(kind, role, net), old, new) = Device(kind, role, [x \in DOMAIN net |-> named(net[x])])
  BY DEF Rewired, Device
<1>4. CASE k = "capacitor"
  BY <1>2, <1>4, DualCapacitor
<1>5. CASE k = "current_source"
  <2>1. DOMAIN n = {"p", "n"}
    BY <1>5 DEF Terminals, Transistors
  <2>2. wires["p"] = named(n["p"]) /\ wires["n"] = named(n["n"])
    BY <2>1
  <2> HIDE DEF wires
  <2>3. DualDevice(Device(k, l, n)) = Device(k, l, Across(OppositeRail(n["n"]), OppositeRail(n["p"])))
    BY <1>5 DEF DualDevice, Device
  <2>4. DualDevice(Device(k, l, wires)) = Device(k, l, Across(OppositeRail(wires["n"]), OppositeRail(wires["p"])))
    BY <1>5 DEF DualDevice, Device
  <2> DEFINE a == OppositeRail(n["n"])
             b == OppositeRail(n["p"])
  <2>5. OppositeRail(wires["n"]) = named(a) /\ OppositeRail(wires["p"]) = named(b)
    BY <1>1, <2>2
  <2> HIDE DEF a, b
  <2>6. [x \in DOMAIN Across(a, b) |-> named(Across(a, b)[x])] = Across(named(a), named(b))
    BY DEF Across
  <2>7. QED
    BY <1>2, <1>3, <2>3, <2>4, <2>5, <2>6 DEF a, b
<1>6. CASE k \notin {"capacitor", "current_source"}
  <2> DEFINE turned == [x \in DOMAIN n |-> OppositeRail(n[x])]
  <2>1. DualDevice(Device(k, l, n)) = Device(Opposite(k), l, turned)
    BY <1>6 DEF DualDevice, Device
  <2> DEFINE both == [x \in DOMAIN wires |-> OppositeRail(wires[x])]
             round == [x \in DOMAIN turned |-> named(turned[x])]
  <2>2. both = round
    BY <1>1
  <2>3. DualDevice(Device(k, l, wires)) = Device(Opposite(k), l, both)
    <3> HIDE DEF wires
    <3>1. QED
      BY <1>6 DEF DualDevice, Device
  <2>4. Rewired(Device(Opposite(k), l, turned), old, new) = Device(Opposite(k), l, round)
    BY <1>3
  <2> HIDE DEF both, round, turned, wires
  <2>5. QED
    BY <1>2, <2>1, <2>2, <2>3, <2>4
<1>7. QED
  BY <1>4, <1>5, <1>6

LEMMA DualRename ==
  ASSUME NEW t, NEW u, DualOf(t, u), Built(t), NEW old, old \notin Rails, NEW new, new \notin Rails
  PROVE  DualOf(RenameNet(t, old, new), RenameNet(u, old, new)) /\ Built(RenameNet(t, old, new))
<1> DEFINE a == RenameNet(t, old, new)
           b == RenameNet(u, old, new)
           D == t.devices
<1>1. /\ a.nets = (t.nets \ {old}) \cup {new} /\ b.nets = (u.nets \ {old}) \cup {new}
      /\ a.devices = [d \in DOMAIN D |-> Rewired(D[d], old, new)]
      /\ b.devices = [d \in DOMAIN u.devices |-> Rewired(u.devices[d], old, new)]
  BY GraphFacts DEF RenameNet
<1>2. DOMAIN u.devices = DOMAIN D /\ \A d \in DOMAIN D : u.devices[d] = DualDevice(D[d])
  BY DEF DualOf
<1> HIDE DEF a, b, D
<1>3. ASSUME NEW d \in DOMAIN D
      PROVE  /\ DualDevice(Rewired(D[d], old, new)) = Rewired(DualDevice(D[d]), old, new)
             /\ \E k, l, n : Rewired(D[d], old, new) = Device(k, l, n) /\ DOMAIN n = Terminals(k)
  <2>1. PICK k, l, n : D[d] = Device(k, l, n) /\ DOMAIN n = Terminals(k)
    BY <1>3 DEF Built, D
  <2>2. DualDevice(Rewired(D[d], old, new)) = Rewired(DualDevice(D[d]), old, new)
    BY <2>1, DualRewired
  <2>3. Rewired(D[d], old, new) = Device(k, l, [x \in DOMAIN n |-> IF n[x] = old THEN new ELSE n[x]])
    BY <2>1 DEF Rewired, Device
  <2> DEFINE m == [x \in DOMAIN n |-> IF n[x] = old THEN new ELSE n[x]]
  <2>4. DOMAIN m = Terminals(k)
    BY <2>1
  <2> HIDE DEF m
  <2>5. QED
    BY <2>2, <2>3, <2>4 DEF m
<1>4. b.devices = [d \in DOMAIN a.devices |-> DualDevice(a.devices[d])]
  BY <1>1, <1>2, <1>3
<1>5. Built(a)
  BY <1>1, <1>3 DEF Built
<1>6. QED
  BY <1>1, <1>4, <1>5 DEF DualOf, a, b

\* What the rules read of a specification and of its dual.
Opposed(sp, dual) ==
  /\ InputKind(dual) = Opposite(InputKind(sp)) /\ LoadKind(dual) = Opposite(LoadKind(sp))
  /\ InputRail(dual) = OppositeRail(InputRail(sp)) /\ LoadRail(dual) = OppositeRail(LoadRail(sp))
  /\ dual.polarity = "nmos_input" <=> sp.polarity # "nmos_input"
  /\ dual.input_mode = sp.input_mode /\ dual.output_mode = sp.output_mode
  /\ dual.require_compensation = sp.require_compensation

LEMMA DualSpecOpposed ==
  ASSUME NEW sp, DOMAIN sp = Fields PROVE Opposed(sp, DualSpec(sp))
<1> DEFINE dual == DualSpec(sp)
<1>1. /\ dual.polarity = IF sp.polarity = "nmos_input" THEN "pmos_input" ELSE "nmos_input"
      /\ dual.input_mode = sp.input_mode /\ dual.output_mode = sp.output_mode
      /\ dual.require_compensation = sp.require_compensation
  BY DEF DualSpec, Fields
<1> HIDE DEF dual
<1>2. QED
  BY <1>1 DEF Opposed, dual, InputKind, LoadKind, InputRail, LoadRail, Opposite, OppositeRail

\* Two states of dual derivations.
Mirrored(s, e) == DualOf(s.topology, e.topology) /\ e.facts = s.facts

LEMMA MirroredRewrite ==
  ASSUME NEW s, NEW e, e.facts = s.facts, NEW t, NEW u, DualOf(t, u), NEW r, NEW updates
  PROVE  Mirrored(Rewrite(s, r, t, updates), Rewrite(e, r, u, updates))
<1> DEFINE a == Rewrite(s, r, t, updates)
           b == Rewrite(e, r, u, updates)
<1>1. a.topology = Commit(t) /\ b.topology = Commit(u) /\ a.facts = b.facts
  BY DEF Rewrite
<1> HIDE DEF a, b
<1>2. Mirrored(a, b)
  BY <1>1, DualCommit DEF Mirrored
<1>3. QED
  BY <1>2 DEF a, b

LEMMA InputMirrored ==
  ASSUME NEW sp, NEW dual, Opposed(sp, dual), NEW s, NEW e, Mirrored(s, e), Railed(s.topology), NEW r
  PROVE  /\ Mirrored(InputPair(sp, s, r), InputPair(dual, e, r))
         /\ Mirrored(SingleTransconductor(sp, s, r), SingleTransconductor(dual, e, r))
<1> DEFINE k == InputKind(sp)
           m == InputKind(dual)
           low == InputRail(sp)
           high == InputRail(dual)
<1>1. m = Opposite(k) /\ high = OppositeRail(low) /\ k \in Transistors
  BY FamilyFacts DEF Opposed
<1>2. \A n \in {"n_left", "n_right", "n_tail", "n_gain", "vinp", "vinn", "vin"} : OppositeRail(n) = n
  BY DEF OppositeRail
<1>3. Mirrored(InputPair(sp, s, r), InputPair(dual, e, r))
  <2> DEFINE N == {"n_left", "n_right", "n_tail"}
             t == AddNets(s.topology, N)
             u == AddNets(e.topology, N)
             t1 == AddDevice(t, "M_IN_P", k, "differential_input", Mos("n_left", "vinp", "n_tail", low))
             u1 == AddDevice(u, "M_IN_P", m, "differential_input", Mos("n_left", "vinp", "n_tail", high))
             t2 == AddDevice(t1, "M_IN_N", k, "differential_input", Mos("n_right", "vinn", "n_tail", low))
             u2 == AddDevice(u1, "M_IN_N", m, "differential_input", Mos("n_right", "vinn", "n_tail", high))
             updates == [input_structure |-> "differential_pair", left_drain |-> "n_left",
                         right_drain |-> "n_right", tail_net |-> "n_tail", stage_count |-> "1",
                         symmetry |-> "paired"]
  <2>1. InputPair(sp, s, r) = Rewrite(s, r, t2, updates) /\ InputPair(dual, e, r) = Rewrite(e, r, u2, updates)
    BY DEF InputPair
  <2> HIDE DEF N, updates
  <2>2. DualOf(t, u) /\ Railed(t)
    BY DualNets DEF Mirrored
  <2> HIDE DEF t, u
  <2>3. DualOf(t1, u1) /\ Railed(t1)
    <3> HIDE DEF k, m, low, high
    <3>1. QED
      BY <1>1, <1>2, <2>2, DualAddMos
  <2> HIDE DEF t1, u1
  <2>4. DualOf(t2, u2)
    <3> HIDE DEF k, m, low, high
    <3>1. QED
      BY <1>1, <1>2, <2>3, DualAddMos
  <2> HIDE DEF t2, u2, k, m, low, high
  <2>5. e.facts = s.facts
    BY DEF Mirrored
  <2>6. Mirrored(Rewrite(s, r, t2, updates), Rewrite(e, r, u2, updates))
    BY <2>4, <2>5, MirroredRewrite
  <2>7. QED
    BY <2>1, <2>6
<1>4. Mirrored(SingleTransconductor(sp, s, r), SingleTransconductor(dual, e, r))
  <2> DEFINE N == {"n_gain"}
             t == AddNets(s.topology, N)
             u == AddNets(e.topology, N)
             t1 == AddDevice(t, "M_IN", k, "common_source", Mos("n_gain", "vin", low, low))
             u1 == AddDevice(u, "M_IN", m, "common_source", Mos("n_gain", "vin", high, high))
             updates == [input_structure |-> "common_source", left_drain |-> "n_gain", right_drain |-> "n_gain",
                         stage_count |-> "1", symmetry |-> "single_ended"]
  <2>1. /\ SingleTransconductor(sp, s, r) = Rewrite(s, r, t1, updates)
        /\ SingleTransconductor(dual, e, r) = Rewrite(e, r, u1, updates)
    BY DEF SingleTransconductor
  <2> HIDE DEF N, updates
  <2>2. DualOf(t, u) /\ Railed(t)
    BY DualNets DEF Mirrored
  <2> HIDE DEF t, u
  <2>3. DualOf(t1, u1)
    <3> HIDE DEF k, m, low, high
    <3>1. QED
      BY <1>1, <1>2, <2>2, DualAddMos
  <2> HIDE DEF t1, u1
  <2>4. QED
    BY <2>1, <2>3, MirroredRewrite DEF Mirrored
<1>5. QED
  BY <1>3, <1>4

LEMMA TailMirrored ==
  ASSUME NEW sp, NEW dual, Opposed(sp, dual), NEW s, NEW e, Mirrored(s, e), Railed(s.topology), NEW r,
         s.facts["tail_net"] \notin Rails
  PROVE  /\ Mirrored(TailCurrent(sp, s, r), TailCurrent(dual, e, r))
         /\ Mirrored(TailResistor(sp, s, r), TailResistor(dual, e, r))
<1> DEFINE tail == s.facts["tail_net"]
<1>1. tail = e.facts["tail_net"] /\ OppositeRail(tail) = tail /\ OppositeRail("vdd") = "vss" /\ OppositeRail("vss") = "vdd"
  BY OppositeRailFacts DEF Mirrored, OppositeRail
<1>2. DualOf(s.topology, e.topology) /\ e.facts = s.facts
  BY DEF Mirrored
<1>3. Mirrored(TailCurrent(sp, s, r), TailCurrent(dual, e, r))
  <2> DEFINE way(x) == IF x.polarity = "nmos_input" THEN Across(tail, "vss") ELSE Across("vdd", tail)
             t1 == AddDevice(s.topology, "I_TAIL", "current_source", "tail_bias", way(sp))
             u1 == AddDevice(e.topology, "I_TAIL", "current_source", "tail_bias", way(dual))
             updates == [tail_structure |-> "current_source", headroom_units |-> "2"]
  <2>1. TailCurrent(sp, s, r) = Rewrite(s, r, t1, updates) /\ TailCurrent(dual, e, r) = Rewrite(e, r, u1, updates)
    BY <1>1 DEF TailCurrent
  <2> HIDE DEF tail, updates
  <2>2. DualOf(t1, u1)
    <3>1. CASE sp.polarity = "nmos_input"
      <4>1. way(sp) = Across(tail, "vss") /\ way(dual) = Across(OppositeRail("vss"), OppositeRail(tail))
        BY <1>1, <3>1 DEF Opposed
      <4> HIDE DEF way
      <4>2. QED
        BY <1>2, <4>1, DualAddSource
    <3>2. CASE sp.polarity # "nmos_input"
      <4>1. way(sp) = Across("vdd", tail) /\ way(dual) = Across(OppositeRail(tail), OppositeRail("vdd"))
        BY <1>1, <3>2 DEF Opposed
      <4> HIDE DEF way
      <4>2. QED
        BY <1>2, <4>1, DualAddSource
    <3>3. QED
      BY <3>1, <3>2
  <2> HIDE DEF t1, u1
  <2>3. QED
    BY <1>2, <2>1, <2>2, MirroredRewrite
<1>4. Mirrored(TailResistor(sp, s, r), TailResistor(dual, e, r))
  <2> DEFINE t1 == AddDevice(s.topology, "R_TAIL", "resistor", "tail_bias", Across(tail, InputRail(sp)))
             u1 == AddDevice(e.topology, "R_TAIL", "resistor", "tail_bias", Across(tail, InputRail(dual)))
             updates == [tail_structure |-> "resistor", headroom_units |-> "1"]
  <2>1. TailResistor(sp, s, r) = Rewrite(s, r, t1, updates) /\ TailResistor(dual, e, r) = Rewrite(e, r, u1, updates)
    BY <1>1 DEF TailResistor
  <2> HIDE DEF tail, updates
  <2>2. DualOf(t1, u1)
    <3>1. InputRail(dual) = OppositeRail(InputRail(sp))
      BY DEF Opposed
    <3>2. QED
      BY <1>1, <1>2, <3>1, DualAddResistor
  <2> HIDE DEF t1, u1
  <2>3. QED
    BY <1>2, <2>1, <2>2, MirroredRewrite
<1>5. QED
  BY <1>3, <1>4

LEMMA LoadMirrored ==
  ASSUME NEW sp, NEW dual, Opposed(sp, dual), NEW s, NEW e, Mirrored(s, e), Railed(s.topology), NEW r,
         s.facts["left_drain"] \notin Rails, s.facts["right_drain"] \notin Rails
  PROVE  /\ Mirrored(ResistiveLoad(sp, s, r), ResistiveLoad(dual, e, r))
         /\ Mirrored(ActiveMirrorLoad(sp, s, r), ActiveMirrorLoad(dual, e, r))
<1> DEFINE atLeft == s.facts["left_drain"]
           atRight == s.facts["right_drain"]
           k == LoadKind(sp)
           m == LoadKind(dual)
           high == LoadRail(sp)
           low == LoadRail(dual)
<1>1. /\ atLeft = e.facts["left_drain"] /\ OppositeRail(atLeft) = atLeft
      /\ atRight = e.facts["right_drain"] /\ OppositeRail(atRight) = atRight
  BY OppositeRailFacts DEF Mirrored
<1>2. DualOf(s.topology, e.topology) /\ e.facts = s.facts
  BY DEF Mirrored
<1>3. m = Opposite(k) /\ low = OppositeRail(high) /\ k \in Transistors
  BY FamilyFacts DEF Opposed
<1>4. Mirrored(ResistiveLoad(sp, s, r), ResistiveLoad(dual, e, r))
  <2> DEFINE t1 == AddDevice(s.topology, "R_LOAD_1", "resistor", "load", Across(high, atLeft))
             u1 == AddDevice(e.topology, "R_LOAD_1", "resistor", "load", Across(low, atLeft))
             t2 == AddDevice(t1, "R_LOAD_2", "resistor", "load", Across(high, atRight))
             u2 == AddDevice(u1, "R_LOAD_2", "resistor", "load", Across(low, atRight))
             t == IF atLeft = atRight THEN t1 ELSE t2
             u == IF atLeft = atRight THEN u1 ELSE u2
             updates == [load_structure |-> "resistive"]
  <2>1. ResistiveLoad(sp, s, r) = Rewrite(s, r, t, updates) /\ ResistiveLoad(dual, e, r) = Rewrite(e, r, u, updates)
    BY <1>1 DEF ResistiveLoad
  <2> HIDE DEF atLeft, atRight, high, low, updates
  <2>2. DualOf(t1, u1) /\ Railed(t1)
    BY <1>1, <1>2, <1>3, DualAddResistor
  <2> HIDE DEF t1, u1
  <2>3. DualOf(t2, u2)
    BY <1>1, <1>3, <2>2, DualAddResistor
  <2> HIDE DEF t2, u2
  <2>4. DualOf(t, u)
    BY <2>2, <2>3
  <2> HIDE DEF t, u
  <2>5. QED
    BY <1>2, <2>1, <2>4, MirroredRewrite
<1>5. Mirrored(ActiveMirrorLoad(sp, s, r), ActiveMirrorLoad(dual, e, r))
  <2> DEFINE t0 == AddDevice(s.topology, "M_LOAD", k, "diode_load", Mos(atLeft, atLeft, high, high))
             u0 == AddDevice(e.topology, "M_LOAD", m, "diode_load", Mos(atLeft, atLeft, low, low))
             t1 == AddDevice(s.topology, "M_LOAD_REF", k, "mirror_reference", Mos(atLeft, atLeft, high, high))
             u1 == AddDevice(e.topology, "M_LOAD_REF", m, "mirror_reference", Mos(atLeft, atLeft, low, low))
             t2 == AddDevice(t1, "M_LOAD_OUT", k, "mirror_output", Mos(atRight, atLeft, high, high))
             u2 == AddDevice(u1, "M_LOAD_OUT", m, "mirror_output", Mos(atRight, atLeft, low, low))
             diode == [load_structure |-> "diode_connected", headroom_units |-> "2"]
             mirror == [load_structure |-> "current_mirror", headroom_units |-> "2"]
  <2>1. /\ ActiveMirrorLoad(sp, s, r) = IF atLeft = atRight THEN Rewrite(s, r, t0, diode) ELSE Rewrite(s, r, t2, mirror)
        /\ ActiveMirrorLoad(dual, e, r) = IF atLeft = atRight THEN Rewrite(e, r, u0, diode) ELSE Rewrite(e, r, u2, mirror)
    BY <1>1 DEF ActiveMirrorLoad
  <2> HIDE DEF atLeft, atRight, high, low, k, m, diode, mirror
  <2>2. DualOf(t0, u0)
    BY <1>1, <1>2, <1>3, DualAddMos
  <2>3. DualOf(t1, u1) /\ Railed(t1)
    BY <1>1, <1>2, <1>3, DualAddMos
  <2> HIDE DEF t0, u0, t1, u1
  <2>4. DualOf(t2, u2)
    BY <1>1, <1>3, <2>3, DualAddMos
  <2> HIDE DEF t2, u2
  <2>5. Mirrored(Rewrite(s, r, t0, diode), Rewrite(e, r, u0, diode))
    BY <1>2, <2>2, MirroredRewrite
  <2>6. Mirrored(Rewrite(s, r, t2, mirror), Rewrite(e, r, u2, mirror))
    BY <1>2, <2>4, MirroredRewrite
  <2>7. QED
    BY <2>1, <2>5, <2>6
<1>6. QED
  BY <1>4, <1>5

LEMMA CompensationMirrored ==
  ASSUME NEW sp, NEW dual, NEW s, NEW e, Mirrored(s, e), Railed(s.topology), NEW r
  PROVE  Mirrored(CompensationCap(sp, s, r), CompensationCap(dual, e, r))
<1> DEFINE net == Across(s.facts["right_drain"],
                         IF s.facts["left_drain"] # s.facts["right_drain"] THEN s.facts["left_drain"] ELSE "vss")
           t == AddDevice(s.topology, "C_COMP", "capacitor", "compensation", net)
           u == AddDevice(e.topology, "C_COMP", "capacitor", "compensation", net)
           updates == [compensation |-> "explicit_capacitor"]
<1>1. DualOf(s.topology, e.topology) /\ e.facts = s.facts
  BY DEF Mirrored
<1>2. CompensationCap(sp, s, r) = Rewrite(s, r, t, updates) /\ CompensationCap(dual, e, r) = Rewrite(e, r, u, updates)
  BY <1>1 DEF CompensationCap
<1> HIDE DEF net, updates
<1>3. DualOf(t, u)
  BY <1>1, DualAddCapacitor
<1> HIDE DEF t, u
<1>4. QED
  BY <1>1, <1>2, <1>3, MirroredRewrite

LEMMA BufferMirrored ==
  ASSUME NEW sp, NEW dual, Opposed(sp, dual), NEW s, NEW e, Mirrored(s, e), Railed(s.topology), NEW r,
         s.facts["right_drain"] \notin Rails
  PROVE  Mirrored(BufferedOutput(sp, s, r), BufferedOutput(dual, e, r))
<1> DEFINE raw == s.facts["right_drain"]
           k == InputKind(sp)
           m == InputKind(dual)
           bias(x) == IF x.polarity = "nmos_input" THEN Across("vout", "vss") ELSE Across("vdd", "vout")
           t1 == AddDevice(s.topology, "M_BUFFER", k, "source_follower", Mos(LoadRail(sp), raw, "vout", InputRail(sp)))
           u1 == AddDevice(e.topology, "M_BUFFER", m, "source_follower", Mos(LoadRail(dual), raw, "vout", InputRail(dual)))
           t2 == AddDevice(t1, "I_BUFFER", "current_source", "buffer_bias", bias(sp))
           u2 == AddDevice(u1, "I_BUFFER", "current_source", "buffer_bias", bias(dual))
           updates == [output_structure |-> "source_follower", stage_count |-> "2", headroom_units |-> "3"]
<1>1. DualOf(s.topology, e.topology) /\ e.facts = s.facts
  BY DEF Mirrored
<1>2. BufferedOutput(sp, s, r) = Rewrite(s, r, t2, updates) /\ BufferedOutput(dual, e, r) = Rewrite(e, r, u2, updates)
  BY <1>1 DEF BufferedOutput
<1>3. /\ OppositeRail(raw) = raw /\ OppositeRail("vout") = "vout"
      /\ OppositeRail("vdd") = "vss" /\ OppositeRail("vss") = "vdd"
  BY OppositeRailFacts DEF OppositeRail
<1>4. /\ m = Opposite(k) /\ k \in Transistors
      /\ InputRail(dual) = OppositeRail(InputRail(sp)) /\ LoadRail(dual) = OppositeRail(LoadRail(sp))
  BY FamilyFacts DEF Opposed
<1> HIDE DEF raw, k, m, updates
<1>5. DualOf(t1, u1) /\ Railed(t1)
  BY <1>1, <1>3, <1>4, DualAddMos
<1> HIDE DEF t1, u1
<1>6. DualOf(t2, u2)
  <2>1. CASE sp.polarity = "nmos_input"
    <3>1. bias(sp) = Across("vout", "vss") /\ bias(dual) = Across(OppositeRail("vss"), OppositeRail("vout"))
      BY <1>3, <2>1 DEF Opposed
    <3> HIDE DEF bias
    <3>2. QED
      BY <1>5, <3>1, DualAddSource
  <2>2. CASE sp.polarity # "nmos_input"
    <3>1. bias(sp) = Across("vdd", "vout") /\ bias(dual) = Across(OppositeRail("vout"), OppositeRail("vdd"))
      BY <1>3, <2>2 DEF Opposed
    <3> HIDE DEF bias
    <3>2. QED
      BY <1>5, <3>1, DualAddSource
  <2>3. QED
    BY <2>1, <2>2
<1> HIDE DEF t2, u2
<1>7. QED
  BY <1>1, <1>2, <1>6, MirroredRewrite

LEMMA DirectMirrored ==
  ASSUME NEW sp, NEW dual, Opposed(sp, dual), NEW s, NEW e, Mirrored(s, e), Built(s.topology), NEW r,
         s.facts["left_drain"] \notin Rails, s.facts["right_drain"] \notin Rails
  PROVE  Mirrored(DirectOutput(sp, s, r), DirectOutput(dual, e, r))
<1> DEFINE atLeft == s.facts["left_drain"]
           atRight == s.facts["right_drain"]
           t1 == RenameNet(s.topology, atLeft, "voutp")
           u1 == RenameNet(e.topology, atLeft, "voutp")
           t2 == RenameNet(t1, atRight, "voutn")
           u2 == RenameNet(u1, atRight, "voutn")
           t == RenameNet(s.topology, atRight, "vout")
           u == RenameNet(e.topology, atRight, "vout")
           pair == [left_drain |-> "voutp", right_drain |-> "voutn", output_structure |-> "differential_drains"]
           one == [left_drain |-> IF atLeft = atRight THEN "vout" ELSE atLeft, right_drain |-> "vout",
                   output_structure |-> "direct_drain"]
           both == sp.output_mode = "differential"
<1>1. DualOf(s.topology, e.topology) /\ e.facts = s.facts /\ dual.output_mode = sp.output_mode
  BY DEF Mirrored, Opposed
<1>2. /\ DirectOutput(sp, s, r) = IF both THEN Rewrite(s, r, t2, pair) ELSE Rewrite(s, r, t, one)
      /\ DirectOutput(dual, e, r) = IF both THEN Rewrite(e, r, u2, pair) ELSE Rewrite(e, r, u, one)
  BY <1>1 DEF DirectOutput
<1>3. "vout" \notin Rails /\ "voutp" \notin Rails /\ "voutn" \notin Rails /\ atLeft \notin Rails /\ atRight \notin Rails
  BY DEF Rails
<1> HIDE DEF atLeft, atRight, pair, one, both
<1>4. DualOf(t, u) /\ DualOf(t1, u1) /\ Built(t1)
  BY <1>1, <1>3, DualRename
<1> HIDE DEF t, u, t1, u1
<1>5. DualOf(t2, u2)
  BY <1>3, <1>4, DualRename
<1> HIDE DEF t2, u2
<1>6. Mirrored(Rewrite(s, r, t2, pair), Rewrite(e, r, u2, pair)) /\ Mirrored(Rewrite(s, r, t, one), Rewrite(e, r, u, one))
  BY <1>1, <1>4, <1>5, MirroredRewrite
<1>7. QED
  BY <1>2, <1>6

\* No rule finds a rail among the facts that name nets.
LEMMA WiresAreNoRails ==
  ASSUME NEW sp, NEW s, Derived(sp, s), NEW r, MayApply(sp, s, r)
  PROVE  /\ Answers(r) # "input_stage" =>
              s.facts["left_drain"] \notin Rails /\ s.facts["right_drain"] \notin Rails
         /\ Answers(r) = "tail_bias" => s.facts["tail_net"] \notin Rails
<1> DEFINE n == Len(s.trace)
<1>1. Ordered(sp, s) /\ Wired(sp, s) /\ s.obligations # <<>>
  BY DEF Derived, MayApply, Complete
<1>2. n \in Nat /\ n + 1 \in 1..Len(Plan(sp)) /\ Answers(r) = Plan(sp)[n + 1]
  <2>1. PICK c : c = [obligations |-> Tail(s.obligations), trace |-> Append(s.trace, r)]
    OBVIOUS
  <2>2. c.obligations = Tail(s.obligations) /\ c.trace = Append(s.trace, r)
    BY <2>1
  <2>3. QED
    BY <1>1, <2>2, OrderedStep
<1>3. /\ Answers(r) = "input_stage" <=> n = 0
      /\ Answers(r) = "tail_bias" => sp.input_mode = "differential"
  BY <1>2, PlanPlaces
<1>4. n > 0 => /\ {s.facts["left_drain"], s.facts["right_drain"]} \subseteq Drains
               /\ sp.input_mode = "differential" => s.facts["tail_net"] = "n_tail"
  BY <1>1 DEF Wired
<1>5. Drains \cap Rails = {} /\ "n_tail" \notin Rails
  BY DEF Drains, Rails
<1>6. Answers(r) = "tail_bias" => Answers(r) # "input_stage"
  OBVIOUS
<1> HIDE DEF n
<1>7. QED
  BY <1>2, <1>3, <1>4, <1>5, <1>6

LEMMA GraphIsBuilt ==
  ASSUME NEW sp, NEW s, Derived(sp, s), Shaped(sp, s.topology)
  PROVE  Railed(s.topology) /\ Built(s.topology)
<1> DEFINE t == s.topology
<1>1. Sound(t) /\ Shaped(sp, t)
  BY DerivedNets
<1> HIDE DEF t
<1>2. Railed(t)
  BY <1>1 DEF Sound, Shaped, PortNames, Railed, Rails
<1>3. ASSUME NEW d \in DOMAIN t.devices
      PROVE  \E k, l, n : t.devices[d] = Device(k, l, n) /\ DOMAIN n = Terminals(k)
  <2>1. PICK k, l, n : t.devices[d] = Device(k, l, n)
    BY <1>1, <1>3 DEF Shaped, Formed
  <2>2. t.devices[d].kind = k /\ t.devices[d].net = n
    BY <2>1 DEF Device
  <2>3. DOMAIN n = Terminals(k)
    BY <1>1, <1>3, <2>2 DEF Sound
  <2>4. QED
    BY <2>1, <2>3
<1>4. QED
  BY <1>2, <1>3 DEF Built, t

LEMMA ChildMirrored ==
  ASSUME NEW sp, NEW dual, Opposed(sp, dual), NEW s, NEW e, Mirrored(s, e),
         Derived(sp, s), Shaped(sp, s.topology), NEW r, MayApply(sp, s, r)
  PROVE  Mirrored(Child(sp, s, r), Child(dual, e, r))
<1>1. /\ Railed(s.topology) /\ Built(s.topology) /\ r \in Rules
      /\ Answers(r) # "input_stage" =>
           s.facts["left_drain"] \notin Rails /\ s.facts["right_drain"] \notin Rails
      /\ Answers(r) = "tail_bias" => s.facts["tail_net"] \notin Rails
  BY GraphIsBuilt, WiresAreNoRails DEF MayApply
<1>2. CASE r \in {"input.diff_pair", "input.common_source"}
  BY <1>1, <1>2, InputMirrored DEF Child
<1>3. CASE r \in {"tail.current_source", "tail.resistor"}
  <2>1. Answers(r) = "tail_bias"
    BY <1>3 DEF Answers
  <2>2. QED
    BY <1>1, <1>3, <2>1, TailMirrored DEF Child
<1>4. CASE r \in {"load.resistive", "load.active_mirror"}
  <2>1. Answers(r) = "load"
    BY <1>4 DEF Answers
  <2>2. QED
    BY <1>1, <1>4, <2>1, LoadMirrored DEF Child
<1>5. CASE r = "compensation.capacitor"
  BY <1>1, <1>5, CompensationMirrored DEF Child
<1>6. CASE r \in {"output.direct", "output.source_follower"}
  <2>1. Answers(r) = "output"
    BY <1>6 DEF Answers
  <2>2. QED
    BY <1>1, <1>6, <2>1, DirectMirrored, BufferMirrored DEF Child
<1>7. QED
  BY <1>1, <1>2, <1>3, <1>4, <1>5, <1>6 DEF Rules

\* The derivation under way, and that of the dual specification.
DualInv ==
  /\ state.trace \in Seq(Rules) /\ Shaped(spec, state.topology)
  /\ Mirrored(state, Replay(DualSpec(spec), state.trace))

LEMMA StartDevices ==
  ASSUME NEW sp PROVE Start(sp).topology.devices = [d \in {} |-> ""]
<1> DEFINE supply == AddPort(EmptyTopology, "vdd", "supply")
           rails == AddPort(supply, "vss", "ground")
           pair == AddPort(rails, "vinp", "input")
           inputs == IF sp.input_mode = "differential" THEN AddPort(pair, "vinn", "input")
                     ELSE AddPort(rails, "vin", "input")
           both == AddPort(inputs, "voutp", "output")
           outputs == IF sp.output_mode = "differential" THEN AddPort(both, "voutn", "output")
                      ELSE AddPort(inputs, "vout", "output")
<1>1. \A t, name, role : AddPort(t, name, role).devices = t.devices
  BY GraphFacts DEF AddPort
<1>2. \A t : Commit(t).devices = t.devices
  BY DEF Commit, Graph
<1>3. EmptyTopology.devices = [d \in {} |-> ""]
  BY GraphFacts DEF EmptyTopology
<1>4. Start(sp).topology = Commit(outputs)
  BY DEF Start, outputs, both, inputs, pair, rails, supply
<1> HIDE DEF outputs
<1>5. outputs.devices = inputs.devices
  <2> HIDE DEF inputs
  <2>1. both.devices = inputs.devices
    BY <1>1
  <2> HIDE DEF both
  <2>2. QED
    BY <1>1, <2>1 DEF outputs
<1>6. inputs.devices = rails.devices
  <2> HIDE DEF rails
  <2>1. pair.devices = rails.devices
    BY <1>1
  <2> HIDE DEF pair
  <2>2. QED
    BY <1>1, <2>1
<1> HIDE DEF inputs
<1>7. rails.devices = EmptyTopology.devices
  <2>1. supply.devices = EmptyTopology.devices
    BY <1>1
  <2> HIDE DEF supply
  <2>2. QED
    BY <1>1, <2>1
<1> HIDE DEF rails
<1>8. QED
  BY <1>2, <1>3, <1>4, <1>5, <1>6, <1>7

LEMMA DualStart ==
  ASSUME NEW sp, Known(sp)
  PROVE  LET s == Start(sp)
         IN  /\ s.trace \in Seq(Rules) /\ Shaped(sp, s.topology)
             /\ Mirrored(s, Replay(DualSpec(sp), s.trace))
<1> DEFINE s == Start(sp)
           dual == DualSpec(sp)
<1>1. s.trace \in Seq(Rules) /\ Len(s.trace) = 0
  <2>1. s.trace = <<>> /\ <<>> \in Seq(Rules) /\ Len(<<>>) = 0
    BY StartFacts
  <2>2. QED
    BY <2>1
<1>2. Replay(dual, s.trace) = Start(dual)
  BY <1>1, ReplayFacts
<1>3. Opposed(sp, dual)
  BY DualSpecOpposed DEF Known
<1>4. Start(dual) = s
  <2> HIDE DEF dual
  <2>1. QED
    BY <1>3 DEF Start, Opposed
<1>5. Shaped(sp, s.topology)
  BY ShapedStart
<1>6. s.topology.devices = [d \in {} |-> ""]
  BY StartDevices
<1> HIDE DEF s, dual
<1>7. DualOf(s.topology, s.topology)
  <2> DEFINE D == [d \in {} |-> ""]
  <2>1. D = [d \in DOMAIN D |-> DualDevice(D[d])]
    OBVIOUS
  <2> HIDE DEF D
  <2>2. QED
    BY <1>6, <2>1 DEF DualOf, D
<1>8. QED
  BY <1>1, <1>2, <1>4, <1>5, <1>7 DEF Mirrored, s, dual

LEMMA DualKept == BaselineInv /\ DualInv /\ [BaselineNext]_baselineVars => DualInv'
<1> SUFFICES ASSUME BaselineInv, DualInv, [BaselineNext]_baselineVars PROVE DualInv'
  OBVIOUS
<1>1. ASSUME NEW sp, Known(sp), Begin(sp) PROVE DualInv'
  BY <1>1, DualStart DEF DualInv, Begin
<1>2. ASSUME NEW r \in Rules, Derive(r) PROVE DualInv'
  <2>1. /\ Known(spec) /\ Derived(spec, state) /\ MayApply(spec, state, r)
        /\ spec' = spec /\ state' = Child(spec, state, r)
    BY <1>2 DEF BaselineInv, Derive, MayApply, Applicable
  <2>2. /\ state.trace \in Seq(Rules) /\ Shaped(spec, state.topology)
        /\ Mirrored(state, Replay(DualSpec(spec), state.trace))
    BY DEF DualInv
  <2> DEFINE c == Child(spec, state, r)
             e == Replay(DualSpec(spec), state.trace)
  <2>3. c.trace = Append(state.trace, r) /\ c.trace \in Seq(Rules)
    <3>1. Notes(state, c, r)
      BY <2>1, ChildNotes
    <3>2. QED
      BY <2>2, <3>1, AppendProperties DEF Notes
  <2>4. Replay(DualSpec(spec), c.trace) = Child(DualSpec(spec), e, r)
    BY <2>2, <2>3, ReplayFacts
  <2>5. Mirrored(c, Child(DualSpec(spec), e, r))
    BY <2>1, <2>2, ChildMirrored, DualSpecOpposed DEF Known
  <2>6. Shaped(spec, c.topology)
    BY <2>1, <2>2, ChildGrows DEF Grows
  <2> HIDE DEF c, e
  <2>7. state' = c /\ spec' = spec
    BY <2>1 DEF c
  <2>8. QED
    BY <2>3, <2>4, <2>5, <2>6, <2>7 DEF DualInv
<1>3. CASE StartReplay
  <2>1. PICK sp \in Specs : Begin(sp)
    BY <1>3 DEF StartReplay
  <2>2. Known(sp)
    BY <2>1, SpecsAssumption DEF Known
  <2>3. QED
    BY <1>1, <2>1, <2>2
<1>4. CASE StartDraw
  <2>1. PICK sp \in left : Begin(sp)
    BY <1>4 DEF StartDraw
  <2>2. Known(sp)
    BY <2>1 DEF BaselineInv
  <2>3. QED
    BY <1>1, <2>1, <2>2
<1>5. CASE ReplayRule
  BY <1>2, <1>5 DEF ReplayRule, Next
<1>6. ASSUME NEW r \in Rules, DrawRule(r) PROVE DualInv'
  BY <1>2, <1>6 DEF DrawRule
<1>7. CASE Build \/ Falsify \/ Split \/ SplitByPolarity \/ Train \/ Rebuild \/ FalsifyHeldout \/ Evaluate \/ Sample \/ RejectDraw \/ EndDraw
  BY <1>7 DEF DualInv, Build, Falsify, Split, SplitByPolarity, Train, Rebuild, FalsifyHeldout, Evaluate, Sample, RejectDraw, EndDraw, drawing
<1>8. CASE UNCHANGED baselineVars
  BY <1>8 DEF DualInv, baselineVars, drawing
<1>9. QED
  BY <1>3, <1>4, <1>5, <1>6, <1>7, <1>8 DEF BaselineNext

(***************************************************************************)
(* Replaying a derivation for the dual specification always builds the     *)
(* dual circuit, for every specification and every permitted rules.        *)
(***************************************************************************)
THEOREM PolarityDualAlways == BaselineSpec => []PolarityDual
<1>1. BaselineInit => DualInv
  <2>1. SUFFICES ASSUME BaselineInit PROVE DualInv
    OBVIOUS
  <2>2. Known(spec) /\ state = Start(spec)
    BY <2>1, BaselineStart DEF BaselineInit, BaselineInv
  <2>3. QED
    BY <2>2, DualStart DEF DualInv
<1>2. DualInv => PolarityDual
  BY DEF DualInv, PolarityDual, Mirrored, DualOf
<1>3. QED
  BY <1>1, <1>2, DualKept, BaselineAlways, PTL DEF BaselineSpec

(***************************************************************************)
(* What a whole derivation satisfies: all the final check asks for, but    *)
(* the limit on devices.                                                   *)
(***************************************************************************)
InputNames(sp) == IF sp.input_mode = "differential" THEN {"vinp", "vinn"} ELSE {"vin"}
OutputNames(sp) == IF sp.output_mode = "differential" THEN {"voutp", "voutn"} ELSE {"vout"}

\* The nets a device is on, and a net with two terminals.
Used(t) == UNION {NetsOf(t, d) : d \in DOMAIN t.devices}
Held(t, n) == \E e, f \in Endpoints(t, n) : e # f

IsPermitted(sp, device) ==
  /\ device.kind \in sp.allowed_devices
  /\ device.kind \in Transistors => device.net["d"] # device.net["s"] /\ device.net["b"] = Bulk(device.kind)

\* Whatever is cut off from the rest of the devices is nothing or everything.
Joined(t) ==
  \A X : (\A d \in DOMAIN t.devices : NetsOf(t, d) \cap X = {} \/ NetsOf(t, d) \subseteq X)
           => Used(t) \cap X = {} \/ Used(t) \subseteq X

Works(sp, t) == Sound(t) /\ Joined(t) /\ \A d \in DOMAIN t.devices : IsPermitted(sp, t.devices[d])

\* u has one more device, on the nets N.
Gains(t, u, N) ==
  /\ u.ports = t.ports /\ u.nets = t.nets \cup N /\ Used(u) = Used(t) \cup N
  /\ \A n : Held(t, n) \/ n \in Used(t) \cap N => Held(u, n)

LEMMA SameDevices ==
  ASSUME NEW t, NEW u, u.devices = t.devices
  PROVE  /\ Used(u) = Used(t) /\ \A n : Held(t, n) <=> Held(u, n)
         /\ Joined(t) <=> Joined(u)
<1>1. \A d : NetsOf(u, d) = NetsOf(t, d)
  BY DEF NetsOf
<1>2. Used(u) = Used(t)
  BY <1>1 DEF Used
<1>3. \A n : Endpoints(u, n) = Endpoints(t, n)
  BY DEF Endpoints
<1>4. QED
  BY <1>1, <1>2, <1>3 DEF Held, Joined

LEMMA EndpointIs ==
  ASSUME NEW t, Sound(t), NEW d \in DOMAIN t.devices, NEW x
  PROVE  \A n : <<d, x>> \in Endpoints(t, n) <=> x \in DOMAIN t.devices[d].net /\ t.devices[d].net[x] = n
<1>1. DOMAIN t.devices[d].net \subseteq {"d", "g", "s", "b", "p", "n"}
  BY DEF Sound, Terminals
<1>2. QED
  BY <1>1 DEF Endpoints

LEMMA WorksDevice ==
  ASSUME NEW sp, NEW t, Works(sp, t), NEW name, name \notin DOMAIN t.devices, NEW kind, NEW role, NEW net,
         DOMAIN net = Terminals(kind), IsFiniteSet(Range(net)), IsPermitted(sp, Device(kind, role, net)),
         Used(t) = {} \/ Range(net) \cap Used(t) # {}
  PROVE  LET u == AddDevice(t, name, kind, role, net)
         IN  Works(sp, u) /\ Gains(t, u, Range(net)) /\ DOMAIN u.devices = DOMAIN t.devices \cup {name}
<1> DEFINE u == AddDevice(t, name, kind, role, net)
           new == Device(kind, role, net)
<1>1. /\ Sound(u) /\ u.ports = t.ports /\ u.nets = t.nets \cup Range(net) /\ Sound(t)
      /\ DOMAIN u.devices = DOMAIN t.devices \cup {name}
  BY AddDeviceFacts DEF Works
<1>2. u.devices[name] = new /\ \A d \in DOMAIN t.devices : u.devices[d] = t.devices[d]
  <2>1. u.devices = Entered(t.devices, name, new)
    BY GraphFacts DEF AddDevice
  <2> HIDE DEF u, new
  <2>2. QED
    BY <2>1 DEF Entered
<1>3. new.net = net
  BY DEF Device
<1> HIDE DEF u, new
<1>4. NetsOf(u, name) = Range(net) /\ \A d \in DOMAIN t.devices : NetsOf(u, d) = NetsOf(t, d)
  BY <1>2, <1>3 DEF NetsOf
<1>5. Used(u) = Used(t) \cup Range(net)
  BY <1>1, <1>4 DEF Used
<1>6. Joined(u)
  <2>1. SUFFICES ASSUME NEW X, \A d \in DOMAIN u.devices : NetsOf(u, d) \cap X = {} \/ NetsOf(u, d) \subseteq X
                 PROVE  Used(u) \cap X = {} \/ Used(u) \subseteq X
    BY DEF Joined
  <2>2. \A d \in DOMAIN t.devices : NetsOf(t, d) \cap X = {} \/ NetsOf(t, d) \subseteq X
    BY <1>1, <1>4, <2>1
  <2>3. Used(t) \cap X = {} \/ Used(t) \subseteq X
    BY <2>2 DEF Works, Joined
  <2>4. Range(net) \cap X = {} \/ Range(net) \subseteq X
    BY <1>1, <1>4, <2>1
  <2>5. QED
    BY <1>5, <2>3, <2>4
<1>7. \A d \in DOMAIN u.devices : IsPermitted(sp, u.devices[d])
  BY <1>1, <1>2 DEF Works, new
<1>8. \A n, d, x : d \in DOMAIN t.devices /\ <<d, x>> \in Endpoints(t, n) => <<d, x>> \in Endpoints(u, n)
  BY <1>1, <1>2, EndpointIs
<1>9. ASSUME NEW n, Held(t, n) PROVE Held(u, n)
  <2>1. PICK e \in Endpoints(t, n), f \in Endpoints(t, n) : e # f
    BY <1>9 DEF Held
  <2>2. /\ e = <<e[1], e[2]>> /\ e[1] \in DOMAIN t.devices
        /\ f = <<f[1], f[2]>> /\ f[1] \in DOMAIN t.devices
    BY <2>1 DEF Endpoints
  <2>3. e \in Endpoints(u, n) /\ f \in Endpoints(u, n)
    BY <1>8, <2>1, <2>2
  <2>4. QED
    BY <2>1, <2>3 DEF Held
<1>10. ASSUME NEW n \in Used(t) \cap Range(net) PROVE Held(u, n)
  <2>1. PICK d \in DOMAIN t.devices : n \in Range(t.devices[d].net)
    BY <1>10 DEF Used, NetsOf
  <2>2. PICK x \in DOMAIN t.devices[d].net : t.devices[d].net[x] = n
    BY <2>1 DEF Range
  <2>3. PICK y \in DOMAIN net : net[y] = n
    BY <1>10 DEF Range
  <2>4. <<d, x>> \in Endpoints(u, n) /\ <<name, y>> \in Endpoints(u, n)
    BY <1>1, <1>2, <1>3, <2>2, <2>3, EndpointIs
  <2>5. <<d, x>> # <<name, y>>
    OBVIOUS
  <2>6. QED
    BY <2>4, <2>5 DEF Held
<1>11. QED
  BY <1>1, <1>5, <1>6, <1>7, <1>9, <1>10 DEF Works, Gains, u

LEMMA WorksMos ==
  ASSUME NEW sp, NEW t, Works(sp, t), NEW name, name \notin DOMAIN t.devices, NEW kind \in Transistors, NEW role,
         NEW d, NEW g, NEW s, NEW b, kind \in sp.allowed_devices, d # s, b = Bulk(kind),
         Used(t) = {} \/ {d, g, s, b} \cap Used(t) # {}
  PROVE  LET u == AddDevice(t, name, kind, role, Mos(d, g, s, b))
         IN  Works(sp, u) /\ Gains(t, u, {d, g, s, b}) /\ DOMAIN u.devices = DOMAIN t.devices \cup {name}
<1> DEFINE net == Mos(d, g, s, b)
           device == Device(kind, role, net)
<1>1. DOMAIN net = Terminals(kind) /\ Range(net) = {d, g, s, b} /\ IsFiniteSet(Range(net))
  BY MosFacts DEF Terminals
<1>2. net["d"] = d /\ net["s"] = s /\ net["b"] = b
  BY DEF Mos
<1>3. device.kind = kind /\ device.net = net
  BY DEF Device
<1> HIDE DEF net, device
<1>4. IsPermitted(sp, device)
  BY <1>2, <1>3 DEF IsPermitted
<1>5. QED
  BY <1>1, <1>4, WorksDevice DEF net, device

LEMMA WorksPoles ==
  ASSUME NEW sp, NEW t, Works(sp, t), NEW name, name \notin DOMAIN t.devices,
         NEW kind \in DeviceKinds \ Transistors, NEW role, NEW p, NEW n, kind \in sp.allowed_devices,
         Used(t) = {} \/ {p, n} \cap Used(t) # {}
  PROVE  LET u == AddDevice(t, name, kind, role, Across(p, n))
         IN  Works(sp, u) /\ Gains(t, u, {p, n}) /\ DOMAIN u.devices = DOMAIN t.devices \cup {name}
<1> DEFINE net == Across(p, n)
           device == Device(kind, role, net)
<1>1. DOMAIN net = Terminals(kind) /\ Range(net) = {p, n} /\ IsFiniteSet(Range(net))
  BY AcrossFacts DEF Terminals
<1>2. device.kind = kind
  BY DEF Device
<1> HIDE DEF net, device
<1>3. IsPermitted(sp, device)
  BY <1>2 DEF IsPermitted
<1>4. QED
  BY <1>1, <1>3, WorksDevice DEF net, device

LEMMA GainsTwice ==
  ASSUME NEW t, NEW u, NEW N, Gains(t, u, N), NEW v, NEW M, Gains(u, v, M)
  PROVE  Gains(t, v, N \cup M)
BY DEF Gains

\* A rule commits what it has built.
LEMMA CommitGains ==
  ASSUME NEW sp, NEW v, Works(sp, v), NEW s, NEW r, NEW updates
  PROVE  LET u == Rewrite(s, r, v, updates).topology
         IN  Works(sp, u) /\ \A t, N : Gains(t, v, N) => Gains(t, u, N)
<1> DEFINE u == Rewrite(s, r, v, updates).topology
<1>1. u = Commit(v)
  BY RewriteFacts
<1> HIDE DEF u
<1>2. Sound(u) /\ u.ports = v.ports /\ u.nets = v.nets /\ u.devices = v.devices
  BY <1>1, CommitFacts DEF Works
<1>3. Used(u) = Used(v) /\ (\A n : Held(v, n) <=> Held(u, n)) /\ (Joined(v) <=> Joined(u))
  BY <1>2, SameDevices
<1>4. QED
  BY <1>2, <1>3 DEF Works, Gains, u

LEMMA HeldIsUsed ==
  ASSUME NEW t, NEW n, Held(t, n) PROVE n \in Used(t)
<1>1. PICK e \in Endpoints(t, n) : TRUE
  BY DEF Held
<1>2. e[1] \in DOMAIN t.devices /\ e[2] \in DOMAIN t.devices[e[1]].net /\ t.devices[e[1]].net[e[2]] = n
  BY DEF Endpoints
<1>3. QED
  BY <1>2 DEF Used, NetsOf, Range

Answered(sp, s, kind) == \E i \in 1..Len(s.trace) : Plan(sp)[i] = kind

\* What is true of the graph as the obligations are answered: the input brings
\* all inner nets, the load gives the drains their second terminal and meets the
\* other rail, and nothing meets the outputs before the last rule.
Lawful(sp, s) ==
  LET t     == s.topology
      pair  == sp.input_mode = "differential"
      inner == {s.facts["left_drain"], s.facts["right_drain"]}
  IN  /\ Works(sp, t) /\ t.ports = Start(sp).topology.ports
      /\ s.obligations # <<>> => Used(t) \cap OutputNames(sp) = {}
      /\ Len(s.trace) = 0 => DOMAIN t.devices = {} /\ t.nets \subseteq PortNames(sp)
      /\ Len(s.trace) > 0 =>
           /\ t.nets \subseteq PortNames(sp) \cup inner \cup (IF pair THEN {"n_tail"} ELSE {})
           /\ InputNames(sp) \cup {InputRail(sp)} \cup inner \subseteq Used(t)
           /\ pair => Held(t, "n_tail")
      /\ Answered(sp, s, "load") => LoadRail(sp) \in Used(t) /\ \A n \in inner : Held(t, n)
      /\ Answered(sp, s, "output") => OutputNames(sp) \subseteq Used(t)
      /\ Answered(sp, s, "compensation") => Fact(s, "compensation") = "explicit_capacitor"

\* Where a derivation stands when a rule is applied.
LEMMA Standing ==
  ASSUME NEW sp, NEW s, Derived(sp, s), NEW r, MayApply(sp, s, r)
  PROVE  /\ r \in Rules /\ s.obligations # <<>> /\ Fresh(s, r) /\ Len(s.trace) \in Nat
         /\ Answers(r) = "input_stage" <=> Len(s.trace) = 0
         /\ Len(s.trace) > 0 => {s.facts["left_drain"], s.facts["right_drain"]} \subseteq Drains
         /\ Answers(r) = "tail_bias" => sp.input_mode = "differential" /\ s.facts["tail_net"] = "n_tail"
         /\ \A c : c.obligations = Tail(s.obligations) /\ c.trace = Append(s.trace, r) =>
              /\ Len(c.trace) = Len(s.trace) + 1
              /\ Answers(r) = "output" <=> c.obligations = <<>>
              /\ \A kind : Answered(sp, c, kind) <=> Answered(sp, s, kind) \/ kind = Answers(r)
<1> DEFINE n == Len(s.trace)
<1>1. Ordered(sp, s) /\ Wired(sp, s) /\ s.obligations # <<>> /\ r \in Rules /\ Fresh(s, r)
  BY StillFresh DEF Derived, MayApply, Complete
<1>2. ASSUME NEW c, c.obligations = Tail(s.obligations), c.trace = Append(s.trace, r)
      PROVE  /\ n \in Nat /\ n + 1 \in 1..Len(Plan(sp)) /\ Answers(r) = Plan(sp)[n + 1]
             /\ Len(c.trace) = n + 1 /\ (c.obligations = <<>> <=> Len(c.trace) = Len(Plan(sp)))
  <2>1. /\ n \in Nat /\ n + 1 \in 1..Len(Plan(sp)) /\ Answers(r) = Plan(sp)[n + 1]
        /\ Len(c.trace) = n + 1 /\ (Complete(c) <=> Len(c.trace) = Len(Plan(sp)))
    BY <1>1, <1>2, OrderedStep
  <2>2. QED
    BY <2>1 DEF Complete
<1>3. n \in Nat /\ n + 1 \in 1..Len(Plan(sp)) /\ Answers(r) = Plan(sp)[n + 1]
  <2>1. PICK c : c = [obligations |-> Tail(s.obligations), trace |-> Append(s.trace, r)]
    OBVIOUS
  <2>2. c.obligations = Tail(s.obligations) /\ c.trace = Append(s.trace, r)
    BY <2>1
  <2>3. QED
    BY <1>2, <2>2
<1>4. /\ Answers(r) = "input_stage" <=> n = 0
      /\ Answers(r) = "output" <=> n + 1 = Len(Plan(sp))
      /\ Answers(r) = "tail_bias" => sp.input_mode = "differential"
  BY <1>3, PlanPlaces
<1>5. n > 0 => /\ {s.facts["left_drain"], s.facts["right_drain"]} \subseteq Drains
               /\ sp.input_mode = "differential" => s.facts["tail_net"] = "n_tail"
  BY <1>1 DEF Wired
<1>6. ASSUME NEW c, c.obligations = Tail(s.obligations), c.trace = Append(s.trace, r)
      PROVE  /\ Len(c.trace) = n + 1
             /\ Answers(r) = "output" <=> c.obligations = <<>>
             /\ \A kind : Answered(sp, c, kind) <=> Answered(sp, s, kind) \/ kind = Answers(r)
  <2>1. Len(c.trace) = n + 1 /\ (c.obligations = <<>> <=> Len(c.trace) = Len(Plan(sp)))
    BY <1>2, <1>6
  <2>2. 1..(n + 1) = 1..n \cup {n + 1}
    BY <1>3
  <2> HIDE DEF n
  <2>3. \A kind : Answered(sp, c, kind) <=> (\E i \in 1..n : Plan(sp)[i] = kind) \/ kind = Plan(sp)[n + 1]
    BY <2>1, <2>2 DEF Answered
  <2>4. QED
    BY <1>3, <1>4, <2>1, <2>3 DEF Answered, n
<1>7. Answers(r) = "tail_bias" => Answers(r) # "input_stage"
  OBVIOUS
<1>8. n > 0 <=> n # 0
  BY <1>3
<1> HIDE DEF n
<1>9. Answers(r) = "tail_bias" => sp.input_mode = "differential" /\ s.facts["tail_net"] = "n_tail"
  BY <1>4, <1>5, <1>7, <1>8
<1>10. QED
  BY <1>1, <1>3, <1>4, <1>5, <1>6, <1>9 DEF n

\* What the capacitor rule notes stays.
LEMMA CapacitorNoted ==
  ASSUME NEW sp, NEW s, Derived(sp, s), NEW r, MayApply(sp, s, r), NEW c, Notes(s, c, r),
         Answers(r) = "compensation" => Fact(c, "compensation") = "explicit_capacitor",
         Answered(sp, s, "compensation") => Fact(s, "compensation") = "explicit_capacitor"
  PROVE  Answered(sp, c, "compensation") => Fact(c, "compensation") = "explicit_capacitor"
<1>1. SUFFICES ASSUME Answers(r) # "compensation", Answered(sp, c, "compensation")
               PROVE  Fact(c, "compensation") = "explicit_capacitor"
  OBVIOUS
<1>2. c.obligations = Tail(s.obligations) /\ c.trace = Append(s.trace, r)
  BY DEF Notes
<1>3. Answered(sp, s, "compensation") /\ r \in Rules
  BY <1>1, <1>2, Standing
<1>4. "compensation" \in Keys \ {Key(Answers(r))}
  <2>1. Answers(r) \in Kinds /\ "compensation" \in Kinds /\ Key("compensation") = "compensation"
    BY <1>3, KeyFacts DEF Kinds, Key
  <2>2. Key(Answers(r)) # Key("compensation")
    BY <1>1, <2>1, KeyFacts
  <2>3. QED
    BY <2>1, <2>2 DEF Keys
<1>5. /\ "compensation" \in DOMAIN c.facts => "compensation" \in DOMAIN s.facts
      /\ "compensation" \in DOMAIN s.facts => c.facts["compensation"] = s.facts["compensation"]
      /\ DOMAIN s.facts \subseteq DOMAIN c.facts
  BY <1>4 DEF Notes
<1>6. QED
  BY <1>3, <1>5 DEF Fact

\* The rules between the first and the last, and the buffer, add devices on nets
\* that are there.
LEMMA LawfulGain ==
  ASSUME NEW sp, NEW s, Derived(sp, s), Lawful(sp, s), NEW r, MayApply(sp, s, r),
         Answers(r) # "input_stage", NEW c, Notes(s, c, r), SameWires(s, c),
         NEW N, Gains(s.topology, c.topology, N), Works(sp, c.topology),
         N \subseteq {"vdd", "vss", s.facts["left_drain"], s.facts["right_drain"]}
                       \cup (IF sp.input_mode = "differential" THEN {"n_tail"} ELSE {})
                       \cup (IF Answers(r) = "output" THEN OutputNames(sp) ELSE {}),
         Answers(r) = "load" => {s.facts["left_drain"], s.facts["right_drain"], LoadRail(sp)} \subseteq N,
         Answers(r) = "output" => OutputNames(sp) \subseteq N,
         Answers(r) = "compensation" => Fact(c, "compensation") = "explicit_capacitor"
  PROVE  Lawful(sp, c)
<1> DEFINE t == s.topology
           u == c.topology
           pair == sp.input_mode = "differential"
           inner == {s.facts["left_drain"], s.facts["right_drain"]}
           tail == IF pair THEN {"n_tail"} ELSE {}
<1>1. /\ Len(s.trace) > 0 /\ inner \subseteq Drains /\ s.obligations # <<>> /\ Len(c.trace) > 0 /\ Len(c.trace) # 0
      /\ Answers(r) = "output" <=> c.obligations = <<>>
      /\ \A kind : Answered(sp, c, kind) <=> Answered(sp, s, kind) \/ kind = Answers(r)
  <2>1. /\ Len(s.trace) \in Nat /\ Len(s.trace) # 0 /\ (Len(s.trace) > 0 => inner \subseteq Drains) /\ s.obligations # <<>>
        /\ Len(c.trace) = Len(s.trace) + 1
        /\ Answers(r) = "output" <=> c.obligations = <<>>
        /\ \A kind : Answered(sp, c, kind) <=> Answered(sp, s, kind) \/ kind = Answers(r)
    <3>1. c.obligations = Tail(s.obligations) /\ c.trace = Append(s.trace, r)
      BY DEF Notes
    <3>2. /\ Len(c.trace) = Len(s.trace) + 1
          /\ Answers(r) = "output" <=> c.obligations = <<>>
          /\ \A kind : Answered(sp, c, kind) <=> Answered(sp, s, kind) \/ kind = Answers(r)
      BY <3>1, Standing
    <3>3. /\ Len(s.trace) \in Nat /\ s.obligations # <<>> /\ (Len(s.trace) = 0 <=> Answers(r) = "input_stage")
          /\ Len(s.trace) > 0 => inner \subseteq Drains
      BY Standing
    <3>4. QED
      BY <3>2, <3>3
  <2> HIDE DEF inner
  <2>2. QED
    BY <2>1
<1>2. inner = {c.facts["left_drain"], c.facts["right_drain"]}
  <2>1. {"left_drain", "right_drain"} \subseteq Wires \cap DOMAIN s.facts
    BY <1>1 DEF Derived, Wired, Wires
  <2>2. QED
    BY <2>1 DEF SameWires
<1>3. /\ Works(sp, t) /\ t.ports = Start(sp).topology.ports /\ Used(t) \cap OutputNames(sp) = {}
      /\ t.nets \subseteq PortNames(sp) \cup inner \cup tail
      /\ InputNames(sp) \cup {InputRail(sp)} \cup inner \subseteq Used(t)
      /\ pair => Held(t, "n_tail")
      /\ Answered(sp, s, "load") => LoadRail(sp) \in Used(t) /\ \A n \in inner : Held(t, n)
      /\ Answered(sp, s, "output") => OutputNames(sp) \subseteq Used(t)
      /\ Answered(sp, s, "compensation") => Fact(s, "compensation") = "explicit_capacitor"
  BY <1>1 DEF Lawful
<1>4. N \subseteq {"vdd", "vss"} \cup inner \cup tail \cup (IF Answers(r) = "output" THEN OutputNames(sp) ELSE {})
  OBVIOUS
<1>5. /\ u.ports = t.ports /\ u.nets = t.nets \cup N /\ Used(u) = Used(t) \cup N
      /\ \A n : Held(t, n) \/ n \in Used(t) \cap N => Held(u, n)
  BY DEF Gains
<1>6. Answers(r) = "load" => inner \cup {LoadRail(sp)} \subseteq N
  OBVIOUS
<1>7. {"vdd", "vss"} \cap OutputNames(sp) = {} /\ Drains \cap OutputNames(sp) = {} /\ "n_tail" \notin OutputNames(sp)
      /\ {"vdd", "vss"} \cup OutputNames(sp) \subseteq PortNames(sp)
  BY DEF OutputNames, Drains, PortNames
<1>7a. Answered(sp, c, "compensation") => Fact(c, "compensation") = "explicit_capacitor"
  BY <1>3, CapacitorNoted
<1> HIDE DEF t, u, inner, tail
<1>8. c.obligations # <<>> => Used(u) \cap OutputNames(sp) = {}
  <2>1. SUFFICES ASSUME c.obligations # <<>> PROVE N \cap OutputNames(sp) = {}
    BY <1>3, <1>5
  <2>2. N \subseteq {"vdd", "vss"} \cup inner \cup tail
    BY <1>1, <1>4, <2>1
  <2>3. tail \subseteq {"n_tail"}
    BY DEF tail
  <2>4. QED
    BY <1>1, <1>7, <2>2, <2>3
<1>9. u.nets \subseteq PortNames(sp) \cup inner \cup tail
  BY <1>3, <1>4, <1>5, <1>7
<1>10. Answered(sp, c, "load") => LoadRail(sp) \in Used(u) /\ \A n \in inner : Held(u, n)
  BY <1>1, <1>3, <1>5, <1>6
<1>11. Answered(sp, c, "output") => OutputNames(sp) \subseteq Used(u)
  BY <1>1, <1>3, <1>5
<1>12. InputNames(sp) \cup {InputRail(sp)} \cup inner \subseteq Used(u) /\ (pair => Held(u, "n_tail"))
  BY <1>3, <1>5
<1>13. QED
  BY <1>1, <1>2, <1>3, <1>5, <1>7a, <1>8, <1>9, <1>10, <1>11, <1>12 DEF Lawful, t, u, inner, tail

LEMMA BulkRails ==
  ASSUME NEW sp
  PROVE  /\ InputKind(sp) \in Transistors /\ Bulk(InputKind(sp)) = InputRail(sp)
         /\ LoadKind(sp) \in Transistors /\ Bulk(LoadKind(sp)) = LoadRail(sp)
         /\ {InputRail(sp), LoadRail(sp)} = {"vdd", "vss"}
BY DEF InputKind, LoadKind, InputRail, LoadRail, Bulk, Transistors

LEMMA AddedDevice ==
  ASSUME NEW t, NEW name, NEW kind, NEW role, NEW net
  PROVE  DOMAIN AddDevice(t, name, kind, role, net).devices = DOMAIN t.devices \cup {name}
<1> DEFINE u == AddDevice(t, name, kind, role, net)
<1>1. u.devices = Entered(t.devices, name, Device(kind, role, net))
  BY GraphFacts DEF AddDevice
<1> HIDE DEF u
<1>2. DOMAIN u.devices = DOMAIN t.devices \cup {name}
  BY <1>1 DEF Entered
<1>3. QED
  BY <1>2 DEF u

\* The rules that add devices: what they add is permitted, and touches what is used.
LEMMA TailGains ==
  ASSUME NEW sp, NEW s, Works(sp, s.topology), Owned("tail_bias") \cap DOMAIN s.topology.devices = {}, NEW r,
         InputRail(sp) \in Used(s.topology)
  PROVE  LET t == s.topology
             N == {s.facts["tail_net"], InputRail(sp)}
         IN  /\ "current_source" \in sp.allowed_devices =>
                  Works(sp, TailCurrent(sp, s, r).topology) /\ Gains(t, TailCurrent(sp, s, r).topology, N)
             /\ "resistor" \in sp.allowed_devices =>
                  Works(sp, TailResistor(sp, s, r).topology) /\ Gains(t, TailResistor(sp, s, r).topology, N)
<1> DEFINE t == s.topology
           tail == s.facts["tail_net"]
           rail == InputRail(sp)
<1>1. /\ "I_TAIL" \notin DOMAIN t.devices /\ "R_TAIL" \notin DOMAIN t.devices
      /\ "current_source" \in DeviceKinds \ Transistors /\ "resistor" \in DeviceKinds \ Transistors
  BY DEF Owned, DeviceKinds, Transistors, Passives
<1>2. ASSUME "resistor" \in sp.allowed_devices
      PROVE  Works(sp, TailResistor(sp, s, r).topology) /\ Gains(t, TailResistor(sp, s, r).topology, {tail, rail})
  <2> DEFINE v == AddDevice(t, "R_TAIL", "resistor", "tail_bias", Across(tail, rail))
  <2>1. Works(sp, v) /\ Gains(t, v, {tail, rail})
    <3>1. {tail, rail} \cap Used(t) # {}
      OBVIOUS
    <3> HIDE DEF tail, rail
    <3>2. QED
      BY <1>1, <1>2, <3>1, WorksPoles
  <2> HIDE DEF v
  <2>2. PICK updates : TailResistor(sp, s, r) = Rewrite(s, r, v, updates)
    BY Zenon DEF TailResistor, v, t, tail, rail
  <2>3. QED
    BY <2>1, <2>2, CommitGains
<1>3. ASSUME "current_source" \in sp.allowed_devices
      PROVE  Works(sp, TailCurrent(sp, s, r).topology) /\ Gains(t, TailCurrent(sp, s, r).topology, {tail, rail})
  <2> DEFINE net == IF sp.polarity = "nmos_input" THEN Across(tail, "vss") ELSE Across("vdd", tail)
             v == AddDevice(t, "I_TAIL", "current_source", "tail_bias", net)
  <2>1. net = Across(tail, rail) \/ net = Across(rail, tail)
    BY DEF InputRail
  <2>2. Works(sp, v) /\ Gains(t, v, {tail, rail})
    <3>1. {tail, rail} \cap Used(t) # {} /\ {rail, tail} = {tail, rail}
      OBVIOUS
    <3> HIDE DEF tail, rail, net
    <3>2. CASE net = Across(tail, rail)
      BY <1>1, <1>3, <3>1, <3>2, WorksPoles
    <3>3. CASE net = Across(rail, tail)
      <4>1. Works(sp, v) /\ Gains(t, v, {rail, tail})
        BY <1>1, <1>3, <3>1, <3>3, WorksPoles
      <4>2. QED
        BY <3>1, <4>1, Zenon
    <3>4. QED
      BY <2>1, <3>2, <3>3
  <2> HIDE DEF v
  <2>3. PICK updates : TailCurrent(sp, s, r) = Rewrite(s, r, v, updates)
    BY Zenon DEF TailCurrent, v, t, tail, net
  <2>4. QED
    BY <2>2, <2>3, CommitGains
<1>4. QED
  BY <1>2, <1>3

LEMMA CompensationGains ==
  ASSUME NEW sp, NEW s, Works(sp, s.topology), Owned("compensation") \cap DOMAIN s.topology.devices = {}, NEW r,
         s.facts["right_drain"] \in Used(s.topology), "capacitor" \in sp.allowed_devices
  PROVE  LET c == CompensationCap(sp, s, r)
         IN  /\ Works(sp, c.topology) /\ Fact(c, "compensation") = "explicit_capacitor"
             /\ \E N : Gains(s.topology, c.topology, N)
                       /\ N \subseteq {"vss", s.facts["left_drain"], s.facts["right_drain"]}
<1> DEFINE t == s.topology
           atLeft == s.facts["left_drain"]
           atRight == s.facts["right_drain"]
           far == IF atLeft # atRight THEN atLeft ELSE "vss"
           v == AddDevice(t, "C_COMP", "capacitor", "compensation", Across(atRight, far))
           updates == [compensation |-> "explicit_capacitor"]
           c == CompensationCap(sp, s, r)
<1>1. "C_COMP" \notin DOMAIN t.devices /\ "capacitor" \in DeviceKinds \ Transistors
  BY DEF Owned, DeviceKinds, Transistors, Passives
<1>2. Works(sp, v) /\ Gains(t, v, {atRight, far})
  <2>1. {atRight, far} \cap Used(t) # {}
    OBVIOUS
  <2> HIDE DEF atRight, far
  <2>2. QED
    BY <1>1, <2>1, WorksPoles
<1> HIDE DEF v
<1>3. c = Rewrite(s, r, v, updates)
  BY Zenon DEF CompensationCap, v
<1>4. "compensation" \in DOMAIN updates /\ updates["compensation"] = "explicit_capacitor"
  OBVIOUS
<1> HIDE DEF updates, c
<1>5. Works(sp, c.topology) /\ Gains(t, c.topology, {atRight, far})
  BY <1>2, <1>3, CommitGains
<1>6. Fact(c, "compensation") = "explicit_capacitor"
  BY <1>3, <1>4, RewriteFacts DEF Fact
<1>7. {atRight, far} \subseteq {"vss", atLeft, atRight}
  OBVIOUS
<1>8. QED
  BY <1>5, <1>6, <1>7 DEF c

LEMMA ResistiveLoadGains ==
  ASSUME NEW sp, NEW s, Works(sp, s.topology), Owned("load") \cap DOMAIN s.topology.devices = {}, NEW r,
         s.facts["left_drain"] \in Used(s.topology), s.facts["right_drain"] \in Used(s.topology),
         "resistor" \in sp.allowed_devices
  PROVE  LET u == ResistiveLoad(sp, s, r).topology
         IN  Works(sp, u) /\ Gains(s.topology, u, {LoadRail(sp), s.facts["left_drain"], s.facts["right_drain"]})
<1> DEFINE t == s.topology
           atLeft == s.facts["left_drain"]
           atRight == s.facts["right_drain"]
           rail == LoadRail(sp)
           first == AddDevice(t, "R_LOAD_1", "resistor", "load", Across(rail, atLeft))
           second == AddDevice(first, "R_LOAD_2", "resistor", "load", Across(rail, atRight))
           last == IF atLeft = atRight THEN first ELSE second
           u == ResistiveLoad(sp, s, r).topology
<1>1. /\ "R_LOAD_1" \notin DOMAIN t.devices /\ "R_LOAD_2" \notin DOMAIN t.devices \cup {"R_LOAD_1"}
      /\ "resistor" \in DeviceKinds \ Transistors /\ {rail, atLeft} \cap Used(t) # {}
  BY DEF Owned, DeviceKinds, Transistors, Passives
<1>2. PICK updates : ResistiveLoad(sp, s, r) = Rewrite(s, r, last, updates)
  BY Zenon DEF ResistiveLoad, last, first, second, atLeft, atRight, rail, t
<1> HIDE DEF atLeft, atRight, rail, second, u
<1>3. /\ Works(sp, first) /\ Gains(t, first, {rail, atLeft})
      /\ DOMAIN first.devices = DOMAIN t.devices \cup {"R_LOAD_1"}
  <2>1. Works(sp, first) /\ Gains(t, first, {rail, atLeft})
    BY <1>1, WorksPoles
  <2>2. DOMAIN first.devices = DOMAIN t.devices \cup {"R_LOAD_1"}
    BY AddedDevice
  <2>3. QED
    BY <2>1, <2>2
<1> HIDE DEF first
<1>4. {rail, atRight} \cap Used(first) # {} /\ "R_LOAD_2" \notin DOMAIN first.devices
  BY <1>1, <1>3 DEF Gains
<1>5. Works(sp, second) /\ Gains(first, second, {rail, atRight})
  BY <1>1, <1>3, <1>4, WorksPoles DEF second
<1>6. Works(sp, last) /\ Gains(t, last, {rail, atLeft, atRight})
  <2>1. Gains(t, second, {rail, atLeft} \cup {rail, atRight})
    BY <1>3, <1>5, GainsTwice
  <2>2. {rail, atLeft} \cup {rail, atRight} = {rail, atLeft, atRight} /\ (atLeft = atRight => {rail, atLeft} = {rail, atLeft, atRight})
    OBVIOUS
  <2>3. CASE atLeft = atRight
    BY <1>3, <2>2, <2>3
  <2>4. CASE atLeft # atRight
    BY <1>5, <2>1, <2>2, <2>4
  <2>5. QED
    BY <2>3, <2>4
<1> HIDE DEF last
<1>7. QED
  BY <1>2, <1>6, CommitGains DEF atLeft, atRight, rail, t

LEMMA ActiveMirrorLoadGains ==
  ASSUME NEW sp, NEW s, Works(sp, s.topology), Owned("load") \cap DOMAIN s.topology.devices = {}, NEW r,
         s.facts["left_drain"] \in Used(s.topology), s.facts["right_drain"] \in Used(s.topology),
         {s.facts["left_drain"], s.facts["right_drain"]} \cap {"vdd", "vss"} = {},
         LoadKind(sp) \in sp.allowed_devices
  PROVE  LET u == ActiveMirrorLoad(sp, s, r).topology
         IN  Works(sp, u) /\ Gains(s.topology, u, {LoadRail(sp), s.facts["left_drain"], s.facts["right_drain"]})
<1> DEFINE t == s.topology
           atLeft == s.facts["left_drain"]
           atRight == s.facts["right_drain"]
           rail == LoadRail(sp)
           kind == LoadKind(sp)
           load(v, name, role, drain) == AddDevice(v, name, kind, role, Mos(drain, atLeft, rail, rail))
           diode == load(t, "M_LOAD", "diode_load", atLeft)
           first == load(t, "M_LOAD_REF", "mirror_reference", atLeft)
           second == load(first, "M_LOAD_OUT", "mirror_output", atRight)
           last == IF atLeft = atRight THEN diode ELSE second
           u == ActiveMirrorLoad(sp, s, r).topology
<1>1. /\ "M_LOAD" \notin DOMAIN t.devices /\ "M_LOAD_REF" \notin DOMAIN t.devices
      /\ "M_LOAD_OUT" \notin DOMAIN t.devices \cup {"M_LOAD_REF"}
  BY DEF Owned
<1>2. PICK updates : ActiveMirrorLoad(sp, s, r) = Rewrite(s, r, last, updates)
  <2>1. CASE atLeft = atRight
    BY <2>1, Zenon DEF ActiveMirrorLoad
  <2>2. CASE atLeft # atRight
    BY <2>2, Zenon DEF ActiveMirrorLoad
  <2>3. QED
    BY <2>1, <2>2
<1>3. /\ kind \in Transistors /\ Bulk(kind) = rail /\ atLeft # rail /\ atRight # rail
      /\ atLeft \in Used(t) /\ atRight \in Used(t) /\ kind \in sp.allowed_devices
      /\ Works(sp, t)
      /\ {atLeft, atLeft, rail, rail} = {atLeft, rail} /\ {atRight, atLeft, rail, rail} = {atRight, atLeft, rail}
  BY BulkRails
<1> HIDE DEF t, atLeft, atRight, rail, first, second, last, diode, kind, u
<1>4. Works(sp, diode) /\ Gains(t, diode, {atLeft, rail})
  <2>1. {atLeft, atLeft, rail, rail} \cap Used(t) # {}
    BY <1>3
  <2>2. QED
    BY <1>1, <1>3, <2>1, WorksMos DEF diode
<1>5. /\ Works(sp, first) /\ Gains(t, first, {atLeft, rail})
      /\ DOMAIN first.devices = DOMAIN t.devices \cup {"M_LOAD_REF"}
  <2>1. {atLeft, atLeft, rail, rail} \cap Used(t) # {}
    BY <1>3
  <2>2. Works(sp, first) /\ Gains(t, first, {atLeft, atLeft, rail, rail})
    BY <1>1, <1>3, <2>1, WorksMos DEF first
  <2>3. DOMAIN first.devices = DOMAIN t.devices \cup {"M_LOAD_REF"}
    BY AddedDevice DEF first
  <2>4. QED
    BY <1>3, <2>2, <2>3, Zenon
<1>6. Works(sp, second) /\ Gains(first, second, {atRight, atLeft, rail})
  <2>1. {atRight, atLeft, rail, rail} \cap Used(first) # {} /\ "M_LOAD_OUT" \notin DOMAIN first.devices
    BY <1>1, <1>3, <1>5 DEF Gains
  <2>2. QED
    BY <1>3, <1>5, <2>1, WorksMos DEF second
<1>7. Works(sp, last) /\ Gains(t, last, {rail, atLeft, atRight})
  <2> USE DEF last
  <2>1. Gains(t, second, {atLeft, rail} \cup {atRight, atLeft, rail})
    BY <1>5, <1>6, GainsTwice
  <2>2. {atLeft, rail} \cup {atRight, atLeft, rail} = {rail, atLeft, atRight} /\ (atLeft = atRight => {atLeft, rail} = {rail, atLeft, atRight})
    OBVIOUS
  <2>3. CASE atLeft = atRight
    BY <1>4, <2>2, <2>3
  <2>4. CASE atLeft # atRight
    BY <1>6, <2>1, <2>2, <2>4
  <2>5. QED
    BY <2>3, <2>4
<1>8. QED
  BY <1>2, <1>7, CommitGains DEF atLeft, atRight, rail, t

LEMMA BufferedOutputGains ==
  ASSUME NEW sp, NEW s, Works(sp, s.topology), Owned("output") \cap DOMAIN s.topology.devices = {}, NEW r,
         s.facts["right_drain"] \in Used(s.topology),
         InputKind(sp) \in sp.allowed_devices, "current_source" \in sp.allowed_devices
  PROVE  LET u == BufferedOutput(sp, s, r).topology
         IN  Works(sp, u) /\ Gains(s.topology, u, {"vdd", "vss", "vout", s.facts["right_drain"]})
<1> DEFINE t == s.topology
           raw == s.facts["right_drain"]
           up == LoadRail(sp)
           down == InputRail(sp)
           kind == InputKind(sp)
           follower == AddDevice(t, "M_BUFFER", kind, "source_follower", Mos(up, raw, "vout", down))
           bias == IF sp.polarity = "nmos_input" THEN Across("vout", "vss") ELSE Across("vdd", "vout")
           last == AddDevice(follower, "I_BUFFER", "current_source", "buffer_bias", bias)
           u == BufferedOutput(sp, s, r).topology
<1>1. /\ "M_BUFFER" \notin DOMAIN t.devices /\ "I_BUFFER" \notin DOMAIN t.devices \cup {"M_BUFFER"}
      /\ "current_source" \in DeviceKinds \ Transistors
  BY DEF Owned, DeviceKinds, Transistors, Passives
<1>2. PICK updates : BufferedOutput(sp, s, r) = Rewrite(s, r, last, updates)
  BY Zenon DEF BufferedOutput
<1>3. /\ kind \in Transistors /\ Bulk(kind) = down /\ {up, down} = {"vdd", "vss"} /\ up # "vout"
      /\ kind \in sp.allowed_devices /\ raw \in Used(t) /\ Works(sp, t)
  BY BulkRails DEF LoadRail
<1>4. bias = Across("vout", down) \/ bias = Across(down, "vout")
  BY DEF InputRail
<1> HIDE DEF t, raw, up, down, kind, follower, last, bias, u
<1>5. /\ Works(sp, follower) /\ Gains(t, follower, {up, raw, "vout", down})
      /\ DOMAIN follower.devices = DOMAIN t.devices \cup {"M_BUFFER"}
  <2>1. {up, raw, "vout", down} \cap Used(t) # {}
    BY <1>3
  <2>2. Works(sp, follower) /\ Gains(t, follower, {up, raw, "vout", down})
    BY <1>1, <1>3, <2>1, WorksMos DEF follower
  <2>3. DOMAIN follower.devices = DOMAIN t.devices \cup {"M_BUFFER"}
    BY AddedDevice DEF follower
  <2>4. QED
    BY <2>2, <2>3
<1>6. Works(sp, last) /\ Gains(follower, last, {"vout", down})
  <2>1. {"vout", down} \cap Used(follower) # {} /\ "I_BUFFER" \notin DOMAIN follower.devices
        /\ {down, "vout"} = {"vout", down}
    BY <1>1, <1>5 DEF Gains
  <2>2. CASE bias = Across("vout", down)
    BY <1>1, <1>5, <2>1, <2>2, WorksPoles DEF last
  <2>3. CASE bias = Across(down, "vout")
    BY <1>1, <1>5, <2>1, <2>3, WorksPoles DEF last
  <2>4. QED
    BY <1>4, <2>2, <2>3
<1>7. Gains(t, last, {"vdd", "vss", "vout", raw})
  <2>1. Gains(t, last, {up, raw, "vout", down} \cup {"vout", down})
    BY <1>5, <1>6, GainsTwice
  <2>2. {up, raw, "vout", down} \cup {"vout", down} = {"vdd", "vss", "vout", raw}
    BY <1>3
  <2>3. QED
    BY <2>1, <2>2
<1>8. QED
  BY <1>2, <1>6, <1>7, CommitGains DEF raw, t

\* The input stage is built on a graph that has no device.
LEMMA NothingUsed ==
  ASSUME NEW sp, NEW t, Works(sp, t), DOMAIN t.devices = {}, NEW N, IsFiniteSet(N)
  PROVE  LET v == AddNets(t, N)
         IN  /\ Works(sp, v) /\ v.ports = t.ports /\ v.nets = t.nets \cup N
             /\ Used(v) = {} /\ DOMAIN v.devices = {}
<1> DEFINE v == AddNets(t, N)
<1>1. Sound(v) /\ v.ports = t.ports /\ v.devices = t.devices /\ v.nets = t.nets \cup N
  BY AddNetsFacts DEF Works
<1> HIDE DEF v
<1>2. Used(v) = Used(t) /\ (Joined(t) <=> Joined(v))
  BY <1>1, SameDevices
<1>3. Used(t) = {}
  BY DEF Used
<1>4. QED
  BY <1>1, <1>2, <1>3 DEF Works, v

LEMMA InputPairGains ==
  ASSUME NEW sp, NEW s, Works(sp, s.topology), DOMAIN s.topology.devices = {}, NEW r,
         InputKind(sp) \in sp.allowed_devices
  PROVE  LET t == s.topology
             u == InputPair(sp, s, r).topology
             N == {"n_left", "n_right", "n_tail", "vinp", "vinn", InputRail(sp)}
         IN  Works(sp, u) /\ u.ports = t.ports /\ u.nets = t.nets \cup N /\ Used(u) = N /\ Held(u, "n_tail")
<1> DEFINE t == s.topology
           rail == InputRail(sp)
           kind == InputKind(sp)
           inner == {"n_left", "n_right", "n_tail"}
           nets == AddNets(t, inner)
           first == AddDevice(nets, "M_IN_P", kind, "differential_input", Mos("n_left", "vinp", "n_tail", rail))
           last == AddDevice(first, "M_IN_N", kind, "differential_input", Mos("n_right", "vinn", "n_tail", rail))
           u == InputPair(sp, s, r).topology
<1>1. IsFiniteSet(inner)
  <2> DEFINE net == Mos("n_left", "n_right", "n_tail", "n_tail")
  <2>1. Range(net) = {"n_left", "n_right", "n_tail", "n_tail"} /\ IsFiniteSet(Range(net))
    BY MosFacts
  <2> HIDE DEF net
  <2>2. inner = Range(net)
    BY <2>1
  <2> HIDE DEF inner
  <2>3. QED
    BY <2>1, <2>2
<1>2. PICK updates : InputPair(sp, s, r) = Rewrite(s, r, last, updates)
  BY Zenon DEF InputPair
<1>3. Works(sp, t) /\ DOMAIN t.devices = {} /\ kind \in Transistors /\ Bulk(kind) = rail /\ kind \in sp.allowed_devices
  BY BulkRails
<1>4. inner = {"n_left", "n_right", "n_tail"}
  OBVIOUS
<1> HIDE DEF t, rail, kind, inner, nets, first, last, u
<1>5. /\ Works(sp, nets) /\ nets.ports = t.ports /\ nets.nets = t.nets \cup inner
      /\ Used(nets) = {} /\ DOMAIN nets.devices = {}
  BY <1>1, <1>3, NothingUsed DEF nets
<1>6. /\ Works(sp, first) /\ Gains(nets, first, {"n_left", "vinp", "n_tail", rail})
      /\ DOMAIN first.devices = {"M_IN_P"}
  <2>1. Works(sp, first) /\ Gains(nets, first, {"n_left", "vinp", "n_tail", rail})
    <3>1. "M_IN_P" \notin DOMAIN nets.devices /\ "n_left" # "n_tail"
      BY <1>5
    <3>2. QED
      BY <1>3, <1>5, <3>1, WorksMos DEF first
  <2>2. DOMAIN first.devices = DOMAIN nets.devices \cup {"M_IN_P"}
    BY AddedDevice DEF first
  <2>3. QED
    BY <1>5, <2>1, <2>2
<1>7. Works(sp, last) /\ Gains(first, last, {"n_right", "vinn", "n_tail", rail})
  <2>1. /\ {"n_right", "vinn", "n_tail", rail} \cap Used(first) # {} /\ "M_IN_N" \notin DOMAIN first.devices
        /\ "n_right" # "n_tail"
    BY <1>6 DEF Gains
  <2>2. QED
    BY <1>3, <1>6, <2>1, WorksMos DEF last
<1> DEFINE N == {"n_left", "n_right", "n_tail", "vinp", "vinn", rail}
<1>8. last.ports = t.ports /\ last.nets = t.nets \cup N /\ Used(last) = N /\ Held(last, "n_tail")
  BY <1>4, <1>5, <1>6, <1>7 DEF Gains
<1>9. u = Rewrite(s, r, last, updates).topology
  BY <1>2 DEF u
<1>10. Gains(last, u, {}) /\ Works(sp, u)
  <2>1. Gains(last, last, {})
    BY DEF Gains
  <2>2. QED
    BY <1>7, <1>9, <2>1, CommitGains
<1> HIDE DEF N
<1>11. u.ports = t.ports /\ u.nets = t.nets \cup N /\ Used(u) = N /\ Held(u, "n_tail")
  BY <1>8, <1>10 DEF Gains
<1>12. QED
  BY <1>10, <1>11 DEF t, u, N, rail

LEMMA SingleTransconductorGains ==
  ASSUME NEW sp, NEW s, Works(sp, s.topology), DOMAIN s.topology.devices = {}, NEW r,
         InputKind(sp) \in sp.allowed_devices
  PROVE  LET t == s.topology
             u == SingleTransconductor(sp, s, r).topology
             N == {"n_gain", "vin", InputRail(sp)}
         IN  Works(sp, u) /\ u.ports = t.ports /\ u.nets = t.nets \cup N /\ Used(u) = N
<1> DEFINE t == s.topology
           rail == InputRail(sp)
           kind == InputKind(sp)
           inner == {"n_gain"}
           nets == AddNets(t, inner)
           last == AddDevice(nets, "M_IN", kind, "common_source", Mos("n_gain", "vin", rail, rail))
           u == SingleTransconductor(sp, s, r).topology
<1>1. IsFiniteSet(inner)
  BY FS_Singleton
<1>2. PICK updates : SingleTransconductor(sp, s, r) = Rewrite(s, r, last, updates)
  BY Zenon DEF SingleTransconductor
<1>3. /\ Works(sp, t) /\ DOMAIN t.devices = {} /\ kind \in Transistors /\ Bulk(kind) = rail
      /\ kind \in sp.allowed_devices /\ "n_gain" # rail
  BY BulkRails DEF InputRail
<1>4. inner = {"n_gain"}
  OBVIOUS
<1> HIDE DEF t, rail, kind, inner, nets, last, u
<1>5. /\ Works(sp, nets) /\ nets.ports = t.ports /\ nets.nets = t.nets \cup inner
      /\ Used(nets) = {} /\ DOMAIN nets.devices = {}
  BY <1>1, <1>3, NothingUsed DEF nets
<1>6. Works(sp, last) /\ Gains(nets, last, {"n_gain", "vin", rail, rail})
  <2>1. "M_IN" \notin DOMAIN nets.devices
    BY <1>5
  <2>2. QED
    BY <1>3, <1>5, <2>1, WorksMos DEF last
<1> DEFINE N == {"n_gain", "vin", rail}
<1>7. last.ports = t.ports /\ last.nets = t.nets \cup N /\ Used(last) = N
  BY <1>4, <1>5, <1>6 DEF Gains
<1>8. u = Rewrite(s, r, last, updates).topology
  BY <1>2 DEF u
<1>9. Gains(last, u, {}) /\ Works(sp, u)
  <2>1. Gains(last, last, {})
    BY DEF Gains
  <2>2. QED
    BY <1>6, <1>8, <2>1, CommitGains
<1> HIDE DEF N
<1>10. u.ports = t.ports /\ u.nets = t.nets \cup N /\ Used(u) = N
  BY <1>7, <1>9 DEF Gains
<1>11. QED
  BY <1>9, <1>10 DEF t, u, N, rail

LEMMA InputLawful ==
  ASSUME NEW sp, Described(sp), NEW s, Derived(sp, s), Lawful(sp, s),
         NEW r \in {"input.diff_pair", "input.common_source"}, MayApply(sp, s, r)
  PROVE  Lawful(sp, Child(sp, s, r))
<1> DEFINE t == s.topology
           c == Child(sp, s, r)
           u == c.topology
           pair == sp.input_mode = "differential"
           inner == {c.facts["left_drain"], c.facts["right_drain"]}
           tail == IF pair THEN {"n_tail"} ELSE {}
           rail == InputRail(sp)
<1>1. Answers(r) = "input_stage" /\ Notes(s, c, r)
  <2>1. r \in Rules /\ Answers(r) = "input_stage"
    BY DEF Rules, Answers
  <2>2. QED
    BY <2>1, ChildNotes
<1>2. Len(s.trace) = 0 /\ Len(c.trace) = 1 /\ \A kind : Answered(sp, c, kind) <=> kind = "input_stage"
  <2> HIDE DEF c
  <2>1. c.obligations = Tail(s.obligations) /\ c.trace = Append(s.trace, r)
    BY <1>1 DEF Notes
  <2>2. Len(s.trace) = 0
    BY <1>1, Standing
  <2>3. /\ Len(c.trace) = Len(s.trace) + 1
        /\ \A kind : Answered(sp, c, kind) <=> Answered(sp, s, kind) \/ kind = Answers(r)
    BY <2>1, Standing
  <2>4. \A kind : ~Answered(sp, s, kind)
    BY <2>2 DEF Answered
  <2>5. QED
    BY <1>1, <2>2, <2>3, <2>4
<1>3. Works(sp, t) /\ DOMAIN t.devices = {} /\ t.nets \subseteq PortNames(sp) /\ t.ports = Start(sp).topology.ports
  BY <1>2 DEF Lawful
<1>4. InputKind(sp) \in sp.allowed_devices
  BY DEF Described, Valid
<1>5. /\ Works(sp, u) /\ u.ports = t.ports /\ u.nets = t.nets \cup inner \cup tail \cup InputNames(sp) \cup {rail}
      /\ Used(u) = inner \cup tail \cup InputNames(sp) \cup {rail} /\ (pair => Held(u, "n_tail"))
      /\ inner \subseteq Drains
  <2>1. CASE r = "input.diff_pair"
    <3>1. pair
      BY <2>1 DEF MayApply, Permits
    <3>2. c.facts["left_drain"] = "n_left" /\ c.facts["right_drain"] = "n_right"
      BY <2>1, InputNotes DEF Child
    <3> DEFINE N == {"n_left", "n_right", "n_tail", "vinp", "vinn", rail}
    <3>3. Works(sp, u) /\ u.ports = t.ports /\ u.nets = t.nets \cup N /\ Used(u) = N /\ Held(u, "n_tail")
      <4>1. u = InputPair(sp, s, r).topology
        BY <2>1 DEF Child
      <4> HIDE DEF u, c
      <4>2. QED
        BY <1>3, <1>4, <4>1, InputPairGains
    <3> HIDE DEF c, u, t, rail
    <3>4. N = inner \cup tail \cup InputNames(sp) \cup {rail}
      BY <3>1, <3>2 DEF InputNames
    <3>5. QED
      BY <3>1, <3>2, <3>3, <3>4 DEF Drains
  <2>2. CASE r = "input.common_source"
    <3>1. ~pair
      BY <2>2 DEF MayApply, Permits
    <3>2. c.facts["left_drain"] = "n_gain" /\ c.facts["right_drain"] = "n_gain"
      BY <2>2, InputNotes DEF Child
    <3> DEFINE N == {"n_gain", "vin", rail}
    <3>3. Works(sp, u) /\ u.ports = t.ports /\ u.nets = t.nets \cup N /\ Used(u) = N
      <4>1. u = SingleTransconductor(sp, s, r).topology
        BY <2>2 DEF Child
      <4> HIDE DEF u, c
      <4>2. Works(sp, u) /\ u.ports = t.ports
        BY <1>3, <1>4, <4>1, SingleTransconductorGains
      <4>3. u.nets = t.nets \cup N
        BY <1>3, <1>4, <4>1, SingleTransconductorGains
      <4>4. Used(u) = N
        BY <1>3, <1>4, <4>1, SingleTransconductorGains
      <4>5. QED
        BY <4>2, <4>3, <4>4
    <3> HIDE DEF c, u, t, rail
    <3>4. N = inner \cup tail \cup InputNames(sp) \cup {rail}
      BY <3>1, <3>2 DEF InputNames
    <3>5. QED
      BY <3>1, <3>2, <3>3, <3>4 DEF Drains
  <2>3. QED
    BY <2>1, <2>2
<1>6. /\ InputNames(sp) \cup {rail} \subseteq PortNames(sp)
      /\ (Drains \cup {"n_tail", rail} \cup InputNames(sp)) \cap OutputNames(sp) = {}
      /\ tail \subseteq {"n_tail"}
  BY DEF InputNames, OutputNames, PortNames, Drains, InputRail
<1> HIDE DEF t, u, c, rail, inner, tail
<1>7. Used(u) \cap OutputNames(sp) = {} /\ u.nets \subseteq PortNames(sp) \cup inner \cup tail
  BY <1>3, <1>5, <1>6
<1>8. InputNames(sp) \cup {rail} \cup inner \subseteq Used(u)
  BY <1>5
<1>9. QED
  BY <1>2, <1>3, <1>5, <1>7, <1>8 DEF Lawful, c, u, rail, inner, tail

\* A net that is renamed takes its terminals along.
Renamed(n, old, new) == IF n = old THEN new ELSE n
Renames(t, u, old, new) ==
  /\ u.ports = t.ports /\ u.nets = (t.nets \ {old}) \cup {new}
  /\ Used(u) = {Renamed(n, old, new) : n \in Used(t)}
  /\ \A n : Held(t, n) => Held(u, Renamed(n, old, new))

LEMMA WorksRename ==
  ASSUME NEW sp, NEW t, Works(sp, t), NEW old \in t.nets, old \notin DOMAIN t.ports, old \notin {"vdd", "vss"},
         NEW new, new \notin Used(t)
  PROVE  Works(sp, RenameNet(t, old, new)) /\ Renames(t, RenameNet(t, old, new), old, new)
<1> DEFINE u == RenameNet(t, old, new)
           R(n) == Renamed(n, old, new)
<1>1. /\ Sound(t) /\ Sound(u) /\ u.ports = t.ports /\ u.nets = (t.nets \ {old}) \cup {new}
      /\ DOMAIN u.devices = DOMAIN t.devices
      /\ \A d \in DOMAIN t.devices : u.devices[d] = Rewired(t.devices[d], old, new)
  BY RenameNetFacts DEF Works
<1> HIDE DEF u
<1>2. ASSUME NEW d \in DOMAIN t.devices
      PROVE  /\ u.devices[d].kind = t.devices[d].kind /\ DOMAIN u.devices[d].net = DOMAIN t.devices[d].net
             /\ \A x \in DOMAIN t.devices[d].net : u.devices[d].net[x] = R(t.devices[d].net[x])
  BY <1>1, RewiredFacts DEF Renamed
<1> HIDE DEF R
<1>3. ASSUME NEW d \in DOMAIN t.devices PROVE NetsOf(u, d) = {R(n) : n \in NetsOf(t, d)}
  BY <1>2 DEF NetsOf, Range
<1>4. Used(u) = {R(n) : n \in Used(t)}
  BY <1>1, <1>3 DEF Used
<1>5. Joined(u)
  <2>1. SUFFICES ASSUME NEW X, \A d \in DOMAIN u.devices : NetsOf(u, d) \cap X = {} \/ NetsOf(u, d) \subseteq X
                 PROVE  Used(u) \cap X = {} \/ Used(u) \subseteq X
    BY DEF Joined
  <2> DEFINE Y == {n \in Used(t) : R(n) \in X}
  <2>2. \A d \in DOMAIN t.devices : NetsOf(t, d) \subseteq Used(t)
    BY DEF Used
  <2>3. ASSUME NEW d \in DOMAIN t.devices PROVE NetsOf(t, d) \cap Y = {} \/ NetsOf(t, d) \subseteq Y
    <3>1. NetsOf(u, d) \cap X = {} \/ NetsOf(u, d) \subseteq X
      BY <1>1, <2>1
    <3>2. QED
      BY <1>3, <2>2, <3>1
  <2>4. Used(t) \cap Y = {} \/ Used(t) \subseteq Y
    <3> HIDE DEF Y
    <3>1. QED
      BY <2>3 DEF Works, Joined
  <2>5. QED
    BY <1>4, <2>4
<1>6. ASSUME NEW d \in DOMAIN u.devices PROVE IsPermitted(sp, u.devices[d])
  <2>1. d \in DOMAIN t.devices /\ IsPermitted(sp, t.devices[d])
    BY <1>1 DEF Works
  <2>2. u.devices[d].kind = t.devices[d].kind /\ t.devices[d].kind \in sp.allowed_devices
    BY <1>2, <2>1 DEF IsPermitted
  <2>3. ASSUME t.devices[d].kind \in Transistors
        PROVE  u.devices[d].net["d"] # u.devices[d].net["s"] /\ u.devices[d].net["b"] = Bulk(u.devices[d].kind)
    <3>1. {"d", "s", "b"} \subseteq DOMAIN t.devices[d].net
      BY <1>1, <2>1, <2>3 DEF Sound, Terminals
    <3>2. /\ u.devices[d].net["d"] = R(t.devices[d].net["d"]) /\ u.devices[d].net["s"] = R(t.devices[d].net["s"])
          /\ u.devices[d].net["b"] = R(t.devices[d].net["b"])
      BY <1>2, <2>1, <3>1
    <3>3. /\ t.devices[d].net["d"] # t.devices[d].net["s"] /\ t.devices[d].net["b"] = Bulk(t.devices[d].kind)
      BY <2>1, <2>3 DEF IsPermitted
    <3>4. t.devices[d].net["d"] \in Used(t) /\ t.devices[d].net["s"] \in Used(t)
      BY <2>1, <3>1 DEF Used, NetsOf, Range
    <3>5. Bulk(t.devices[d].kind) # old
      BY DEF Bulk
    <3>6. R(t.devices[d].net["b"]) = t.devices[d].net["b"]
      BY <3>3, <3>5 DEF R, Renamed
    <3>7. R(t.devices[d].net["d"]) # R(t.devices[d].net["s"])
      BY <3>3, <3>4 DEF R, Renamed
    <3>8. QED
      BY <2>2, <3>2, <3>3, <3>6, <3>7
  <2>4. QED
    BY <2>2, <2>3 DEF IsPermitted
<1>7. ASSUME NEW n, Held(t, n) PROVE Held(u, R(n))
  <2>1. PICK e \in Endpoints(t, n), f \in Endpoints(t, n) : e # f
    BY <1>7 DEF Held
  <2>2. \A e1 \in Endpoints(t, n) : /\ e1 = <<e1[1], e1[2]>> /\ e1[1] \in DOMAIN t.devices
                                    /\ e1[2] \in DOMAIN t.devices[e1[1]].net
                                    /\ t.devices[e1[1]].net[e1[2]] = n
    BY DEF Endpoints
  <2>3. \A e1 \in Endpoints(t, n) : e1[1] \in DOMAIN u.devices /\ e1[2] \in DOMAIN u.devices[e1[1]].net
                                    /\ u.devices[e1[1]].net[e1[2]] = R(n)
    BY <1>1, <1>2, <2>2
  <2>4. \A e1 \in Endpoints(t, n) : <<e1[1], e1[2]>> \in Endpoints(u, R(n))
    BY <1>1, <2>3, EndpointIs
  <2>5. e \in Endpoints(u, R(n)) /\ f \in Endpoints(u, R(n))
    BY <2>1, <2>2, <2>4
  <2>6. QED
    BY <2>1, <2>5 DEF Held
<1>8. QED
  BY <1>1, <1>4, <1>5, <1>6, <1>7 DEF Works, Renames, u, R

\* The direct output renames the drains to the output ports.
Outward(sp, atLeft, atRight, n) ==
  IF sp.output_mode = "differential" /\ n = atLeft THEN "voutp"
  ELSE IF n = atRight THEN IF sp.output_mode = "differential" THEN "voutn" ELSE "vout" ELSE n
Redraws(sp, t, u, atLeft, atRight) ==
  /\ u.ports = t.ports
  /\ u.nets \subseteq {Outward(sp, atLeft, atRight, n) : n \in t.nets}
  /\ Used(u) = {Outward(sp, atLeft, atRight, n) : n \in Used(t)}
  /\ \A n : Held(t, n) => Held(u, Outward(sp, atLeft, atRight, n))

LEMMA DirectGains ==
  ASSUME NEW sp, NEW s, NEW r, Works(sp, s.topology),
         NEW atLeft, atLeft = s.facts["left_drain"], NEW atRight, atRight = s.facts["right_drain"],
         {atLeft, atRight} \subseteq Drains, {atLeft, atRight} \subseteq Used(s.topology),
         DOMAIN s.topology.ports \cap Drains = {}, Used(s.topology) \cap OutputNames(sp) = {},
         sp.output_mode = "differential" => atLeft # atRight
  PROVE  LET u == DirectOutput(sp, s, r).topology
         IN  Works(sp, u) /\ Redraws(sp, s.topology, u, atLeft, atRight)
<1> DEFINE t == s.topology
           u == DirectOutput(sp, s, r).topology
           paired == sp.output_mode = "differential"
           To(n) == Outward(sp, atLeft, atRight, n)
<1>1. Sound(t) /\ Used(t) \subseteq t.nets
  BY DEF Works, Used, Sound
<1>2. CASE paired
  <2> DEFINE v == RenameNet(t, atLeft, "voutp")
             w == RenameNet(v, atRight, "voutn")
  <2>1. /\ atLeft # atRight /\ {"voutp", "voutn"} \cap Used(t) = {}
        /\ {atLeft, atRight} \cap {"vdd", "vss", "voutp", "voutn"} = {}
        /\ atLeft \in t.nets /\ atRight \in t.nets /\ atLeft \notin DOMAIN t.ports /\ atRight \notin DOMAIN t.ports
    BY <1>1, <1>2 DEF OutputNames, Drains
  <2>2. Works(sp, v) /\ Renames(t, v, atLeft, "voutp")
    BY <2>1, WorksRename
  <2> HIDE DEF v
  <2>3. atRight \in v.nets /\ atRight \notin DOMAIN v.ports /\ "voutn" \notin Used(v)
    BY <2>1, <2>2 DEF Renames, Renamed
  <2>4. Works(sp, w) /\ Renames(v, w, atRight, "voutn")
    BY <2>1, <2>2, <2>3, WorksRename
  <2> HIDE DEF w
  <2>5. PICK updates : DirectOutput(sp, s, r) = Rewrite(s, r, w, updates)
    BY <1>2, Zenon DEF DirectOutput, w, v, t
  <2>6. \A n : Renamed(Renamed(n, atLeft, "voutp"), atRight, "voutn") = To(n)
    BY <1>2, <2>1 DEF Renamed, Outward
  <2> HIDE DEF t, u, paired, To
  <2>7. Used(w) = {To(n) : n \in Used(t)} /\ \A n : Held(t, n) => Held(w, To(n))
    BY <2>2, <2>4, <2>6 DEF Renames
  <2>8. w.nets \subseteq {To(n) : n \in t.nets}
    BY <1>2, <2>1, <2>2, <2>4 DEF Renames, Outward, To, paired
  <2>9. Works(sp, u) /\ Gains(w, u, {})
    <3>1. Gains(w, w, {})
      BY DEF Gains
    <3>2. QED
      BY <2>4, <2>5, <3>1, CommitGains DEF u
  <2>10. /\ Works(sp, u) /\ u.ports = t.ports
         /\ u.nets \subseteq {To(n) : n \in t.nets} /\ Used(u) = {To(n) : n \in Used(t)}
         /\ \A n : Held(t, n) => Held(u, To(n))
    <3>1. QED
      BY <2>2, <2>4, <2>7, <2>8, <2>9 DEF Gains, Renames
  <2>11. QED
    BY <2>10 DEF Redraws, t, u, To
<1>3. CASE ~paired
  <2> DEFINE w == RenameNet(t, atRight, "vout")
  <2>1. /\ "vout" \notin Used(t) /\ atRight \notin {"vdd", "vss"}
        /\ atRight \in t.nets /\ atRight \notin DOMAIN t.ports
    BY <1>1, <1>3 DEF OutputNames, Drains
  <2>2. Works(sp, w) /\ Renames(t, w, atRight, "vout")
    BY <2>1, WorksRename
  <2> HIDE DEF w
  <2>3. PICK updates : DirectOutput(sp, s, r) = Rewrite(s, r, w, updates)
    BY <1>3, Zenon DEF DirectOutput, w, t
  <2>4. \A n : Renamed(n, atRight, "vout") = To(n)
    BY <1>3 DEF Renamed, Outward
  <2> HIDE DEF t, u, paired, To
  <2>5. Used(w) = {To(n) : n \in Used(t)} /\ \A n : Held(t, n) => Held(w, To(n))
    BY <2>2, <2>4 DEF Renames
  <2>6. w.nets \subseteq {To(n) : n \in t.nets}
    BY <1>3, <2>1, <2>2 DEF Renames, Outward, To, paired
  <2>7. Works(sp, u) /\ Gains(w, u, {})
    <3>1. Gains(w, w, {})
      BY DEF Gains
    <3>2. QED
      BY <2>2, <2>3, <3>1, CommitGains DEF u
  <2>8. /\ Works(sp, u) /\ u.ports = t.ports
        /\ u.nets \subseteq {To(n) : n \in t.nets} /\ Used(u) = {To(n) : n \in Used(t)}
        /\ \A n : Held(t, n) => Held(u, To(n))
    <3>1. QED
      BY <2>2, <2>5, <2>6, <2>7 DEF Gains, Renames
  <2>9. QED
    BY <2>8 DEF Redraws, t, u, To
<1>4. QED
  BY <1>2, <1>3

LEMMA DirectLawful ==
  ASSUME NEW sp, Described(sp), NEW s, Derived(sp, s), Lawful(sp, s), NEW r, r = "output.direct", MayApply(sp, s, r)
  PROVE  Lawful(sp, Child(sp, s, r))
<1> DEFINE t == s.topology
           c == Child(sp, s, r)
           u == c.topology
           pair == sp.input_mode = "differential"
           paired == sp.output_mode = "differential"
           atLeft == s.facts["left_drain"]
           atRight == s.facts["right_drain"]
           inner == {atLeft, atRight}
           outer == {c.facts["left_drain"], c.facts["right_drain"]}
           tail == IF pair THEN {"n_tail"} ELSE {}
           To(n) == Outward(sp, atLeft, atRight, n)
<1>1. c = DirectOutput(sp, s, r) /\ Answers(r) = "output" /\ r \in Rules
  BY DEF Child, Answers, Rules
<1>2. Notes(s, c, r) /\ c.obligations = Tail(s.obligations) /\ c.trace = Append(s.trace, r)
  BY <1>1, ChildNotes DEF Notes
<1>3. /\ Len(s.trace) > 0 /\ inner \subseteq Drains /\ s.obligations # <<>>
      /\ Len(c.trace) > 0 /\ Len(c.trace) # 0 /\ c.obligations = <<>>
      /\ \A kind : Answered(sp, c, kind) <=> Answered(sp, s, kind) \/ kind = "output"
  <2> HIDE DEF c
  <2>1. Len(c.trace) = Len(s.trace) + 1
    BY <1>2, Standing
  <2>2. Answers(r) = "output" <=> c.obligations = <<>>
    BY <1>2, Standing
  <2>3. \A kind : Answered(sp, c, kind) <=> Answered(sp, s, kind) \/ kind = Answers(r)
    BY <1>2, Standing
  <2>4. /\ Len(s.trace) \in Nat /\ s.obligations # <<>> /\ (Len(s.trace) = 0 <=> Answers(r) = "input_stage")
        /\ Len(s.trace) > 0 => inner \subseteq Drains
    BY Standing
  <2>5. QED
    BY <1>1, <2>1, <2>2, <2>3, <2>4
<1>4. /\ Works(sp, t) /\ t.ports = Start(sp).topology.ports /\ Used(t) \cap OutputNames(sp) = {}
      /\ t.nets \subseteq PortNames(sp) \cup inner \cup tail
      /\ InputNames(sp) \cup {InputRail(sp)} \cup inner \subseteq Used(t)
      /\ pair => Held(t, "n_tail")
      /\ Answered(sp, s, "load") => LoadRail(sp) \in Used(t) /\ \A n \in inner : Held(t, n)
      /\ Answered(sp, s, "compensation") => Fact(s, "compensation") = "explicit_capacitor"
  BY <1>3 DEF Lawful
<1>5. paired => atLeft # atRight
  <2>1. paired => pair
    BY DEF Described, Valid
  <2>2. pair => atLeft # atRight
    BY <1>3 DEF Derived, Wired
  <2>3. QED
    BY <2>1, <2>2
<1>6. DOMAIN t.ports \cap Drains = {}
  BY DEF Derived, Furnished
<1>7. /\ Works(sp, u) /\ u.ports = t.ports
      /\ u.nets \subseteq {To(n) : n \in t.nets} /\ Used(u) = {To(n) : n \in Used(t)}
      /\ \A n : Held(t, n) => Held(u, To(n))
  <2>1. inner \subseteq Used(t)
    BY <1>4
  <2> HIDE DEF c
  <2>2. Works(sp, u) /\ Redraws(sp, t, u, atLeft, atRight)
    BY <1>1, <1>3, <1>4, <1>5, <1>6, <2>1, DirectGains
  <2>3. QED
    BY <2>2 DEF Redraws
<1>8. /\ c.facts["left_drain"] = To(atLeft) /\ c.facts["right_drain"] = To(atRight)
  <2>1. /\ c.facts["right_drain"] = IF paired THEN "voutn" ELSE "vout"
        /\ c.facts["left_drain"] = IF paired THEN "voutp" ELSE IF atLeft = atRight THEN "vout" ELSE atLeft
    BY <1>1, DirectOutputNotes
  <2> HIDE DEF c, atLeft, atRight
  <2>2. QED
    BY <1>5, <2>1 DEF Outward
<1>9. Answered(sp, c, "compensation") => Fact(c, "compensation") = "explicit_capacitor"
  <2> HIDE DEF c
  <2>1. Answers(r) # "compensation"
    BY <1>1
  <2>2. QED
    BY <1>2, <1>4, <2>1, CapacitorNoted
<1>10. /\ Drains \cap (InputNames(sp) \cup {"vdd", "vss", "n_tail"}) = {} /\ OutputNames(sp) \subseteq PortNames(sp)
       /\ InputRail(sp) \in {"vdd", "vss"} /\ LoadRail(sp) \in {"vdd", "vss"}
       /\ OutputNames(sp) = IF paired THEN {"voutp", "voutn"} ELSE {"vout"}
  BY DEF Drains, InputNames, OutputNames, PortNames, InputRail, LoadRail
<1>11. /\ \A n : n \notin Drains => To(n) = n
       /\ \A n : To(n) = n \/ To(n) \in OutputNames(sp)
       /\ \A n \in OutputNames(sp) : \E m \in inner : To(m) = n
  <2> HIDE DEF atLeft, atRight
  <2>1. QED
    BY <1>3, <1>5, <1>10 DEF Outward
<1>12. outer = {To(n) : n \in inner}
  BY <1>8
<1> HIDE DEF t, u, c, To, atLeft, atRight, inner, outer, pair, paired
<1>13. \A n \in Used(t) : n \notin Drains => n \in Used(u)
  BY <1>7, <1>11
<1>14. /\ InputNames(sp) \cup {InputRail(sp)} \subseteq Used(u)
       /\ LoadRail(sp) \in Used(t) => LoadRail(sp) \in Used(u)
  BY <1>4, <1>10, <1>13
<1>15. outer \subseteq Used(u) /\ OutputNames(sp) \subseteq Used(u)
  BY <1>4, <1>7, <1>11, <1>12
<1>16. pair => Held(u, "n_tail")
  BY <1>4, <1>7, <1>10, <1>11
<1>17. Answered(sp, c, "load") => LoadRail(sp) \in Used(u) /\ \A n \in outer : Held(u, n)
  BY <1>3, <1>4, <1>7, <1>12, <1>14
<1>18. u.nets \subseteq PortNames(sp) \cup outer \cup tail
  <2>1. SUFFICES ASSUME NEW n \in t.nets PROVE To(n) \in PortNames(sp) \cup outer \cup tail
    BY <1>7
  <2>2. CASE n \in PortNames(sp)
    BY <1>10, <1>11, <2>2
  <2>3. CASE n \in inner
    BY <1>12, <2>3
  <2>4. CASE n \in tail
    BY <1>10, <1>11, <2>4
  <2>5. QED
    BY <1>4, <2>2, <2>3, <2>4
<1>19. Lawful(sp, c)
  BY <1>3, <1>4, <1>7, <1>9, <1>14, <1>15, <1>16, <1>17, <1>18 DEF Lawful, u, outer, tail, pair
<1>20. QED
  BY <1>19 DEF c

LEMMA ChildLawful ==
  ASSUME NEW sp, Described(sp), NEW s, Derived(sp, s), Lawful(sp, s), NEW r, MayApply(sp, s, r)
  PROVE  Lawful(sp, Child(sp, s, r))
<1> DEFINE t == s.topology
           c == Child(sp, s, r)
           atLeft == s.facts["left_drain"]
           atRight == s.facts["right_drain"]
           inner == {atLeft, atRight}
           pair == sp.input_mode = "differential"
           known == {"vdd", "vss", atLeft, atRight} \cup (IF pair THEN {"n_tail"} ELSE {})
                      \cup (IF Answers(r) = "output" THEN OutputNames(sp) ELSE {})
<1>1. /\ r \in Rules /\ Fresh(s, r) /\ Permits(sp, s, r) /\ InputKind(sp) \in sp.allowed_devices
      /\ Answers(r) # "input_stage" => Len(s.trace) > 0
      /\ Len(s.trace) > 0 => inner \subseteq Drains
      /\ Answers(r) = "tail_bias" => pair /\ s.facts["tail_net"] = "n_tail"
  <2>1. /\ r \in Rules /\ Fresh(s, r) /\ Len(s.trace) \in Nat /\ (Answers(r) = "input_stage" <=> Len(s.trace) = 0)
        /\ Len(s.trace) > 0 => inner \subseteq Drains
    BY Standing
  <2>2. Answers(r) = "tail_bias" => pair /\ s.facts["tail_net"] = "n_tail"
    BY Standing
  <2>3. Permits(sp, s, r) /\ InputKind(sp) \in sp.allowed_devices
    BY DEF MayApply, Described, Valid
  <2> HIDE DEF inner
  <2>4. QED
    BY <2>1, <2>2, <2>3
<1>2. /\ Works(sp, t)
      /\ Len(s.trace) > 0 => InputRail(sp) \in Used(t) /\ atLeft \in Used(t) /\ atRight \in Used(t)
  BY DEF Lawful
<1>3. Notes(s, c, r) /\ (r \notin {"input.diff_pair", "input.common_source", "output.direct"} => SameWires(s, c))
  BY <1>1, ChildNotes
<1>4. InputRail(sp) \in {"vdd", "vss"} /\ LoadRail(sp) \in {"vdd", "vss"} /\ Drains \cap {"vdd", "vss"} = {}
  BY DEF InputRail, LoadRail, Drains
<1> HIDE DEF c
<1>5. ASSUME Answers(r) # "input_stage", r # "output.direct",
             NEW N, Works(sp, c.topology), Gains(t, c.topology, N), N \subseteq known,
             Answers(r) = "load" => {atLeft, atRight, LoadRail(sp)} \subseteq N,
             Answers(r) = "output" => OutputNames(sp) \subseteq N,
             Answers(r) = "compensation" => Fact(c, "compensation") = "explicit_capacitor"
      PROVE  Lawful(sp, c)
  <2>1. SameWires(s, c)
    BY <1>3, <1>5 DEF Answers
  <2>2. QED
    BY <1>3, <1>5, <2>1, LawfulGain
<1>6. CASE r \in {"input.diff_pair", "input.common_source"}
  BY <1>6, InputLawful DEF c
<1>7. CASE r = "output.direct"
  BY <1>7, DirectLawful DEF c
<1>8. CASE r \in {"tail.current_source", "tail.resistor"}
  <2>1. Answers(r) = "tail_bias"
    BY <1>8 DEF Answers
  <2>2. Owned("tail_bias") \cap DOMAIN t.devices = {}
    BY <1>1, <2>1 DEF Fresh
  <2> DEFINE N == {s.facts["tail_net"], InputRail(sp)}
  <2>3. Works(sp, c.topology) /\ Gains(t, c.topology, N)
    <3>1. CASE r = "tail.current_source"
      <4>1. c = TailCurrent(sp, s, r) /\ "current_source" \in sp.allowed_devices
        BY <1>1, <3>1 DEF c, Child, Permits
      <4>2. QED
        BY <1>1, <1>2, <2>1, <2>2, <4>1, TailGains
    <3>2. CASE r = "tail.resistor"
      <4>1. c = TailResistor(sp, s, r) /\ "resistor" \in sp.allowed_devices
        BY <1>1, <3>2 DEF c, Child, Permits, ResistorTailAllowed
      <4>2. QED
        BY <1>1, <1>2, <2>1, <2>2, <4>1, TailGains
    <3>3. QED
      BY <1>8, <3>1, <3>2
  <2>4. N \subseteq known
    BY <1>1, <1>4, <2>1
  <2> HIDE DEF N, known
  <2>5. Lawful(sp, c)
    BY <1>5, <1>8, <2>1, <2>3, <2>4
  <2>6. QED
    BY <2>5 DEF c
<1>9. CASE r \in {"load.resistive", "load.active_mirror"}
  <2>1. Answers(r) = "load"
    BY <1>9 DEF Answers
  <2>2. Owned("load") \cap DOMAIN t.devices = {} /\ atLeft \in Used(t) /\ atRight \in Used(t)
        /\ {atLeft, atRight} \cap {"vdd", "vss"} = {}
    BY <1>1, <1>2, <1>4, <2>1 DEF Fresh
  <2> DEFINE N == {LoadRail(sp), atLeft, atRight}
  <2>3. Works(sp, c.topology) /\ Gains(t, c.topology, N)
    <3>1. CASE r = "load.resistive"
      <4>1. c = ResistiveLoad(sp, s, r) /\ "resistor" \in sp.allowed_devices
        BY <1>1, <3>1 DEF c, Child, Permits, ResistiveAllowed
      <4>2. QED
        BY <1>2, <2>2, <4>1, ResistiveLoadGains
    <3>2. CASE r = "load.active_mirror"
      <4>1. c = ActiveMirrorLoad(sp, s, r) /\ LoadKind(sp) \in sp.allowed_devices
        BY <1>1, <3>2 DEF c, Child, Permits, ActiveAllowed
      <4>2. QED
        BY <1>2, <2>2, <4>1, ActiveMirrorLoadGains
    <3>3. QED
      BY <1>9, <3>1, <3>2
  <2>4. N \subseteq known /\ {atLeft, atRight, LoadRail(sp)} \subseteq N
    BY <1>4
  <2> HIDE DEF N, known
  <2>5. Lawful(sp, c)
    BY <1>5, <1>9, <2>1, <2>3, <2>4
  <2>6. QED
    BY <2>5 DEF c
<1>10. CASE r = "compensation.capacitor"
  <2>1. Answers(r) = "compensation"
    BY <1>10 DEF Answers
  <2>2. Owned("compensation") \cap DOMAIN t.devices = {} /\ atRight \in Used(t)
    BY <1>1, <1>2, <2>1 DEF Fresh
  <2>3. c = CompensationCap(sp, s, r) /\ "capacitor" \in sp.allowed_devices
    BY <1>1, <1>10 DEF c, Child, Permits
  <2>4. /\ Works(sp, c.topology) /\ Fact(c, "compensation") = "explicit_capacitor"
        /\ \E N : Gains(t, c.topology, N) /\ N \subseteq {"vss", atLeft, atRight}
    BY <1>2, <2>2, <2>3, CompensationGains
  <2>5. PICK N : Gains(t, c.topology, N) /\ N \subseteq {"vss", atLeft, atRight}
    BY <2>4
  <2>6. N \subseteq known
    BY <2>5
  <2> HIDE DEF known
  <2>7. Lawful(sp, c)
    BY <1>5, <1>10, <2>1, <2>4, <2>5, <2>6
  <2>8. QED
    BY <2>7 DEF c
<1>11. CASE r = "output.source_follower"
  <2>1. Answers(r) = "output"
    BY <1>11 DEF Answers
  <2>2. Owned("output") \cap DOMAIN t.devices = {} /\ atRight \in Used(t)
    BY <1>1, <1>2, <2>1 DEF Fresh
  <2>3. c = BufferedOutput(sp, s, r) /\ "current_source" \in sp.allowed_devices /\ OutputNames(sp) = {"vout"}
    BY <1>1, <1>11 DEF c, Child, Permits, BufferAllowed, OutputNames
  <2> DEFINE N == {"vdd", "vss", "vout", atRight}
  <2>4. Works(sp, c.topology) /\ Gains(t, c.topology, N)
    BY <1>1, <1>2, <2>2, <2>3, BufferedOutputGains
  <2>5. N \subseteq known /\ OutputNames(sp) \subseteq N
    BY <2>1, <2>3
  <2> HIDE DEF N, known
  <2>6. Lawful(sp, c)
    BY <1>5, <1>11, <2>1, <2>4, <2>5
  <2>7. QED
    BY <2>6 DEF c
<1>12. QED
  BY <1>1, <1>6, <1>7, <1>8, <1>9, <1>10, <1>11 DEF Rules, c

\* The ports of the first state.
Ported(t, P, I, O) ==
  /\ Sound(t) /\ DOMAIN t.devices = {} /\ DOMAIN t.ports = P /\ t.nets \subseteq P
  /\ Ports(t, "input") = I /\ Ports(t, "output") = O

LEMMA PortedPort ==
  ASSUME NEW t, NEW P, NEW I, NEW O, Ported(t, P, I, O), NEW name, name \notin P, NEW role
  PROVE  LET u == AddPort(t, name, role)
         IN  /\ role = "input" => Ported(u, P \cup {name}, I \cup {name}, O)
             /\ role = "output" => Ported(u, P \cup {name}, I, O \cup {name})
             /\ role \notin {"input", "output"} => Ported(u, P \cup {name}, I, O)
<1> DEFINE u == AddPort(t, name, role)
<1>1. /\ Sound(u) /\ u.devices = t.devices /\ u.nets = t.nets \cup {name}
      /\ u.ports = Entered(t.ports, name, role) /\ DOMAIN u.ports = DOMAIN t.ports \cup {name}
  BY AddPortFacts DEF Ported
<1>2. u.ports[name] = role /\ \A p \in DOMAIN t.ports \ {name} : u.ports[p] = t.ports[p]
  <2> HIDE DEF u
  <2>1. QED
    BY <1>1 DEF Entered
<1> HIDE DEF u
<1>3. \A w : Ports(u, w) = IF role = w THEN Ports(t, w) \cup {name} ELSE Ports(t, w)
  BY <1>1, <1>2 DEF Ports, Ported
<1>4. QED
  BY <1>1, <1>3 DEF Ported, u

LEMMA StartPorts ==
  ASSUME NEW sp
  PROVE  Ported(Start(sp).topology, PortNames(sp), InputNames(sp), OutputNames(sp))
<1> DEFINE supply == AddPort(EmptyTopology, "vdd", "supply")
           rails == AddPort(supply, "vss", "ground")
           vinp == AddPort(rails, "vinp", "input")
           inputs == IF sp.input_mode = "differential" THEN AddPort(vinp, "vinn", "input")
                     ELSE AddPort(rails, "vin", "input")
           voutp == AddPort(inputs, "voutp", "output")
           outputs == IF sp.output_mode = "differential" THEN AddPort(voutp, "voutn", "output")
                      ELSE AddPort(inputs, "vout", "output")
<1>1. Ported(EmptyTopology, {}, {}, {})
  BY FS_EmptySet DEF Ported, Sound, EmptyTopology, Graph, Ports
<1>2. Ported(supply, {"vdd"}, {}, {})
  <2>1. Ported(supply, {} \cup {"vdd"}, {}, {})
    BY <1>1, PortedPort
  <2>2. QED
    BY <2>1
<1> HIDE DEF supply
<1>3. Ported(rails, {"vdd", "vss"}, {}, {})
  <2>1. Ported(rails, {"vdd"} \cup {"vss"}, {}, {})
    BY <1>2, PortedPort
  <2>2. {"vdd"} \cup {"vss"} = {"vdd", "vss"}
    OBVIOUS
  <2>3. QED
    BY <2>1, <2>2
<1> HIDE DEF rails
<1> DEFINE P == {"vdd", "vss"} \cup InputNames(sp)
<1>4. Ported(inputs, P, InputNames(sp), {})
  <2>1. ASSUME sp.input_mode # "differential" PROVE Ported(inputs, P, InputNames(sp), {})
    <3>1. Ported(AddPort(rails, "vin", "input"), {"vdd", "vss"} \cup {"vin"}, {} \cup {"vin"}, {})
      BY <1>3, PortedPort
    <3>2. InputNames(sp) = {} \cup {"vin"} /\ P = {"vdd", "vss"} \cup {"vin"}
      BY <2>1 DEF InputNames
    <3>3. inputs = AddPort(rails, "vin", "input")
      BY <2>1
    <3> HIDE DEF inputs, P
    <3>4. QED
      BY <3>1, <3>2, <3>3
  <2>2. ASSUME sp.input_mode = "differential" PROVE Ported(inputs, P, InputNames(sp), {})
    <3>1. Ported(vinp, {"vdd", "vss"} \cup {"vinp"}, {} \cup {"vinp"}, {})
      BY <1>3, PortedPort
    <3>2. inputs = AddPort(vinp, "vinn", "input")
      BY <2>2
    <3> HIDE DEF vinp, inputs
    <3>3. Ported(AddPort(vinp, "vinn", "input"), ({"vdd", "vss"} \cup {"vinp"}) \cup {"vinn"},
                 ({} \cup {"vinp"}) \cup {"vinn"}, {})
      BY <3>1, PortedPort
    <3>4. InputNames(sp) = ({} \cup {"vinp"}) \cup {"vinn"} /\ P = ({"vdd", "vss"} \cup {"vinp"}) \cup {"vinn"}
      BY <2>2 DEF InputNames
    <3> HIDE DEF P
    <3>5. QED
      BY <3>2, <3>3, <3>4
  <2>3. QED
    BY <2>1, <2>2
<1> HIDE DEF inputs
<1>5. PortNames(sp) = P \cup OutputNames(sp) /\ {"vout", "voutp", "voutn"} \cap P = {}
  BY DEF PortNames, InputNames, OutputNames
<1> HIDE DEF P
<1>6. Ported(outputs, PortNames(sp), InputNames(sp), OutputNames(sp))
  <2>1. ASSUME sp.output_mode # "differential" PROVE Ported(outputs, PortNames(sp), InputNames(sp), OutputNames(sp))
    <3>1. Ported(AddPort(inputs, "vout", "output"), P \cup {"vout"}, InputNames(sp), {} \cup {"vout"})
      BY <1>4, <1>5, PortedPort
    <3>2. OutputNames(sp) = {} \cup {"vout"} /\ PortNames(sp) = P \cup {"vout"}
      BY <1>5, <2>1 DEF OutputNames
    <3>3. outputs = AddPort(inputs, "vout", "output")
      BY <2>1
    <3> HIDE DEF outputs
    <3>4. QED
      BY <3>1, <3>2, <3>3
  <2>2. ASSUME sp.output_mode = "differential" PROVE Ported(outputs, PortNames(sp), InputNames(sp), OutputNames(sp))
    <3>1. Ported(voutp, P \cup {"voutp"}, InputNames(sp), {} \cup {"voutp"})
      BY <1>4, <1>5, PortedPort
    <3>2. outputs = AddPort(voutp, "voutn", "output")
      BY <2>2
    <3> HIDE DEF voutp, outputs
    <3>3. Ported(AddPort(voutp, "voutn", "output"), (P \cup {"voutp"}) \cup {"voutn"}, InputNames(sp),
                 ({} \cup {"voutp"}) \cup {"voutn"})
      BY <1>5, <3>1, PortedPort
    <3>4. OutputNames(sp) = ({} \cup {"voutp"}) \cup {"voutn"} /\ PortNames(sp) = (P \cup {"voutp"}) \cup {"voutn"}
      BY <1>5, <2>2 DEF OutputNames
    <3>5. QED
      BY <3>2, <3>3, <3>4
  <2>3. QED
    BY <2>1, <2>2
<1> HIDE DEF outputs
<1>7. Start(sp).topology = Commit(outputs)
  BY Zenon DEF Start, outputs, voutp, inputs, vinp, rails, supply
<1>8. /\ Sound(Commit(outputs)) /\ Commit(outputs).ports = outputs.ports /\ Commit(outputs).nets = outputs.nets
      /\ Commit(outputs).devices = outputs.devices
  BY <1>6, CommitFacts DEF Ported
<1>9. \A w : Ports(Commit(outputs), w) = Ports(outputs, w)
  BY <1>8 DEF Ports
<1>10. QED
  BY <1>6, <1>7, <1>8, <1>9 DEF Ported

LEMMA LawfulStart ==
  ASSUME NEW sp PROVE Lawful(sp, Start(sp))
<1> DEFINE s == Start(sp)
           t == s.topology
<1>1. /\ Sound(t) /\ DOMAIN t.devices = {} /\ t.nets \subseteq PortNames(sp)
  BY StartPorts DEF Ported
<1>2. s.trace = <<>>
  BY StartFacts
<1> HIDE DEF s
<1>3. Len(s.trace) = 0
  BY <1>2
<1>4. Used(t) = {} /\ Works(sp, t)
  BY <1>1 DEF Used, Works, Joined
<1>5. \A kind : ~Answered(sp, s, kind)
  BY <1>3 DEF Answered
<1>6. t.ports = Start(sp).topology.ports
  BY DEF s
<1>7. QED
  BY <1>1, <1>3, <1>4, <1>5, <1>6 DEF Lawful, s

Occurs(list, e) == \E i \in 1..Len(list) : list[i] = e

LEMMA OccursJoined ==
  ASSUME NEW S, NEW a \in Seq(S), NEW b \in Seq(S), NEW e, Occurs(a, e) \/ Occurs(b, e)
  PROVE  Occurs(a \o b, e)
<1>1. /\ Len(a \o b) = Len(a) + Len(b) /\ Len(a) \in Nat /\ Len(b) \in Nat
      /\ \A i \in 1..(Len(a) + Len(b)) : (a \o b)[i] = IF i <= Len(a) THEN a[i] ELSE b[i - Len(a)]
  BY ConcatProperties, LenProperties
<1>2. CASE Occurs(a, e)
  <2>1. PICK i \in 1..Len(a) : a[i] = e
    BY <1>2 DEF Occurs
  <2>2. i \in 1..(Len(a) + Len(b)) /\ i <= Len(a)
    BY <1>1, <2>1
  <2>3. QED
    BY <1>1, <2>1, <2>2 DEF Occurs
<1>3. CASE Occurs(b, e)
  <2>1. PICK i \in 1..Len(b) : b[i] = e
    BY <1>3 DEF Occurs
  <2>2. Len(a) + i \in 1..(Len(a) + Len(b)) /\ ~(Len(a) + i <= Len(a)) /\ Len(a) + i - Len(a) = i
    BY <1>1, <2>1
  <2>3. (a \o b)[Len(a) + i] = e
    BY <1>1, <2>1, <2>2
  <2>4. QED
    BY <1>1, <2>2, <2>3 DEF Occurs
<1>4. QED
  BY <1>2, <1>3

\* What every plan asks for.
LEMMA PlanAsks ==
  ASSUME NEW sp
  PROVE  /\ Occurs(Plan(sp), "load") /\ Occurs(Plan(sp), "output")
         /\ sp.require_compensation => Occurs(Plan(sp), "compensation")
<1> DEFINE tail == IF sp.input_mode = "differential" THEN <<"tail_bias">> ELSE <<>>
           comp == IF sp.require_compensation THEN <<"compensation">> ELSE <<>>
           p1 == <<"input_stage">> \o tail
           p2 == p1 \o <<"load">>
           p3 == p2 \o comp
           p4 == p3 \o <<"output">>
<1>1. Plan(sp) = p4
  BY DEF Plan, Start
<1>2. \A kind \in Kinds : <<kind>> \in Seq(Kinds) /\ Occurs(<<kind>>, kind)
  BY DEF Occurs
<1>3. <<>> \in Seq(Kinds)
  OBVIOUS
<1>4. tail \in Seq(Kinds)
  BY <1>2, <1>3 DEF Kinds
<1>5. comp \in Seq(Kinds) /\ (sp.require_compensation => Occurs(comp, "compensation"))
  <2>1. /\ sp.require_compensation => comp = <<"compensation">>
        /\ comp = <<"compensation">> \/ comp = <<>>
    BY Zenon
  <2> HIDE DEF comp
  <2>2. QED
    BY <1>2, <1>3, <2>1 DEF Kinds
<1>6. {"input_stage", "load", "output"} \subseteq Kinds
  BY DEF Kinds
<1> HIDE DEF tail, comp
<1>7. p1 \in Seq(Kinds)
  BY <1>2, <1>4, <1>6, ConcatProperties
<1> HIDE DEF p1
<1>8. p2 \in Seq(Kinds) /\ Occurs(p2, "load")
  BY <1>2, <1>6, <1>7, OccursJoined, ConcatProperties
<1> HIDE DEF p2
<1>9. p3 \in Seq(Kinds) /\ Occurs(p3, "load") /\ (sp.require_compensation => Occurs(p3, "compensation"))
  BY <1>5, <1>8, OccursJoined, ConcatProperties
<1> HIDE DEF p3
<1>10. Occurs(p4, "load") /\ Occurs(p4, "output") /\ (sp.require_compensation => Occurs(p4, "compensation"))
  BY <1>2, <1>6, <1>9, OccursJoined
<1> HIDE DEF p4
<1>11. QED
  BY <1>1, <1>10

LEMMA TwoElements ==
  ASSUME NEW x, NEW y, x # y PROVE Cardinality({x} \cup {y}) = 2
<1> DEFINE S == {x}
<1>1. IsFiniteSet(S) /\ Cardinality(S) = 1 /\ y \notin S
  BY FS_Singleton
<1> HIDE DEF S
<1>2. Cardinality(S \cup {y}) = Cardinality(S) + 1
  BY <1>1, FS_AddElement
<1>3. QED
  BY <1>1, <1>2 DEF S

\* Terminals are counted in finite sets.
LEMMA EndpointsCounted ==
  ASSUME NEW t, Sound(t), NEW n
  PROVE  /\ IsFiniteSet(Endpoints(t, n))
         /\ n \in Used(t) => Endpoints(t, n) # {}
         /\ Held(t, n) => ~(Cardinality(Endpoints(t, n)) < 2)
<1> DEFINE places == {"d", "g", "s", "b", "p", "n"}
           E == Endpoints(t, n)
<1>1. IsFiniteSet(places)
  <2>1. places = Range(Mos("d", "g", "s", "b")) \cup Range(Across("p", "n"))
    BY MosFacts, AcrossFacts
  <2>2. IsFiniteSet(Range(Mos("d", "g", "s", "b"))) /\ IsFiniteSet(Range(Across("p", "n")))
    BY MosFacts, AcrossFacts
  <2> HIDE DEF places
  <2>3. QED
    BY <2>1, <2>2, FS_Union
<1>2. IsFiniteSet((DOMAIN t.devices) \X places)
  <2> HIDE DEF places
  <2>1. QED
    BY <1>1, FS_Product DEF Sound
<1>3. E \subseteq (DOMAIN t.devices) \X places
  BY DEF Endpoints
<1>4. IsFiniteSet(E)
  <2> HIDE DEF E, places
  <2>1. QED
    BY <1>2, <1>3, FS_Subset
<1>5. ASSUME n \in Used(t) PROVE E # {}
  <2>1. PICK d \in DOMAIN t.devices : n \in Range(t.devices[d].net)
    BY <1>5 DEF Used, NetsOf
  <2>2. PICK x \in DOMAIN t.devices[d].net : t.devices[d].net[x] = n
    BY <2>1 DEF Range
  <2>3. <<d, x>> \in E
    BY <2>2, EndpointIs
  <2>4. QED
    BY <2>3
<1>6. ASSUME Held(t, n) PROVE ~(Cardinality(E) < 2)
  <2>1. PICK e \in E, f \in E : e # f
    BY <1>6 DEF Held
  <2> DEFINE two == {e} \cup {f}
  <2>2. Cardinality(two) = 2 /\ two \subseteq E
    BY <2>1, TwoElements
  <2> HIDE DEF E, two
  <2>3. Cardinality(two) <= Cardinality(E) /\ Cardinality(E) \in Nat
    BY <1>4, <2>2, FS_Subset, FS_CardinalityType
  <2>4. QED
    BY <2>2, <2>3
<1>7. QED
  BY <1>4, <1>5, <1>6

\* A graph whose nets are all used, and hang together, is one component.
LEMMA OneComponent ==
  ASSUME NEW t, Sound(t), Joined(t), t.nets \subseteq Used(t)
  PROVE  Components(t) \subseteq {t.nets}
<1> DEFINE adjacent == Adjacency(t)
<1>1. /\ IsFiniteSet(t.nets) /\ \A d \in DOMAIN t.devices : NetsOf(t, d) \subseteq t.nets
  BY DEF Sound
<1>2. DOMAIN adjacent = t.nets /\ \A n \in t.nets : \A v : v \in adjacent[n] <=> \E d \in DOMAIN t.devices : n \in NetsOf(t, d) /\ v \in NetsOf(t, d)
  BY DEF Adjacency
<1>3. adjacent \in [t.nets -> SUBSET t.nets]
  BY <1>1, <1>2 DEF Adjacency
<1> HIDE DEF adjacent
<1>4. ASSUME NEW n \in t.nets PROVE Reachable(adjacent, {n}) = t.nets
  <2> DEFINE R == Reachable(adjacent, {n})
  <2>1. {n} \subseteq R /\ R \subseteq t.nets /\ \A v \in R : adjacent[v] \subseteq R
    <3>1. {n} \in SUBSET t.nets
      BY <1>4
    <3>2. QED
      BY <1>1, <1>3, <3>1, ReachableFacts
  <2> HIDE DEF R
  <2>2. ASSUME NEW d \in DOMAIN t.devices PROVE NetsOf(t, d) \cap R = {} \/ NetsOf(t, d) \subseteq R
    BY <1>2, <2>1
  <2>3. Used(t) \cap R = {} \/ Used(t) \subseteq R
    BY <2>2 DEF Joined
  <2>4. QED
    BY <1>4, <2>1, <2>3 DEF R
<1>5. QED
  BY <1>4 DEF Components, adjacent

LEMMA ModeCounts ==
  ASSUME NEW sp, sp.input_mode \in Modes, sp.output_mode \in Modes
  PROVE  /\ Cardinality(InputNames(sp)) = Expected(sp.input_mode)
         /\ Cardinality(OutputNames(sp)) = Expected(sp.output_mode)
<1>1. \A x : Cardinality({x}) = 1
  BY FS_Singleton
<1>2. {"vinp", "vinn"} = {"vinp"} \cup {"vinn"} /\ {"voutp", "voutn"} = {"voutp"} \cup {"voutn"}
  OBVIOUS
<1>3. Cardinality({"vinp", "vinn"}) = 2 /\ Cardinality({"voutp", "voutn"}) = 2
  <2>1. Cardinality({"vinp"} \cup {"vinn"}) = 2 /\ Cardinality({"voutp"} \cup {"voutn"}) = 2
    BY TwoElements
  <2>2. QED
    BY <1>2, <2>1, Zenon
<1>4. QED
  BY <1>1, <1>3 DEF Modes, Expected, InputNames, OutputNames

\* Every net of a whole derivation is used, and the inner ones are held.
LEMMA LawfulNets ==
  ASSUME NEW sp, NEW s, Derived(sp, s), Lawful(sp, s), Complete(s)
  PROVE  LET t == s.topology
         IN  /\ t.nets \subseteq Used(t) /\ DOMAIN t.ports = PortNames(sp)
             /\ \A n \in Internal(t) : Held(t, n)
             /\ Ports(t, "input") = InputNames(sp) /\ Ports(t, "output") = OutputNames(sp)
             /\ sp.require_compensation => Fact(s, "compensation") = "explicit_capacitor"
<1> DEFINE t == s.topology
           inner == {s.facts["left_drain"], s.facts["right_drain"]}
           tail == IF sp.input_mode = "differential" THEN {"n_tail"} ELSE {}
<1>1. Len(s.trace) = Len(Plan(sp)) /\ Len(s.trace) > 0
  <2>1. /\ s.trace \in Seq(Rules) /\ s.obligations = <<>>
        /\ Len(s.trace) + Len(s.obligations) = Len(Plan(sp))
    BY DEF Derived, Ordered, Complete
  <2>2. Len(s.trace) \in Nat
    BY <2>1, LenProperties
  <2>3. Len(s.obligations) = 0
    BY <2>1
  <2>4. Len(Plan(sp)) \in 3..5
    BY PlanFacts
  <2>5. Len(s.trace) + 0 = Len(Plan(sp))
    BY <2>1, <2>3
  <2>6. \A m \in Nat, k \in 3..5 : m + 0 = k => m = k /\ m > 0
    OBVIOUS
  <2>7. QED
    BY <2>2, <2>4, <2>5, <2>6
<1>2. \A kind : Answered(sp, s, kind) <=> Occurs(Plan(sp), kind)
  BY <1>1 DEF Answered, Occurs
<1>3. /\ Answered(sp, s, "load") /\ Answered(sp, s, "output")
      /\ sp.require_compensation => Answered(sp, s, "compensation")
  BY <1>2, PlanAsks
<1>4. /\ t.ports = Start(sp).topology.ports
      /\ t.nets \subseteq PortNames(sp) \cup inner \cup tail
      /\ InputNames(sp) \cup {InputRail(sp)} \cup inner \subseteq Used(t)
      /\ sp.input_mode = "differential" => Held(t, "n_tail")
      /\ LoadRail(sp) \in Used(t) /\ (\A n \in inner : Held(t, n))
      /\ OutputNames(sp) \subseteq Used(t)
      /\ sp.require_compensation => Fact(s, "compensation") = "explicit_capacitor"
  BY <1>1, <1>3 DEF Lawful
<1> HIDE DEF t, inner
<1>5. \A n \in tail : Held(t, n) /\ n \in Used(t)
  BY <1>4, HeldIsUsed
<1>6. PortNames(sp) = {InputRail(sp), LoadRail(sp)} \cup InputNames(sp) \cup OutputNames(sp)
  BY BulkRails DEF PortNames, InputNames, OutputNames
<1> HIDE DEF tail
<1>7. t.nets \subseteq Used(t)
  BY <1>4, <1>5, <1>6
<1>8. /\ DOMAIN t.ports = PortNames(sp)
      /\ Ports(t, "input") = InputNames(sp) /\ Ports(t, "output") = OutputNames(sp)
  <2>1. \A w : Ports(t, w) = Ports(Start(sp).topology, w)
    BY <1>4 DEF Ports
  <2>2. QED
    BY <1>4, <2>1, StartPorts DEF Ported
<1>9. \A n \in Internal(t) : Held(t, n)
  BY <1>4, <1>5, <1>8 DEF Internal
<1>10. QED
  BY <1>4, <1>7, <1>8, <1>9 DEF t

LEMMA LawfulErrors ==
  ASSUME NEW sp, Described(sp), NEW s, Derived(sp, s), Lawful(sp, s), Complete(s)
  PROVE  \A c \in Codes \ {"LIM001"} : FinalErrors(sp, s)[c] = 0
<1> DEFINE t == s.topology
           partial == PartialErrors(sp, s)
           loose == {p \in DOMAIN t.ports : Endpoints(t, p) = {}}
           single == {n \in Internal(t) : Cardinality(Endpoints(t, n)) < 2}
           inputs == Cardinality(Ports(t, "input")) # Expected(sp.input_mode)
           outputs == Cardinality(Ports(t, "output")) # Expected(sp.output_mode)
           split == Cardinality(Components(t)) > 1
           bare == /\ sp.require_compensation
                   /\ Fact(s, "compensation") # "explicit_capacitor"
           e == FinalErrors(sp, s)
<1>1. e = [c \in Codes |-> CASE c \in PartialCodes -> partial[c]
                             [] c = "PORT001" -> Cardinality(loose)
                             [] c = "NET001"  -> Cardinality(single)
                             [] c = "OBL001"  -> Once(~Complete(s))
                             [] c = "PORT002" -> Once(inputs)
                             [] c = "PORT003" -> Once(outputs)
                             [] c = "CONN001" -> Once(split)
                             [] c = "COMP001" -> Once(bare)]
  BY DEF FinalErrors
<1>2. /\ Sound(t) /\ Joined(t) /\ \A d \in DOMAIN t.devices : IsPermitted(sp, t.devices[d])
  BY DEF Lawful, Works
<1>3. /\ t.nets \subseteq Used(t) /\ DOMAIN t.ports = PortNames(sp)
      /\ \A n \in Internal(t) : Held(t, n)
      /\ Ports(t, "input") = InputNames(sp) /\ Ports(t, "output") = OutputNames(sp)
      /\ ~bare
  BY LawfulNets
<1>4. loose = {}
  <2>1. DOMAIN t.ports \subseteq t.nets
    BY <1>2 DEF Sound
  <2>2. QED
    BY <1>2, <1>3, <2>1, EndpointsCounted
<1>5. single = {}
  BY <1>2, <1>3, EndpointsCounted
<1>6. ~inputs /\ ~outputs
  BY <1>3, ModeCounts DEF Described
<1>7. ~split
  <2>1. Components(t) \subseteq {t.nets}
    BY <1>2, <1>3, OneComponent
  <2>2. IsFiniteSet({t.nets}) /\ Cardinality({t.nets}) = 1
    BY FS_Singleton
  <2>3. Cardinality(Components(t)) <= 1 /\ Cardinality(Components(t)) \in Nat
    BY <2>1, <2>2, FS_Subset, FS_CardinalityType
  <2>4. QED
    BY <2>3
<1>8. partial["DEV001"] = 0 /\ partial["MOS001"] = 0 /\ partial["MOS002"] = 0
  <2>1. /\ partial \in [Codes -> Nat]
        /\ partial["DEV001"] > 0 <=> \E d \in DOMAIN t.devices : t.devices[d].kind \notin sp.allowed_devices
        /\ partial["MOS001"] > 0 <=> \E d \in {x \in DOMAIN t.devices : t.devices[x].kind \in Transistors} :
                                       t.devices[d].net["d"] = t.devices[d].net["s"]
        /\ partial["MOS002"] > 0 <=> \E d \in {x \in DOMAIN t.devices : t.devices[x].kind \in Transistors} :
                                       t.devices[d].net["b"] # Bulk(t.devices[d].kind)
    BY <1>2, PartialErrorsMean
  <2> HIDE DEF partial, t
  <2>2. /\ ~(partial["DEV001"] > 0) /\ ~(partial["MOS001"] > 0) /\ ~(partial["MOS002"] > 0)
    BY <1>2, <2>1 DEF IsPermitted
  <2>3. partial["DEV001"] \in Nat /\ partial["MOS001"] \in Nat /\ partial["MOS002"] \in Nat
    BY <2>1 DEF Codes, PartialCodes
  <2>4. QED
    BY <2>2, <2>3
<1> HIDE DEF loose, single, inputs, outputs, split, bare, partial, e
<1>9. Cardinality(loose) = 0 /\ Cardinality(single) = 0
  BY <1>4, <1>5, FS_EmptySet
<1>10. /\ Once(~Complete(s)) = 0 /\ Once(inputs) = 0 /\ Once(outputs) = 0
       /\ Once(split) = 0 /\ Once(bare) = 0
  BY <1>3, <1>6, <1>7 DEF Once
<1>11. QED
  BY <1>1, <1>8, <1>9, <1>10 DEF Codes, PartialCodes, e

LEMMA LawfulKept ==
  BaselineInv /\ Lawful(spec, state) /\ [BaselineNext]_baselineVars => Lawful(spec, state)'
<1> SUFFICES ASSUME BaselineInv, Lawful(spec, state), [BaselineNext]_baselineVars PROVE Lawful(spec', state')
  OBVIOUS
<1>1. ASSUME NEW sp, Begin(sp) PROVE Lawful(spec', state')
  BY <1>1, LawfulStart DEF Begin
<1>2. ASSUME NEW r \in Rules, Derive(r) PROVE Lawful(spec', state')
  <2>1. /\ Described(spec) /\ Derived(spec, state) /\ MayApply(spec, state, r)
        /\ spec' = spec /\ state' = Child(spec, state, r)
    BY <1>2 DEF BaselineInv, Known, Derive, MayApply, Applicable
  <2>2. Lawful(spec, Child(spec, state, r))
    BY <2>1, ChildLawful
  <2>3. QED
    BY <2>1, <2>2
<1>3. CASE StartReplay \/ StartDraw
  BY <1>1, <1>3 DEF StartReplay, StartDraw
<1>4. CASE ReplayRule
  BY <1>2, <1>4 DEF ReplayRule, Next
<1>5. ASSUME NEW r \in Rules, DrawRule(r) PROVE Lawful(spec', state')
  BY <1>2, <1>5 DEF DrawRule
<1>6. CASE Build \/ Falsify \/ Split \/ SplitByPolarity \/ Train \/ Rebuild \/ FalsifyHeldout \/ Evaluate \/ Sample \/ RejectDraw \/ EndDraw
  <2>1. spec' = spec /\ state' = state
    BY <1>6 DEF Build, Falsify, Split, SplitByPolarity, Train, Rebuild, FalsifyHeldout, Evaluate, Sample, RejectDraw, EndDraw, drawing
  <2>2. QED
    BY <2>1
<1>7. CASE UNCHANGED baselineVars
  <2>1. spec' = spec /\ state' = state
    BY <1>7 DEF baselineVars, drawing
  <2>2. QED
    BY <2>1
<1>8. QED
  BY <1>3, <1>4, <1>5, <1>6, <1>7 DEF BaselineNext

(***************************************************************************)
(* Whichever permitted rules are chosen, for every specification that      *)
(* passed validate: a whole derivation fails no check but the one on the   *)
(* number of devices.                                                      *)
(***************************************************************************)
THEOREM OnlyTheLimitRejectsAlways == BaselineSpec => []OnlyTheLimitRejects
<1>1. BaselineInit => Lawful(spec, state)
  BY LawfulStart DEF BaselineInit
<1>2. BaselineInv /\ Lawful(spec, state) => OnlyTheLimitRejects
  BY LawfulErrors DEF BaselineInv, Known, OnlyTheLimitRejects
<1>3. QED
  BY <1>1, <1>2, LawfulKept, BaselineAlways, PTL DEF BaselineSpec
=============================================================================
