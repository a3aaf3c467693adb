# A verification project for TopologyLantern

TopologyLantern turns a design intent for a small analog amplifier into ranked
circuit topologies: a bounded best-first search applies rewrite rules to a
circuit graph until no obligation is left, checks the result, ranks it and
explains it. Around this core are a SPICE reader with layout constraints, graph
representations for data sets, a sampling baseline, and release tooling. This
directory holds TLA+ models of the program, TLC runs on small instances, and
TLAPS proofs: that the search keeps its promise, for every catalogue and for the
nine shipped rules, that comparisons and the baseline may rely on it, that the
output layer is atomic, and that data sets are counted within limits.

Paths are relative to `src/topology_lantern/` unless they say otherwise.

## 1. The system

| Part | State it keeps | Operations | Correct when |
| --- | --- | --- | --- |
| Design specification (`spec.py`) | immutable record and limits | `from_mapping`, `validate` | every accepted specification can be searched |
| Obligations, rules (`obligations.py`, `rules.py`) | a search state: graph, open obligations, facts, trace | `initial_state`, nine rules with a predicate and a graph edit | permitted edits never fail; facts agree with the graph; both polarities mirror each other |
| Graph builder (`graph.py`, `types.py`) | ports, nets, devices | `add_*`, `rename_net`, `commit`, `connected_components` | a renamed net is renamed everywhere |
| Constraints (`constraints.py`) | none | `partial_violations`, `final_violations` | an error reported early is never repaired later |
| Identity (`canonical.py`) | none | `topology_signature`, `state_signature` | one graph, one signature |
| Search (`search.py`) | heap, seen set, accepted candidates, counters | one loop | nothing acceptable is lost when it reports exhausted; results are sound; it returns |
| Ledger (`ledger.py`) | counters and a bounded record of refusals | six recording methods | it explains exactly the states pruned; it says when it dropped something |
| Ranking (`rank.py`) | candidates not yet ranked | peel one front per turn | fronts are the Pareto fronts; it ends |
| Comparison (`compare.py`, `diff` in `cli.py`) | two results | `diff_results` | the reason it gives for an absence is true |
| Replay (`explain.py`) | a state | `replay_rule_ids`, `verify_replay` | a replayed trace gives the accepted candidate |
| Output layer (`cli.py`, `_write`) | a directory shared with other processes | temporary file, replace or link, unlink | readers see whole texts; inputs are never replaced |
| SPICE reader (`spice.py`, `circuit.py`) | visited and active files, totals, scopes, running visits | include expansion, statements, top selection, reference closure, graph building | it accepts what has no defect; every line and element is kept once, in its place |
| Layout (`layout.py`) | maps filled while a document is read; candidate counts | shape checks, conflict detection, pair and group inference | accepted constraints have a placement; what is inferred can be declared |
| Codec and sequences (`graph_codec.py`, `graph_sequence.py`) | compact and pin views, trails | views, validators and inverses, Euler-trail cover | round trips lose nothing; both validators agree; the cover is minimal |
| Data sets (`graph_augmentation.py`, `graph_dataset.py`) | counts of one payload and of all; records with ancestry, partitions | preflight, derive, validate, split, stack | limits hold before work is done; no leakage group spans two partitions |
| Sequence baseline (`sequence_baseline.py`) | examples, split, transition counts, a draw | build, split, train, sample, evaluate | draws agree with the search; nothing held out is a relative of what is trained on |
| Release tooling (`release_artifacts.py`, `distribution_audit.py`, `dco.py`) | none | checks of archives and documents | |
| Reports (`emit.py`, `benchmark.py`, `circuit_benchmark.py`) | none | formatting, timing | |

`generate_candidates` calls the rules on the first open obligation only, feeds
the ledger as it goes, and hands its candidates to the ranking. `diff` runs two
searches and reads their candidates, `exhausted` flags and ledgers. The
baseline uses the same rules, predicates and constraints as the search, one
draw at a time, and learns from what the search found. `load_spice` runs three
stages, each on the result of the one before; its circuit graph is what the
layout inference, the views, the trails and the data set records are made of.
Every command ends in `_write`.

The program has one thread; concurrency enters only through the file system,
where several processes may write one destination and any of them may be
killed. What is hard elsewhere is order and accounting over long runs: loop
guards that stop in the middle, states merged by signature, facts that become
stale, limits counted at one place and compared at another, two functions that
must agree although they were written apart (validators, counts, encoder and
decoder, search and sampler), and conclusions drawn from one run about another.
`PROJECT.json` lists these hazards at their lines with the properties aimed at
them.

## 2. The modules

```
Ledger --> SearchLoop --> SearchLoopProofs
               |      \-> MCSearchLoop          (an artificial catalogue)
               v
Topology --> Catalogue --> TopologySearch --> CompareRuns --> MCCompareRuns
                 |             \-- implements --> Enumeration
                 \--> Derivation --> SequenceBaseline --> MCSequenceBaseline
Foundations, Catalogue --> CatalogueProofs
CatalogueProofs, CompareRuns, SearchLoopProofs --> TopologySearchProofs
CatalogueProofs, SequenceBaseline --> SequenceBaselineProofs
Rank --> MCRank
AtomicWrite --> MCAtomicWrite;  implements OutputFile
Foundations, Rank, AtomicWrite, LayoutInference --> ResultProofs

SpiceContext --> SpiceSource, SpiceScopes, CircuitHierarchy --> Netlist --> MCNetlist
Foundations, Netlist --> NetlistProofs
LayoutConflicts --> LayoutInference --> MCLayout
ConnectivityViews --> ConnectivityCodec --\
                            EulerTrails --> Connectivity --> MCConnectivity
DatasetRecords --> DatasetSplit --\
                 PayloadMetrics --> Dataset --> MCDataset
                           \--> DatasetProofs  <-- Foundations
```

An arrow reads "is extended or instantiated by". Two small modules serve many:
**Checks** turns a function that raises at its first failing condition into a
sequence of conditions and reasons in the order of the code, and
**Reachability** is what can be reached in a graph.

### The search

**Ledger** (`ledger.py`). The recorder is a record; each method is an operator
from the record before to the record after. Violations are error counts per
code.

**SearchLoop** (`search.py`). The loop for an arbitrary catalogue: states,
signatures, rules, constraints and order are constants with stated assumptions.
One action per way out of the loop body: `PruneDeep`, `PrunePartial`,
`RefuseFinal`, `Accept`, `NoRule`, `Expand`, each including its pop, its ledger
call and its counters; `ApplyRule` is one turn of the inner loop, in catalogue
order; `Return` is the failing loop condition. `closed` is a history variable,
the states popped so far. The ledger is a variable the loop writes and never
reads.

**Topology** (`graph.py`, `canonical.py`). Graphs as functions. A builder call
that would raise sets `raised` instead of stopping, so that a property can say
it never happens. The least encoding over all labellings is represented by the
set of all encodings: two graphs have one exactly when they have the other.
Beyond the permutation budget the labels are the net names.

**Catalogue** (`spec.py`, `obligations.py`, `rules.py`, `constraints.py`). The
specification's fields, the nine rules with predicates and edits, and every
error the constraints can report. Obligations are their kinds, because key and
details are functions of kind and specification. The facts copied from the
specification, warnings and notes, and the texts of trace steps are left out.

**TopologySearch**. SearchLoop with every question answered by Catalogue.
**Enumeration** is what it promises: acceptable topologies are found one at a
time, at most as many as asked for, and `exhausted` is only said when none is
missing. `Acceptable` is declarative, computed without heap or order.

**CompareRuns** (`compare.py`). Two runs of TopologySearch in sequence and the
reasons for each absence. Reference sets of all derivations say whether the
reasons are true.

**Derivation** (`explain.py`, `replay_rule_ids`). One specification and any
permitted rule after another on the first obligation, without pruning: what the
catalogue guarantees whichever path is taken.

**SequenceBaseline** (`sequence_baseline.py`). Derivation as `StartReplay` and
`ReplayRule`, and the life of a baseline: `Build` a corpus from what the search
finds, perhaps `Falsify` a lineage, `Split` or `SplitByPolarity`, `Train`, perhaps
`Rebuild` held-out examples as `baseline-evaluate` does (and `FalsifyHeldout`),
`Evaluate` or `Sample`; a draw is `StartDraw`, `DrawRule` in the order of checks
of the code, `RejectDraw` or `EndDraw`. Digests order lineages and pick rules:
any choice is possible. `generate_candidates` is a constant function of the
specification and the limit argument, of which only its promise is assumed
(`MayReturn`): all acceptable derivations, or as many of them as were granted
(the least of the argument and `max_candidates`), or fewer where `max_states` may
end it. In the run this function is the best-first search.

**Rank** (`rank.py`). One `Peel` per turn of the loop. Metrics are inputs.

### The output layer

**AtomicWrite** (`cli.py`, `_write`). Several processes, each at a system call:
alias check with `mkstemp`, write, flush, replace or link, unlink. Any of them
may raise; a process may be killed between any two; another program may create
the destination, also as a link to the protected input. The directory maps
names to inodes. **OutputFile** is what a reader may observe.

### From files to circuits

**SpiceSource** (`_SafeSourceReader`). The recursion of `expand` as a stack of
files being read, one step per physical line, with the totals it keeps: open
files for the cycle check, files already read, bytes and lines. What a path
names is a constant; outside the root, missing and unreadable files are errors.

**SpiceScopes** (`_parse_lines`). One logical line per step, with the checks of
each directive and of each element family in the order of the code; tokens are
words, assignments and the marker `PARAMS:`.

**CircuitHierarchy** (`_select_top`, `_reference_closure`, `_build_graph`). The
visit is a stack of running calls, each with the instances its loop has not
reached, so that the check of depth and recursion happens where the code makes
it: after the test for a visited scope. A net
identity is a pair of scope and name, or of the shared namespace and name.

**Netlist** (`load_spice`). The three stages in order, each on the result of
the one before. What the lines of a file say is a constant operator of their
number, so the reader's directories and the parser's sources vary separately.

### Layout

**LayoutConflicts** (`parse_layout_constraints`, `validate_layout_conflicts`).
Shapes first, then one constraint per `Read`, then `End` looks for cycles on
each axis before and after aligned devices are merged.

**LayoutInference** (`infer_layout_constraints`, `layout_inference_report`).
The declared document is validated, every scope is prepared under limits,
candidates are counted, then made; `Declare` hands what was inferred back to
LayoutConflicts as a declared document.

### Connectivity

**ConnectivityViews** (`graph_codec.py`). Both views of a circuit, both
validators, the conversions and the way back. **ConnectivityCodec** issues a
view, lets its holder change, swap, drop, repeat, splice or redirect, sign the
result anew or not, and hand it in. **EulerTrails** (`graph_sequence.py`) lays
out one scope, walks it and cuts the circuits into trails; which vertex or edge
comes first is a hash of the seed, so any is taken. **Connectivity** encodes a
scope of an accepted compact view.

### Data sets

**PayloadMetrics** (`graph_dataset.py`). The preflight reads one payload item
by item under limits; what it holds is not known before, so the items are
chosen as they are met. **DatasetRecords**: records, derivations (renaming,
traversal), ancestry and the checks of `validate_graph_dataset`.
**DatasetSplit**: a curator makes records, splits some, stacks splits, and takes
splits and records from others: a record may be false in one field, moved to
another partition, or listed there as well; every public
operation validates what it is given. **Dataset** runs the counting before the
curating, as the operations do.

Definitions that begin with the comment "Mutant:" are not part of the models;
each is one plausible bug that a property must detect.

## 3. The runs

| Run | Question | Bounds, and why they suffice |
| --- | --- | --- |
| `search_loop` | Are the books kept, is nothing lost, does the loop return? | An artificial catalogue of three rules with traces up to four, chosen so that states commute, topologies coincide, codes repeat, the refusal record overflows, and each limit can end the search. The proofs remove the bounds for safety. |
| `compare_runs` | Does the search with the shipped rules implement its promise, and are the reasons for an absence true? | All 1152 valid specifications with roomy limits, those with all device families with each of six tight limits, and all ordered pairs of eighteen related specifications, asked for 3 or 12 candidates. No derivation has more than five steps. |
| `sequence_baseline` | What does the catalogue guarantee on every path, and do baseline and search agree? | Replays over all valid specifications, with a device limit that binds and one that does not; corpora of two specifications with duals, renamed ones and such whose depth, device, candidate or state limit cuts derivations off, with and without augmentation, built with a limit argument that binds and one that does not, and every split; evaluations on the split and on held-out examples of their own, among them relatives; samples for these and for such with a device limit that binds before the end. |
| `rank` | Are the fronts the Pareto fronts, and does peeling end? | Up to four candidates over five metric points that contain chains of three, equal candidates, candidates that differ only in the unweighted axis, and incomparable ones. |
| `atomic_write` | What can readers and writers observe? | Three processes, so that a forced writer may come between two others; symmetric in the processes, which is sound for these safety properties. |
| `netlist` | Is everything in the files kept once and in its place, and nothing refused or accepted wrongly? | Directories of three files with up to three lines, in which every include relation occurs and each limit can be exceeded; all sources of up to four lines around two subcircuits, pairs and triples of blocks, elements with up to six tokens; hierarchies of three subcircuits with all references that distinguish cycles, depth and unused parts; one definition with one use under every arity, override and overlap of names. Deadlock is checked. |
| `layout` | Can accepted constraints be placed, and can what is inferred be declared? | Two orders with two alignments on four devices: two is the least number of alignments that have to be combined. Every other kind in pairs. Circuits of up to four MOSFETs, two of any shape, for the groups of a common centroid. Thirteen constraints and three times as many references are allowed, and each is passed by one. |
| `connectivity` | Is an accepted document exactly a view, whoever edited it, and do trails read back? | Two scopes with an instance, parameters, ports in both orders and a global net, edited once; one scope edited twice, since a change and the change that hides it are two. Scopes of two devices on three nets with parallel incidences, two components and up to four odd vertices for the trails. |
| `dataset` | Do limits hold before work is done, and does no group leak? | Items of size at most two against limits of one to three, so that each limit is met, passed by one and passed by two. Four graphs: equal up to evidence, equal in bucket only, and unrelated; up to three records, ancestry of one derivation over the root, splits of two and their stack. |
| `compare_depth`, `hierarchy_depth`, `preflight_incidences` | Three sentences of the repository that the code does not keep (section 5) | The first compares two specifications that differ in depth; the others use the instances of `netlist` and, with larger limits on edges, of `dataset`. |

Where deadlock is not checked the system really ends: searches return,
derivations complete, fronts run out, writers exit, documents are judged.

**Fairness.** Only `Terminates` needs it: weak fairness of the whole next-state
relation. A call of `generate_candidates` is one thread that runs until it
returns and nothing in its loop waits.

## 4. What is proved

TLC and TLAPS divide the work: a run finds out cheaply whether a formula holds
on small instances, a theorem states it for every value of the constants.

### 4.1 The search, for every catalogue (`SearchLoopProofs`)

For every catalogue, signature function, constraint, order and positive limits
that satisfy the assumptions below, and for infinite spaces of states, the
specification of the loop implies

* `TypeCorrect`: types, together with `WorkInv`: rules in hand always belong to
  an incomplete state and are applicable to it. Without `WorkInv` the child of
  a step need not be a state.
* `LedgerAccountsAlways`: the rejections filed by cause are `pruned`. Inductive
  as it stands with types, one lemma per ledger method.
* `Exhaustive`: `ExhaustedIsComplete`. The invariant speaks of the end only; the
  induction needs `Frontier`: every popped state that survived pruning is
  settled, except for the rules still in hand of the current state. With it go
  "the signatures seen are those of the states popped or in the heap" and "no
  rule is in hand after the return".
* `BookkeepingAlways`: the sizes of heap, popped states and seen set agree with
  the counters. The strengthening is that signatures are unique among the
  states reached and serials are unique and at most `serial`; cardinalities
  then follow by the library's finite-set facts.
* `CandidatesSoundAlways`: every candidate is complete, acceptable and keyed by
  its signature, and there are at most `requested`.
* `RefusalRecordAlways`: the refusal record is bounded, and while it is not
  truncated the absence of a refusal proves that no such topology was built and
  refused. Inductive together with its finiteness.
* `KeepsPromise`: the loop implements Enumeration. `LoopInv` is the conjunction
  of all the above and of `DerivedInv` (only derivations are reached). A step
  is `Find` or `Finish` of the abstract specification, or stutters. The hard
  step is the return with `exhausted`: the derivations that were popped, up to
  signature, and those that are lost (too deep, or with an error of the partial
  check) make a set that is closed under the rules, so they are all.
  `SignatureAssumption` (states of equal signatures have equal futures) closes
  it where a duplicate was dropped, `PruningAssumption` (no child repairs a
  partial error, and the final check repeats it) where a state was pruned.

### 4.2 The nine rules (`CatalogueProofs`)

Lemmas only; the theorems of the next two parts rest on them. They hold for
every specification `validate` accepts (`Described`). Three invariants of a
derivation, each proved for the start and for every rule:

* `Derived`: the trace and the open obligations make up the plan (`Ordered`);
  no builder call has failed and every device belongs to an obligation that was
  answered (`Furnished`: that is why names never collide); the facts that name
  nets name nets of the graph, two different ones exactly for a pair (`Wired`);
  every answered obligation left the fact that tells which rule answered it
  (`Recorded`). `DirectOutput` renames a net that facts may name: `Wired` is
  the part that the renaming threatens.
* `ErrorsStay`: a rule never repairs an error of the partial check.
* `Shown`: each rule leaves a mark (kinds of devices with the kinds of nets
  they meet) that no other rule leaves and none removes. Nets are seen through
  `Look`, which forgets the names of inner nets. So the graph alone shows the
  trace (`SameLook`), and so does its canonical encoding (`SameCanonical`),
  beyond the permutation budget as well as below it.

### 4.3 The search with the nine rules, and comparisons (`TopologySearchProofs`)

The theorems of SearchLoopProofs are taken by `INSTANCE`. What they ask of a
catalogue is proved for this one: `LoopProblem`, `LoopSignature`, `LoopPruning`
and `LoopCatalogue` are the assumptions of SearchLoop and Ledger under the
substitution, with the derivations of a specification as `States`. Then, for
every set of valid specifications, every limit and every request:

* `SearchKeepsPromise` and `ComparisonKeepsPromise`: the search, alone and as
  the first and the second search of a comparison, implements Enumeration.
* `SearchRepeatsNothing` and `ComparisonRepeatsNothing`: no state is reached
  twice and no topology is built twice. `OriginInv` says where a reached state
  came from: from one popped state by one rule, which is not in hand any more.
  With "equal traces, equal states" a rule in hand then builds a state that is
  not yet seen. That two complete derivations never build one topology is
  `SameCanonical`.
* `RelaxingNeverLoses`: a specification that permits at least as much finds
  every topology of the stricter one.
* `ClosedOffIsTrue`: the reason "closed off" of a comparison is true.
  `DeclinedInv`: a rule the ledger has seen declined is permitted in no state
  of the specification at all, because predicates read the specification only.

`CompareInv` carries what is true of a finished search (`Kept`) over to the
next one: its candidates are acceptable, all are there if it reported
exhausted, and its ledger closes off only what its specification forbids.

### 4.4 Every path, and the baseline (`SequenceBaselineProofs`)

* `FactsAlwaysNameNets` and `PruningIsAlwaysSafe`, on every path any of the
  three callers of the rules takes: `BaselineInv` is `Derived` of the
  derivation under way, for specifications that are valid because the
  variants made by augmentation of a valid one are.
* `NoFamilyEverCrosses`: no example is scored on a relative of what was trained
  on, whatever corpus, split and evaluation. `SplitInv` keeps what `Train`
  checked; an evaluation with held-out examples of its own rests on the check
  `Evaluate` makes.
* `DrawsAlwaysMatchSearch`: a valid draw is an acceptable derivation, and where the
  sampler gives up no acceptable derivation continues. `DrawInv` says that the
  draw under way has a derivation of its own specification in hand, with all it
  counts within the limits. That the search *found* the derivation is not said:
  it may have stopped at a limit.
* `MissedAlwaysByLimit`: what is said instead. If the examples of a held-out
  specification lack a valid draw, they are as many as the call that built them
  was granted, or `max_states` may have cut the search. The proof needs the
  promise of the search only. `CorpusInv` says that a corpus is what the
  searches of its call returned, but for lineages that were falsified; a false
  lineage ends in a refusal, so the examples of a held-out specification are
  whole when a draw begins. Several calls in one corpus, the dual variants, the
  splits and the dictionary key must all keep them together.
* `PolarityDualAlways`: on every path the same rules applied to the mirrored
  specification give the mirrored graph and facts, up to the names that carry
  the polarity. `DualInv` says it of the state in hand and of the replay of its
  trace (`Replay` is a recursive function of the number of rules replayed, and a
  derivation is never longer than `MaxSteps`). Each of the nine rules
  has a lemma (`InputMirrored`, `TailMirrored`, ...): its predicate is true of a
  state exactly when it is true of the mirror image, and its edit commutes with
  mirroring.
* `OnlyTheLimitRejectsAlways`: a whole derivation fails no check but the one on
  the number of devices, for every valid specification and whatever permitted
  rules were chosen. `Lawful` is the invariant that makes it so; it says what is
  true at each stage. The input stage brings every inner net but leaves each
  drain with one terminal; the load gives the drains their second terminal and
  is the first to meet the other rail; no device touches an output port before the
  last rule, which is why renaming a drain to it merges nothing and shorts no
  transistor. Each device meets a net already in use, so what is cut off from
  the rest is nothing (`Joined`), and one component remains (`OneComponent`, by
  `ReachableFacts`).

### 4.5 Ranking, layout and the output layer (`ResultProofs`)

`RankAlwaysChainLength`: for every finite set of candidates, whatever their
metrics and signatures, the front a candidate is put on is the length of the
longest chain of candidates that dominate one another down to it. It is an invariant
of the loop, so it holds of the fronts peeled so far: what has been peeled is
exactly what has no longer chain above it. Domination is a strict order
(`DominatesIsOrder`), so a finite set of what is left has an undominated member,
peeling empties it, and a chain of length n + 1 needs a member in each of the first
n fronts (`FrontIsALength`). The reporting order is one, too (`BeforeIsOrder`),
so each front has one sorted list (`InOrderFacts`).

For the output layer: for any set of processes, any of which may be killed anywhere: `TypeCorrect`,
`InputStays`, `OutcomesHold`, and `ImplementsOutputFile` (refinement). The
invariant `Inv` says what a process knows at each system call: past the alias
check its target is the output (`TargetsOutput`); only past its last system
call on the output has it a verdict (`UndecidedUntilPublish`); a temporary name
holds its own inode or none (`TemporariesAreOwn`); what is published has no
write left to come (`PublishedIsFull`); a text that was not forced stays until
a forced process publishes (`UnforcedStays`). `InputUntouched` and
`OutcomesAreTrue` are not inductive without them.

For layout, whatever the document, the circuit and the limits of a report:

* `PlaceableAlways`: a document whose orders and alignments are the only doubt
  is accepted exactly when coordinates exist that satisfy them, and alignment
  is blamed only on an axis that has coordinates without it. The lemmas follow
  the code. A finite relation is consumed to the end exactly when its nodes can
  be numbered along its edges: the round that consumes a node numbers it, and
  numbered nodes are consumed, at least one a round (`CycleFacts`). Merging
  a group joins its classes and nothing else (`MergeJoins`: whatever agrees on
  every group agrees with its root), so the contracted orders are acyclic
  exactly when there are coordinates that are equal on every group
  (`AlignmentFacts`). That a coordinate among as many values as there are
  devices is enough comes with the numbering.
* `DocumentOrderAlways`: exchanging any two constraints leaves the acceptance
  of the document as it was. The code compares a constraint with maps of what
  came before; the proof says what those maps hold of a *set* of constraints
  (`Gathered`), and that a constraint is refused exactly when it contradicts one
  of them (`ConflictFacts`), which has no direction (`Contradicts`). The lists
  of aligned groups do depend on the order, but only what they hold counts.

The invariant of these two (`LayoutInv`) is that a document being read is judged
as far as it was read, one that was read is judged (`Judged` says the verdict
without an order), and every candidate is written as lists, so that what
`Declare` hands back is a document like one a caller passes.

* `CountAlways`: the candidates made are exactly as many as `_candidate_count`
  foresaw, so the limit refuses neither too much nor too little, and no two say
  the same, in one scope or two. The count is that of the *makings*: a kind with a
  pair of positions or a pair of groups. A candidate's semantic key tells its
  scope and its making (`KeysTellMakings`), since devices have identities of
  their own and a group is named by its members; sorting loses nothing
  (`AscendingLists`).
* `DeclaredAlways`: who declares everything that was inferred is not refused.
  Every candidate passes `_constraint` (`CandidatesFit`); the two groups of a
  common centroid are disjoint, since parallel devices form classes, and equally
  large. No two contradict each other (`MadeAgree`), and nothing inferred is an
  order or an alignment. Least obvious are the references: a common centroid may
  name any number of devices, and there may be quadratically many centroids. But each
  of its devices makes a differential pair with each device of the other group, for which
  a matching and a symmetry were inferred too, so that every reference is
  charged to a candidate and each candidate pays at most three times
  (`EveryNameIsPaid`, `ChargedOnce`, `ReferencesBounded`). With the built-in
  ceilings, 10,000 candidates and 100,000 references, the declared document is
  within its limits.

The invariant (`CountInv`) is that what was inferred is all that can be made, within
the limit, and what was declared lists it; `DeclaredAlways` needs `LayoutInv` too.

### 4.6 Data sets (`DatasetProofs`)

For every set of graphs, all seeds, weights, digests and limits, with false
records, and splits with moved or repeated records, from elsewhere:

* `LeakageNever`: no split that is returned or accepted lets a leakage group
  span partitions, or lists a record in two of them. The second does not follow
  from the first: a record that is a group of its own would be in one component
  with itself in either partition. It follows because the entries of the three
  partitions are counted and compared with the identities among them
  (`CountFacts`), also when a split from elsewhere lists a record twice
  (`TakeSplit`). A record listed twice *within* one partition is not
  representable, since partitions are sets; the same count would refuse it.
  A group is defined by reachability (a
  shared origin, graph or bucket, or parenthood, along a chain of any length);
  the code computes it by union-find. The lemmas follow the code: `Find` on a
  forest whose parents come first, `Unite` merges two classes and nothing else,
  one record of the loop, all of them; whatever the order of the records, the
  components are the groups (`ComponentsAreGroups`). One direction needs that
  the first position that holds a key is the same for every later record with
  that key.
* `StackVerdictAlways`: two valid splits are stacked exactly when they agree,
  share no record, stay within the limits and no group spans partitions in
  their union. The checks of the union that are not in this list (every record,
  its lineage, its ancestry) pass because they passed in the parts: identities
  tell records apart (`IdsTell`), so a parent found in a part is the parent
  found in the union, and the ancestry of a record does not grow
  (`AncestryKeeps`).
* `AncestryIsTrueAlways`: a record of a split descends in at most
  `MaxAncestryDepth` replayable steps from the root it names: the ancestry of
  the parent is strictly smaller because cycles were refused (`ParentStep`).
* `PayloadIsBoundedAlways`: a payload counted to the end is within every limit,
  its edges up to the ports of its scopes.
* `WorkIsBoundedAlways`: whatever the payload holds, every count stays within a
  bound made of its limit and one item, where an item may be counted in parts
  (an instance has connections and two parameter maps, a trail is announced and
  then walked, ports are not compared), and every total within its limit and
  one payload.

The invariant of the first three: records are made before the first split only
and are finitely many (`CuratorType`); each split is a valid data set, its
partitions are disjoint and nothing leaks (`SplitsSound`); each stacking is of
two splits that still are what they were (`StackInv`). Neither bound of the last
two is inductive: the refusal of one item depends on the counts the item was
added to. `CountInv` adds `ReadingInv`: while nothing was refused every count
but the edges is within its limit; the trails of one scope of a sequence are
added to its edges before they are compared, when the first of them is walked.

### 4.7 Circuit graphs (`NetlistProofs`)

For every directory, every text, every top and every limit:

* `ClosureVerdictAlways`: the scopes the depth-first visit leaves are exactly
  those the top reaches, all defined and none recursive; a refusal for
  recursion, depth or an undefined name is true; a top that was not asked for
  leaves out only what a recursion takes part in or uses.
* `SharedNetsAreGlobalAlways`: two scopes of an accepted graph share exactly the
  global nets.
* `ElementsStayAlways`: in a text that is accepted the blocks are nested
  properly, every element line is kept with all its tokens, under its name in the
  block it stands in, and nothing else is kept.
* `RecordOrderAlways`: exchanging two neighbouring runs of whole blocks and root
  lines of an accepted text changes nothing that is read from it.
* `VerdictIsTrueAlways`: the expansion of includes is accepted exactly if no
  file or line it needs has a defect and no total passes its limit, and a
  refusal names a defect the directory has.
* `EveryLineOnceAlways`: an accepted source has every text line of every needed
  file once, each file's in order, and none that follows an include before what
  is included.

The first needs the invariant of a depth-first search, `Visiting`: the running
visits are a chain of references from the top, of different scopes (`Running`);
what the loop of a visit has passed is visited, is the next visit of the chain
or is the one about to run (`Passing`, `Pending`); what is visited is closed and
has no recursion (`Behind`). When a visit ends, all its references are visited,
so it joins a closed set, of which it is not a member: that is why it takes part
in no recursion. An active scope reached again reaches itself along the chain
(`ActiveIsRecursive`); a chain of different scopes with one more is the witness
of a depth refusal (`DeepIsDeep`). Where every scope left out has a user that is
left out, a scope with the most to reach is on a cycle (`EndlessAncestry`).
`ParserFinite` says that the parser hands over finitely many scopes and
instances.

The third needs what is true of the lines before the one at hand (`TextInv`): their
blocks are opened and closed in turn (`BlocksRead`), and the scopes hold the
elements read so far, each where it stands (`ScopesRead`); that a line which
fails no check loses no token is a lemma for each family (`InstanceIsKept`,
`PrimitiveIsKept`). That as many elements are kept as there are element
lines is counted one line at a time.

The fourth needs to say what the parser holds without the order it was read in:
`After(I, c)` is the scopes, elements, globals and count of the lines in the set
`I`, with block `c` open. `OrderInv` says that the parser holds `After` of the
lines read, and that each of them passed its checks. One more line takes `After`
of a set to `After` of the set with it (`LineAdds`). A line that passed its checks
where it stands passes them after any other set of lines that holds its block:
names are as new there, and the counts no closer to the limits than at the last
line of the text (`FineAnywhere`). Hence any order of the lines that keeps every
block together is read to the same end (`AnyOrder`), and the exchange is such an
order, because no block reaches across a cut (`SameSide`, `ExchangeIsOrder`).

The last two need `SourceInv`. While files are read (`Expanding`), the running
calls are a chain of includes from the entry file, each of a file of its own
(`Stacked`); an include that was read is of a file read to its end, or of the one
its call waits for (`Settled`); what was read has no defect (`LinesAreFine`,
`FilesAreFine`); the three totals count the files, bytes and lines read
(`Counted`); files read to their end lead only to such files, and never back to
themselves (`ReadToTheEnd`); the calls together hold the text lines read, in order
(`Expanded`); and only needed files are read (`Wanted`). So a refusal is true: an
open file asked for again reaches itself along the chain (`OpenIsRecursive`), and a
total beyond its limit counts a part of what is needed. When the last call
returns, the set of files read is closed under includes, so it is all that is
needed (`LastReturn`): the counts are then the totals of the directory, no
file includes itself (`NothingIsWrong`), and what the call holds is in order
(`OrderIsRight`).

The sentence of the documentation that the depth is bounded is false
(section 5), and no theorem says it.

### 4.8 Assumptions

Every assumption is evaluated by TLC in a run.

| Assumption | Says | Why the code satisfies it |
| --- | --- | --- |
| `MaxRecordedAssumption` (Ledger), `LimitsAssumption` (SearchLoop, PayloadMetrics) | limits are numbers, positive where `validate` asks for it | `spec.py`, `graph_dataset.py` constants |
| `ProblemAssumption`, `CatalogueAssumption` (SearchLoop) | the states are closed under the applicable rules, answers have their types, the rules are finitely many | for the shipped rules these are lemmas of TopologySearchProofs |
| `SignatureAssumption`, `PruningAssumption` (SearchLoop) | equal signatures have equal futures; partial errors are not repaired | likewise lemmas |
| `SpecsAssumption` (TopologySearch, SequenceBaseline) | specifications went through `validate`; limits of a call are positive; `MaxSteps`, the model's bound on derivations, is at least five | a plan has at most five obligations; `_positive_integer` |
| `SearchAssumption` (SequenceBaseline) | a search returns acceptable derivations only: all, as many as granted, or fewer where `max_states` is less than the states there are | `KeepsPromise` and `SearchRepeatsNothing`, proved of the loop and the nine rules: it returns only acceptable topologies, stops by its guard only, and finds no topology twice |
| `RankAssumption` (Rank) | metrics are numbers; signatures are finitely many and ordered | a search accepts at most `limit` candidates; signatures are strings |
| `RecordsAssumption` (DatasetRecords), `GraphsAssumption` (DatasetSplit) | limits are numbers, every graph has a size | constants of `graph_dataset.py` |
| `DepthAssumption`, `SizeAssumption` (Netlist), `LimitsAssumption` (SpiceSource) | limits are numbers | `IngestLimits` |
| `PathsAssumption`, `DiskAssumption` (SpiceSource) | the directory is finite, a file is a sequence of lines, a path outside the root is not one inside, and no path reads like another kind of line | the reader resolves a path first; a line names a path only after `.include` |
| `TextAssumption` (Netlist) | a text is a sequence of lines, a line a sequence of tokens | `line.split()` makes lists |
| `PlacementAssumption` (LayoutConflicts), `ReportsAssumption` (LayoutInference) | the placeable objects are finitely many and ordered; documents, subjects, groups and MOSFETs are sequences | they are the nodes of one graph, compared as strings; JSON arrays and tuples |
| `DevicesAssumption` (LayoutInference) | the MOSFETs of a circuit are placeable, each has an identity of its own, and those of one scope share a placement scope | identities of a validated graph are distinct; `placement_scope_map` |
| `CeilingAssumption` (LayoutInference) | no limit on candidates is above the limit on constraints, and three times as many references are allowed | `_validate_inference_limits` keeps it below 10,000; `_MAX_CONSTRAINTS` is 10,000, `_MAX_REFERENCES` 100,000 |
| `FreshAssumption` (AtomicWrite) | names and inodes of different things differ | `mkstemp` |

`ProblemAssumption` speaks of a set `States(sp)` per specification, so that the
theorems apply to a call of the program with its own specification only.

### 4.9 Foundations (`Foundations`)

The installed provers cannot instantiate the library's induction theorems,
which take a predicate as a parameter. `Foundations` states induction over
numbers and finite sets for the *set* of those that satisfy the predicate, and
proves it from the well-foundedness of `<`. With it the recursive functions of
the models are reached: iterations, folds over finite sets (`FoldExists`), and
what can be reached in a finite graph, which is shown to be the least set that
holds the roots and is closed under successors (`ReachableFacts`, by counting).
A list of checks passes exactly when no condition is true (`ChecksPass`), and
otherwise gives the reason of the first that is (`FirstCheck`). A non-empty set
of numbers below a bound has its maximum (`MaxFromZero`). A recursion along the
numbers has values (`RecursionExists`), a flattened list has a length
(`FlattenLength`), and the values of a function on a finite set are finitely many
(`RangeIsFinite`). There
is no RECURSIVE operator in a module something is proved about.

### 4.10 Only model-checked

* `Terminates`: liveness is out of the prover's reach, as is `ENABLED`.
* The views of a circuit (`AcceptedViewsAreExact`, `ViewsAgree`): they are
  compared field by field after sorting, and the prover knows `SortSeq`, which
  the model sorts with, by name only.
* `DecodingRestores`: that the walk uses every edge once is Hierholzer's
  argument on multigraphs, over stacks of unbounded depth; nothing in it is out
  of reach in principle (section 6).

## 5. Where the code and its texts disagree

* **A depth limit is not flagged** (`compare_depth`). `exhausted` means an empty
  heap; states pruned by `max_depth` leave the heap. `compare.py:177` and the
  repository's `README.md:322` say that a search that stopped at its limits is
  flagged.
* **A hierarchy may be deeper than its limit** (`hierarchy_depth`). `visit`
  (`spice.py:482`) returns for a visited scope before it compares the depth. A
  scope visited first at a shallow place may be referenced again from a deeper
  one, so whether a file is accepted depends on the names of its instances.
  The repository's `docs/circuit-graph.md:34` lists hierarchy depth among the hard limits.
* **A graph may pass the preflight with too many incidences**
  (`preflight_incidences`). `_graph_metrics` adds the ports of a scope to the
  edges and compares only when it reads a device or an instance
  (`graph_dataset.py:285`). The repository's
  `docs/graph-datasets.md:122` and `:124` say that the
  counts are bounded before a view is built; the view refuses the graph later.

Two narrower observations have no run. A complete graph over `max_devices`
fails the partial check, which comes first, so a comparison cannot name its
refusal. Two runs that differ in `max_canonical_permutations` may sign one graph
differently.

## 6. Plan

Done: the search core with its ledger, rules, constraints, identity, ranking,
comparison and output layer; SPICE ingestion; layout; connectivity views and
trails; data sets; the baseline. Proofs of the search, the rules, comparisons,
the baseline's split, ranking, layout, the output layer, data sets and circuit
graphs (section 4).

Next:

1. Proofs: the exactness of views, with a theory of sorted lists, and of trails.
2. The augmentation manifest of `graph_augmentation.py` (new names, and the
   checks of a manifest against its graph) on top of ConnectivityViews.
3. Two data set payloads counted and converted together with the records they
   become, so that counts and records share their sizes.

Not modelled, and why:

* JSON decoding, text safety, number formats and size limits of text
  (`spec.py` loading, the parsers' front ends in `graph_codec.py`,
  `layout.py`, `graph_dataset.py`): checks of one document, with no state
  beyond it.
* The distribution audit (`distribution_audit.py`) walks the members of one
  archive once; it compares headers, sizes and paths byte by byte and keeps only
  the set of names seen.
* Release artifacts (`release_artifacts.py`) and the sign-off check (`dco.py`):
  sequential comparison of documents with each other; nothing is kept between
  two steps but what was read.
* Reports and benchmarks (`emit.py`, `benchmark.py`, `circuit_benchmark.py`):
  formatting, and measurements of time.
* Characters and letter case in SPICE files, warnings and notes of the
  constraints, rank positions in a comparison, rendering of traces.
* Package entry points and workflows hold no program logic.

## 7. Running

```
tlc -config MCSearchLoop.cfg MCSearchLoop.tla
tlc -config MCNetlistDepth.cfg MCNetlist.tla
tlapm SearchLoopProofs.tla
tlapm Foundations.tla
tlapm CatalogueProofs.tla
tlapm TopologySearchProofs.tla
tlapm SequenceBaselineProofs.tla
tlapm ResultProofs.tla
tlapm DatasetProofs.tla
tlapm NetlistProofs.tla
```

`PROJECT.json` names every run with its configuration, the mutant behind each
property, the source lines of each definition, hazards and theorems.
