---------------------------- MODULE DatasetSplit ----------------------------
(***************************************************************************)
(* A curator makes dataset records, splits some of them, stacks splits,    *)
(* and takes splits and records from others, which may be false.  Every    *)
(* public operation validates what it is given; only what it returns is    *)
(* kept.  Partitions are sets: their order is that of the identities.  The *)
(* digest of a seed and a component is arbitrary, and the same every time. *)
(***************************************************************************)
EXTENDS DatasetRecords, Functions

CONSTANTS
  Graphs, Seeds,
  Weights,                   \* triples of weights
  Digests,                   \* the digests of components
  Rewritten,                 \* the fields of a record others may have changed
  MaxMade, MaxSplits         \* bounds of the exploration

ASSUME GraphsAssumption == \A g \in Graphs : "design" \in DOMAIN g /\ SizeOf[g.design] \in Nat

VARIABLES
  made,                      \* records of the constructors, and false ones
  falsified,                 \* whether a false record was taken
  splits,                    \* sequence of [seed, weights, parts, taken]
  digest,                    \* <<seed, component>> -> digest, as far as computed
  stacked                    \* stack operations: [of, verdict, result]
curatorVars == <<made, falsified, splits, digest, stacked>>

Partitions == 1..3
RecordsOf(split) == UNION Range(split.parts)
SumOf(weights) == weights[1] + weights[2] + weights[3]
-----------------------------------------------------------------------------
\* _component_indexes: parents is the union-find forest over positions.
Find(parents, i) ==
  LET root[j \in DOMAIN parents] == IF parents[j] = j THEN j ELSE root[parents[j]] IN root[i]

Unite(parents, i, j) ==
  LET l == Find(parents, i)  r == Find(parents, j) IN [parents EXCEPT ![Max({l, r})] = Min({l, r})]

\* Mutant: equal buckets do not join.
KeysUnbucketed(r) == {<<"root-lineage", r.root>>, <<"root-evidence", r.root_evidence>>, <<"immediate-graph", r.graph>>}

Keys(r) == {<<"root-lineage", r.root>>, <<"root-evidence", r.root_evidence>>, <<"immediate-graph", r.graph>>,
            <<"leakage-bucket", r.bucket>>}

\* One record of the loop: joined to its parent and to the first with a key of its.
JoinRecord(records, parents, i) ==
  LET known == {j \in DOMAIN records : records[j].id = records[i].parent}
      first == {Min({j \in 1..i : key \in Keys(records[j])}) : key \in Keys(records[i])}
  IN FoldSet(LAMBDA j, forest : Unite(forest, i, j), parents, known \cup first)

\* records is a sequence; the result does not depend on its order.
Joined(records) ==
  FoldLeft(LAMBDA parents, i : JoinRecord(records, parents, i), [i \in DOMAIN records |-> i],
           [i \in DOMAIN records |-> i])
Component(records, forest, i) == {records[j] : j \in {k \in DOMAIN records : Find(forest, k) = Find(forest, i)}}
Components(records) == {Component(records, Joined(records), i) : i \in DOMAIN records}
-----------------------------------------------------------------------------
CuratorInit ==
  /\ made = {} /\ falsified = FALSE /\ splits = <<>> /\ stacked = {}
  /\ digest = [k \in {} |-> 0]

Make(record) ==
  /\ splits = <<>> /\ Cardinality(made) < MaxMade
  /\ made' = made \cup {record}
  /\ UNCHANGED <<falsified, splits, digest, stacked>>

RootRecord == \E g \in Graphs : Make(MakeRecord(Payload("root", g, g, None), None))
RenamedRecord ==
  \E parent \in made, seed \in Seeds :
    /\ RecordFailure(parent) = Passed
    /\ Make(MakeRecord(Payload("device_rename", RenameDevices(parent.payload.graph, seed), parent.payload.graph, seed), parent))
TraversalRecord ==
  \E parent \in made, seed \in Seeds :
    /\ RecordFailure(parent) = Passed
    /\ Make(MakeRecord(Payload("euler_traversal", parent.payload.graph, parent.payload.graph, seed), parent))

\* A record from elsewhere: one field of a record has the value it has in
\* another, and the identity was computed again, or not.
FalseRecord ==
  /\ ~falsified /\ splits = <<>>
  /\ \E r, q \in made, field \in Rewritten :
       LET changed == [r EXCEPT ![field] = q[field]]
       IN \E record \in {changed, WithIdentity(changed)} : made' = (made \ {r}) \cup {record}
  /\ falsified' = TRUE
  /\ UNCHANGED <<splits, digest, stacked>>

PartitionOf(weights, d) ==
  LET slot == d % SumOf(weights)
  IN IF slot < weights[1] THEN 1 ELSE IF slot < weights[1] + weights[2] THEN 2 ELSE 3

Assigned(components, seed, weights, digests) ==
  [p \in Partitions |-> UNION {c \in components : PartitionOf(weights, digests[<<seed, c>>]) = p}]

\* split_graph_dataset; the identities put the records in any order.
Split ==
  \E chosen \in SUBSET made \ {{}}, seed \in Seeds, weights \in Weights :
    /\ Len(splits) < MaxSplits
    /\ DatasetFailure(Cardinality(chosen), chosen) = Passed
    /\ \E order \in SetToSeqs(chosen) :
         LET components == Components(order)
             keys == {seed} \X components
         IN \E fresh \in [keys \ DOMAIN digest -> Digests] :
              /\ digest' = digest @@ fresh
              /\ splits' = Append(splits, [seed |-> seed, weights |-> weights, taken |-> FALSE,
                                           parts |-> Assigned(components, seed, weights, digest')])
    /\ UNCHANGED <<made, falsified, stacked>>

\* The entries of the three partitions; a record may stand in several.
CountOf(split) == Cardinality(split.parts[1]) + Cardinality(split.parts[2]) + Cardinality(split.parts[3])

\* _validate_split
SplitFailure(split) ==
  LET records == RecordsOf(split)
      dataset == DatasetFailure(CountOf(split), records)
  IN IF dataset # Passed THEN dataset
     ELSE IF Cardinality({r.id : r \in records}) # CountOf(split) THEN "repeats"
     ELSE IF \E c \in Components(SetToSeq(records)) : \A p \in Partitions : ~(c \subseteq split.parts[p]) THEN "leakage"
     ELSE Passed

\* validate_dataset_split of a split another made: a record has moved, or stands
\* in another partition as well.
TakeSplit ==
  \E i \in DOMAIN splits, r \in made, p \in Partitions, moves \in BOOLEAN :
    LET other == [splits[i] EXCEPT !.taken = TRUE,
                    !.parts = [q \in Partitions |-> IF q = p THEN @[q] \cup {r} ELSE IF moves THEN @[q] \ {r} ELSE @[q]]]
    IN /\ Len(splits) < MaxSplits /\ SplitFailure(other) = Passed
       /\ splits' = Append(splits, other)
       /\ UNCHANGED <<made, falsified, digest, stacked>>

Union(left, right) == [left EXCEPT !.parts = [p \in Partitions |-> left.parts[p] \cup right.parts[p]]]

\* Mutant: the stacked split is not validated again.
StackFailureParts(left, right) ==
  FirstFailure(<<
    <<left.seed # right.seed \/ left.weights # right.weights, "incompatible">>,
    <<TRUE, PreflightFailure(CountOf(left) + CountOf(right), RecordsOf(left) \cup RecordsOf(right))>> >>)

\* stack_dataset_splits of two; the splits themselves were validated before.
StackFailure(left, right) ==
  LET both == PreflightFailure(CountOf(left) + CountOf(right), RecordsOf(left) \cup RecordsOf(right))
  IN IF left.seed # right.seed \/ left.weights # right.weights THEN "incompatible"
     ELSE IF both # Passed THEN both ELSE SplitFailure(Union(left, right))

Stack ==
  \E i, j \in DOMAIN splits :
    /\ i < j /\ \A done \in stacked : done.of # {i, j}
    /\ stacked' = stacked \cup {[of |-> {i, j}, verdict |-> StackFailure(splits[i], splits[j]),
                                 result |-> Union(splits[i], splits[j])]}
    /\ UNCHANGED <<made, falsified, splits, digest>>

Curate == RootRecord \/ RenamedRecord \/ TraversalRecord \/ FalseRecord \/ Split \/ TakeSplit \/ Stack
-----------------------------------------------------------------------------
\* What a model trained on r may know of q: a shared origin, graph or bucket.
Related(r, q) ==
  r.parent = q.id \/ q.parent = r.id \/ \E f \in {"root", "root_evidence", "graph", "bucket"} : r[f] = q[f]
Group(r, records) == Reachable([s \in records |-> {q \in records : Related(s, q)}], {r})
Leaks(split) ==
  \E p \in Partitions : \E r \in split.parts[p] : ~(Group(r, RecordsOf(split)) \subseteq split.parts[p])

\* No split the package returns or accepts lets a leakage group, however long
\* the chain that holds it together, span partitions; and none has a record in two
\* partitions, which for a record that is a group of its own is no such leak.
NoLeakage ==
  \A split \in Range(splits) :
    ~Leaks(split) /\ \A p, q \in Partitions : p # q => split.parts[p] \cap split.parts[q] = {}

\* Two splits valid one by one are stacked exactly when they agree on seed and
\* weights, share no record, stay within the limits and no group spans
\* partitions in their union.
StackVerdict ==
  \A done \in stacked :
    LET left == splits[Min(done.of)]  right == splits[Max(done.of)]
    IN (done.verdict = Passed) =
         (/\ left.seed = right.seed /\ left.weights = right.weights
          /\ RecordsOf(left) \cap RecordsOf(right) = {}
          /\ Cardinality(RecordsOf(done.result)) <= MaxRecords /\ Vertices(RecordsOf(done.result)) <= MaxVertices
          /\ ~Leaks(done.result))

\* Every record in a split really descends, in at most MaxAncestryDepth
\* replayable steps, from the root graph it names.
AncestryIsTrue ==
  \A split \in Range(splits) : \A r \in RecordsOf(split) :
    \E path \in BoundedSeq(RecordsOf(split), MaxAncestryDepth + 1) :
      /\ path # <<>> /\ path[1] = r
      /\ LET origin == path[Len(path)].payload
         IN origin.kind = "root" /\ GraphId(origin.graph) = r.root /\ origin.graph = r.root_evidence
      /\ \A i \in 1..Len(path) - 1 :
           LET p == path[i].payload  from == path[i + 1].payload.graph
           IN p.graph = IF p.kind = "device_rename" THEN RenameDevices(from, p.seed) ELSE from
=============================================================================
