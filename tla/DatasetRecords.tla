--------------------------- MODULE DatasetRecords ---------------------------
(***************************************************************************)
(* Records of graph_dataset and validate_graph_dataset.  A graph is        *)
(* [design, names, origin]: its connectivity, its device names (the seeds  *)
(* it was renamed with) and its source evidence.  Identities are           *)
(* injective: a graph identity is design and names, an evidence identity   *)
(* the whole graph, a record identity the record without its payload,      *)
(* which the derivation evidence stands for.                               *)
(***************************************************************************)
EXTENDS Integers, FiniteSets, FiniteSetsExt, Reachability, Checks

CONSTANTS
  BucketOf,                  \* design -> leakage bucket, equal for some designs
  SizeOf,                    \* design -> vertices
  Lone,                      \* designs of one device: a second renaming replaces the first
  MaxAncestryDepth, MaxRecords, MaxVertices,
  None                       \* no parent, no seed, no payload, no identity

ASSUME RecordsAssumption == MaxAncestryDepth \in Nat /\ MaxRecords \in Nat /\ MaxVertices \in Nat

GraphId(g) == <<g.design, g.names>>

\* rename_devices, as far as records tell graphs apart.
RenameDevices(g, seed) == [g EXCEPT !.names = IF g.design \in Lone THEN <<seed>> ELSE Append(@, seed)]

\* What a payload holds: its graph, what it says it was made from, how.
Payload(kind, graph, source, seed) == [kind |-> kind, graph |-> graph, source |-> source, seed |-> seed]

\* _record_payload_info: the derivation is replayed.
PayloadFailure(p) ==
  FirstFailure(<<
    <<p.kind = "device_rename" /\ RenameDevices(p.source, p.seed) # p.graph, "derivation">>,
    <<p.kind # "device_rename" /\ p.source # p.graph, "derivation">> >>)

\* _record_body, hashed.
Identity(record) == [record EXCEPT !.id = None, !.payload = None]
WithIdentity(record) == [record EXCEPT !.id = Identity(record)]

\* _make_record
MakeRecord(payload, parent) ==
  WithIdentity(
    [kind |-> payload.kind,
     root |-> IF parent = None THEN GraphId(payload.graph) ELSE parent.root,
     root_evidence |-> IF parent = None THEN payload.graph ELSE parent.root_evidence,
     graph |-> GraphId(payload.graph), evidence |-> payload.graph,
     bucket |-> BucketOf[payload.graph.design],
     parent |-> IF parent = None THEN None ELSE parent.id,
     seed |-> payload.seed, derivation |-> payload, payload |-> payload, id |-> None])

\* _validated_record
RecordFailure(r) ==
  FirstFailure(<<
    <<r.kind # r.payload.kind, "payload">>,
    <<PayloadFailure(r.payload) # Passed, "derivation">>,
    <<r.graph # GraphId(r.payload.graph), "graph">>,
    <<r.evidence # r.payload.graph, "evidence">>,
    <<r.derivation # r.payload \/ r.seed # r.payload.seed, "derivation evidence">>,
    <<r.bucket # BucketOf[r.payload.graph.design], "bucket">>,
    <<r.id # Identity(r), "identity">> >>)

RootFailure(r) ==
  FirstFailure(<<
    <<r.parent # None \/ r.seed # None, "root has parent">>,
    <<r.root # r.graph \/ r.root_evidence # r.evidence, "root lineage">> >>)

\* Mutant: the parent's graph is not compared with what the payload restores.
DerivedFailureLoose(r, records) ==
  LET parents == {q \in records : q.id = r.parent}
  IN FirstFailure(<<
       <<r.parent = None \/ parents = {}, "missing parent">>,
       <<\E q \in parents : r.root # q.root \/ r.root_evidence # q.root_evidence, "lineage">> >>)

DerivedFailure(r, records) ==
  LET parents == {q \in records : q.id = r.parent}
  IN FirstFailure(<<
       <<r.parent = None \/ parents = {}, "missing parent">>,
       <<\E q \in parents : r.root # q.root \/ r.root_evidence # q.root_evidence, "lineage">>,
       <<\E q \in parents : r.payload.source # q.payload.graph, "parent graph">> >>)

Parents(records) == [id \in {r.id : r \in records} |-> {r.parent : r \in {q \in records : q.id = id}} \ {None}]
AncestryFailure(r, records) ==
  LET ancestry == Reachable(Parents(records), {r.id})
  IN FirstFailure(<<
       <<\E id \in ancestry : id \in Reachable(Parents(records), Parents(records)[id]), "cycle">>,
       <<Cardinality(ancestry) - 1 > MaxAncestryDepth, "depth">> >>)

Vertices(records) == MapThenSumSet(LAMBDA r : SizeOf[r.payload.graph.design], records)

\* _preflight_records of a tuple: how many entries it has, and the records in it.
PreflightFailure(count, records) ==
  FirstFailure(<<
    <<count \notin 1..MaxRecords, "count">>,
    <<Cardinality({r.id : r \in records}) # count, "duplicate">>,
    <<Vertices(records) > MaxVertices, "vertices">> >>)

\* validate_graph_dataset
DatasetFailure(count, records) ==
  IF PreflightFailure(count, records) # Passed THEN PreflightFailure(count, records)
  ELSE IF \E r \in records : RecordFailure(r) # Passed THEN "record"
  ELSE IF \E r \in records : (IF r.kind = "root" THEN RootFailure(r) ELSE DerivedFailure(r, records)) # Passed
    THEN "lineage"
  ELSE IF \E r \in records : AncestryFailure(r, records) # Passed THEN "ancestry" ELSE Passed
=============================================================================
