------------------------------- MODULE MCDataset ---------------------------
(***************************************************************************)
(* Four graphs: one twice with different evidence, one of another design   *)
(* with the same bucket, one unrelated.  Every limit on a payload is a few *)
(* items of size at most two.                                              *)
(***************************************************************************)
EXTENDS Dataset

MCGraph(design, origin) == [design |-> design, names |-> <<>>, origin |-> origin]
MCGraphs == {MCGraph("ota", "a"), MCGraph("ota", "b"), MCGraph("alias", "a"), MCGraph("lone", "a")}
MCBucketOf == [ota |-> "x", alias |-> "x", lone |-> "y"]
MCSizeOf == [ota |-> 2, alias |-> 2, lone |-> 1]
MCWeights == {<<2, 0, 1>>}
=============================================================================
