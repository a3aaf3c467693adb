------------------------------- MODULE Dataset -------------------------------
(***************************************************************************)
(* graph_dataset as a whole: payloads are counted (PayloadMetrics) before  *)
(* any of them is converted; then they are records that are split, stacked *)
(* and validated (DatasetSplit).  The counts are local to the calls that   *)
(* make them, so nothing is left of them afterwards.                       *)
(***************************************************************************)
EXTENDS DatasetSplit, PayloadMetrics

VARIABLE stage       \* "counting", "curating"
datasetVars == <<vars, curatorVars, stage>>

DatasetInit == Init /\ CuratorInit /\ stage = "counting"

Count == stage = "counting" /\ Next /\ UNCHANGED <<curatorVars, stage>>

\* The counting ends without a refusal and is forgotten.
Convert ==
  /\ stage = "counting" /\ verdict = "reading" /\ records > 0 /\ scopes = 0
  /\ stage' = "curating"
  /\ kind' = "graph" /\ Clear /\ verdict' = "reading"
  /\ records' = 0 /\ allVertices' = 0 /\ allEdges' = 0 /\ allPairs' = 0 /\ allText' = 0
  /\ UNCHANGED curatorVars

Curating == stage = "curating" /\ Curate /\ UNCHANGED <<vars, stage>>

DatasetNext == Count \/ Convert \/ Curating

DatasetSpec == DatasetInit /\ [][DatasetNext]_datasetVars
=============================================================================
