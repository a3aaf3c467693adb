--------------------------- MODULE PayloadMetrics ---------------------------
(***************************************************************************)
(* The counting of graph_dataset that precedes every conversion:           *)
(* _graph_metrics, _sequence_metrics and _augmentation_metrics read one    *)
(* payload item by item under limits, _preflight_records adds up payloads. *)
(* What the payload holds is not known before it is read, so the items are *)
(* chosen as they are met; only their counts matter.                       *)
(***************************************************************************)
EXTENDS Integers

CONSTANTS
  MaxScopes, MaxOwners, MaxNets, MaxEdges, MaxParameters, MaxPairs, MaxText,
  MaxPayloads, MaxAllVertices, MaxAllEdges, MaxAllPairs, MaxAllText,
  MaxCount                   \* bound on the size of one item

ASSUME LimitsAssumption ==
  /\ {MaxScopes, MaxOwners, MaxNets, MaxEdges, MaxParameters, MaxPairs, MaxText} \subseteq Nat
  /\ {MaxPayloads, MaxAllVertices, MaxAllEdges, MaxAllPairs, MaxAllText, MaxCount} \subseteq Nat

VARIABLES
  kind,                                 \* what is being read
  scopes, owners, nets, edges, pairs, text,
  trails,                               \* those of edges that are trails
  parts, pending, walks,                \* devices or owners, trails, counted trails to come in this scope
  records, allVertices, allEdges, allPairs, allText,
  verdict
payload == <<scopes, owners, nets, edges, pairs, text, trails, parts, pending, walks>>
aggregate == <<records, allVertices, allEdges, allPairs, allText>>
vars == <<kind, payload, aggregate, verdict>>

Kinds == {"graph", "rename", "sequence"}
Counts == 0..MaxCount
IsAtScopeEnd == parts = 0 /\ pending = 0 /\ walks = 0

Cleared ==
  /\ scopes = 0 /\ owners = 0 /\ nets = 0 /\ edges = 0 /\ pairs = 0 /\ text = 0 /\ trails = 0
  /\ parts = 0 /\ pending = 0 /\ walks = 0
Clear ==
  /\ scopes' = 0 /\ owners' = 0 /\ nets' = 0 /\ edges' = 0 /\ pairs' = 0 /\ text' = 0 /\ trails' = 0
  /\ parts' = 0 /\ pending' = 0 /\ walks' = 0
Init ==
  /\ kind \in Kinds /\ Cleared /\ verdict = "reading"
  /\ records = 0 /\ allVertices = 0 /\ allEdges = 0 /\ allPairs = 0 /\ allText = 0

Check(failed, reason) == verdict' = IF failed THEN reason ELSE "reading"

\* Mutant: the owners of earlier scopes are forgotten.
ReadScopeAlone(ports, others, net, walk, pair, bytes) ==
  /\ verdict = "reading" /\ IsAtScopeEnd /\ scopes < MaxScopes
  /\ (walk = 0 \/ kind = "sequence")
  /\ scopes' = scopes + 1
  /\ owners' = owners + ports + others /\ nets' = nets + net
  /\ edges' = IF kind = "sequence" THEN edges ELSE edges + ports
  /\ pairs' = pairs + pair /\ text' = text + bytes
  /\ parts' = (IF kind = "sequence" THEN ports + others ELSE others) /\ pending' = walk
  /\ Check(ports + others > MaxOwners \/ nets' > MaxNets \/ pair > MaxParameters \/ pairs' > MaxPairs
             \/ text' > MaxText, "scope")
  /\ UNCHANGED <<kind, trails, walks, aggregate>>

\* The lengths a scope shows at once; the ports of a graph are edges.
ReadScope(ports, others, net, walk, pair, bytes) ==
  /\ verdict = "reading" /\ IsAtScopeEnd /\ scopes < MaxScopes
  /\ (walk = 0 \/ kind = "sequence")
  /\ scopes' = scopes + 1
  /\ owners' = owners + ports + others /\ nets' = nets + net
  /\ edges' = IF kind = "sequence" THEN edges ELSE edges + ports
  /\ pairs' = pairs + pair /\ text' = text + bytes
  /\ parts' = (IF kind = "sequence" THEN ports + others ELSE others) /\ pending' = walk
  /\ Check(owners' > MaxOwners \/ nets' > MaxNets \/ pair > MaxParameters \/ pairs' > MaxPairs
             \/ text' > MaxText, "scope")
  /\ UNCHANGED <<kind, trails, walks, aggregate>>

\* Mutant: the limits are compared once per scope, after its last device.
ReadDeviceLate(terminals, parameters, bytes) ==
  /\ verdict = "reading" /\ kind # "sequence" /\ parts > 0
  /\ parts' = parts - 1
  /\ edges' = edges + terminals /\ pairs' = pairs + terminals + parameters /\ text' = text + bytes
  /\ Check(parts' = 0 /\ (edges' > MaxEdges \/ pairs' > MaxPairs \/ parameters > MaxParameters \/ text' > MaxText), "device")
  /\ UNCHANGED <<kind, scopes, owners, nets, trails, pending, walks, aggregate>>

\* A device of a graph: terminals, parameters and text. Only counts matter, so
\* devices and instances come in any order.
ReadDevice(terminals, parameters, bytes) ==
  /\ verdict = "reading" /\ kind # "sequence" /\ parts > 0
  /\ parts' = parts - 1
  /\ edges' = edges + terminals /\ pairs' = pairs + terminals + parameters /\ text' = text + bytes
  /\ Check(edges' > MaxEdges \/ pairs' > MaxPairs \/ parameters > MaxParameters \/ text' > MaxText, "device")
  /\ UNCHANGED <<kind, scopes, owners, nets, trails, pending, walks, aggregate>>

\* An instance: what it sets and what is in effect are bounded one by one.
ReadInstance(connections, parameters, effective, bytes) ==
  /\ verdict = "reading" /\ kind # "sequence" /\ parts > 0
  /\ parts' = parts - 1
  /\ edges' = edges + connections /\ pairs' = pairs + connections + parameters + effective /\ text' = text + bytes
  /\ Check(edges' > MaxEdges \/ pairs' > MaxPairs \/ parameters > MaxParameters \/ effective > MaxParameters
             \/ text' > MaxText, "instance")
  /\ UNCHANGED <<kind, scopes, owners, nets, trails, pending, walks, aggregate>>

\* An owner of a sequence has the two maps of an instance and no terminals.
ReadOwner(parameters, effective, bytes) ==
  /\ verdict = "reading" /\ kind = "sequence" /\ parts > 0
  /\ parts' = parts - 1 /\ pairs' = pairs + parameters + effective /\ text' = text + bytes
  /\ Check(parameters > MaxParameters \/ effective > MaxParameters \/ pairs' > MaxPairs \/ text' > MaxText, "owner")
  /\ UNCHANGED <<kind, scopes, owners, nets, edges, trails, pending, walks, aggregate>>

CountTrails ==
  /\ verdict = "reading" /\ parts = 0 /\ pending > 0
  /\ trails' = trails + pending /\ edges' = edges + pending /\ walks' = pending /\ pending' = 0
  /\ Check(trails' > MaxEdges, "trails")
  /\ UNCHANGED <<kind, scopes, owners, nets, pairs, text, parts, aggregate>>

ReadTrail(steps, bytes) ==
  /\ verdict = "reading" /\ walks > 0
  /\ walks' = walks - 1 /\ edges' = edges + steps /\ text' = text + bytes
  /\ Check(edges' > MaxEdges \/ text' > MaxText, "trail")
  /\ UNCHANGED <<kind, scopes, owners, nets, pairs, trails, parts, pending, aggregate>>

\* The manifest of a renaming, under what its graph left of the text.
ReadManifest(entries, bytes) ==
  /\ verdict = "reading" /\ kind = "rename" /\ IsAtScopeEnd /\ scopes > 0
  /\ kind' = "graph" /\ text' = text + bytes
  /\ Check(entries > MaxOwners \/ text' > MaxText, "manifest")
  /\ UNCHANGED <<scopes, owners, nets, edges, pairs, trails, parts, pending, walks, aggregate>>

\* One turn of _preflight_records.
CountPayload ==
  /\ verdict = "reading" /\ kind # "rename" /\ IsAtScopeEnd /\ scopes > 0 /\ records < MaxPayloads
  /\ records' = records + 1 /\ allVertices' = allVertices + scopes + owners + nets
  /\ allEdges' = allEdges + edges /\ allPairs' = allPairs + pairs /\ allText' = allText + text
  /\ Check(allVertices' > MaxAllVertices \/ allEdges' > MaxAllEdges \/ allPairs' > MaxAllPairs
             \/ allText' > MaxAllText, "aggregate")
  /\ kind' \in Kinds /\ Clear

Next ==
  \/ \E ports, others, net, walk, pair, bytes \in Counts : ReadScope(ports, others, net, walk, pair, bytes)
  \/ \E terminals, parameters, bytes \in Counts : ReadDevice(terminals, parameters, bytes)
  \/ \E connections, parameters, effective, bytes \in Counts :
        ReadInstance(connections, parameters, effective, bytes)
  \/ \E parameters, effective, bytes \in Counts : ReadOwner(parameters, effective, bytes)
  \/ CountTrails
  \/ \E steps, bytes \in Counts : ReadTrail(steps, bytes)
  \/ \E entries, bytes \in Counts : ReadManifest(entries, bytes)
  \/ CountPayload
Spec == Init /\ [][Next]_vars
-----------------------------------------------------------------------------
IsCounted == verdict = "reading" /\ IsAtScopeEnd

\* Whatever a payload holds, one that is read to the end stays within every
\* limit, but that ports alone may exceed the edges by as many as there are owners.
PayloadIsBounded ==
  IsCounted =>
    /\ scopes <= MaxScopes /\ owners <= MaxOwners /\ nets <= MaxNets /\ pairs <= MaxPairs /\ text <= MaxText
    /\ edges <= MaxEdges + (IF kind = "sequence" THEN 0 ELSE MaxOwners)

\* At no moment, refusals included, has more been counted than the limits and
\* one item of a payload, or one payload of a dataset.  The sizes of one item are
\* up to three in pairs and two in owners and edges; ports are not compared.
WorkIsBounded ==
  /\ owners <= MaxOwners + 2 * MaxCount /\ pairs <= MaxPairs + 3 * MaxCount /\ text <= MaxText + MaxCount
  /\ edges <= MaxEdges + MaxOwners + 2 * MaxCount
  /\ allVertices <= MaxAllVertices + MaxScopes + MaxOwners + MaxNets /\ allEdges <= MaxAllEdges + MaxEdges + MaxOwners
  /\ allPairs <= MaxAllPairs + MaxPairs /\ allText <= MaxAllText + MaxText

\* graph-datasets.md says of the preflight that one graph is bounded to so many
\* incidences; a scope of ports only is counted and not compared.
IncidencesAreBounded == IsCounted => edges <= MaxEdges
=============================================================================
