-------------------------- MODULE ConnectivityCodec --------------------------
(***************************************************************************)
(* A view of a circuit leaves the program as a document, is edited by      *)
(* whoever holds it, may be signed again, and is read back.                *)
(***************************************************************************)
EXTENDS ConnectivityViews

CONSTANTS
  Circuits,                  \* what SPICE ingestion built
  Texts,                     \* names an edit may put in the place of another
  MaxEdits                   \* for each circuit, how often its view is edited

VARIABLES origin, view, document, edits, phase
codecVars == <<origin, view, document, edits, phase>>

ViewOf(circuit, v) == IF v = "compact" THEN CompactGraph(circuit) ELSE ToPin(CompactGraph(circuit))

Issued ==
  /\ origin \in Circuits /\ view \in {"compact", "pin"}
  /\ document = ViewOf(origin, view)
  /\ edits = 0 /\ phase = "held"

Edit(edited) ==
  /\ phase = "held" /\ edits < MaxEdits[origin]
  /\ document' = edited /\ edits' = edits + 1
  /\ UNCHANGED <<origin, view, phase>>

Lists == {"nets", "owners"} \cup IF view = "compact" THEN {"edges"} ELSE {"pins", "links"}

\* An element with one field changed.
Changed(scope, list, x) ==
  LET with(field, values) == {[x EXCEPT ![field] = v] : v \in values}
  IN CASE list = "nets"   -> with("is_port", BOOLEAN) \cup with("is_global", BOOLEAN) \cup with("name", Texts)
       [] list = "owners" -> with("name", Texts) \cup with("kind", {"port", "device", "instance"}) \cup with("index", {0, 1, None})
                             \cup with("element", {"resistor", "diode", None}) \cup with("model", Texts \cup {None})
                             \cup with("reference", Texts \cup {None})
                             \cup with("parameters", {Reverse(x.parameters), <<>>}) \cup with("effective", {Reverse(x.effective), <<>>})
       [] list = "links"  -> with("net", Range(Column(scope.nets, "id"))) \cup with("pin", Range(Column(scope.pins, "id")))
       [] OTHER           -> with("terminal", Texts \cup {"port", "p", "n"}) \cup with("ordinal", 0..2)
                             \cup with("owner", Range(Column(scope.owners, "id")))
                             \cup IF list = "edges" THEN with("net", Range(Column(scope.nets, "id"))) ELSE {}

Change ==
  \E s \in DOMAIN document.scopes, list \in Lists : \E i \in DOMAIN document.scopes[s][list] :
    \E x \in Changed(document.scopes[s], list, document.scopes[s][list][i]) \ {document.scopes[s][list][i]} :
      Edit([document EXCEPT !.scopes[s][list][i] = x])
Swapped(list, i) == [list EXCEPT ![i] = list[i - 1], ![i - 1] = list[i]]
Swap ==
  \E s \in DOMAIN document.scopes, list \in Lists : \E i \in DOMAIN document.scopes[s][list] \ {1} :
    Edit([document EXCEPT !.scopes[s][list] = Swapped(@, i)])
Drop ==
  \E s \in DOMAIN document.scopes, list \in Lists : \E i \in DOMAIN document.scopes[s][list] :
    Edit([document EXCEPT !.scopes[s][list] = RemoveAt(@, i)])
Repeat ==
  \E s \in DOMAIN document.scopes, list \in Lists : \E i \in DOMAIN document.scopes[s][list] :
    Edit([document EXCEPT !.scopes[s][list] = InsertAt(@, i, @[i])])

\* A scope is taken from the view of another circuit that is being edited.
Splice ==
  \E s \in DOMAIN document.scopes, c \in {d \in Circuits \ {origin} : MaxEdits[d] > 0} :
    s \in DOMAIN c.scopes /\ Edit([document EXCEPT !.scopes[s] = ViewOf(c, view).scopes[s]])
Redirect == \E top \in Texts \ {document.top} : Edit([document EXCEPT !.top = top])
-----------------------------------------------------------------------------
(* What can be signed anew: the ids of the incidences, the source identity *)
(* and the identity of the document.                                       *)

IsLinked(scope) == Column(scope.links, "pin") = Column(scope.pins, "id") /\ IsInjective(Column(scope.pins, "id"))
Renamed(scope) ==
  IF view = "compact"
  THEN [scope EXCEPT !.edges = [i \in DOMAIN @ |-> Edge(scope.id, @[i].owner, @[i].terminal, @[i].ordinal, @[i].net)]]
  ELSE IF ~IsLinked(scope) THEN scope
  ELSE LET id == [i \in DOMAIN scope.pins |->
                    LET p == scope.pins[i] IN PinId(Edge(scope.id, p.owner, p.terminal, p.ordinal, scope.links[i].net).id)]
       IN [scope EXCEPT !.pins = [i \in DOMAIN @ |-> [@[i] EXCEPT !.id = id[i]]],
                        !.links = [i \in DOMAIN @ |-> [id |-> LinkId(id[i], @[i].net), pin |-> id[i], net |-> @[i].net]]]

\* Only what can be read as a circuit has a source identity.
IsReadable(compact) ==
  \A s \in DOMAIN compact.scopes :
    LET scope == compact.scopes[s]
    IN /\ \A o \in Range(scope.owners) : (o.kind = "port" => o.index # None) /\ Ordered(scope.edges, o) # <<>>
       /\ \A e \in Range(scope.edges) : e.net \in Range(Column(scope.nets, "id"))
Sourced(d) ==
  IF view = "pin" /\ \E s \in DOMAIN d.scopes : ~IsLinked(d.scopes[s]) THEN d
  ELSE LET compact == IF view = "pin" THEN ToCompact(d) ELSE d
       IN IF IsReadable(compact) THEN [d EXCEPT !.source = Semantic(ToCircuit(compact))] ELSE d

\* The document is handed in: as it is, or signed.
HandIn ==
  /\ phase = "held"
  /\ \/ document' = document
     \/ \E ids, source \in BOOLEAN :
          LET renamed == IF ids THEN [document EXCEPT !.scopes = [s \in DOMAIN @ |-> Renamed(@[s])]] ELSE document
          IN document' = Signed(IF source THEN Sourced(renamed) ELSE renamed)
  /\ phase' = "handed in"
  /\ UNCHANGED <<origin, view, edits>>

Travel == Change \/ Swap \/ Drop \/ Repeat \/ Splice \/ Redirect \/ HandIn
-----------------------------------------------------------------------------
Accepted == phase = "handed in" /\ IF view = "compact" THEN IsCompact(document) ELSE IsPin(document)
Compacted == IF view = "compact" THEN document ELSE ToCompact(document)
Circuit == ToCircuit(Compacted)

\* The two validators, written apart, accept the same: a compact document is
\* accepted exactly when its pins are, and of accepted pins the edges are.
ViewsAgree ==
  phase = "handed in" =>
    IF view = "compact" THEN IsCompact(Signed(document)) <=> IsPin(ToPin(document))
    ELSE Accepted => IsCompact(Compacted)

\* An effective parameter is written as an object.
AsObjects(circuit) ==
  [circuit EXCEPT !.scopes = [s \in DOMAIN @ |->
    [@[s] EXCEPT !.instances = [i \in DOMAIN @ |-> [@[i] EXCEPT !.effective = AsMap(@)]]]]]

\* What nobody edited is accepted and gives back its circuit
\* (assert_lossless_round_trip).  Whatever is accepted is, to the last id and
\* position, the view of the circuit it is read as; and that circuit is what
\* SPICE ingestion makes of the names its identity keeps, although the identity
\* leaves out ids, flags, port nets and effective parameters.
AcceptedViewsAreExact ==
  phase = "handed in" =>
    /\ document = ViewOf(origin, view) => Accepted /\ Circuit = origin
    /\ Accepted => /\ document = ViewOf(Circuit, view)
                   /\ AsObjects(Circuit) = AsObjects(Built(Semantic(Circuit)))
=============================================================================
