------------------------------ MODULE Netlist ------------------------------
(***************************************************************************)
(* spice.load_spice: the reader expands the files, the parser reads the    *)
(* lines the reader returned, the builder makes the circuit graph of what  *)
(* the parser holds.  Each stage runs to its end before the next begins,   *)
(* and the first error ends the call.                                      *)
(***************************************************************************)
EXTENDS Integers, SpiceSource, SpiceScopes, CircuitHierarchy

CONSTANTS
  Says(_),         \* Says(l): what the lines of a source may say, under the limits l
  Tops             \* the tops a caller may ask for

ASSUME DepthAssumption == \A input \in Inputs : input.limits.hierarchy_depth \in Int
ASSUME SizeAssumption == \A input \in Inputs : {input.limits.subcircuits, input.limits.elements} \subseteq Int
ASSUME TextAssumption == \A l \in {input.limits : input \in Inputs} : \A text \in Says(l) : IsText(text)

netlistVars == <<limits, readerVars, parserVars, builderVars>>

Init == ReaderInit /\ ParserInit /\ BuilderInit

Reading == ReaderNext /\ UNCHANGED <<limits, parserVars, builderVars>>
StartParse ==
  /\ reader = "accepted"
  /\ reader' = "returned"
  /\ \E text \in Says(limits) : Len(text) = Len(source) /\ StartParsing(text)
  /\ UNCHANGED <<limits, disk, asked, active, files, bytes, lines, source, builderVars>>
Parsing == ParserNext /\ UNCHANGED <<limits, readerVars, builderVars>>

Words(tokens) == [i \in DOMAIN tokens |-> tokens[i].word]
Library ==
  [scopes |-> [s \in DOMAIN parser.scopes |->
     LET elements == parser.scopes[s].elements
         primitives == {e \in DOMAIN elements : elements[e].family # "x"}
     IN [ports |-> Words(parser.scopes[s].ports), defaults |-> parser.scopes[s].defaults,
         nets |-> UNION {ToSet(Words(elements[e].nets)) : e \in primitives},
         instances |-> [x \in DOMAIN elements \ primitives |->
           [of |-> elements[x].of.word, nets |-> Words(elements[x].nets), overrides |-> elements[x].parameters]]]],
   globals |-> {token.word : token \in parser.globals}]
StartBuild ==
  /\ parser.verdict = "accepted"
  /\ parser' = [parser EXCEPT !.verdict = "returned"]
  /\ \E name \in Tops \cup {Root, NoTop} : StartBuilding(Library, name)
  /\ UNCHANGED <<limits, readerVars, statements, at>>
Building == BuilderNext /\ UNCHANGED <<limits, readerVars, parserVars>>

\* The call returns or raises.
Finished ==
  /\ \/ reader \notin {"reading", "accepted", "returned"}
     \/ parser.verdict \notin {"idle", "reading", "accepted", "returned"}
     \/ builder \notin {"idle", "selecting", "closing", "building"}
  /\ UNCHANGED netlistVars

Next == Reading \/ StartParse \/ Parsing \/ StartBuild \/ Building \/ Finished
Spec == Init /\ [][Next]_netlistVars
=============================================================================
