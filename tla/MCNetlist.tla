----------------------------- MODULE MCNetlist -----------------------------
(***************************************************************************)
(* Three kinds of calls.  Directories of three files that may include each *)
(* other, whose lines say nothing valid: each limit of the reader at a     *)
(* value it can exceed.  One file with every source of up to four lines    *)
(* around two subcircuits, sources of two and three blocks, and elements   *)
(* with every arrangement of up to six tokens.  One file with three        *)
(* subcircuits and every shape of references among them, one named like    *)
(* the shared namespace, or one subcircuit used with every arity, override *)
(* and overlap of global nets and ports.                                   *)
(***************************************************************************)
EXTENDS Netlist

CONSTANTS a, b, c

MCPaths == {a, b, c}
MCGenerous ==
  [files |-> 3, file_bytes |-> 20, bytes |-> 20, lines |-> 20, subcircuits |-> 3, elements |-> 9, hierarchy_depth |-> 3]
MCDisk(x, y, z) == [p \in MCPaths |-> CASE p = a -> x [] p = b -> y [] p = c -> z]
MCDisks ==
  {MCDisk(x, y, z) :
     x \in SeqOf({"text", b, c}, 3) \cup {<<b, ".end">>, <<".end", c>>, <<".end", "more">>},
     y \in SeqOf({"text", a, c}, 2)
            \cup {<<b>>, <<"more">>, <<"text", "more">>, <<c, "more">>, <<"missing">>},
     z \in SeqOf({"text", b}, 2) \cup {<<"note", "text">>, <<Outside>>, <<".end">>, <<"garbled">>}}
MCLimit(name, value) ==
  [[MCGenerous EXCEPT !.file_bytes = 3, !.bytes = 9, !.lines = 9, !.subcircuits = 0] EXCEPT ![name] = value]
MCReading == {MCLimit("files", 2), MCLimit("file_bytes", 2), MCLimit("bytes", 4), MCLimit("lines", 4)}

MCParsing == [MCGenerous EXCEPT !.subcircuits = 2, !.elements = 2]
MCBuilding == {[MCGenerous EXCEPT !.hierarchy_depth = n] : n \in {2, 3}}
-----------------------------------------------------------------------------
MCLine(op, name, family, tokens) == [op |-> op, name |-> name, family |-> family, tokens |-> tokens]
MCElement(name, family, tokens) == MCLine("element", name, family, tokens)
MCNet == Plain("n")
MCWidth == Assign("w", 1)

MCLines ==
  {MCLine(".subckt", "a", "", <<Plain("p")>>), MCLine(".subckt", "a", "", <<Plain("p"), Plain("q")>>),
   MCLine(".subckt", "b", "", <<Plain("p"), MCWidth>>),
   MCLine(".ends", Anonymous, "", <<>>), MCLine(".ends", "a", "", <<>>),
   MCLine(".global", "", "", <<Plain("g")>>), MCElement("r1", "r", <<MCNet, MCNet, Plain("k")>>),
   MCElement("x1", "x", <<MCNet, Plain("a"), Marker, MCWidth>>)}
MCOdd ==
  {MCLine(".subckt", "c", "", <<>>), MCLine(".subckt", "c", "", <<MCNet, MCNet>>),
   MCLine(".global", "", "", <<>>), MCLine(".global", "", "", <<Plain("g"), MCWidth>>), MCLine(".include", "", "", <<>>), MCLine(".model", "", "", <<>>)}
MCOpen(name, tokens) == MCLine(".subckt", name, "", tokens)
MCOne == <<Plain("p")>>
MCEnds == MCLine(".ends", Anonymous, "", <<>>)
MCTokens == {MCNet, MCWidth, Assign("value", 2), Marker}
MCSources ==
  SeqOf(MCLines, 4)
  \cup {<<MCOpen("a", MCOne), x, MCEnds, MCOpen(name, MCOne), y, MCEnds, z>> : name \in {"a", "b"}, x, y, z \in MCLines}
  \cup {<<MCOpen("a", MCOne), MCEnds, MCOpen("b", MCOne), x, MCEnds, MCOpen("c", MCOne), y, MCEnds>> : x, y \in MCLines}
  \cup {<<odd, line>> : odd \in MCOdd, line \in MCLines}
  \cup {<<MCOpen("a", MCOne), MCLine(".ends", "a", "", <<Plain(name)>>), line>> : name \in {"a", "b"}, line \in MCLines}
  \cup {<<MCElement("e", family, tokens)>> :
          family \in {"m", "r", "d", "q", "x", "z"}, tokens \in SeqOf(MCTokens, 6)}
-----------------------------------------------------------------------------
\* Hierarchies: blocks that differ in their references only.
MCResistor(net) == MCElement("r1", "r", <<Plain(net), Plain(net), Plain("k")>>)
MCUses(names) == [i \in DOMAIN names |-> MCElement(<<"x1", "x2">>[i], "x", <<MCNet, Plain(names[i])>>)]
MCBlockOf(name, ports, body) == <<MCOpen(name, ports)>> \o body \o <<MCEnds>>
MCBlock(name, body) == MCBlockOf(name, MCOne, body)
MCHierarchies ==
  {MCUses(r) \o MCBlock("__global__", <<MCResistor("n")>> \o MCUses(x)) \o MCBlock("b", <<MCResistor("n")>> \o MCUses(y))
     \o (IF z = <<"dropped">> THEN <<>> ELSE MCBlock("c", <<MCResistor("n")>> \o MCUses(z))) :
     x \in {<<>>, <<"b">>, <<"c">>, <<"b", "c">>, <<"c", "b">>, <<"__global__">>},
     y \in {<<>>, <<"c">>, <<"__global__">>, <<"c", "__global__">>, <<"b">>},
     z \in {<<>>, <<"b">>, <<"c">>, <<"dropped">>}, r \in {<<>>, <<"c">>}}
\* Bindings: one definition, one use.
MCBindings ==
  {MCBlockOf("b", <<Plain("p"), MCNet>> \o defaults, <<MCResistor("n"), MCElement("r2", "r", <<Plain("0"), MCNet, Plain("k")>>)>>)
     \o MCBlockOf("c", <<Plain("q")>>,
                  <<MCResistor("p"), MCElement("x1", "x", [i \in DOMAIN nets |-> Plain(nets[i])] \o <<Plain("b")>> \o overrides)>>)
     \o (IF globals = {} THEN <<>> ELSE <<MCLine(".global", "", "", SetToSeq({Plain(g) : g \in globals}))>>) :
     defaults \in {<<>>, <<Assign("w", 0)>>}, overrides \in {<<>>, <<MCWidth>>, <<Assign("l", 1)>>},
     nets \in (SeqOf({"n", "p", "0"}, 2) \cup {<<"n", "p", "0">>}) \ {<<>>}, globals \in SUBSET {"n", "p"}}

MCFile(n) == MCDisk([i \in 1..n |-> "text"], <<"missing">>, <<"missing">>)
MCLengths(texts) == {Len(s) : s \in texts} \ {0}
MCInputs ==
  {[disk |-> d, limits |-> l] : d \in MCDisks, l \in MCReading}
  \cup {[disk |-> MCFile(n), limits |-> MCParsing] : n \in MCLengths(MCSources)}
  \cup {[disk |-> MCFile(n), limits |-> l] : n \in MCLengths(MCHierarchies \cup MCBindings), l \in MCBuilding}

MCSays(l) ==
  IF l.subcircuits = 0 THEN {[i \in 1..n |-> MCLine(".include", "", "", <<>>)] : n \in 0..l.lines}
  ELSE IF l = MCParsing THEN MCSources ELSE MCHierarchies \cup MCBindings
MCTops == {"__global__", "b", "c"}
MCElementOrder == <<"e", "r1", "r2", "x1", "x2">>
=============================================================================
