---------------------------- MODULE SpiceScopes ----------------------------
(***************************************************************************)
(* spice._parse_lines: the logical lines of a source, read one by one into *)
(* scopes of named elements.  A line is [op, name, family, tokens]; a      *)
(* token is Plain(word), Assign(key, value) or Marker (PARAMS:).  The      *)
(* family of an element is the first letter of its name.                   *)
(***************************************************************************)
EXTENDS SpiceContext, Naturals, FiniteSets, Checks

Anonymous == "no name"

Plain(word) == [word |-> word]
Assign(key, value) == [key |-> key, value |-> value]
Marker == Plain("params:")
IsAssignment(token) == "key" \in DOMAIN token

\* A sequence of lines, each with a sequence of tokens.
IsText(lines) ==
  lines \in Seq(ToSet(lines)) /\ \A line \in ToSet(lines) : line.tokens \in Seq(ToSet(line.tokens))
-----------------------------------------------------------------------------
\* _parameters
ParametersFailure(tokens) ==
  FirstFailure(<<
    <<\E i \in DOMAIN tokens : ~IsAssignment(tokens[i]), "syntax">>,
    <<\E i, j \in DOMAIN tokens : i # j /\ "key" \in DOMAIN tokens[i] \cap DOMAIN tokens[j]
                                    /\ tokens[i].key = tokens[j].key, "repeated">> >>)
Parameters(tokens) ==
  [key \in {tokens[i].key : i \in DOMAIN tokens} |->
     tokens[CHOOSE i \in DOMAIN tokens : tokens[i].key = key].value]

\* _split_positionals_and_parameters: how many tokens are positional, how many
\* are skipped (the marker), and what is wrong.
Markers(tokens) == {i \in DOMAIN tokens : tokens[i] = Marker}
Positional(tokens) ==
  LET stop == IF Markers(tokens) # {} THEN SelectInSeq(tokens, LAMBDA t : t = Marker)
              ELSE SelectInSeq(tokens, IsAssignment)
  IN IF stop = 0 THEN tokens ELSE SubSeq(tokens, 1, stop - 1)
Trailing(tokens) ==
  SubSeq(tokens, Len(Positional(tokens)) + 1 + Cardinality(Markers(tokens)), Len(tokens))
SplitFailure(tokens) ==
  FirstFailure(<<
    <<Cardinality(Markers(tokens)) > 1, "markers">>,
    <<\E i \in DOMAIN Positional(tokens) : IsAssignment(Positional(tokens)[i]), "marker order">>,
    <<Markers(tokens) # {} /\ Trailing(tokens) = <<>>, "empty marker">>,
    <<ParametersFailure(Trailing(tokens)) # Passed, ParametersFailure(Trailing(tokens))>> >>)

\* _primitive: the terminals of each family; one more token is model or value.
Terminals ==
  [family \in {"m", "r", "c", "i", "v", "d", "q"} |->
     CASE family = "m" -> 4 [] family = "q" -> 3 [] OTHER -> 2]
HasValue(family) == family \in {"r", "c", "i", "v"}

\* Mutant: parameters are read one token late.
RestLate(line) == SubSeq(line.tokens, Terminals[line.family] + 3, Len(line.tokens))

Rest(line) == SubSeq(line.tokens, Terminals[line.family] + 2, Len(line.tokens))

PrimitiveFailure(line) ==
  IF line.family \notin DOMAIN Terminals THEN "family"
  ELSE IF Len(line.tokens) < Terminals[line.family] + 1 THEN "short"
  ELSE FirstFailure(<<
    <<\E i \in 1..Terminals[line.family] + 1 :
        IsAssignment(line.tokens[i]) /\ (i <= Terminals[line.family] \/ ~HasValue(line.family)), "identifier">>,
    <<ParametersFailure(Rest(line)) # Passed, ParametersFailure(Rest(line))>>,
    <<HasValue(line.family) /\ \E token \in ToSet(Rest(line)) :
        IsAssignment(token) /\ token.key = "value", "repeated">> >>)

\* _instance: nets, then the reference, then overrides.
InstanceLineFailure(line) ==
  FirstFailure(<<
    <<SplitFailure(line.tokens) # Passed, SplitFailure(line.tokens)>>,
    <<Len(Positional(line.tokens)) < 2, "short">> >>)

Element(line) ==
  IF line.family = "x"
  THEN [family |-> line.family, nets |-> Front(Positional(line.tokens)), of |-> Last(Positional(line.tokens)),
        parameters |-> Parameters(Trailing(line.tokens))]
  ELSE [family |-> line.family, nets |-> SubSeq(line.tokens, 1, Terminals[line.family]),
        of |-> line.tokens[Terminals[line.family] + 1], parameters |-> Parameters(Rest(line))]
-----------------------------------------------------------------------------
Start == [scopes |-> [s \in {Root} |-> [ports |-> <<>>, defaults |-> <<>>, elements |-> <<>>]], current |-> Root,
          globals |-> {Plain("0")}, count |-> 0, verdict |-> "reading"]

IsDefined(parser, name) == name = Root \/ name \in DOMAIN parser.scopes

\* The errors of one turn of the loop, in order.
StatementFailure(parser, line) ==
  CASE line.op = ".subckt" -> FirstFailure(<<
         <<parser.current # Root, "nested">>,
         <<line.tokens = <<>>, "short">>,
         <<IsDefined(parser, line.name), "duplicate subcircuit">>,
         <<SplitFailure(line.tokens) # Passed, SplitFailure(line.tokens)>>,
         <<Positional(line.tokens) = <<>> \/ ~IsInjective(Positional(line.tokens)), "ports">>,
         <<Cardinality(DOMAIN parser.scopes) - 1 >= limits.subcircuits, "subcircuits">> >>)
    [] line.op = ".ends" -> FirstFailure(<<
         <<parser.current = Root, "unopened">>,
         <<line.tokens # <<>>, "names">>,
         <<line.name \notin {Anonymous, parser.current}, "mismatch">> >>)
    [] line.op = ".global" -> FirstFailure(<<
         <<line.tokens = <<>>, "short">>,
         <<\E i \in DOMAIN line.tokens : IsAssignment(line.tokens[i]), "identifier">> >>)
    [] line.op = ".model" -> Passed
    [] line.op = "element" -> FirstFailure(<<
         <<parser.count + 1 > limits.elements, "elements">>,
         <<line.name \in DOMAIN parser.scopes[parser.current].elements, "duplicate element">>,
         <<line.family = "x" /\ InstanceLineFailure(line) # Passed, InstanceLineFailure(line)>>,
         <<line.family # "x" /\ PrimitiveFailure(line) # Passed, PrimitiveFailure(line)>> >>)
    [] OTHER -> "directive"

\* Mutant: globals are local to the block that declares them.
ClosedForgets(parser) == [parser EXCEPT !.current = Root, !.globals = Start.globals]

Closed(parser) == [parser EXCEPT !.current = Root]

\* A dictionary with one more entry, in a form the provers know.
Entered(dict, key, value) == [k \in DOMAIN dict \cup {key} |-> IF k = key THEN value ELSE dict[k]]

Taken(parser, line) ==
  CASE line.op = ".subckt" ->
         [parser EXCEPT !.current = line.name,
            !.scopes = Entered(@, line.name, [ports |-> Positional(line.tokens),
                                              defaults |-> Parameters(Trailing(line.tokens)), elements |-> <<>>])]
    [] line.op = ".ends" -> Closed(parser)
    [] line.op = ".global" -> [parser EXCEPT !.globals = @ \cup ToSet(line.tokens)]
    [] line.op = "element" ->
         [parser EXCEPT !.count = @ + 1,
            !.scopes[parser.current].elements = Entered(@, line.name, Element(line))]
    [] OTHER -> parser

Step(parser, line) ==
  IF parser.verdict # "reading" THEN parser
  ELSE IF StatementFailure(parser, line) # Passed
       THEN [parser EXCEPT !.verdict = StatementFailure(parser, line)]
       ELSE Taken(parser, line)

\* After the loop.
Ended(parser) ==
  IF parser.verdict # "reading" THEN parser
  ELSE [parser EXCEPT !.verdict =
          IF parser.current # Root THEN "unclosed"
          ELSE IF \A s \in DOMAIN parser.scopes : parser.scopes[s].elements = <<>> THEN "empty"
          ELSE "accepted"]
Parse(lines) ==
  LET parsed[n \in 0..Len(lines)] == IF n = 0 THEN Start ELSE Step(parsed[n - 1], lines[n])
  IN Ended(parsed[Len(lines)])

VARIABLES statements, at, parser
parserVars == <<statements, at, parser>>

ParserInit == statements = <<>> /\ at = 1 /\ parser = [Start EXCEPT !.verdict = "idle"]

\* _parse_lines is called with what the reader returned.
StartParsing(lines) ==
  /\ parser.verdict = "idle"
  /\ statements' = lines /\ parser' = Start
  /\ UNCHANGED at
ReadStatement ==
  /\ parser.verdict = "reading" /\ at <= Len(statements)
  /\ parser' = Step(parser, statements[at])
  /\ at' = at + 1
  /\ UNCHANGED statements
EndParse ==
  /\ parser.verdict = "reading" /\ at > Len(statements)
  /\ parser' = Ended(parser)
  /\ UNCHANGED <<statements, at>>
ParserNext == ReadStatement \/ EndParse
-----------------------------------------------------------------------------
Opens == {i \in DOMAIN statements : statements[i].op = ".subckt"}
Closes == {i \in DOMAIN statements : statements[i].op = ".ends"}
\* The line that opened the block around line i, or 0.
Block(i) ==
  LET before == {j \in Opens \cup Closes : j < i}
  IN IF before = {} \/ Max(before) \in Closes THEN 0 ELSE Max(before)
Owner(i) == IF Block(i) = 0 THEN Root ELSE statements[Block(i)].name

\* The elements that are kept, each with its scope.
Placed == UNION {{s} \X DOMAIN parser.scopes[s].elements : s \in DOMAIN parser.scopes}

\* The tokens of a line that an element accounts for: its nets and parameters,
\* the reference and the marker.
Kept(line, element) ==
  Len(element.nets) + 1 + Cardinality(DOMAIN element.parameters)
    + (IF line.family = "x" THEN Cardinality(Markers(line.tokens)) ELSE 0)

\* An accepted source is a sequence of closed blocks, and every element of it
\* is kept once, with every token of its line, in the scope whose block it
\* stands in.
ElementsStayInTheirBlock ==
  parser.verdict = "accepted" =>
    /\ \A i \in Opens : Block(i) = 0 /\ \E j \in Closes : Block(j) = i
    /\ \A j \in Closes : Block(j) # 0
    /\ DOMAIN parser.scopes = {Root} \cup {statements[i].name : i \in Opens}
    /\ \A i \in DOMAIN statements : statements[i].op = "element" =>
         /\ statements[i].name \in DOMAIN parser.scopes[Owner(i)].elements
         /\ Kept(statements[i], parser.scopes[Owner(i)].elements[statements[i].name]) = Len(statements[i].tokens)
    /\ Cardinality(Placed) = Cardinality({i \in DOMAIN statements : statements[i].op = "element"})

\* circuit-graph.md: changing the record order "does not change the graph
\* identity".  Exchanging two neighbouring runs of lines, each closed in
\* itself, changes neither what is accepted nor the scopes read from it.
RecordOrderIsIrrelevant ==
  parser.verdict = "accepted" =>
    LET cuts == {i \in 0..Len(statements) : Block(i + 1) = 0}
    IN \A i, j, k \in cuts : i < j /\ j < k =>
         Parse(SubSeq(statements, 1, i) \o SubSeq(statements, j + 1, k) \o SubSeq(statements, i + 1, j)
               \o SubSeq(statements, k + 1, Len(statements))) = parser
=============================================================================
