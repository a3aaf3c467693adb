------------------------- MODULE MCConnectivity -------------------------
(***************************************************************************)
(* A cell with two ports in a top scope with a global net, with parameters *)
(* and with another cell behind the same instance; and one cell alone.  These  *)
(* are edited.  Scopes of two devices on three nets, with parallel         *)
(* incidences, one or two components and up to four odd vertices, are not. *)
(***************************************************************************)
EXTENDS Connectivity

MCNames == <<"a", "b", "cell", "g", "top">>

\* The ends of a device or instance, and a scope, by their names.
MCEnds(p, m, q, n) == <<<<p, m>>, <<q, n>>>>
MCScope(name, parameters, ports, nets, devices, instances) ==
  [name |-> name, parameters |-> parameters, ports |-> ports, nets |-> nets, devices |-> devices, instances |-> instances]
MCParameters == <<<<"a", "1">>, <<"b", "2">>>>
MCCell(ports) ==
  MCScope("cell", MCParameters, ports, <<<<"a", FALSE>>, <<"b", FALSE>>>>,
          <<<<"a", "resistor", None, <<>>, MCEnds("p", "a", "n", "b")>>>>, <<>>)
MCDiode ==
  MCScope("cell", <<>>, <<"a", "b">>, <<<<"a", FALSE>>, <<"b", FALSE>>>>,
          <<<<"b", "diode", "g", <<>>, MCEnds("a", "b", "c", "a")>>>>, <<>>)
MCTop(ports, overrides) ==
  MCScope("top", <<>>, <<>>, <<<<"a", FALSE>>, <<"g", TRUE>>>>, <<>>,
          <<<<"b", "cell", overrides, MCEnds(ports[1], "a", ports[2], "g")>>>>)
MCEdited ==
  {Built([top |-> "top", scopes |-> <<MCCell(ports), MCTop(ports, overrides)>>]) :
     ports \in {<<"a", "b">>, <<"b", "a">>}, overrides \in {<<>>, <<<<"b", "1">>>>}}
  \cup {Built([top |-> "cell", scopes |-> <<MCDiode>>])}

\* The terminals of a device are put on nets in any way, up to their order.
MCOn(element, nets) ==
  {[i \in DOMAIN Terminals(element) |-> <<Terminals(element)[i], s[i]>>] :
     s \in {t \in [DOMAIN Terminals(element) -> nets] : \A i, j \in DOMAIN t : i < j => Rank(t[i]) <= Rank(t[j])}}
MCDevice(name, element, nets) ==
  {<<name, element, IF element \in Modelled THEN "g" ELSE None, <<>>, ends>> : ends \in MCOn(element, nets)}
MCNetsOf(devices) ==
  SelectSeq(NameOrder, LAMBDA n : \E d \in Range(devices) : n \in {d[5][i][2] : i \in DOMAIN d[5]})
MCFlat(ports, devices) ==
  Built([top |-> "top", scopes |-> <<MCScope("top", <<>>, ports, [i \in DOMAIN MCNetsOf(devices) |-> <<MCNetsOf(devices)[i], FALSE>>],
                                             devices, <<>>)>>])
MCEncoded ==
  {MCFlat(<<>>, <<d, e>>) : d \in MCDevice("a", "bjt", {"a", "b"}), e \in MCDevice("b", "resistor", {"a", "b", "cell"})}
  \cup {MCFlat(<<>>, <<d, e>>) : d \in MCDevice("a", "resistor", {"a", "b"}), e \in MCDevice("b", "bjt", {"a", "b", "cell"})}
  \cup {MCFlat(<<"a">>, <<d, e>>) : d \in MCDevice("a", "resistor", {"a"}), e \in MCDevice("b", "resistor", {"a", "b", "cell"})}

MCCircuits == MCEdited \cup MCEncoded
MCMaxEdits == [c \in MCCircuits |-> IF c \in MCEncoded THEN 0 ELSE IF Len(c.scopes) = 1 THEN 2 ELSE 1]
MCTexts == {"a", "b", "cell"}
=============================================================================
