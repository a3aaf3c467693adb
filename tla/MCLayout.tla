------------------------------ MODULE MCLayout ------------------------------
(***************************************************************************)
(* Documents on four devices of one scope: all pairs of orders with all    *)
(* pairs of alignments, orders of three and four, both axes; constraints   *)
(* of every other kind in pairs, with a device of another scope and        *)
(* unknown names; one with too many constraints, one with too many         *)
(* references.                                                             *)
(* Circuits of one scope of up to four MOSFETs on few nets, two of them of *)
(* any shape, and of two scopes of one and two.                            *)
(***************************************************************************)
EXTENDS LayoutInference

MCPlacement == [d \in 1..5 |-> IF d = 5 THEN "b" ELSE "a"]
MCMake(id, kind, subjects, axis, value) ==
  [id |-> id, kind |-> kind, subjects |-> subjects, groups |-> <<>>, axis |-> axis, value |-> value]
MCPairs == {<<s, t>> : s, t \in 1..4} \ {<<s, s>> : s \in 1..4}

MCOrders(id) ==
  {MCMake(id, "order", s, "left_to_right", 0) : s \in MCPairs \cup {<<1, 2, 3>>, <<3, 1, 2>>, <<4, 3, 2, 1>>}}
  \cup {MCMake(id, "order", <<2, 1>>, "right_to_left", 0), MCMake(id, "order", <<1, 2>>, "top_to_bottom", 0),
        MCMake(id, "order", <<2, 4, 1>>, "right_to_left", 0)}
MCAlignments(id) ==
  {MCMake(id, "alignment", s, "x", 0) : s \in {p \in MCPairs : p[1] < p[2]} \cup {<<2, 3, 4>>}}
  \cup {MCMake(id, "alignment", <<1, 2>>, "y", 0)}
MCOthers(id) ==
  {MCMake(id, "symmetry", <<1, 2>>, "vertical", 0), MCMake(id, "symmetry", <<2, 1>>, "horizontal", 0),
   MCMake(id, "matching", <<1, 2>>, "none", 0), MCMake(id, "matching", <<2, 1>>, "none", 0),
   MCMake(id, "matching", <<1, 1>>, "none", 0), MCMake(id, "keepout", <<1, 5>>, "none", 1),
   MCMake(id, "keepout", <<9>>, "none", 1), MCMake(id, "keepout", <<1>>, "none", -1),
   MCMake(id, "net_priority", <<"n", "m">>, "none", 1), MCMake(id, "net_priority", <<"m">>, "none", 2),
   MCMake(id, "net_priority", <<"m">>, "none", 101), MCMake(id, "order", <<1>>, "left_to_right", 0),
   MCMake(id, "order", <<1, 2>>, "vertical", 0), MCMake(id, "shield", <<1, 2>>, "none", 0)}
  \cup {[MCMake(id, "common_centroid", <<>>, "both", 0) EXCEPT !.groups = g] :
          g \in {<< <<1>> >>, << <<1>>, <<2>> >>, << <<2>>, <<1>> >>, << <<1, 2>>, <<2, 3>> >>,
                 << <<1, 2>>, <<3>> >>, << <<1>>, <<5>> >>}}

\* The first order, up to the names of the devices.
MCFirst(id) ==
  {c \in MCOrders(id) : c.subjects \in {<<1, 2>>, <<1, 2, 3>>} \/ c.axis = "right_to_left"}

MCDocuments ==
  {<<o, a, p, b>> : o \in MCFirst(1), a \in MCAlignments(2), p \in MCOrders(3), b \in MCAlignments(4)}
  \cup {<<c, d>> : c \in MCOthers(1), d \in MCOthers(2) \cup MCOthers(1)}
  \cup {<<o, p, q>> : o \in MCFirst(1), q \in MCOrders(1) \cup MCOrders(3), p \in MCOrders(2)}
  \cup {[i \in 1..14 |-> MCMake(i, "keepout", <<1>>, "none", i)]}
  \cup {[i \in 1..10 |-> MCMake(i, "order", <<4, 3, 2, 1>>, "left_to_right", 0)]}

MCMos(id, make, s, g, d) == [id |-> id, make |-> make, s |-> s, b |-> "v", g |-> g, d |-> d]
MCAny(id) == {MCMos(id, "n", s, g, d) : s \in {"v", "t"}, g \in {"p", "q", "o"}, d \in {"p", "o", "r"}}
MCLike(id, m) == [m EXCEPT !.id = id]
MCScope(mosfets) == [devices |-> Len(mosfets), mosfets |-> mosfets, ports |-> {"p", "q"}]
MCCircuits ==
  {<<MCScope(<<x, y, MCLike(3, x), MCLike(4, y)>>)>> : x \in MCAny(1), y \in MCAny(2)}
  \cup {<<MCScope(<<x, y, z>>)>> : x \in {m \in MCAny(1) : m.s = "v"}, y \in MCAny(2),
                                   z \in {MCMos(3, "p", "v", "q", "r"), MCMos(3, "n", "v", "q", "r")}}
  \cup {<<MCScope(<<x, y>>), MCScope(<<MCLike(5, x)>>)>> : x \in MCAny(1), y \in MCAny(2)}
MCLimits == {[devices |-> 4, pairs |-> 7, constraints |-> n] : n \in {2, 13}}
              \cup {[devices |-> 2, pairs |-> 7, constraints |-> 9], [devices |-> 4, pairs |-> 2, constraints |-> 9]}

MCReport(doc, cir, lim) == [document |-> doc, circuit |-> cir, limits |-> lim]
MCReports ==
  {MCReport(d, <<>>, CHOOSE l \in MCLimits : TRUE) : d \in MCDocuments}
  \cup {MCReport(<<>>, c, l) : c \in MCCircuits, l \in MCLimits}
=============================================================================
