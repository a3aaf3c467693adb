---------------------------- MODULE MCSearchLoop ----------------------------
(***************************************************************************)
(* SearchLoop on a small catalogue of three rules, chosen so that every    *)
(* way out of the loop body happens: rules "a" and "b" answer the kind     *)
(* "pick" and commute in the state signature (so states are duplicates),   *)
(* two different complete states share a topology signature, "c" answers   *)
(* the last kind "close" and may not be permitted.  The specifications     *)
(* vary every limit, the permitted rules, and which states are in error.   *)
(***************************************************************************)
EXTENDS SearchLoop, Sequences

MCRules == {"a", "b", "c"}
MCKinds == {"pick", "close"}
MCCodes == {"E1", "E2"}

\* picks counts the "pick" obligations; heavy and rejects place the errors.
MCSpecs ==
  [limits : {[candidates |-> c, states |-> n, depth |-> d] :
               <<c, n, d>> \in {<<1, 20, 9>>, <<4, 4, 9>>, <<4, 20, 2>>, <<4, 20, 9>>}},
   picks : {2, 3}, permitted : {{"a", "c"}, {"a", "b"}, {"a", "b", "c"}},
   heavy : {1, 9}, rejects : {{}, {0, 1}, {2, 3}, {0, 1, 2, 3}}]
MCRequests == {1, 2, 9}

\* Each step of a derivation fills one obligation, with a permitted rule or not.
Traces(n) == UNION {[1..k -> MCRules] : k \in 0..n}
MCStatesOf ==
  [n \in {2, 3} |-> {s \in [left : 0..4, trace : Traces(4)] : s.left + Len(s.trace) = n + 1}]
MCStates(sp) == MCStatesOf[sp.picks]
MCSignatures == [left : 0..4, a : 0..4]
MCTopologySignatures == 0..2

As(s) == Cardinality({i \in DOMAIN s.trace : s.trace[i] = "a"})

MCMaxCandidates(sp) == sp.limits.candidates
MCMaxStates(sp) == sp.limits.states
MCMaxDepth(sp) == sp.limits.depth
MCStart(sp) == [left |-> sp.picks + 1, trace |-> <<>>]
MCDepth(s) == Len(s.trace)
MCComplete(s) == s.left = 0
MCFirstKind(s) == IF s.left = 1 THEN "close" ELSE "pick"
MCAnswers(r) == IF r = "c" THEN "close" ELSE "pick"
MCPosition(r) == IF r = "b" THEN 1 ELSE IF r = "a" THEN 2 ELSE 3
MCPermits(sp, s, r) == r \in sp.permitted
MCChild(sp, s, r) ==
  [left |-> IF s.left = 0 THEN 0 ELSE s.left - 1,
   trace |-> IF Len(s.trace) < 4 THEN Append(s.trace, r) ELSE s.trace]
MCStateSignature(sp, s) == [left |-> s.left, a |-> As(s)]
MCTopologySignature(sp, s) == As(s) \div 2
MCPartialErrors(sp, s) ==
  [c \in MCCodes |-> IF c = "E1" /\ As(s) > sp.heavy THEN 1 ELSE 0]
MCFinalErrors(sp, s) ==
  [c \in MCCodes |-> IF c = "E2" /\ As(s) \in sp.rejects THEN 2 ELSE MCPartialErrors(sp, s)[c]]

\* The order of _priority: obligations left, then the rule names.
Weight(s) ==
  LET digit(i) == IF i \notin DOMAIN s.trace THEN 0
                  ELSE CASE s.trace[i] = "a" -> 1 [] s.trace[i] = "b" -> 2 [] OTHER -> 3
  IN  s.left * 256 + digit(1) * 64 + digit(2) * 16 + digit(3) * 4 + digit(4)
MCPrecedes(s, t) == Weight(s) < Weight(t)
=============================================================================
