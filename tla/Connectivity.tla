---------------------------- MODULE Connectivity ----------------------------
(***************************************************************************)
(* A circuit's connectivity on its way through the program: Connectivity- *)
(* Codec issues and reads its views; a compact view that was read and      *)
(* accepted goes to encode_graph_sequence, where EulerTrails covers one    *)
(* scope of it.                                                            *)
(***************************************************************************)
EXTENDS ConnectivityCodec, EulerTrails

vars == <<codecVars, trailVars>>

Init == Issued /\ NoTrails

Held == Travel /\ UNCHANGED trailVars

\* encode_graph_sequence, of one scope: the scopes do not touch each other.
Encode ==
  /\ view = "compact" /\ Accepted
  /\ \E s \in DOMAIN document.scopes :
       LET incident == document.scopes[s].edges
       IN Lay([i \in DOMAIN incident |-> <<incident[i].owner, incident[i].net>>])
  /\ phase' = "encoded"
  /\ UNCHANGED <<origin, view, document, edits>>

Encoding == Walk /\ UNCHANGED codecVars

Next == Held \/ Encode \/ Encoding

Spec == Init /\ [][Next]_vars
=============================================================================
