----------------------------- MODULE OutputFile -----------------------------
(***************************************************************************)
(* What a reader of an output path may observe: nothing, or one complete   *)
(* text, exchanged in one step.  A writer without --force may only fill a  *)
(* path that has nothing (cli.py: "atomically replace output",             *)
(* "output already exists; use --force to replace").                       *)
(***************************************************************************)
CONSTANTS Writers, Others, Nothing

VARIABLES forced, visible   \* forced: writer -> whether it was given --force

Init == forced \in [Writers -> BOOLEAN] /\ visible \in Others \cup {Nothing}

Publish(w) ==
  /\ visible = Nothing \/ forced[w]
  /\ visible' = w
  /\ UNCHANGED forced

\* A file that is not a writer's appears at a free path.
Appear(x) == visible = Nothing /\ visible' = x /\ UNCHANGED forced

Next == (\E w \in Writers : Publish(w)) \/ (\E x \in Others : Appear(x))

Spec == Init /\ [][Next]_<<forced, visible>>
=============================================================================
