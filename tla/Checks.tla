------------------------------- MODULE Checks -------------------------------
(***************************************************************************)
(* A function of the program that raises at the first failing condition is *)
(* a sequence of <<condition, reason>> pairs in the order of the code.     *)
(***************************************************************************)
EXTENDS SequencesExt

Passed == "passed"

\* The reason of the first condition that is true, or Passed.
FirstFailure(checks) ==
  LET first == SelectInSeq(checks, LAMBDA check : check[1])
  IN IF first = 0 THEN Passed ELSE checks[first][2]
=============================================================================
