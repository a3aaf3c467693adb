------------------------------- MODULE Ledger -------------------------------
(***************************************************************************)
(* The accounting kept beside one search: ledger.py.                       *)
(*                                                                         *)
(* LedgerRecorder is a mutable object that the search calls and never      *)
(* reads.  Here it is a record, and each method is an operator from the    *)
(* record before the call to the record after it.  A Python Counter reads  *)
(* as 0 for a key it does not hold, so it is a total function into Nat.    *)
(* A tuple of violations is abstracted to its error codes and how often    *)
(* each occurs; warnings and notes are never counted by the ledger.        *)
(***************************************************************************)
EXTENDS Naturals, FiniteSets

CONSTANTS
  Rules,        \* rule identifiers of the catalogue
  Codes,        \* codes an error-level violation may carry
  Kinds,        \* obligation kinds
  MaxRecorded   \* how many refused topologies are kept (MAX_RECORDED_TOPOLOGIES)

ASSUME MaxRecordedAssumption == MaxRecorded \in Nat

Causes == {"depth_limit", "partial_violation", "no_applicable_rule", "final_violation"}

\* Error codes of a violation tuple, with multiplicity.
ErrorCounts == [Codes -> Nat]

NoErrors == [c \in Codes |-> 0]
HasError(errors) == \E c \in Codes : errors[c] > 0

\* counter[key] += 1 for every key in keys.
Increment(counter, keys) ==
  [key \in DOMAIN counter |-> counter[key] + IF key \in keys THEN 1 ELSE 0]

EmptyLedger ==
  [applied     |-> [r \in Rules |-> 0],
   declined    |-> [r \in Rules |-> 0],
   causes      |-> [c \in Causes |-> 0],
   codes       |-> [c \in Codes |-> 0],
   obligations |-> [k \in Kinds |-> 0],
   refused     |-> {},       \* records [signature, errors], one per signature
   seen        |-> {},       \* signatures already in refused
   truncated   |-> FALSE]

\* Every rule that answers the obligation is either applied or declined.
RecordRules(ledger, governing, permitted) ==
  [ledger EXCEPT !.applied  = Increment(ledger.applied, governing \cap permitted),
                 !.declined = Increment(ledger.declined, governing \ permitted)]

CountCodes(codes, errors) == [c \in Codes |-> codes[c] + errors[c]]

\* One more rejection for cause, with the error codes it counts.
Reject(ledger, cause, errors) ==
  [ledger EXCEPT !.causes = Increment(ledger.causes, {cause}),
                 !.codes  = CountCodes(ledger.codes, errors)]

\* Mutant: a state pruned by depth leaves no entry.
RecordDepthSilent(ledger) == ledger

RecordDepth(ledger) == Reject(ledger, "depth_limit", NoErrors)

RecordPartial(ledger, errors) == Reject(ledger, "partial_violation", errors)

RecordNoRule(ledger, kind) ==
  [Reject(ledger, "no_applicable_rule", NoErrors)
     EXCEPT !.obligations = Increment(ledger.obligations, {kind})]

\* Mutant: a refusal that finds the record full is dropped without a word.
RecordFinalUntold(ledger, signature, errors) ==
  LET full == Cardinality(ledger.refused) >= MaxRecorded
  IN  [Reject(ledger, "final_violation", errors) EXCEPT
         !.seen    = IF full THEN ledger.seen ELSE ledger.seen \cup {signature},
         !.refused = IF full THEN ledger.refused
                     ELSE ledger.refused \cup {[signature |-> signature, errors |-> errors]}]

\* A refused complete topology is named the first time it is met, while there
\* is room for it; a refusal that finds no room sets the truncation flag.
RecordFinal(ledger, signature, errors) ==
  LET known == signature \in ledger.seen
      full  == Cardinality(ledger.refused) >= MaxRecorded
  IN  [Reject(ledger, "final_violation", errors) EXCEPT
         !.truncated = ledger.truncated \/ (~known /\ full),
         !.seen      = IF known \/ full THEN ledger.seen ELSE ledger.seen \cup {signature},
         !.refused   = IF known \/ full THEN ledger.refused
                       ELSE ledger.refused \cup {[signature |-> signature, errors |-> errors]}]

\* SearchLedger.rejected: all rejections, by whatever cause.
Rejected(ledger) ==
    ledger.causes["depth_limit"] + ledger.causes["partial_violation"]
  + ledger.causes["no_applicable_rule"] + ledger.causes["final_violation"]

\* RuleLedger.used and RuleLedger.closed_off.
Used(ledger) == {r \in Rules : ledger.applied[r] > 0}
\* Mutant: any rule that was never applied is closed off, governed or not.
ClosedOffUngoverned(ledger) == Rules \ Used(ledger)

ClosedOff(ledger) == {r \in Rules : ledger.declined[r] > 0} \ Used(ledger)
=============================================================================
