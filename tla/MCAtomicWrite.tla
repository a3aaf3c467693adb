---------------------------- MODULE MCAtomicWrite ----------------------------
(***************************************************************************)
(* Three processes: enough for a forced writer between two unforced ones.  *)
(***************************************************************************)
EXTENDS AtomicWrite, TLC

CONSTANTS w1, w2, w3

MCWriters == {w1, w2, w3}
MCSymmetry == Permutations(MCWriters)
=============================================================================
