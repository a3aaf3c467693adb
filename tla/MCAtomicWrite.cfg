CONSTANTS
  w1 = w1
  w2 = w2
  w3 = w3
  Writers <- MCWriters
  Input = input
  Old = old
  Nothing = nothing
SYMMETRY MCSymmetry
SPECIFICATION Spec
INVARIANTS InputUntouched OutcomesAreTrue
PROPERTY PublishesAtomically
CHECK_DEADLOCK FALSE
