CONSTANTS
  Arity = 2
  Depth = 2
  Commitments = {c1, c2}
  Forgotten = {c3}
  MaxSize = 4
  MaxBuilt = 2
SYMMETRY CommitmentSymmetry
SPECIFICATION Spec
INVARIANT IndexedAreWitnessed
CHECK_DEADLOCK FALSE
