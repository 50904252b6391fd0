CONSTANTS
  Arity = 2
  Depth = 2
  Commitments = {c1, c2}
  Forgotten = {c3}
  MaxSize = 4
  MaxBuilt = 2
SYMMETRY CommitmentSymmetry
SPECIFICATION Spec
INVARIANTS
  TypeOK
  RootIsOfContent
  KeptAreWitnessed
  ForgetsOneLeaf
  RoomIsThere
CHECK_DEADLOCK FALSE
