SPECIFICATION Spec
CONSTANTS
  WindowLen = 5
  InitialHeight = 3
  ByteBits = 4
  MaxHeight = 15
INVARIANT CountsTheWindow
PROPERTY ImplementsWindow
CHECK_DEADLOCK FALSE
