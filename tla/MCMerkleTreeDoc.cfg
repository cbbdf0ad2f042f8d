CONSTANTS
  UintBits = 3
  Shapes <- DocShapes
SPECIFICATION Spec
INVARIANT RootBinding
