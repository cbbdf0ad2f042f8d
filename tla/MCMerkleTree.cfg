CONSTANTS
  UintBits = 5
  Shapes <- PassShapes
SPECIFICATION FairSpec
INVARIANTS
  TypeOK
  TreeConsistent
  AuthIsMinimal
  RevealedFits
  QueueOrdered
  RootBinding
PROPERTIES
  QueueIsFifo
  Terminates
