CONSTANTS
  UintBits = 7
  Shapes <- PassShapes
SPECIFICATION FairSpec
INVARIANTS
  FullyExpanded
  PathPartition
  SizeAnnounced
  AllButHidden
PROPERTIES
  NothingLost
  Terminates
