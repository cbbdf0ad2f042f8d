CONSTANT
  Settings <- PassSettings
SPECIFICATION FairSpec
INVARIANTS
  SortedSets
PROPERTIES
  SortPermutes
  Terminates
