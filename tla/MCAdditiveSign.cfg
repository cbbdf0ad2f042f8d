CONSTANTS
  Q = 5
  Builds <- PassBuilds
  Keys <- PassKeys
  Roots = {1}
  Expand <- PassExpand
  JunkShare <- PassJunk
  Challenges <- PassChallenges
  Size <- PassSize
SPECIFICATION FairSpec
INVARIANTS
  SharesAddUp
  SameTranscript
  SignatureFits
  WitnessIndistinguishable
PROPERTIES
  SchemeSpec
  Terminates
