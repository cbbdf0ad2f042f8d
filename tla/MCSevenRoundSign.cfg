CONSTANTS
  Q = 5
  Builds <- PassBuilds
  Keys <- PassKeys
  Roots = {1}
  Expand <- PassExpand
  JunkShare <- PassJunk
  FirstChallenges = {2, 3}
  SecondChallenges = {1, 3}
  Size <- PassSize
SPECIFICATION Spec
INVARIANTS
  HintsAddUp
  SameTranscript
  LastPartyHidden
PROPERTIES
  SchemeSpec
