CONSTANTS
  Q = 5
  Builds <- PassBuilds
  Keys <- PassKeys
  Seeds = {1}
  DrawnUnif <- PassUnif
  DrawnShare <- PassShare
  Challenges <- PassChallenges
  Size <- PassSize
SPECIFICATION Spec
INVARIANTS
  SameRoots
  SignatureFits
  WitnessIndistinguishable
PROPERTIES
  SchemeSpec
