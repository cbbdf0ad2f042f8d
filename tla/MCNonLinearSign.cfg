CONSTANTS
  Q = 251
  Builds <- PassBuilds
  Random <- PassRandom
  Gamma <- PassGamma
  Challenges = {1, 2}
  Size <- PassSize
SPECIFICATION Spec
INVARIANTS
  SameBroadcasts
PROPERTIES
  SchemeSpec
