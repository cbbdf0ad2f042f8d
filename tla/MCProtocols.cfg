CONSTANTS
  Key <- ProblemKey
  IsCorrectSolution <- ProblemIsCorrect
  Correlated <- ProblemCorrelated
  Run <- ProblemRun
  ShareFrom <- ProblemInverse
  Cases <- MCCases
  Parties <- MCParties
  Mask <- MCMask
  HasInverse <- MCInverts
SPECIFICATION Spec
INVARIANTS
  KeysAreSolutions
  BroadcastsAddUp
  InverseRestores
CHECK_DEADLOCK FALSE
