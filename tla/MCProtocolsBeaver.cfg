CONSTANTS
  Key <- ProblemKey
  IsCorrectSolution <- ProblemIsCorrect
  Correlated <- ProblemCorrelated
  Run <- ProblemRun
  ShareFrom <- ProblemInverse
  Cases <- BeaverCases
  Parties <- MCParties
  Mask <- MCMask
  HasInverse <- ProblemHasInverse
SPECIFICATION Spec
INVARIANTS
  InverseRestores
CHECK_DEADLOCK FALSE
