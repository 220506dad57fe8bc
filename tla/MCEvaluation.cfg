\* All matrices of up to four simulations from the lists of MCEvaluation,
\* costs of up to two, and a cap of one round or none.
CONSTANTS
  TopologyLists <- Lists
  SimilarityLists <- Similarities
  ReplicaLists <- Lists
  SeedLists <- Lists
  RoundCaps = {0, 1}
  Tolerance = 2
  MaxBytes = 2
  MaxRuns = 4
SPECIFICATION Spec
INVARIANTS
  FitnessOfMatrix
  VerdictOfAllRuns
  PanicsForNothing
