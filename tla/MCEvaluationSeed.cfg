\* One cell and two seeds.
CONSTANTS
  TopologyLists <- Lists
  SimilarityLists <- Similarities
  ReplicaLists <- Lists
  SeedLists <- Lists
  RoundCaps = {1}
  Tolerance = 2
  MaxBytes = 1
  MaxRuns = 2
SPECIFICATION Spec
INVARIANT WorkloadFixed
