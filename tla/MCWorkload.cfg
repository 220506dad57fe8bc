\* Four replicas in up to four clusters; three indices on three digests,
\* with and without collisions.  No symmetry, which liveness rules out.
CONSTANTS
  NumReplicas = 4
  UniverseSize = 3
  Digest = {d1, d2, d3}
  Den = 4
  SetSizes = {1, 2, 3}
SPECIFICATION Spec
INVARIANTS
  ExactSizes
  NeverExhausted
  AsSimilar
  IInv
PROPERTY ReturnsIfDistinct
