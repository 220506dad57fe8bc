\* One bit of digest: two distinct elements among seven indices, more than
\* all the elements that two replicas of three could hold.
CONSTANTS
  NumReplicas = 2
  UniverseSize = 7
  Digest = {d1, d2}
  Den = 2
  SetSizes = {3}
SPECIFICATION Spec
PROPERTY Returns
