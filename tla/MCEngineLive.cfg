\* Liveness, and what the rounds maintain; no symmetry reduction, which TLC's
\* liveness checking rules out.
CONSTANTS
  N = 3
  Element = {e1, e2, e3}
  PayloadSize = 4
  OverheadBits = 1
  MaxSlack = 0
  Protocol = {"FullStateTransfer", "Riblt", "StaticBfIblt", "HybridRbfRiblt"}
  Topologies = {"Tree", "Chord"}
  RoundCap = {1, 18}
  SetSize = {1, 2}
SPECIFICATION LogSpec
INVARIANT LoopInv
PROPERTIES
  Terminates
  Converges
