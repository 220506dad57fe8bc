\* Six replicas with one element each: the overlays differ, news takes
\* several hops, and replicas fall out of step with each other.
CONSTANTS
  N = 6
  Element = {e1, e2, e3}
  PayloadSize = 4
  OverheadBits = 1
  MaxSlack = 0
  Protocol = {"FullStateTransfer", "Riblt"}
  Topologies = {"Star", "Tree", "Chord"}
  RoundCap = {36}
  SetSize = {1}
SPECIFICATION LogSpec
SYMMETRY Symmetric
INVARIANTS
  SpeedOfNews
  TwoRoundExchange
  NoThreeIdleRounds
