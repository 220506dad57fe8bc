\* Three replicas and four elements; filters with false positives; caps that
\* stop a run before, during and never.  A coded symbol costs two bits, so
\* that sets of three are large and sets of one are clamped.  With three
\* replicas the tree is the star.
CONSTANTS
  N = 3
  Element = {e1, e2, e3, e4}
  PayloadSize = 4
  OverheadBits = 2
  MaxSlack = 1
  Protocol = {"FullStateTransfer", "MultiReplica", "Riblt", "StaticBfIblt", "HybridRbfRiblt"}
  Topologies = {"Star", "Chord"}
  RoundCap = {0, 2, 24}
  SetSize = {1, 3}
SPECIFICATION LogSpec
SYMMETRY Symmetric
INVARIANTS
  TypeOK
  IInv
  NothingLostOrInvented
  NoPanic
  CarryIsDifference
  ResultSound
  LedgersAgree
  EveryByteReported
  EveryCopyPaid
  OneRoleARound
  NoEarlyHang
  NoHangFromLargeSets
PROPERTY PlaysRounds
