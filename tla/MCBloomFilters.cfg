\* Sets of one to four elements on either side; thresholds of zero, one and
\* two; hash values that collide, wrap around, and overlap in part.
CONSTANTS
  Element = {e1, e2, e3, e4}
  OverheadBits = 2
  Word = 16
  Hash = {0, 15}
  Hashes = 3
  MaxSlices = 4
SPECIFICATION Spec
INVARIANT FilterInv
PROPERTIES
  FiltersAsPromised
  ReturnsExactly
