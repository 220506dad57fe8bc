\* Three symbols, on either side or on both, and all mappings to four cells.
\* No symmetry, which liveness rules out.
CONSTANTS
  Element = {a, b, c}
  MaxCells = 4
SPECIFICATION Spec
INVARIANTS
  CellsTell
  IInv
  NothingLeftToPeel
PROPERTIES
  FindsDifference
  ReturnsIfPeelable
