\* Three elements, up to two copies of each on either side, sketches of one
\* and three cells, in a field of 13 residues in four-bit words.
CONSTANTS
  P = 13
  Word = 16
  Element = {a, b, c}
  Sizes = {1, 3}
  MaxCopies = 2
SPECIFICATION Spec
INVARIANTS
  SketchInv
  NothingInvented
  OneSidedExact
  DecodesIfPeelable
PROPERTY DecodeReturns
