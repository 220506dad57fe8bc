\* One cell, in which an element of each side cancel out.
CONSTANTS
  P = 13
  Word = 16
  Element = {a, b, c}
  Sizes = {1, 2}
  MaxCopies = 1
SPECIFICATION Spec
INVARIANT SomeIsComplete
