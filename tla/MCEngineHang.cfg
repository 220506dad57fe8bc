\* The constants of the code on a star of three: does every run return?
CONSTANTS
  N = 3
  Element = {e1, e2, e3}
  PayloadSize = 4
  OverheadBits = 320
  MaxSlack = 0
  Protocol = {"HybridRbfRiblt"}
  Topologies = {"Star"}
  RoundCap = {6}
  SetSize = {1}
SPECIFICATION LogSpec
PROPERTY Terminates
