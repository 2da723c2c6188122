SPECIFICATION Spec
CONSTANTS
  a = a  b = b  c = c  d = d
  Node <- Nodes
  Root = Root
  Poison = Poison
SYMMETRY Symmetry
INVARIANTS
  RingIsItems
  WalkStaysOnRing
  WalkIsComplete
