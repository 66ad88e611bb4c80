SPECIFICATION Spec
CONSTANTS
  p1 = p1
  p2 = p2
  p3 = p3
  Pages = {p1, p2, p3}
  Desktop = Desktop
  MaxDepth = 3
  NoPage = NoPage
  Inside = Inside
  h1 = h1
  h2 = h2
  Handles = {h1, h2}
  NoHandle = NoHandle
SYMMETRY Symmetry
INVARIANTS
  ExitsClean
  OwnParameters
  PexecTidy
