SPECIFICATION Spec
CONSTANTS
  p1 = p1
  p2 = p2
  p3 = p3
  Callers = {p1, p2, p3}
  Depth = 2
  Sizes = {1, 2, 4}
  Calls = {"alloc", "dealloc"}
SYMMETRY Symmetry
INVARIANT NoOverlap
