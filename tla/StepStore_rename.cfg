SPECIFICATION Spec
CONSTANTS
  w1 = w1
  w2 = w2
  w3 = w3
  partial = partial
  None = None
  Writers = {w1, w2, w3}
  Places = {partial}
  Links = FALSE
  MaxPuts = 2
SYMMETRY WriterSymmetry
INVARIANT OkMeansHeld
PROPERTY StaysHeld
CHECK_DEADLOCK FALSE
