SPECIFICATION Spec
CONSTANTS
  m1 = m1
  a = a
  b = b
  None = None
  Machines = {m1}
  Lights = {a, b}
  Plans <- GrowingPlans
  Accepted = {a, b}
  Clipped = FALSE
  Links = TRUE
  MaxRuns = 1
  MaxRewrites = 1
INVARIANTS
  StoredIsStepOutput
CHECK_DEADLOCK FALSE
