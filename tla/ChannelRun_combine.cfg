SPECIFICATION Spec
CONSTANTS
  m1 = m1
  m2 = m2
  a = a
  b = b
  None = None
  Machines = {m1, m2}
  Lights = {a, b}
  Plans <- CombiningPlans
  Accepted = {a}
  Clipped = TRUE
  Links = TRUE
  MaxRuns = 2
  MaxRewrites = 1
INVARIANTS
  RecordedContextIsKept
  NothingChangesUnderfoot
CHECK_DEADLOCK FALSE
