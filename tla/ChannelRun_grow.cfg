SPECIFICATION FairSpec
CONSTANTS
  m1 = m1
  m2 = m2
  a = a
  b = b
  None = None
  Machines = {m1, m2}
  Lights = {a, b}
  Plans <- GrowingPlans
  Accepted = {a}
  Clipped = FALSE
  Links = FALSE
  MaxRuns = 3
  MaxRewrites = 0
INVARIANTS
  TypeOK
  StoredIsStepOutput
  TileIsThePlans
PROPERTIES
  RunEnds
CHECK_DEADLOCK FALSE
