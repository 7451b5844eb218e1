SPECIFICATION FairSpec
CONSTANTS
  w1 = w1
  w2 = w2
  partial = partial
  context = context
  None = None
  Writers = {w1, w2}
  Places = {partial, context}
  Links = TRUE
  MaxPuts = 2
INVARIANTS
  TypeOK
  PlacedIsWhole
PROPERTIES
  KeepsPromise
  PutEnds
CHECK_DEADLOCK FALSE
