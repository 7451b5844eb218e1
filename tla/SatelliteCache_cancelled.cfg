SPECIFICATION Spec
CONSTANTS
  l1 = l1
  l2 = l2
  e1 = e1
  None = None
  Loaders = {l1, l2}
  Epochs = {e1}
  MinRefresh = 1
  Limit = 1
  MaxTime = 1
  MaxLoads = 2
  MaxCancels = 1
SYMMETRY Symmetry
INVARIANT DownloadIsNotDisturbed
CHECK_DEADLOCK FALSE
