SPECIFICATION FairSpec
CONSTANTS
  l1 = l1
  l2 = l2
  e1 = e1
  None = None
  Loaders = {l1, l2}
  Epochs = {e1}
  MinRefresh = 1
  Limit = 1
  MaxTime = 2
  MaxLoads = 3
  MaxCancels = 1
INVARIANTS
  TypeOK
  SnapshotsAreWhole
  NoNeedlessDownload
  ListedIsStillThere
PROPERTIES
  DownloadedIsKept
  MostRecentIsKept
  LoadsEnd
CHECK_DEADLOCK FALSE
