SPECIFICATION FairSpec
CONSTANTS
  m1 = m1
  m2 = m2
  stars = stars
  objects1 = objects1
  objects2 = objects2
  other = other
  Broken = Broken
  None = None
  Managers = {m1, m2}
  Files <- MCFiles
  Contents <- MCContents
  Bundle <- MCBundle
  SizeOf <- MCSizeOf
  Damaged = {objects1}
  FileIds <- MCFileIds
  Installers = 1
  RemovesFail = {FALSE}
  MaxEnsures = 2
  MaxDrops = 1
INVARIANT TypeOK
PROPERTIES
  NoNeedlessDownload
  InstallsOneVersion
  KeepsObjects
  CallsEnd
CHECK_DEADLOCK FALSE
