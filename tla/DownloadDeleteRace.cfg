SPECIFICATION Spec
CONSTANTS
  Titles = {t1}
  MaxVer = 1
  Size = 2
  SizeA = 2
  Positions <- MCPositions
  Files = {"a"}
  FileOf <- MCFileOf
  Layout <- MCLayout
  BatchSize = 2
  GroupSize = 1
  PersistEvery = 2
  MaxTries = 2
  Deletable = {t1}
  MaxDetached = 1
  MaxRepairs = 0
  NoTask = NoTask
INVARIANT CompleteAgainstVersion
