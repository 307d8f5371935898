SPECIFICATION FairSpec
CONSTANTS
  Titles = {t1}
  MaxVer = 1
  Size = 2
  SizeA = 1
  Positions <- MCPositions
  Files = {"a", "b"}
  FileOf <- MCFileOf
  Layout <- MCLayout
  BatchSize = 1
  GroupSize = 1
  PersistEvery = 2
  MaxTries = 2
  Deletable = {t1}
  MaxDetached = 1
  MaxRepairs = 0
  NoTask = NoTask
INVARIANT ResumeSound
PROPERTIES PauseTakesEffect StartedJobEnds
