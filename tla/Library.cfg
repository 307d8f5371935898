SPECIFICATION FairSpec
CONSTANTS
  Titles = {t1}
  Files = {f}
  Data = {1, 2, 3}
  Size <- MCSize
  Infos = {i, j}
  Scanners = {s1}
  Removable = {t1}
  Staged = {t1}
  MaxClock = 2
  None = None
INVARIANTS FastCheckSound CacheFollowsTable VersionsFixed IndInv
PROPERTIES Converges OffersStand
