SPECIFICATION Spec
CONSTANTS
  Titles = {t1}
  Files = {f}
  Data = {1, 3}
  Size <- MCSize
  Infos = {i}
  Scanners = {s1}
  Removable = {}
  Staged = {t1}
  MaxClock = 2
  None = None
INVARIANT VersionsImmutable
