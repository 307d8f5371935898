SPECIFICATION StageSpec
CONSTANTS
  Clients = {a}
  AdminUser = AdminUser
  Players = {p, q}
  MaxId = 2
  MaxQueue = 1
  MaxRank = 2
  Types = {"external", "shared"}
  Uploads = {u1, u2}
  Deletes = {d, e}
  Fetches = {f}
  Names = {n}
  MaxCopies = 2
  Parts = 2
  Null = Null
SYMMETRY StageSymmetry
INVARIANTS TypeOK PlayingIsReal MemoryMatchesTable NoPhantom ListedIsWhole FetchedIsShare
PROPERTY RequeuedFirst
CHECK_DEADLOCK FALSE
