SPECIFICATION PartsSpec
CONSTANTS
  Machines = {"a"}
  Titles = {"t"}
  MaxConns = 2
  MaxActs = 2
  None = None
  Lens = {0, 1, 3, 4}
  BlobSizes = {0, 1, 2, 3}
  Width = 3
  NumPeers = 2
  NumChunks = 3
  Rates = {0, 1, 4}
  Unmeasured = Unmeasured
  Floor = 1
  ServerWeight = 2
  Bootstrap = 1
  Scale = 4
  Asks = {"h1", "h2"}
  Passwords = {"pw1", "pw2"}
  Addresses = {"a"}
  Cookies = {"t1"}
  MaxFails = 2
  Lockout = 1
  SessionIdle = 1
  Absolute = 2
  Nil = Nil
  Clients = {"a", "b"}
  AdminUser = AdminUser
  Players = {"p"}
  MaxId = 4
  MaxQueue = 4
  MaxRank = 0
  Types = {"embedded"}
  Threads = {t1, t2, t3}
INVARIANTS ShownIsCurrent SeedsListed AuthorityKept SessionsCurrent LockHolds RoundRobin CountsChunks FairShare OneCircle
PROPERTY ActsAsSet
CHECK_DEADLOCK FALSE
