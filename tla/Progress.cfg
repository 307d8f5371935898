SPECIFICATION ProgressSpec
CONSTANTS
  Getters = {r1, r2}
  Rate = 2
  Chunk = 5
  Lengths = {1, 4, 6}
  MaxSleep = 2
  Titles = {t1, t2}
  Vers = {1}
  Callers = {c1, c2}
  Workers = {w1, w2}
  NoJob = NoJob
  Services = {"game", "panel"}
  Panel = "panel"
  Addrs = {"x", "y", "z"}
  Unusable = {"z"}
  Paths = {"p1", "p2"}
  Modes = {"m1", "m2"}
  Requests = {"h1", "h2"}
  Tries = 1
  MaxChanges = 2
  None = None
  Down = Down
INVARIANTS FollowsConfig CapKept OneWorker ActiveIsRunning
PROPERTIES ServiceComesUp OrphansSwept Answered ServedWhileRunning ServedInOrder
CHECK_DEADLOCK FALSE
