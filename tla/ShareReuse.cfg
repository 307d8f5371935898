SPECIFICATION PoolSpec
CONSTANTS
  Uploads = {u1, u2}
  Deletes = {d}
  Fetches = {f}
  Names = {n}
  MaxCopies = 2
  Parts = 2
  Null = Null
INVARIANT GoneNotCorrupt
