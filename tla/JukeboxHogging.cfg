SPECIFICATION FairSpec
CONSTANTS
  Clients = {a, b}
  AdminUser = AdminUser
  Players = {p}
  MaxId = 3
  MaxQueue = 4
  MaxRank = 0
  Types = {"embedded"}
PROPERTY NoHogging
