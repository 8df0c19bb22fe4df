SPECIFICATION DeskSpec
CONSTANTS
  k1 = k1
  k2 = k2
  k3 = k3
  c1 = c1
  c2 = c2
  NoTask = NoTask
  Key <- TwoOfThree
  Consumer <- MCConsumer
  MaxStamp = 3
  Faults <- Blips
  youtube = youtube
  generic = generic
  Shares = {generic}
  None = None
  Section <- TwoSections
  Handler = {h1}
  MaxJobs = 2
  MaxRestarts = 1
  DepthFails = TRUE
  p1 = p1
  p2 = p2
  p3 = p3
  NoHolder = NoHolder
  Process <- MCProcess
  TTL = 6
  Stale = 3
  Refresh = 2
  Grace = 1
  Drain = 1
  MaxBlips = 1
  Calm = 8
  Account = {1, 2, 3}
  Admin = {a1}
  SendTap = {h1, h2}
  NoAdmin = NoAdmin
  Signed = {2, 3}
  PageSize = 1
  MaxRuns = 2
CONSTRAINT ShortQueue
SYMMETRY LeaseSymmetry
CHECK_DEADLOCK FALSE
INVARIANTS
  DeskTypeOK
  ClaimCovers
  OneCopy
  NoZombie
  CountCovers
  NoPhantom
  OneHolder
  BroadcastExact
PROPERTIES
  RedisKeepsIt
  SingleFlightSpec
  NeverStolen
