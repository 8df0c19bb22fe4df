SPECIFICATION Spec
SYMMETRY HandlerSymmetry
CONSTANTS
  h1 = h1
  h2 = h2
  n1 = n1
  n2 = n2
  Pool <- TwoNodes
  Speaks <- TwoDialects
  Crew = {w1, w2}
  NoNode = NoNode
  Tries = 2
  Quarantine = 1
  EngineJobs = 2
  Configured <- ClientLists
  Views <- FourViews
  RetryBudget = 2
  job1 = job1
  job2 = job2
  Upload <- MCUpload
  Posts <- MCPosts
  GroupMax = 2
  MaxRetries = 1
  PerWait = 3
  Total = 6
  Jitter = 0
  Asks = {3, 4}
  MaxFlips = 1
  s1 = s1
  g1 = g1
  v1 = v1
  v2 = v2
  Setting = {s1}
  Generated = {g1}
  Version = {v1, v2}
  Missing = Missing
  Uploads <- OneFile
  RestoreTap = {h1, h2}
  PendingTTL = 1
  PendingCap = 1
  MaxNonce = 2
  MaxTick = 1
  Asker = {a1, a2}
  Wizard = {z1}
  YtRun = {y1, y2}
  NoFile = NoFile
  MaxWrites = 2
  Target = {t1}
  Visit = {i1, i2}
  PassTTL = 2
  MaxMoves = 2
  MaxVisits = 3
  Watched <- OneHelper
  Notice = {"early", "redis"}
  AlertAfter = 1
  AlertCooldown = 2
  NoticeWindow = 2
  DigestDays = 2
  KeepDays = 2
  CutAt = {"read", "row", "since"}
  Sender = {k1, k2}
  NoStamp = NoStamp
  MaxTime = 4
  film = film
  song = song
  post = post
  Link = {film, song, post}
  LadderOf <- MCLadders
  Sound = {song}
  Solo = {post}
  Tapper = {h1, h2}
  NoLink = NoLink
  Loop = {consumer, guard}
  GuardLoop = guard
  Deletion = {x1, x2}
  MaxUpdates = 3
  MaxKeys = 1
  Clip = {clip}
  Named = {clip}
  Recognizer = FALSE
  Page = {page}
  Fan = {fan}
  Update = {u1, u2}
  MappingTTL = 1
  NegativeTTL = 1
  Window = 1
  Ration = 1
  Slots = 1
  NoticeEvery = 1
  NoUpdate = NoUpdate
  MaxOps = 3
  MaxFailures = 2
  MaxHours = 2
  Deployment <- MCDeployments
  Address = {n1, n2, d3}
  Embedded = {n2, d3}
  NoAddress = NoAddress
  Opinion = {"ready"}
  Patience = 2
  MaxFlaps = 1
  MaxReports = 2
  d3 = d3
  Order <- MCOrders
  Product <- MCProducts
  Retries = 1
  RunBudget = 1
  PullBudget = 1
  SendBudget = 1
  Headroom = 1
  LockTTL = 1
  SweepAge = 0
  MaxClock = 3
  MaxDirs = 2
  MaxJobs = 2
CHECK_DEADLOCK FALSE
INVARIANTS
  ServicesTypeOK
  EnginesOnce
  ProbeSound
  DeliveredWhole
  RestoreSafe
  JarKept
  GateHolds
  PagesHonest
  MenuHonest
  OrderlyExit
  SongsKept
  DoctorHonest
  FilesHonest
