SPECIFICATION BothSpec
CONSTANTS
  k1 = k1
  k2 = k2
  k3 = k3
  c1 = c1
  c2 = c2
  u1 = u1
  u2 = u2
  l1 = l1
  l2 = l2
  NoTask = NoTask
  Key <- TwoKeys
  Consumer <- TwoConsumers
  User <- MCUser
  Link <- MCLink
  Limit <- MCLimit
  Owner <- MCOwner
  LinkOf <- MCLinkOf
  Faults <- NoFaults
  MaxStamp = 2
  MaxAttempts = 2
  Parts = 1
  MaxStops = 1
  MaxDay = 1
  r1 = r1
  r2 = r2
  Replica <- MCReplica
  Editors = {r1}
  TextKey = {k1}
  Wording = {x1}
  Catalogue = Catalogue
  NoVersion = NoVersion
  Broken = {"get", "bump", "load"}
  MaxEdits = 2
  MaxLoads = 1
  MaxSyncs <- MCSyncs
INVARIANTS
  SlotsExact
  OneDelivery
  SettledAnswered
  NothingLost
  TextsAgree
PROPERTIES
  EveryJobSettles
  ClaimsComeBack
  TextsConverge
