SPECIFICATION FaultsSpec
CONSTANTS
  k1 = k1
  k2 = k2
  k3 = k3
  c1 = c1
  c2 = c2
  u1 = u1
  u2 = u2
  l1 = l1
  l2 = l2
  NoTask = NoTask
  Key <- TwoKeys
  Consumer <- TwoConsumers
  User <- MCUser
  Link <- MCLink
  Limit <- MCLimit
  Owner <- MCOwner
  LinkOf <- MCLinkOf
  Faults <- MostFaults
  MaxStamp = 2
  MaxAttempts = 1
  Parts = 2
  MaxStops = 1
  MaxDay = 2
  h1 = c1
  h2 = c2
  a1 = a1
  a2 = a2
  t1 = t1
  t2 = t2
  r1 = r1
  f1 = l1
  f2 = l2
  None = None
  Handler <- MCHandler
  Admin <- MCAdmin
  Txn <- OneTxn
  Ref <- MCRef
  Photo <- MCPhoto
  Price = 2
  Amount = 3
  MaxCredits = 1
  Mishap <- Mishaps
CONSTRAINT ShortQueue
VIEW FaultsView
SYMMETRY FaultsSymmetry
CHECK_DEADLOCK FALSE
INVARIANTS
  NeverOversold
  SlotsCovered
  SlotHasJob
  PayTypeOK
  GrantsMatch
  ThankedIsDecidable
  WalletPays
PROPERTIES
  DecidedIsFinal
