SPECIFICATION WorkerSpec
CONSTANTS
  k1 = k1
  k2 = k2
  k3 = k3
  c1 = c1
  c2 = c2
  u1 = u1
  u2 = u2
  l1 = l1
  l2 = l2
  NoTask = NoTask
  Key <- TwoKeys
  Consumer <- TwoConsumers
  User <- MCUser
  Link <- MCLink
  Limit <- MCLimit
  Owner <- MCOwner
  LinkOf <- MCLinkOf
  Faults <- NoFaults
  MaxStamp = 2
  MaxAttempts = 2
  Parts = 1
  MaxStops = 0
  MaxDay = 2
PROPERTY
  RefundStaysInItsDay
