SPECIFICATION QueueSpec
CONSTANTS
  k1 = k1
  k2 = k2
  k3 = k3
  c1 = c1
  c2 = c2
  NoTask = NoTask
  Key <- MCKey
  Consumer <- MCConsumer
  MaxStamp = 3
  Faults <- OnlyCrash
SYMMETRY Symmetry
INVARIANT
  NothingLost
