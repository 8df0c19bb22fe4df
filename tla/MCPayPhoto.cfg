SPECIFICATION Spec
CONSTANTS
  h1 = h1
  h2 = h2
  a1 = a1
  a2 = a2
  t1 = t1
  t2 = t2
  r1 = r1
  f1 = f1
  f2 = f2
  None = None
  Handler <- MCHandler
  Admin <- OneAdmin
  Txn <- MCTxn
  Ref <- MCRef
  Photo <- MCPhoto
  Price = 2
  Amount = 3
  MaxCredits = 1
  Mishap <- NoMishap
SYMMETRY PaySymmetry
INVARIANT
  PhotoOneDecision
