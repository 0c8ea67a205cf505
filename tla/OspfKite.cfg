SPECIFICATION FairSpec
CONSTANTS
  a = a
  b = b
  c = c
  d = d
  e = e
  x = x
  Router <- Five
  Outside = {x}
  Ports <- KitePorts
  Order <- FiveOrder
  MaxQueue = 1
INVARIANTS
  TypeOK
  OneToken
  TokenAwaited
  CompleteWhenFinished
PROPERTIES
  RefinesRouting
  FinishesUnlessRaced
