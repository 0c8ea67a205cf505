SPECIFICATION FairSpec
CONSTANTS
  a = a
  b = b
  c = c
  x = x
  Router <- Pair
  Outside = {x}
  Ports <- PairPorts
  First = a
  Threshold = 2
  MaxQueue <- LagTwo
  MaxRaces = 1
INVARIANTS
  TypeOK
  InFlight
  OffStaysOff
  BacklogBounded
PROPERTY
  FinishedOrStarved
