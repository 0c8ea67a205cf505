SPECIFICATION Spec
CONSTANTS
  a = a
  b = b
  c = c
  x = x
  Router <- Pair
  Outside = {x}
  Ports <- PairPorts
  First = b
  Threshold = 5
  MaxQueue <- SlowB
  MaxRaces = 0
INVARIANT
  CompleteWhenFinished
