SPECIFICATION Spec
CONSTANTS
  a = a
  b = b
  c = c
  x = x
  Router <- Line
  Outside = {}
  Ports <- LinePorts
  First = a
  Threshold = 1
  MaxQueue <- LagOne
  MaxRaces = 0
INVARIANTS
  NoForwardingLoop
  CostsSound
PROPERTY
  RefinesRouting
