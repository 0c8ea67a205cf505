SPECIFICATION FairSpec
CONSTANTS
  a = a
  b = b
  c = c
  d = d
  e = e
  x = x
  Router <- Three
  Outside = {x}
  Ports <- LinePorts
  Order <- ThreeOrder
  MaxQueue = 1
PROPERTY
  OspfCompletes
