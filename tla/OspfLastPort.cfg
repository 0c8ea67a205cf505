SPECIFICATION Spec
CONSTANTS
  a = a
  b = b
  c = c
  d = d
  e = e
  x = x
  Router <- Four
  Outside = {x}
  Ports <- StarPorts
  Order <- FourOrder
  MaxQueue = 1
INVARIANT
  CompleteWhenFinished
