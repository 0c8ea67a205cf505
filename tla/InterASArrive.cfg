SPECIFICATION FairSpec
CONSTANTS
  a = a
  b = b
  c = c
  d = d
  p = p
  q = q
  h = h
  Router <- Chain
  Outside = {p, q}
  Ports <- ChainPorts
  asID <- ChainAS
  Protocol <- BothOSPF
  Edges <- ChainEdges
  Packets = {h}
  Src <- FromP
  Dst <- ToQ
  MaxQueue = 1
PROPERTY
  AllArriveWhenCalm
CHECK_DEADLOCK FALSE
