SPECIFICATION Spec
CONSTANTS
  a = a
  b = b
  c = c
  d = d
  p = p
  q = q
  h = h
  Router <- Chain
  Outside = {p, q}
  Ports <- ChainPorts
  asID <- ChainAS
  Protocol <- Mixed
  Edges <- ChainEdges
  Packets = {h}
  Src <- FromP
  Dst <- ToQ
  MaxQueue = 1
INVARIANTS
  TypeOK
  NoPacketLoops
  HandedOnlyOwn
  CrashOnlyInOSPF
PROPERTY
  LostOnlyUnsettled
CHECK_DEADLOCK FALSE
