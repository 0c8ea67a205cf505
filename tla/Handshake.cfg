SPECIFICATION FairSpec
CONSTANTS
  one = one
  two = two
  c1 = c1
  c2 = c2
  c3 = c3
  Nobody = Nobody
  Process = {one, two}
  Program <- TwoAndOne
  MaxKills = 1
  MaxStalls = 1
INVARIANTS
  TypeOK
  DownOnlyByKill
PROPERTIES
  OneAtATime
  Served
CHECK_DEADLOCK FALSE
