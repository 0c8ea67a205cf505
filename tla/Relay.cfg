SPECIFICATION FairSpec
CONSTANTS
  N = 3
  TotalPackets = 5
  MaxLost = 2
  MaxRaces = 2
INVARIANTS
  TypeOK
  Accounted
  RepeatsOnlyByRaces
  InOrderUnlessLost
PROPERTY
  ComesThrough
CHECK_DEADLOCK FALSE
