SPECIFICATION FairSpec
CONSTANTS
  PacketsToSend = 40
  Dropped = {10, 23}
  Rounds = 101
  Ssthresh = 64
  Wrap <- WrapForTLC
INVARIANTS
  TypeOK
  LossesAreTheHole
  WindowSane
  RoundsSuffice
PROPERTIES
  InOrderAndAcknowledged
  Transfers
CHECK_DEADLOCK FALSE
