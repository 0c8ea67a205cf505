SPECIFICATION FairSpec
CONSTANTS
  User1 = User1
  User2 = User2
  Sounds <- TwoSounds
  Much = 2
  MaxSaid <- SaidBy
  MaxTicks = 1
  Clicks = 1
  MaxMutes <- MutedBy
  MaxQuits = 1
INVARIANTS
  TypeOK
  NeverBothBlocked
  NoneLostUnlessBunched
PROPERTIES
  HeardInOrder
  Lives
CHECK_DEADLOCK FALSE
