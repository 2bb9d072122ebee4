CONSTANTS
  Helper = {h1, h2}
  Limit = 2
  MaxOutput = 3
SPECIFICATION FairSpec
INVARIANTS
  TypeOK
  NoSurvivor
  ZeroIsSuccess
  TailComplete
  FlagsHonest
PROPERTIES
  Interruptible
