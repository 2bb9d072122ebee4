CONSTANTS
  MaxAttempts = 2
  MaxDeltas = 2
SPECIFICATION FairSpec
INVARIANTS
  FirstAnswerWins
  NothingLostSilently
  SilentOnlyWhenCut
PROPERTIES
  RequestEnds
