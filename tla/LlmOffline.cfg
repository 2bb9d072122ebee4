CONSTANTS
  MaxAttempts = 2
  MaxDeltas = 1
SPECIFICATION Spec
INVARIANTS
  OfflineMeansUnreached
