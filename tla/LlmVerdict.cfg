CONSTANTS
  MaxAttempts = 1
  MaxDeltas = 1
SPECIFICATION Spec
INVARIANTS
  OneVerdict
