CONSTANTS
  Proc = {a, b}
  Former = {"x", "y"}
  PastLogs <- MCPastLogs
  Start = 1
  Outcome = {"relative"}
  Retention = 1
  MaxTime = 2
  MaxSteps = 2
  MaxTorn = 1
  MaxCommands = 3
SYMMETRY Symmetry
SPECIFICATION Spec
INVARIANTS
  LogOrdered
  LossExplained
  ReversesInOrder
PROPERTIES
  NeverOfferedAgain
CHECK_DEADLOCK FALSE
