CONSTANTS
  Command <- MCCommand
  Denylisted <- MCDenylisted
  RuleRisk <- MCRuleRisk
  EffectRisk <- MCEffectRisk
  Label <- MCLabel
  MaxCorrections = 1
  RunOptions <- MCOptions
  Plans <- MCPlans
SPECIFICATION FairSpec
INVARIANTS
  TypeOK
  NeverDenied
  StartsAuthorised
  WithinBudget
  OneLateStart
  AuditComplete
  SummaryTruthful
PROPERTIES
  HonoursConsent
  CancelReturns
