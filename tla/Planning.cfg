CONSTANTS
  Command <- MCCommand
  Denylisted <- MCDenylisted
  RuleRisk <- MCRuleRisk
  EffectRisk <- MCEffectRisk
  NoCommand = ""
  Label <- MCLabel
  MaxAutoSteps = 2
  RawPlans <- MCRawPlans
  Settings <- MCSettings
SPECIFICATION Spec
INVARIANTS
  VerdictsTrue
  RunsWhatWasShown
  NothingCutSilently
