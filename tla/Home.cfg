SPECIFICATION Spec
CONSTANTS
  P1 = "p1"
  P2 = "p2"
  P3 = "p3"
  Proc = {"p1", "p2", "p3"}
  Keys <- MCKeys
  Default <- MCDefault
  Profiles = {"work", "home"}
  Providers = {"anthropic", "google", "compat"}
  Compat = "compat"
  Known <- MCKnown
  Keyless = {"ollama"}
  EnvVars <- MCEnvVars
  Foreign = {"gsk"}
  Corrupt = "corrupt"
  NoKey = "no key"
  Dev = 0
  MaxRelease = 3
  Interval = 2
  MaxNow = 4
  RcFiles <- MCRcFiles
  MaxEdits = 1
  Command <- MCCommand
  Denylisted = {"mkfs"}
  RuleRisk <- MCRuleRisk
  EffectRisk <- MCEffectRisk
  Freshness = 1
  MaxMinute = 1
  MaxHooks = 1
  MaxEdited = 1
  None = "none"
  ProviderNames <- MCProviderNames
  Urls <- MCUrls
  Words = {"", "/do", "/mode", "/clear", "/save", "/exit", "/quit", "/help", "/what"}
  MaxLines = 4
INVARIANTS
  FileAsMeant
  KeysAsMeant
  ReportsTrue
  RemediesCure
  NeverWithoutComrade
  AtMostWeekly
  UserLinesKept
  FixAsksFirst
  OneConversation
CHECK_DEADLOCK FALSE
