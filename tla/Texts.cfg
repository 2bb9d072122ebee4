SPECIFICATION MCSpec
CONSTANTS
  Vars = {"X", "Y", "Z", "W"}
  Literals = {"a", "b"}
  Fetchers = {"a"}
  Interpreters = {"b"}
  Programs <- MCPrograms
  Inherited <- MCInherited
  MaxDepth = 2
  MaxPasses = 3
  MaxForks = 6
  MaxEnv = 3
  Names <- MCNames
  Flags <- MCFlags
  CommandsOf <- MCCommands
  UserNames = {"new", "f", "d"}
  StartOf <- MCStart
  Here <- MCHere
  Elsewhere <- MCElsewhere
  MaxScript = 3
  Plans <- MCPlans
  Typed = {"as planned", "other"}
  Symbols <- MCSymbols
  Objects <- MCObjects
  Replies <- MCReplies
  Required = {"summary"}
INVARIANTS
  CoversRuns
  BeliefsTrue
  UndoRestores
  ReplyTaken
PROPERTY
  KeysDoAsShown
