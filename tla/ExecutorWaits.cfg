CONSTANTS
  Helper = {h1, h2}
  Limit = 2
  MaxOutput = 3
SPECIFICATION FairSpec
PROPERTIES
  ReturnsAtFirst
