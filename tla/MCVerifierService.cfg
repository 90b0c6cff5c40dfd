SPECIFICATION Spec
CONSTANTS
  None = None
  Aggressive <- MCAggressive
  Letters <- MCLetters
  Parts <- MCParts
  Edits <- MCEdits
  ShortlistLimit = 2
  EnoughRows = 3
  Generic = {7}
  AnchorSize = 2
  GiantTokens = 8
  GiantChars = 50
  SubsequenceTokens = 4
  MaxExactWindow = 4
  MaxAnchorPositions = 4
  MaxRareTokens = 3
  StaticSizes <- MCStaticSizes
  NeighbourLimit = 2
  MinSharedTokens = 2
  LongTokens = 5
  MaxQuery = 10
  Corpora <- MCCorpora
  Asked <- MCAsked
INVARIANTS
  ExactIsQuoted
  NothingListedTwice
  QuotesAreRecognized
CHECK_DEADLOCK FALSE
