SPECIFICATION EnrichmentSpec
CONSTANTS
  LeafOrder <- MCLeafOrder
  Leaf <- MCLeaf
  GeneralWord <- MCGeneralWord
  SoftBaab <- MCSoftBaab
  RawDecisions <- MCRawDecisions
  RuleRecords <- MCRuleRecords
  Corpus = 4
  Concurrency = 2
  CheckpointEvery = 2
INVARIANTS
  UnsavedBounded
  NothingAskedTwice
  DecisionsWellFormed
PROPERTIES
  RecordsKept
  RunsEnd
