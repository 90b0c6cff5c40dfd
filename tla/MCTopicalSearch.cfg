SPECIFICATION SearchSpec
CONSTANTS
  Canonical <- MCCanonical
  SynonymsOf <- MCSynonymsOf
  Similarity <- MCSimilarity
  StopWords = {"the", "a", "of", "is", "to", "his"}
  GenericWords = {"prophet", "say", "said"}
  Scale = 6
  Entries <- MCEntries
  RankOf <- MCRankOf
  Concepts <- MCConcepts
  ConceptStopWords = {"prophet", "say"}
  QueryFamilies <- MCQueryFamilies
  TopicAliases <- MCTopicAliases
  ResolverStopWords = {"what", "did", "the", "prophet", "say", "about", "to"}
  Leaves <- MCLeaves
  LeadIns <- MCLeadIns
  Records <- MCRecords
  SearchSize = 2
  WideSize = 3
  PoolLimit = 3
  WidePool = 4
  MaxResults = 2
  Units <- MCUnits
  Requests <- MCRequests
  StrictSufficient = 2
  BaselineLimit = 2
  LexicalLimit = 3
  EngineScores <- MCScores
CHECK_DEADLOCK FALSE
INVARIANTS
  SelectedOnTopic
  StrongTopicIsAnswered
