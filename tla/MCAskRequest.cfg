SPECIFICATION Spec
CONSTANTS
  None = None
  n1 = n1
  n2 = n2
  MaxChanges = 1
  StrictStart = TRUE
  RepositoryMode = "db_preferred"
  BundleSize = 2
  Ask <- MCAsk
  Public <- MCPublic
  Governed <- MCGoverned
  Deployed <- MCDeployed
  Decision <- MCDecision
  Narration <- MCNarration
  Hits <- MCHits
  Candidates <- MCCandidates
INVARIANTS
  AnsweredOnGovernedEvidence
  NothingBeyondPlan
  SuggestionsCanBeFollowed
  ErrorsAreHonest
  FallbackNeverAnswers
PROPERTIES
  EveryRequestEnds
