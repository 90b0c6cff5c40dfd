SPECIFICATION Spec
CONSTANTS
  Rows = 2
  MaxVersion = 2
  MaxGeneration = 1
  None = None
  MinDocs = 1
  Overlap = { {"migrate", "backfill"}, {"migrate", "ingest"}, {"ingest", "backfill"},
              {"build", "cutover"} }
INVARIANTS
  EmbeddingNotAhead
  AliasOnOneIndex
PROPERTIES
  MigrationComplete
  EmbeddingsSurvive
  CutoverServesFilled
CONSTRAINT
  BesideBeforeBuilds
CHECK_DEADLOCK FALSE
