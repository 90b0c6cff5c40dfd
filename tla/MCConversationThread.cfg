SPECIFICATION Spec
CONSTANTS
  x1 = x1
  x2 = x2
  h1 = h1
  NoRef = NoRef
  NoHadith = NoHadith
  NoSource = NoSource
  SurahCount = 2
  AyahCount <- MCAyahCount
  Source <- MCSource
  Hadith <- MCHadith
  AskedRef <- MCAskedRef
  SuppliedRef <- MCSuppliedRef
  SourceControls <- MCSourceControls
SYMMETRY Symmetry
INVARIANTS
  SpanCoversFocus
  StoredRefsExist
  ShownStayFocusable
  RejectedStaysInThread
  OrdinalStaysInSpan
PROPERTY OnlyEvidenceMovesThread
CHECK_DEADLOCK FALSE
