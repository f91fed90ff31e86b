CONSTANTS
  Repo <- Instance
  Brands <- TwoBrands
  Plans <- SomePlans
  Variants <- Squats
  TermLength <- Lengths
  NoKeyword = NoKeyword
  MAX_FILES = 3
  CLONE_MAX_FILES = 4
  MAX_ENTRIES = 4
  Unanchored <- Blocks
  MAX_MATCHES_PER_PATTERN = 5
  MAX_ENTROPY_MATCHES = 1
  MAX_REUSE_MATCHES = 2
  MAX_CUSTOM_KEYWORD_MATCHES = 2
  MAX_DESTINATION_DETECTIONS = 2
  MAX_QUERIES = 22
  MAX_LENGTH = 250
  MAX_CUSTOM_KEYWORDS_PER_BRAND = 2
  Significance <- Telling
  Reference = "own"
  MAX_REFERENCE_FILES = 3
  MAX_PHRASES_PER_FILE = 2
  Callers = {1, 2}
  Answers <- SomeAnswers
  NumProviders = 2
  CONFIDENCE_THRESHOLD = 50
  MAX_FLAGGED_FILES = 1
  MAX_BACKFILL = 1
  MaxRounds = 2
  MaxFaults = 1
  MaxVerdicts = 1
SPECIFICATION Spec
INVARIANT NamedBrandWins
INVARIANT NothingReportedTwice
INVARIANT ScoreIsFair
INVARIANT QueriesKeepToTheScan
INVARIANT CorpusIsTheCommit
INVARIANT VerdictOnRecord
PROPERTY LinksAreWeighed
CHECK_DEADLOCK FALSE
