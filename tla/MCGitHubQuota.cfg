CONSTANTS
  j1 = j1  j2 = j2  p1 = p1  p2 = p2  w1 = w1  search = search  core = core
  everyone = everyone  shared = shared  noScan = noScan  scan = scan
  Job = {j1, j2}
  Proc = {p1, p2}
  ProcOf <- TwoProcs
  Workspace = {w1}
  Requests <- Asked
  ScanOf <- OneScan
  Resource = {search, core}
  Paced = {search}
  Reported = {search}
  MinInterval = 1
  MaxInlineWait = 1
  CacheTtl = 1
  RunTtl = 2
  Backoff = 1
  ShortDelay = 1
  DefaultDelay = 1
  MaxAttempts = 2
  DailyBudget = 1
  MaxWorkspace = 1
  MaxGlobal = 2
  Answers <- SomeAnswers
  MaxFaults = 1
  Everyone = everyone
  Shared = shared
  NoScan = noScan
SPECIFICATION Spec
INVARIANT SlotsCounted
INVARIANT BudgetBounded
PROPERTY SlotsSpaced
PROPERTY PauseSeenInTime
CHECK_DEADLOCK FALSE
