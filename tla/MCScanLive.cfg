CONSTANTS
  q1 = q1  n1 = n1  h1 = h1  h2 = h2  r1 = r1  r2 = r2
  Orch = Orch  User = User
  SearchJob <- OneQuery
  Root <- OneQuery
  NextPage <- NextPages
  Halves <- Splits
  Repo <- OneRepo
  Kinds = {"search", "watch", "bulk"}
  Attempts = 2
  OrchAttempts = 1
  FaultPoints <- LateFaults
  StaleSaves = {"watch"}
  CancelFrom = "fannedOut"
SPECIFICATION FairSpec
PROPERTY EventuallyTerminal
PROPERTY WatchGoesOn
CHECK_DEADLOCK FALSE
