CONSTANTS
  q1 = q1  n1 = n1  h1 = h1  h2 = h2  r1 = r1  r2 = r2
  Orch = Orch  User = User
  SearchJob <- Pages
  Root <- OneQuery
  NextPage <- NextPages
  Halves <- Splits
  Repo <- TwoRepos
  Kinds = {"search"}
  Attempts = 2
  OrchAttempts = 1
  FaultPoints <- EarlyFaults
  StaleSaves = {}
  CancelFrom = "never"
SPECIFICATION Spec
INVARIANT NoPrematureFinish
INVARIANT VerdictMatchesCounts
INVARIANT OnlyUnrecordedClaimsAreLost
INVARIANT LInv
PROPERTY TerminalIsFinal
PROPERTY ImplementsContract
CHECK_DEADLOCK FALSE
