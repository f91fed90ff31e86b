CONSTANTS
  q1 = q1  n1 = n1  h1 = h1  h2 = h2  r1 = r1  r2 = r2
  Orch = Orch  User = User
  SearchJob <- Family
  Root <- OneQuery
  NextPage <- NextPages
  Halves <- Splits
  Repo <- OneRepo
  Kinds = {"search"}
  Attempts = 2
  OrchAttempts = 1
  FaultPoints <- NoFaults
  StaleSaves = {}
  CancelFrom = "never"
SPECIFICATION Spec
INVARIANT NoPrematureFinish
CHECK_DEADLOCK FALSE
