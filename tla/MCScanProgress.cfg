CONSTANTS
  api = api  worker = worker
  Proc = {api, worker}
  Api = api
  Emission <- OneEach
  Workers = {worker}
  MaxWork = 2
  MaxFaults = 1
SPECIFICATION FairSpec
INVARIANT ClientUpToDate
INVARIANT EndIsSaved
INVARIANT LatestArrives
PROPERTY ClientFinishes
CHECK_DEADLOCK FALSE
