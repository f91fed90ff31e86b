CONSTANTS
  s1 = s1  s2 = s2  s3 = s3  main = main  side = side  leak = leak  phish = phish
  Scan = {s1, s3}
  BranchOf <- OneEach
  Default = main
  Rule = {leak}
  High = {leak}
  LiveRules = {}
  Shows <- Steady
  BranchShows = {leak}
  MaxAttempts = 2
  MaxVersion = 1
  MaxRuleset = 1
  MaxFaults = 1
  MaxVerdicts = 1
  Stoppable = {s1}
  NoVerdict = NoVerdict
  Kinds = {"search"}
SPECIFICATION Spec
PROPERTY EvidenceKept
PROPERTY VerdictHolds
PROPERTY BranchApart
CHECK_DEADLOCK FALSE
