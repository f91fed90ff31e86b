CONSTANTS
  s1 = s1  s2 = s2  s3 = s3  main = main  side = side  leak = leak  phish = phish
  Scan = {s1, s2}
  BranchOf <- OnMain
  Default = main
  Rule = {leak, phish}
  High = {leak}
  LiveRules = {}
  Shows <- Changes
  BranchShows = {leak}
  MaxAttempts = 1
  MaxVersion = 2
  MaxRuleset = 2
  MaxFaults = 1
  MaxVerdicts = 0
  Stoppable = {}
  NoVerdict = NoVerdict
  Kinds = {"search", "backlog", "retry", "reanalyze"}
SPECIFICATION Spec
INVARIANT AnalysisInv
INVARIANT NothingMissed
INVARIANT BacklogKept
INVARIANT AlertedOnce
CHECK_DEADLOCK FALSE
