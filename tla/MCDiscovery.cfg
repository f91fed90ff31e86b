CONSTANTS
  Repo <- Three
  Language <- Languages
  SplitLanguages <- Js
  Outside = {1}
  Scan = {"a", "b"}
  Continue = {"b"}
  Plans <- FourPlans
  MaxResults = 2
  Threshold = 2
  MinWidth = 2
  MaxDepth = 1
  Worker = {"w1", "w2"}
SPECIFICATION Spec
INVARIANT CapKept
INVARIANT BookmarkCovers
INVARIANT NothingMissed
INVARIANT EveryBrandNamed
CHECK_DEADLOCK FALSE
