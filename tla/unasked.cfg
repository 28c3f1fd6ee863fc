SPECIFICATION Spec
CONSTANTS
  Facets <- TwoFacets
  Keys = {1}
  NoKey = 0
  Linked <- SameKey
  MaxSteps = 2
  MaxTurns = 2
  Plans <- LookupPlans
  Threads = {"cli-default"}
  Default = "cli-default"
  MaxCrashes = 1
CHECK_DEADLOCK FALSE
INVARIANT PendingWasAsked
