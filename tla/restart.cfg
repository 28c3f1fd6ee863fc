SPECIFICATION Spec
CONSTANTS
  Facets <- TwoFacets
  Keys = {1}
  NoKey = 0
  Linked <- SameKey
  MaxSteps = 2
  MaxTurns = 2
  Plans <- FreshPlans
  Threads = {"cli-default", "cli-new"}
  Default = "cli-default"
  MaxCrashes = 1
CHECK_DEADLOCK FALSE
INVARIANT ContextIsCurrent ThreadIsolation
PROPERTY KeepsConversation
