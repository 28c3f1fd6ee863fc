SPECIFICATION Spec
CONSTANTS
  Facets <- TwoFacets
  Keys = {1}
  NoKey = 0
  Linked <- NoLinks
  MaxSteps = 2
  MaxTurns = 3
  Plans <- TalkPlans
  Threads = {"cli-default", "cli-new"}
  Default = "cli-default"
  MaxCrashes = 0
CHECK_DEADLOCK FALSE
INVARIANT DialogueWellFormed RecallQuotesThePast MemoriesAreUsable AmbiguityIsAsked PendingWasAsked
