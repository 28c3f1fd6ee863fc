SPECIFICATION Spec
CONSTANTS
  Facets <- TwoFacets
  Keys = {1, 2}
  NoKey = 0
  Linked <- SameKey
  MaxSteps = 5
  MaxTurns = 1
  Plans <- DataPlans
  Threads = {"cli-default"}
  Default = "cli-default"
  MaxCrashes = 1
CHECK_DEADLOCK FALSE
INVARIANT TypeOK GeneratedFromData MembersAreLinked FoundIsFetched
