SPECIFICATION Spec
CONSTANTS
  Facets <- FourFacets
  Keys = {1}
  NoKey = 0
  Linked <- NoLinks
  MaxSteps = 5
  MaxTurns = 1
  Concepts <- Catalog
  ConceptOrder <- Order
  ReverseFacet <- Members
  MetricFacet <- Metrics
  Questions <- AskedQuestions
  LlmPlans <- Proposed
  MaxRepair = 1
  MaxSearchRetries = 2
CHECK_DEADLOCK FALSE
INVARIANT TurnTypeOK KeywordPlanRuns DataSurvivesOutage ModelCallsAreBounded
