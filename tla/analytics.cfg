SPECIFICATION AnalyticsSpec
CONSTANTS
  word = word
  None = None
  Absent = Absent
  Numbers <- SomeNumbers
  Texts <- SomeTexts
  Includes <- Itself
  Filters <- SomeFilters
  Limits <- SomeLimits
  MaxRows = 3
CHECK_DEADLOCK FALSE
INVARIANT AnalyticsTypeOK NumbersAreExact GroupsAddUp BestAreListed BestGroupsAreListed
