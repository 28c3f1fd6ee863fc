SPECIFICATION JoinRunSpec
CONSTANTS
  Values <- MixedValues
  None <- Absent
  Booleans <- OnlyTrue
  MaxLeft = 2
  MaxRight = 2
INVARIANT JoinTypeOK PairsAreTheMatches HashJoinAgrees MembersCountedOnce
