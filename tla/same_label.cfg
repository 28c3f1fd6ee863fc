SPECIFICATION DialogueSpec
CONSTANTS
  Pieces <- Characters
  Ids = {1, 2, 3}
  Names <- NestedNames
  Messages <- Typed
  Number <- Digits
  Ordinal <- Ordinals
  Forms <- Asking
  Entity <- Spelled
  MaxCandidates = 2
  MaxTurns = 3
  MaxRenames = 0
CHECK_DEADLOCK FALSE
INVARIANT ChosenIsAnswered
