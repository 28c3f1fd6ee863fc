SPECIFICATION LinksSpec
CONSTANTS
  Records <- SmallErp
  NoRecord = NoRecord
  Links <- Ownership
  project = project
  person = person
  unit = unit
  MaxDepth = 2
  Ttl = 2
  MaxFields = 3
  MaxInputs = 2
  MaxClock = 3
INVARIANT LinksTypeOK EveryKeyIsNamed LabelsAreRecent CallsAreBounded
PROPERTY WalksEnd
