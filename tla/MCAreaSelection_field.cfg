SPECIFICATION FieldSpec
CONSTANTS
  Root = Root
  None = None
  PageSize = 1
  AllowEarly = TRUE
  GroupExceptions = {"g"}
  Library <- TwoSnapshots
  HostValues <- HeldValues
  SearchFinds = {"a"}
  SwitchesDataset = FALSE
  DisablesOnChange = FALSE
  Bounds <- SomeBounds
CHECK_DEADLOCK FALSE
INVARIANTS
  LayersFollowPath
  FieldInv
