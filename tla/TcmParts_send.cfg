SPECIFICATION Spec
CONSTANTS
  PartSize = 256
  Sizes <- MCSizes
  MaxControls = 2
INVARIANT Numbered
INVARIANT Complete
CHECK_DEADLOCK FALSE
