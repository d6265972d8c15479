SPECIFICATION Spec
CONSTANTS
  PartSize = 256
  Sizes <- MCSizes
  MaxControls = 1
INVARIANT NodesFit
CHECK_DEADLOCK FALSE
