CONSTANTS
  Handles = {h1, h2, h3, h4}
  None = None
SPECIFICATION Spec
SYMMETRY Symmetry
CHECK_DEADLOCK FALSE
INVARIANTS
  ReleasedOnce
  UsableIsBacked
  NetCoversAll
