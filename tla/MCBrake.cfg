SPECIFICATION BrakeSpec
CONSTANTS
  Manifests <- MCManifests
  Rows <- MCRows
INVARIANTS
  StaysInBox
CHECK_DEADLOCK FALSE
