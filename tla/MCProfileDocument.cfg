SPECIFICATION Spec
CONSTANTS
  Authored <- Profiles
  FirstFresh = 20
  MaxElements = 4
  MaxLayers = 3
  MaxMembers = 3
  MaxAnchors = 2
  MaxLayerTargets = 2
  MaxTargets = 4
  MaxConditions = 2
  MaxInputs = 2
  MaxEdits = 3
INVARIANTS
  DocumentInvariant
PROPERTIES
  RemovalIsSafe
  EditsAreLocal
CHECK_DEADLOCK FALSE
