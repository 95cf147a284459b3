SPECIFICATION Spec
CONSTANTS
  Profiles = {1, 2}
  QueueLimit = 3
  MaxEvents = 3
  Buttons = {"DetectorTest", "CaptureSelect", "CatalogList"}
  MaxPolls = 1
  MaxFailures = 2
INVARIANTS
  EditorInvariant
  PreviewIsRestored
  SavedDraftIsStored
PROPERTIES
  SettledEditsSurvive
CHECK_DEADLOCK FALSE
