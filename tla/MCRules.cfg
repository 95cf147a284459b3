SPECIFICATION CoordinatedSpec
CONSTANTS
  RequiredSamples = 2
  SampleWindow = 3
  StableFor = 1
  Cooldown = 3
  EmitInitial = FALSE
  UpdateInterval = 2
  None = None
  EnterBelow = 2
  LeaveAbove = 4
  Values = {1, 3, 5}
  Leaves = {health, shield}
  MinimumDelta = 2
  Within = 2
  Levels = {0, 1, 2}
  MaxSamples = 7
  MaxMixed = 5
  MaxStep = 2
INVARIANTS
  ReportsAreDebounced
  BurstsAreRises
PROPERTIES
  ChangesAreSupported
  NumbersKeepHysteresis
  CompositionIsCurrent
CHECK_DEADLOCK FALSE
