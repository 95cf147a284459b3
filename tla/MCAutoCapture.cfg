SPECIFICATION AutoSpec
CONSTANTS
  gui = gui
  Monitor = Monitor
  Clients = {gui, Monitor}
  MaxSessions = 2
  MaxFrames = 3
  Interval = 2
  MaxChanges = 2
INVARIANTS
  CaptureInvariant
PROPERTIES
  AnalysesAreSpaced
  StopReturns
  CaptureFollowsProcess
CHECK_DEADLOCK FALSE
