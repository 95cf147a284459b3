SPECIFICATION FairSpec
CONSTANTS
  marker = marker
  value = value
  gui = gui
  cli = cli
  low = low
  high = high
  Routes = {marker, value}
  Trigger <- OneOfEach
  Payloads = {low, high}
  Missing = Missing
  Capacity = 2
  Clients = {gui, cli}
  NoCache = NoCache
  MaxCalls = 3
INVARIANTS
  CaughtUpIsCurrent
  RouterInvariant
PROPERTY
  KeepsPromise
CHECK_DEADLOCK FALSE
