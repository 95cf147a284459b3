SPECIFICATION Spec
CONSTANTS
  gui = gui
  cli = cli
  Clients = {gui, cli}
  MaxConnections = 2
  MaxRetained = 1
  Capacity = 1
  MaxOperations = 2
INVARIANTS
  RequestsInvariant
  OperationsAreKept
PROPERTIES
  WorkSettles
CHECK_DEADLOCK FALSE
