SPECIFICATION CatalogSpec
CONSTANTS
  router = router
  member = member
  gui = gui
  cli = cli
  Ids = {router, member}
  Clients = {gui}
  RevisionLimit = 1
  Incoming <- Arriving
  Packages <- Offers
  MaxReleases = 2
  MaxRequests = 5
INVARIANTS
  CatalogInvariant
  RevisionsRise
PROPERTIES
  NothingIsForgotten
  InstallsAreSound
CHECK_DEADLOCK FALSE
