SPECIFICATION Spec
CONSTANTS
  lobby = lobby
  arena = arena
  vault = vault
  popup = popup
  prize = prize
  hall = hall
  door = door
  glow = glow
  coin = coin
  tag = tag
  router = router
  deep = deep
  wide = wide
  Scenes = {lobby, arena, vault}
  Overlays = {popup, prize}
  Levels = {0, 1, 2, 3, 4, 5, 6}
  Unknown = Unknown
  Nothing = Nothing
  Minimum <- MCMinimum
  Margin <- MCMargin
  Required <- MCRequired
  WindowSize <- MCRequired
  Priority <- MCPriority
  NameRank <- MCNameRank
  Hinted <- MCHinted
  Targets <- MCTargets
  Preferences <- MCPreferences
  Anchors = {hall, door, glow}
  Contextual = {coin, tag}
  Place <- MCPlace
  Weight <- MCWeight
  Scale = 3
  RequireAll <- MCRequireAll
  Uses <- MCUses
  Contents <- MCContents
  RequiredOf <- MCRequiredOf
  Spots = {"enter", "close", "claim"}
  Owner <- MCOwner
  VisibleBy <- MCVisibleBy
  Vital = {"enter"}
  Blocking = {prize}
  Transitions <- MCTransitions
  Tolerance = 1
  Profiles = {router, deep, wide}
  Router = router
  Manifests <- MCManifests
  RouterPin = 1
  MaxRevision = 2
  Contexts <- MCContexts
  Pictures <- MCPictures
INVARIANTS
  HandoffIsSound
  ContextIsSoft
  RoutingInvariant
