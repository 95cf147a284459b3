SPECIFICATION LiveSpec
CONSTANTS
  menu = menu
  fight = fight
  popup = popup
  reward = reward
  banner = banner
  title = title
  icon = icon
  bar = bar
  badge = badge
  timer = timer
  ammo = ammo
  price = price
  Scenes = {menu, fight}
  Overlays = {popup, reward, banner}
  Levels = {0, 1, 2, 3, 4}
  Unknown = Unknown
  Nothing = Nothing
  Minimum <- MCMinimum
  Margin <- MCMargin
  Required <- MCRequired
  WindowSize <- MCWindowSize
  Priority <- MCPriority
  NameRank <- MCNameRank
  Hinted <- MCHinted
  Targets <- MCTargets
  Anchors = {title, icon, bar, badge}
  Contextual = {timer, ammo, price}
  Place <- MCPlace
  Weight <- MCWeight
  Scale = 2
  RequireAll <- MCRequireAll
  Uses <- MCUses
  Frames <- MCPictures
  Fragile = {ammo, price}
  NoRanking <- MCNoRanking
  Preferences <- MCPreferences
INVARIANTS
  PipelineInvariant
  DetectorsFollowLayers
  LogTellsContext
