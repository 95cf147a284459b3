SPECIFICATION Spec
CONSTANTS
  live = live
  replay = replay
  Publishers = {live, replay}
  Live = {live}
  FlushEvery = 1
  RotateAfter = 1
  MaxSequence = 2
  MaxRestarts = 1
INVARIANTS
  PublicationInvariant
  TurnsKeepOrder
  AppendedIsDurable
PROPERTIES
  StateNeverRegresses
