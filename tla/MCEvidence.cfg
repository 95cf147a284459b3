SPECIFICATION Spec
CONSTANTS
  blaz = blaz
  queen = queen
  gui = gui
  cli = cli
  NoProfile = NoProfile
  Profiles = {blaz, queen}
  Contents = {1, 2, 3}
  Thumbnail <- MCThumbnail
  Signature <- MCSignature
  Threshold = 1
  Certain = {1}
  Reviewers = {gui, cli}
  MaxPending = 1
  MaxItems = 2
  MaxStarts = 2
  MaxReviews = 2
SYMMETRY Interchangeable
CONSTRAINT OneInterference
INVARIANTS
  ReviewInvariant
  QuotaKept
  StoredAreNovel
CHECK_DEADLOCK FALSE
