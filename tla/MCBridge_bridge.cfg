SPECIFICATION MCSpec
CONSTANTS
  u1 = u1
  u2 = u2
  ann = ann
  bob = bob
  clip = clip
  vid = vid
  reader = reader
  Calls = {c1, c2}
  OneShot = {c2}
  RefreshTokens = {0, 1, 2, 3, 4}
  Ttl = 2
  Headroom = 1
  MaxNow = 3
  NoToken = NoToken
  Runs = {u1, u2}
  OwnerOf <- MCOwnerOf
  SourceOf <- MCSourceOf
  Contents = {clip, other}
  JobIds = {j1, j2}
  MaxPolls = 1
  Tracks = 2
  MaxCaptions = 1
  NoJob = NoJob
  Edits = 3
  MaxTries = 3
  FaultBudget = 1
  LegacyJobs = {1, 2}
  Operations = {o1, o2}
  PageLimit = 1
  MaxStamp = 5
  Nobody = Nobody
  Threads = {t1, t2}
  MaxTimestamp = 3
  Threshold = 3
  MaxStuck = 1
  Hooks = {h1, h2}
  Videos = {vid}
  Verdicts <- UnknownThenKnown
  Followers = {reader}
  FollowsOnly <- RecordOnly
  PageRows = 1
  MaxRows = 2
  Repos = {"a", "b"}
  Posts = {1, 2}
  RepoOf <- BothOfOneRepo
  VideoPosts = {1}
  OddPosts = {2}
  ListLimit = 1
  VideoEvents <- MCVideoEvents
  Graphemes = 9
  OldWorkers = {k1, k2}
  NewWorkers = {n1, n2}
  NoOwner = NoOwner
INVARIANTS
  BridgeTypeOK SessionKept BlobsOwned NewestShown KeysIncrease
  OnlyRacedAreMissed BanTakesDown ReadyMeansIndexed
  FacetsAreHashtags ReleasesNeverMix
PROPERTIES
  NotDark MediaEnds ConfirmedAsPreviewed RollbackUndoesOwn ReadinessSettles VideosPlayAgain
CHECK_DEADLOCK FALSE
