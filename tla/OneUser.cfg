SPECIFICATION AllSpec
CHECK_DEADLOCK FALSE
CONSTANTS
  Procs = {p1}
  Pools = {q1, q2}
  Rests = {"r1", "r2"}
  NoConfig = NoConfig
  NoCmd = NoCmd
  Absent = Absent
  None = None
  Failed = Failed
  Keys = {"k1", "k2"}
  Given <- MCGiven
  Random <- MCRandom
  Limit = 8
  Verbs = {"set", "generate", "force", "apply", "delete"}
  Commits = {"c1", "c2"}
  NFiles = 3
  Marker = 2
  Inodes = {"i1", "i2", "i3", "i4"}
  Gateways = {"p1", "p2", "p3"}
  Metrics = {"p1", "p2"}
  Rich = {"p1"}
  NoPool = "p0"
  Ips = {"i1", "i2"}
  NoIp = "i0"
  Items = {1, 2}
  MaxDisks = 2
  Gaps <- MCGaps
  Times = {8, 14, 20, 24, 28}
  Ranges = {2, 6, 11, 99}
  Now = 20
  Scrape = 2
  Points = 3
  Shortest = 4
  Longest = 12
  Usual = 6
INVARIANTS
  TypesOK
  UpIsListed
  RemovedStaysRemoved
  ReturnedIsComplete
  AnswerIsComplete
PROPERTIES
  StagedFirst
  RemoveMeansGone
  RemoveConverges
  ExistingKept
  SetKeepsSecret
  NeverDownloadedTwice
  CacheRecovers
