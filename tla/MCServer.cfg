SPECIFICATION MCSpec
CONSTANTS
  get = get
  verify = verify
  other = other
  Path = {get, verify, other}
  Routed = {get, verify}
  NoPath = NoPath
  Junk = Junk
  Cut <- MCCut
  Sends = {get, other, NoPath, Junk}
  Split = TRUE
  Pipeline = TRUE
  Chunk = 2
  Pieces = 3
  MaxReq = 3
  Families = {"ip", "unix"}
  MaxAddr = 4
  MinBlock = 12
  w1 = w1
  w2 = w2
  Worker = {w1, w2}
  Registered <- MCRegistered
  Asked = {"/app/get", "/app/verify", "/", "/other"}
  Capacity = 3
  MaxGets = 3
  p1 = p1
  p2 = p2
  Client = {p1, p2}
  MaxFd = 1
  AnswerLen = 1
  SndBuf = 1
  MaxAsk = 2
  MaxIntr = 1
  NoMemory = FALSE
  NoWatch = TRUE
SYMMETRY Symmetry
INVARIANTS PoolBounded RoutesKeepMeaning NoSocketLeaked SuccessServesAll  OwnActionUntilRace AlertsCoverQueue AnswersWhole SurvivesHangup
CHECK_DEADLOCK FALSE
