SPECIFICATION MCSpec
CONSTANTS
  Client = {c1, c2}
  MaxFd = 1
  AnswerLen = 1
  SndBuf = 1
  MaxAsk = 1
  MaxIntr = 1
  NoMemory = TRUE
  NoWatch = TRUE
  get = get
  verify = verify
  other = other
  NoPath = NoPath
  Junk = Junk
  Path = {get, verify, other}
  Routed = {get, verify}
  Cut <- MCCut
  Sends = {get, verify, other, NoPath}
  Split = FALSE
  Pipeline = FALSE
  Chunk = 3
  Pieces = 3
  MaxReq = 4
INVARIANT OwnAnswer
PROPERTIES WaitingAccepted RequestAnswered HangupFreesDescriptor EveryPathAnswered
CHECK_DEADLOCK FALSE
