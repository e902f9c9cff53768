SPECIFICATION SessionSafety
CONSTANTS
  get = get
  verify = verify
  other = other
  Path = {get, verify, other}
  Routed = {get, verify}
  NoPath = NoPath
  Junk = Junk
  Cut <- MCCut
  Sends = {get, other}
  Split = TRUE
  Pipeline = FALSE
  Chunk = 3
  Pieces = 3
  MaxReq = 2
INVARIANT OwnAnswer
CHECK_DEADLOCK FALSE
