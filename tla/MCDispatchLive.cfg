SPECIFICATION Spec
CONSTANTS
  Hook = {h1, h2}
  NoHook = NoHook
  Listener = Listener
  Fd = {4, 5}
  NWorkers = 2
  RcvCap = 2
  MaxConn = 2
  MaxSend = 2
PROPERTIES ClosedHooksAreFreed DataIsRead
CHECK_DEADLOCK FALSE
