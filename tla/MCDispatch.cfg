SPECIFICATION Safety
CONSTANTS
  Hook = {h1, h2}
  NoHook = NoHook
  Listener = Listener
  Fd = {4, 5}
  NWorkers = 2
  RcvCap = 2
  MaxConn = 3
  MaxSend = 2
SYMMETRY HookSymmetry
INVARIANTS NoUseAfterFree NoHookLeaked OneWorkerPerHook EventsAreCurrent NoForgottenData
CHECK_DEADLOCK FALSE
