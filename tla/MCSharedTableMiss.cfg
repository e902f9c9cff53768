SPECIFICATION TableSpec
CONSTANTS
  Worker = {w1, w2}
  Registered <- MCRoutes
  Asked <- AnyPaths
  Capacity = 4
  MaxGets = 1
SYMMETRY WorkerSymmetry
INVARIANT OwnAction
CHECK_DEADLOCK FALSE
