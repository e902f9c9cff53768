SPECIFICATION MCSpec
CONSTANTS
  Node = {n1, n2, n3, n4}
  Val = {h1, h2}
  NULL = NULL
  QHead = QHead
  Garbage = Garbage
  MaxIn = 4
INVARIANTS NoUseAfterFree NeverAlertedForNothing FifoOrder NoNodeLeaked LfqMemorySafe
PROPERTIES ImplementsFifo
CHECK_DEADLOCK FALSE
