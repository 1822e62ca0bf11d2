CONSTANTS
  Sockets = {1, 2}
  Outbox = 1
  Retries = 2
  Qty <- Buys
  Fills <- Resting
  MaxFills = 1
  MaxFaults = 2
  MaxTimers = 2
SPECIFICATION Spec
CHECK_DEADLOCK FALSE
INVARIANTS OneFeed OnceEach RowWhenPosition
PROPERTIES ComesBack
