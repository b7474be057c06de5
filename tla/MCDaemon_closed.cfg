SPECIFICATION FairDaemonSpec
CONSTANTS
  MaxSignals = 2
  ServeTakesSignals = TRUE
CHECK_DEADLOCK FALSE
INVARIANTS AlwaysReturnsClosed
