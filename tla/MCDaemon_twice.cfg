SPECIFICATION DaemonSpec
CONSTANTS
  MaxSignals = 2
  ServeTakesSignals = FALSE
CHECK_DEADLOCK FALSE
INVARIANTS OneShutdown
