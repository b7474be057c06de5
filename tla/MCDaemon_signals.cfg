SPECIFICATION FairDaemonSpec
CONSTANTS
  MaxSignals = 4
  ServeTakesSignals = TRUE
CHECK_DEADLOCK FALSE
INVARIANTS OneShutdownUnlessNested ReturnsClosed
PROPERTIES SignalEnds
