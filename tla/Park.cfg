\* A waiter, two publishers and a stop; the timed net may fire but nothing relies on it.
SPECIFICATION FairSpec
CONSTANTS
  Waiters = {"w"}
  Publishers = {"p", "q"}
  Net = TRUE
  MaxSeq = 3
INVARIANTS NoLostWakeup NoSleepPastStop
PROPERTIES EventIsTaken
CHECK_DEADLOCK FALSE
