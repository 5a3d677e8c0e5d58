SPECIFICATION Spec
CONSTANTS
  w1 = w1
  w2 = w2
  Reports = {"r1"}
  Destinations = {"channel", "email"}
  Settings <- Saved
  Workers = {w1, w2}
  DayHours = 2
  Window = 1
  Hours = 1
  MaxCalls = 3
  MaxCrashes = 1
SYMMETRY Symmetry
INVARIANTS RemovedStaysRemoved ScheduledOnce UnfinishedIsInHand
CHECK_DEADLOCK FALSE
