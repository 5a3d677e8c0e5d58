SPECIFICATION FairSpec
CONSTANTS
  Fanouts = {f}
  Reconciles = {r}
  Admins = {}
  NoRun = NoRun
  Edits = TRUE
  MaxFaults = 2
  Attempts = 2
INVARIANTS TypeOK SentRunHasItsCheckin ResendsArePaidFor OrderlyAsksOnce
PROPERTIES UnfaultedIsFollowedUp
CHECK_DEADLOCK FALSE
