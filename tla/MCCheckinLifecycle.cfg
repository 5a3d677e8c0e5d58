CONSTANTS
  m1 = m1
  m2 = m2
  Messages <- OneMessage
  Drains <- TwoDrains
  Rungs = 2
  Cap = 1
  Consoles = 1
  MaxCrashes = 1
SPECIFICATION Spec
INVARIANTS TypeOK  HeardIsNotNudged
PROPERTIES StepsKeepPromise AnsweredBeforeCloseStays
CHECK_DEADLOCK FALSE
