CONSTANTS
  m1 = m1
  m2 = m2
  Messages <- OneMessage
  Drains <- OneDrain
  Rungs = 1
  Cap = 1
  Consoles = 0
  MaxCrashes = 1
SPECIFICATION FairSpec
PROPERTY RecordedReplyReachesStatus
CHECK_DEADLOCK FALSE
