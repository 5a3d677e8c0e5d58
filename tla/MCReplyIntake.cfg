SPECIFICATION FairSpec
CONSTANTS
  Events = {1, 2}
  Conversation <- OneConversation
  Poison = {}
  InnerPasses = 1
  OuterPasses = 2
  Attempts = 1
  MaxRetries = 2
  MaxFaults = 2
INVARIANTS TypeOK NoOvertaking
PROPERTIES BufferedIsProcessed
CHECK_DEADLOCK FALSE
