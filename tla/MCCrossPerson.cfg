CONSTANTS Requests = {1, 2}
          Asks = {"work"}
          Ask <- OneAsk
          Start = 2
          CreatedBefore <- InOrder
          Workers = {w1, w2}
          Does <- Shared
          MaxAttempts = 2
          Horizon = 3
          MaxCrashes = 1
          w1 = w1 w2 = w2
SPECIFICATION Spec
INVARIANTS TypeOK AttemptIsHeldOnce HeardAtMostOnce NoticeAfterCopies QuietOnlyIfRaced AskSurvives
