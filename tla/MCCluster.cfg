SPECIFICATION FairSpec
CONSTANTS
  t1 = t1
  Me = Me
  NoWorker = NoWorker
  NoSet = NoSet
  TaskIds = {t1}
  JoinRetry = 1
  MaxLoss = 1
  MaxCalls = 1
  MaxRequests = 2
  CheckAliveCount = 1
INVARIANTS
  RecordsAgree
PROPERTIES
  Reconnects
