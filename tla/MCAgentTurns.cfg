CONSTANTS
  MaxMessages = 3
  SlackThreads = {dm}
  Chats = {chat}
  QueueSize = 1
  MaxRedeliveries = 1
  MaxCrashes = 1
  Quiet = quiet
  MaxJobs = 3
  Requests <- MCRequests
  MaxQaCrashes = 1
  Branches = 1
SPECIFICATION MCSpec
INVARIANTS TypeOK OneSlackRun  StopSpent AnsweredOnce QaTypeOK QueueRows PriorityFirst SaidOnce
PROPERTIES EveryMessageEnds OutcomeFinal EveryScanEnds
CHECK_DEADLOCK FALSE
