\* Two workers, one rebalance while a message is handled.
SPECIFICATION Spec
CONSTANTS
  late = late
  Workers = {w1, w2}
  NoWorker = NoWorker
  Jobs = {plain}
  NoJob = NoJob
  Valid = {plain}
  Null = {}
  ExpiresAt <- MCExpiresAt
  SendAfter <- MCSendAfter
  MaxSendDelay = 1
  FreshGroup = FALSE
  Faults = {"rebalance"}
  MaxAttempts = 2
  StaleAfter = 1
  MaxLog = 1
  MaxNow = 2
  MaxDisruptions = 1
PROPERTIES
  SentStaysSent
\* A worker with nothing to read waits for ever.
CHECK_DEADLOCK FALSE
