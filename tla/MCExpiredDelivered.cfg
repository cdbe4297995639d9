\* No fault at all.
SPECIFICATION Spec
CONSTANTS
  late = late
  Workers = {w1}
  NoWorker = NoWorker
  Jobs = {late}
  NoJob = NoJob
  Valid = {late}
  Null = {}
  ExpiresAt <- MCExpiresAt
  SendAfter <- MCSendAfter
  MaxSendDelay = 2
  FreshGroup = FALSE
  Faults = {}
  MaxAttempts = 2
  StaleAfter = 1
  MaxLog = 1
  MaxNow = 3
  MaxDisruptions = 0
PROPERTIES
  ExpiredNotDelivered
\* A worker with nothing to read waits for ever.
CHECK_DEADLOCK FALSE
