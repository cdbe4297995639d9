\* Databases and providers that may fail for ever, no crash.
SPECIFICATION FairSpec
CONSTANTS
  late = late
  Workers = {w1, w2}
  NoWorker = NoWorker
  Jobs = {plain, late, bad}
  NoJob = NoJob
  Valid = {plain, late}
  Null = {}
  ExpiresAt <- MCExpiresAt
  SendAfter <- MCSendAfter
  MaxSendDelay = 1
  FreshGroup = FALSE
  Faults = {"db", "smtp"}
  MaxAttempts = 2
  StaleAfter = 1
  MaxLog = 2
  MaxNow = 3
  MaxDisruptions = 0
PROPERTIES
  EveryMessageCommitted
  OpenRowsSettle
\* A worker with nothing to read waits for ever.
CHECK_DEADLOCK FALSE
