\* Two workers, every fault, an established consumer group.
SPECIFICATION Spec
CONSTANTS
  late = late
  Workers = {w1, w2}
  NoWorker = NoWorker
  Jobs = {plain, late}
  NoJob = NoJob
  Valid = {plain, late}
  Null = {}
  ExpiresAt <- MCExpiresAt
  SendAfter <- MCSendAfter
  MaxSendDelay = 1
  FreshGroup = FALSE
  Faults = {"crash", "rebalance", "db", "kafka", "smtp"}
  MaxAttempts = 2
  StaleAfter = 0
  MaxLog = 2
  MaxNow = 2
  MaxDisruptions = 2
SYMMETRY Symmetry
INVARIANTS
  TypeOK
  NoLossWithoutOrphan
  FailedReachesDlq
  SentWasAccepted
  ClaimLeavesBudget
PROPERTIES
  ImplementsContract
  CommittedNeverRewinds
  FinishedStaysFinished
\* A worker with nothing to read waits for ever.
CHECK_DEADLOCK FALSE
