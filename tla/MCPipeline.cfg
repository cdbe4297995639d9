\* A deployment with one outage, one API shutdown and two worker mishaps.
SPECIFICATION FairSpec
CONSTANTS
  valid = valid
  poor = poor
  campaign = campaign
  Events = {valid, poor}
  Kind <- MCKind
  StartAttempts = 2
  StartupTries = 2
  WaitTries = 2
  InitRestarts = 1
  MaxOutages = 1
  MaxPosts = 2
  MaxRestarts = 1
  MaxMishaps = 2
INVARIANTS
  TypeOK
  OneJobPerPost
  ReadyIsCurrent
  HealthyEndsWithProcess
  StopClosesAll
  TrafficNeedsSchema
PROPERTIES
  AcceptedIsSettled
  StopsAndStartsEnd
  KafkaInitEnds
  ApiStartupEnds
\* With every event answered the deployment waits for more.
CHECK_DEADLOCK FALSE
