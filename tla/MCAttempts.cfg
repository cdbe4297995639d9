\* Template requests and delivery attempts side by side.
SPECIFICATION Spec
CONSTANTS
  Requests <- MCRequests
  Ask <- MCAsk
  Seeds <- MCSeeds
  PageSize = 1
  Jobs <- MCJobs
  Key <- MCKey
  Channel <- MCChannel
  Contact <- MCContact
  Fits <- MCFits
  MaxAttempts = 3
  AuthBaseUrl = TRUE
  RawDelays <- MCRawDelays
  MaxAuthFailures = 1
  Mixes <- MCMixes
INVARIANTS
  TypeOK
  OneTemplatePerKey
  SoleWriterWins
  UpdateTakesEffect
  PagingMissesNothing
  SentCurrentTemplate
  MadeUpOnlyInOutage
  DelayAsConfigured
\* Everything comes to an end.
CHECK_DEADLOCK FALSE
