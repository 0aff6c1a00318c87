SPECIFICATION FairSpec
CONSTANTS
  None = None
  Verifications = {v1, v2}
  Clients = {c1}
  Requests = {r1, r2}
  MaxOutages = 1
INVARIANTS EventsTypeOK FailedAfterStoreOnlyByOutage
PROPERTIES BootSettles EventsReachOnlyTheirRoom WebhookReachesRoom CallbackIsSent
CHECK_DEADLOCK FALSE
