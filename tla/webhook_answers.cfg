SPECIFICATION WebhooksFairSpec
CONSTANTS
  None = None
  Ids = {v1}
  Accounts = {a1}
  Requests = {r1}
  ImageSteps = {}
  OptionalImage = {}
  Images = {}
  UserMetadata = {FALSE}
  Operations = {"createVerification", "finalizeVerification", "removeAccount", "assignProvider"}
  MaxFaults = 0
  Hooks = {h1}
  Logs = {l1, l2}
  Secrets = {k1}
  Uninitialized = Uninitialized
PROPERTIES AuthenticWebhookProcessed
CHECK_DEADLOCK FALSE
