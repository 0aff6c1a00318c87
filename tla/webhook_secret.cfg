SPECIFICATION WebhooksSpec
CONSTANTS
  None = None
  Ids = {v1}
  Accounts = {}
  Requests = {r1}
  ImageSteps = {}
  OptionalImage = {}
  Images = {}
  UserMetadata = {FALSE}
  Operations = {"createVerification"}
  MaxFaults = 0
  Hooks = {h1}
  Logs = {l1, l2}
  Secrets = {k1, k2}
  Uninitialized = Uninitialized
PROPERTIES CheckedWebhookIsHandled
CHECK_DEADLOCK FALSE
