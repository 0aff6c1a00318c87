SPECIFICATION WebhooksSpec
CONSTANTS
  None = None
  Ids = {v1}
  Accounts = {}
  Requests = {r1}
  ImageSteps = {}
  OptionalImage = {}
  Images = {}
  UserMetadata = {FALSE}
  Operations = {"createVerification", "finalizeVerification", "overrideVerification"}
  MaxFaults = 1
  Hooks = {h1, h2}
  Logs = {l1, l2}
  Secrets = {k1, k2}
  Uninitialized = Uninitialized
INVARIANTS WebhooksTypeOK PositiveStatusIsDecided LogsAreTruthful OnlyAuthenticApplied
SYMMETRY Symmetry
CHECK_DEADLOCK FALSE
