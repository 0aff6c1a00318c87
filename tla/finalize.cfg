SPECIFICATION Spec
CONSTANTS
  None = None
  Ids = {v1, v2}
  Accounts = {a1, a2}
  Requests = {r1, r2}
  ImageSteps = {}
  OptionalImage = {}
  Images = {}
  UserMetadata = {FALSE}
  Operations = {"createVerification", "finalizeVerification", "overrideVerification", "removeAccount", "updateAccount"}
  MaxFaults = 1
INVARIANTS HandlersInOrder AccountsAreEarned
PROPERTIES NewAccountOnlyWhenUnlinked CreditsLostOnlyByStaleUpdate ImplementsLedger
SYMMETRY Symmetry
CHECK_DEADLOCK FALSE
