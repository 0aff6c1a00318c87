SPECIFICATION Spec
CONSTANTS
  None = None
  Ids = {v1}
  Accounts = {a1, a2}
  Requests = {r1, r2}
  ImageSteps = {}
  OptionalImage = {}
  Images = {}
  UserMetadata = {FALSE}
  Operations = {"createVerification", "finalizeVerification"}
  MaxFaults = 0
INVARIANTS OneAccountPerVerification
CHECK_DEADLOCK FALSE
