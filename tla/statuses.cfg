SPECIFICATION FairSpec
CONSTANTS
  None = None
  Ids = {v1}
  Accounts = {a1}
  Requests = {r1, r2, r3}
  ImageSteps = {}
  OptionalImage = {}
  Images = {}
  UserMetadata = {FALSE}
  Operations = {"createVerification", "governmentStep", "finalizeVerification", "manualFinalizeVerification",
                "overrideVerification", "uploadDocument", "assignProvider"}
  MaxFaults = 0
INVARIANTS PositiveStatusIsDecided
PROPERTIES SingleStepSettles
CHECK_DEADLOCK FALSE
