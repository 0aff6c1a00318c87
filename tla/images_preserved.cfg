SPECIFICATION Spec
CONSTANTS
  None = None
  Ids = {v1}
  Accounts = {}
  Requests = {r1, r2}
  ImageSteps = {s1, s2}
  OptionalImage = {}
  Images = {i1}
  UserMetadata = {FALSE}
  Operations = {"createVerification", "imageStep"}
  MaxFaults = 0
PROPERTIES ImagesPreserved
CHECK_DEADLOCK FALSE
