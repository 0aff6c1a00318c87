SPECIFICATION Spec
CONSTANTS
  None = None
  Ids = {v1}
  Accounts = {a1}
  Requests = {r1, r2}
  ImageSteps = {s1, s2}
  OptionalImage = {s2}
  Images = {i1}
  UserMetadata = {TRUE, FALSE}
  Operations = {"createVerification", "imageStep", "governmentStep", "assignProvider"}
  MaxFaults = 1
INVARIANTS TypeOK RecordedImagesAreStored
PROPERTIES StepsLostOnlyByStaleWrite
SYMMETRY StepSymmetry
CHECK_DEADLOCK FALSE
