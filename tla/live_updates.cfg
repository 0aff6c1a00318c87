SPECIFICATION FairSpec
CONSTANTS
  None = None
  Verifications = {v1}
  Clients = {c1}
  Requests = {r1}
  MaxOutages = 0
PROPERTIES StepReachesRoom
CHECK_DEADLOCK FALSE
