SPECIFICATION FairSpec
CONSTANTS
  None = None
  Users = {u1}
  Tokens = {t1, t2, t3}
  Keys = {k1}
  Requests = {r1, r2}
  MaxFaults = 1
INVARIANTS SessionsTypeOK TokensForkOnlyByOverlap RevokedOnlyWhenReplaced CredentialsHaveUsers
PROPERTIES RevokedKeyStaysRevoked ReplacedTokenIsRevoked
CHECK_DEADLOCK FALSE
