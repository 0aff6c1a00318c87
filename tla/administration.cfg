SPECIFICATION Spec
CONSTANTS
  None = None
  Tenants = {t1}
  Users = {u1, u2}
  Providers = {p1}
  Configs = {c1, c2}
  Emails = {e1, e2}
  Quotas = {q1, q2}
  Secrets = {k1}
  Requests = {r1, r2}
  MaxFaults = 1
INVARIANTS AdministrationTypeOK RowsHaveTenants TenantsHaveUsers ProvidersInUseStay
PROPERTIES TenantsChangeAsAsked UsersMoveOnlyByStaleSave ProvidersChangeAsAsked
CONSTRAINT TenantsOrProviders
SYMMETRY Symmetry
CHECK_DEADLOCK FALSE
