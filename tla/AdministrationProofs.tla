------------------------ MODULE AdministrationProofs ------------------------
(***************************************************************************)
(* Proofs about Administration, for any number of tenants, users,          *)
(* providers, assignments and requests.  What makes the invariants         *)
(* inductive is what each handler knows of the entity it holds: that it    *)
(* differs from its row only as the client asked, unless a write overtook  *)
(* the handler.                                                            *)
(***************************************************************************)
EXTENDS Administration, TLAPS

\* An assignment that was ever stored names its tenant and its provider.
ConfigsNamed ==
  \A c \in Configs : configs[c].presence # "unused" =>
    configs[c].tenant \in Tenants /\ configs[c].provider \in Providers

\* Two rows differ in the columns asked for only.
TenantAsAsked(old, new, asked) ==
  /\ "email" \notin asked => new.email = old.email
  /\ "status" \notin asked => new.status = old.status
  /\ "quota" \notin asked => new.quota = old.quota

ProviderAsAsked(old, new, asked) ==
  /\ "active" \notin asked => new.active = old.active
  /\ "secret" \notin asked => new.secret = old.secret

\* A handler about to save a tenant holds a stored one; the users it loaded are
\* still of this tenant, or of none, and unless it is stale they are all of them
\* and the entity is the row but for what was asked.
TenantHeld(q) ==
  q.at \in TenantSaves =>
    /\ Stored(q.entity)
    /\ \A u \in q.users : users[u].presence # "unused" /\ users[u].tenant \in {q.tenant, None}
    /\ \/ q.stale
       \/ /\ Stored(tenants[q.tenant])
          /\ q.users = UsersOf(q.tenant)
          /\ TenantAsAsked(tenants[q.tenant], q.entity, q.asked)

\* No user was loaded with two tenants.
LoadedOnce ==
  \A q, r \in Requests :
    /\ reqs[q].at \in TenantSaves /\ reqs[r].at \in TenantSaves
    /\ \E u \in Users : u \in reqs[q].users /\ u \in reqs[r].users
    => reqs[q].tenant = reqs[r].tenant

\* Providers are never deleted; the one about to be used is active unless it was
\* overtaken.
ProviderHeld(q) ==
  /\ q.at \in Deletions \union {"saveProvider"} =>
       /\ Stored(q.entity) /\ Stored(providers[q.provider])
       /\ q.stale \/ ProviderAsAsked(providers[q.provider], q.entity, q.asked)
  /\ q.at = "insertVerification" =>
       Stored(providers[q.provider]) /\ (q.stale \/ providers[q.provider].active)

\* Tenant and provider of an assignment never change; it is still there unless the
\* handler was overtaken.
ConfigHeld(q) ==
  /\ q.at \in {"saveConfig", "removeConfig"} => configs[q.config].presence # "unused"
  /\ q.at = "saveConfig" =>
       /\ q.entity.tenant = configs[q.config].tenant /\ q.tenant = configs[q.config].tenant
       /\ q.entity.provider = configs[q.config].provider
       /\ q.stale \/ Stored(configs[q.config])

\* What a deletion has counted is still so, unless it is late.
CountHeld(q) ==
  /\ q.at \in {"countVerifications", "deactivate"} =>
       q.late \/ \A c \in Configs : Stored(configs[c]) => configs[c].provider # q.provider
  /\ q.at = "deactivate" =>
       q.late \/ \A v \in verified : v[2] # q.provider

Held(q) == TenantHeld(q) /\ ProviderHeld(q) /\ ConfigHeld(q) /\ CountHeld(q)

AdminInv ==
  /\ AdministrationTypeOK
  /\ ConfigsNamed
  /\ RowsHaveTenants
  /\ TenantsHaveUsers
  /\ LoadedOnce
  /\ \A r \in Requests : Held(reqs[r])

-----------------------------------------------------------------------------
(***************************************************************************)
(* Steps that write no table.                                              *)
(***************************************************************************)
LEMMA IdleType == Idle \in Request /\ HandlerOK(Idle)
  BY DEF Idle, Request, HandlerOK, TenantSaves, Creations, Assignments, Deletions, Verifying

LEMMA IdleHeld == Held(Idle)
  BY DEF Idle, Held, TenantHeld, ProviderHeld, ConfigHeld, CountHeld, TenantSaves, Deletions

LEMMA AdminInit == Init => AdminInv
<1> SUFFICES ASSUME Init PROVE AdminInv
  OBVIOUS
<1>1. /\ NoTenant \in Tenant /\ NoUser \in User /\ NoProvider \in Provider /\ NoConfig \in Config
      /\ NoTenant.presence = "unused" /\ NoUser.presence = "unused" /\ NoConfig.presence = "unused"
  BY DEF NoTenant, NoUser, NoProvider, NoConfig, Tenant, User, Provider, Config, Presence, Statuses
<1>2. AdministrationTypeOK
  BY <1>1, IdleType, AdminFaultsAssumption DEF Init, AdministrationTypeOK
<1>3. ConfigsNamed /\ RowsHaveTenants /\ TenantsHaveUsers
  BY <1>1 DEF Init, ConfigsNamed, RowsHaveTenants, TenantsHaveUsers, Stored
<1>4. LoadedOnce
  BY DEF Init, LoadedOnce, Idle, TenantSaves
<1>5. \A r \in Requests : Held(reqs[r])
  BY IdleHeld DEF Init
<1> QED
  BY <1>2, <1>3, <1>4, <1>5 DEF AdminInv

\* Request r goes on as row, and nothing is written.
LEMMA QuietStep ==
  ASSUME AdminInv, NEW r \in Requests, NEW row \in Request, HandlerOK(row), Held(row),
         reqs' = [reqs EXCEPT ![r] = row], UNCHANGED tables,
         faults' \in 0 .. MaxFaults, cutOff' \subseteq Tenants, cutOff \subseteq cutOff',
         reqs[r].at = "insertAdmin" => reqs[r].tenant \in cutOff',
         row.at \in TenantSaves =>
           \A q \in Requests \ {r}, u \in Users :
             reqs[q].at \in TenantSaves /\ u \in reqs[q].users /\ u \in row.users => reqs[q].tenant = row.tenant
  PROVE  AdminInv'
<1>0. UNCHANGED <<tenants, users, providers, configs, verified>>
  BY DEF tables
<1>1. reqs \in [Requests -> Request] /\ \A q \in Requests : HandlerOK(reqs[q])
  BY DEF AdminInv, AdministrationTypeOK
<1>2. reqs'[r] = row /\ \A q \in Requests : q # r => reqs'[q] = reqs[q]
  BY <1>1
<1>3. AdministrationTypeOK'
  <2>1. reqs' \in [Requests -> Request] /\ \A q \in Requests : HandlerOK(reqs'[q])
    BY <1>1, <1>2
  <2> QED
    BY <1>0, <2>1 DEF AdminInv, AdministrationTypeOK
<1>4. ConfigsNamed' /\ RowsHaveTenants'
  BY <1>0 DEF AdminInv, ConfigsNamed, RowsHaveTenants, MayBelongTo
<1>5. TenantsHaveUsers'
  <2> SUFFICES ASSUME NEW t \in Tenants, Stored(tenants[t])
               PROVE  \/ UsersOf(t)' # {}
                      \/ \E q \in Requests : reqs'[q].at = "insertAdmin" /\ reqs'[q].tenant = t
                      \/ t \in cutOff'
    BY <1>0 DEF TenantsHaveUsers
  <2>1. UsersOf(t)' = UsersOf(t)
    BY <1>0 DEF UsersOf
  <2> QED
    BY <1>2, <2>1 DEF AdminInv, TenantsHaveUsers
<1>6. LoadedOnce'
  BY <1>2 DEF AdminInv, LoadedOnce
<1>7. ASSUME NEW q \in Requests PROVE Held(reqs[q])'
  <2>1. Held(reqs'[q])
    BY <1>2 DEF AdminInv
  <2> QED
    BY <1>0, <2>1 DEF Held, TenantHeld, ProviderHeld, ConfigHeld, CountHeld, UsersOf
<1> QED
  BY <1>3, <1>4, <1>5, <1>6, <1>7 DEF AdminInv

-----------------------------------------------------------------------------
(***************************************************************************)
(* Requests that begin.                                                    *)
(***************************************************************************)
Columns == {"email", "status", "quota", "active", "secret", "enabled"}

\* A tenant with its status or quota replaced is a tenant.
LEMMA StatusColumn ==
  ASSUME NEW old \in Tenant, NEW s \in Statuses
  PROVE  LET row == [old EXCEPT !.status = s] IN
         /\ row \in Tenant
         /\ row.presence = old.presence /\ row.email = old.email /\ row.status = s /\ row.quota = old.quota
  BY DEF Tenant

LEMMA QuotaColumn ==
  ASSUME NEW old \in Tenant, NEW q \in Quotas \union {None}
  PROVE  LET row == [old EXCEPT !.quota = q] IN
         /\ row \in Tenant
         /\ row.presence = old.presence /\ row.email = old.email /\ row.status = old.status /\ row.quota = q
  BY DEF Tenant

\* A tenant is loaded with its users, to be saved as row or removed.
LEMMA LoadTenantStep ==
  ASSUME AdminInv, NEW r \in Requests, NEW at \in TenantSaves, NEW t \in Tenants,
         NEW row \in Tenant, NEW asked \in SUBSET Columns,
         LoadTenant(r, at, t, row, asked),
         row.presence = tenants[t].presence, TenantAsAsked(tenants[t], row, asked)
  PROVE  AdminInv'
<1> DEFINE h == [Idle EXCEPT !.at = at, !.tenant = t, !.entity = row, !.asked = asked, !.users = UsersOf(t)]
<1>1. /\ h.at = at /\ h.tenant = t /\ h.entity = row /\ h.asked = asked /\ h.users = UsersOf(t)
      /\ h.provider = None /\ h.config = None /\ h.stale = FALSE /\ h.late = FALSE
  BY DEF Idle
<1>2. h \in Request
  BY DEF Idle, Request, UsersOf, Columns
<1>3. reqs[r].at = "idle" /\ Stored(tenants[t]) /\ reqs' = [reqs EXCEPT ![r] = h] /\ UNCHANGED <<tables, faults, cutOff>>
  BY DEF LoadTenant, Enter
<1> HIDE DEF h
<1>4. HandlerOK(h)
  BY <1>1 DEF HandlerOK, TenantSaves, Deletions, Verifying
<1>5. Held(h)
  <2>1. TenantHeld(h)
    BY <1>1, <1>3 DEF TenantHeld, Stored, UsersOf
  <2>2. ProviderHeld(h) /\ ConfigHeld(h) /\ CountHeld(h)
    BY <1>1 DEF ProviderHeld, ConfigHeld, CountHeld, TenantSaves, Deletions
  <2> QED
    BY <2>1, <2>2 DEF Held
<1>6. ASSUME NEW q \in Requests \ {r}, NEW u \in Users, reqs[q].at \in TenantSaves, u \in reqs[q].users, u \in h.users
      PROVE  reqs[q].tenant = h.tenant
  <2>1. users[u].tenant = t /\ t # None
    BY <1>1, <1>6, AdminNoneAssumption DEF UsersOf
  <2>2. users[u].tenant \in {reqs[q].tenant, None}
    BY <1>6 DEF AdminInv, Held, TenantHeld
  <2> QED
    BY <1>1, <2>1, <2>2
<1>7. faults' \in 0 .. MaxFaults /\ cutOff' \subseteq Tenants /\ cutOff' = cutOff
  BY <1>3 DEF AdminInv, AdministrationTypeOK
<1> QED
  BY <1>2, <1>3, <1>4, <1>5, <1>6, <1>7, QuietStep

\* A handler that holds nothing yet but ids, or an entity to be inserted.
LEMMA EnterStep ==
  ASSUME AdminInv, NEW r \in Requests, NEW h \in Request, HandlerOK(h), Held(h), h.at \notin TenantSaves,
         Enter(r, h), UNCHANGED <<tables, faults, cutOff>>
  PROVE  AdminInv'
<1>1. faults' \in 0 .. MaxFaults /\ cutOff' \subseteq Tenants /\ cutOff' = cutOff
  BY DEF AdminInv, AdministrationTypeOK
<1> QED
  BY <1>1, QuietStep DEF Enter

LEMMA TenantRequestStep ==
  ASSUME AdminInv, NEW r \in Requests, TenantRequest(r)
  PROVE  AdminInv'
<1>0. \A t \in Tenants : tenants[t] \in Tenant
  BY DEF AdminInv, AdministrationTypeOK
<1>1. ASSUME NEW e \in Emails, NEW s \in Statuses, NEW q \in Quotas, BeginCreateTenant(r, e, s, q)
      PROVE  AdminInv'
  <2> DEFINE row == [presence |-> "stored", email |-> e, status |-> s, quota |-> q]
             h == [Idle EXCEPT !.at = "insertTenant", !.entity = row]
  <2>1. row \in Tenant /\ Stored(row)
    BY DEF Tenant, Presence, Stored
  <2> HIDE DEF row
  <2>2. h \in Request /\ h.at = "insertTenant" /\ h.entity = row
    BY <2>1 DEF Idle, Request, Creations
  <2>3. Enter(r, h) /\ UNCHANGED <<tables, faults, cutOff>>
    BY <1>1 DEF BeginCreateTenant, row
  <2> HIDE DEF h
  <2>4. HandlerOK(h) /\ Held(h) /\ h.at \notin TenantSaves
    BY <2>1, <2>2 DEF HandlerOK, Held, TenantHeld, ProviderHeld, ConfigHeld, CountHeld, TenantSaves, Deletions, Verifying
  <2> QED
    BY <2>2, <2>3, <2>4, EnterStep
<1>2. ASSUME NEW e \in Emails, NEW t \in Tenants \union {None}, BeginRegister(r, e, t)
      PROVE  AdminInv'
  <2> DEFINE row == [presence |-> "stored", email |-> e, tenant |-> t]
             h == [Idle EXCEPT !.at = "insertUser", !.entity = row]
  <2>1. row \in User /\ Stored(row)
    BY DEF User, Presence, Stored
  <2> HIDE DEF row
  <2>2. h \in Request /\ h.at = "insertUser" /\ h.entity = row
    BY <2>1 DEF Idle, Request, Creations
  <2>3. Enter(r, h) /\ UNCHANGED <<tables, faults, cutOff>>
    BY <1>2 DEF BeginRegister, row
  <2> HIDE DEF h
  <2>4. HandlerOK(h) /\ Held(h) /\ h.at \notin TenantSaves
    BY <2>1, <2>2 DEF HandlerOK, Held, TenantHeld, ProviderHeld, ConfigHeld, CountHeld, TenantSaves, Deletions, Verifying
  <2> QED
    BY <2>2, <2>3, <2>4, EnterStep
<1>3. ASSUME NEW t \in Tenants, NEW e \in Emails \union {None}, NEW q \in Quotas \union {None},
             BeginUpdateTenant(r, t, e, q)
      PROVE  AdminInv'
  <2> DEFINE old == tenants[t]
             email == Given(e, old.email)
             quota == Given(q, old.quota)
             row == [old EXCEPT !.email = email, !.quota = quota]
             asked == BodyColumns(e, q)
             at == IF Given(e, old.email) # old.email THEN "checkEmail" ELSE "saveTenant"
  <2>1. old \in Tenant /\ email \in Emails \union {None} /\ quota \in Quotas \union {None}
    BY <1>0 DEF Tenant, Given
  <2>3. LoadTenant(r, at, t, row, asked)
    BY <1>3 DEF BeginUpdateTenant
  <2> HIDE DEF email, quota, old
  <2>2. /\ row \in Tenant /\ row.presence = old.presence /\ row.email = email
        /\ row.status = old.status /\ row.quota = quota
    BY <2>1 DEF Tenant
  <2>4. at \in TenantSaves /\ asked \in SUBSET Columns
    BY DEF TenantSaves, BodyColumns, Columns
  <2>5. row.presence = old.presence /\ TenantAsAsked(old, row, asked)
    BY <2>2 DEF TenantAsAsked, BodyColumns, Given, email, quota
  <2> HIDE DEF at, row, asked
  <2> QED
    BY <2>2, <2>3, <2>4, <2>5, LoadTenantStep DEF old
<1>4. ASSUME NEW t \in Tenants, NEW s \in Statuses, BeginUpdateTenantStatus(r, t, s)
      PROVE  AdminInv'
  <2> DEFINE row == [tenants[t] EXCEPT !.status = s]
  <2>1. /\ row \in Tenant /\ row.presence = tenants[t].presence /\ row.email = tenants[t].email
        /\ row.status = s /\ row.quota = tenants[t].quota
    BY <1>0, StatusColumn
  <2>2. LoadTenant(r, "saveTenant", t, row, {"status"})
    BY <1>4 DEF BeginUpdateTenantStatus
  <2>3. "saveTenant" \in TenantSaves /\ {"status"} \in SUBSET Columns
    BY DEF TenantSaves, Columns
  <2>4. row.presence = tenants[t].presence /\ TenantAsAsked(tenants[t], row, {"status"})
    BY <2>1 DEF TenantAsAsked
  <2> HIDE DEF row
  <2> QED
    BY <2>1, <2>2, <2>3, <2>4, LoadTenantStep
<1>5. ASSUME NEW t \in Tenants, NEW q \in Quotas, BeginUpdateTenantQuota(r, t, q)
      PROVE  AdminInv'
  <2> DEFINE row == [tenants[t] EXCEPT !.quota = q]
  <2>1. /\ row \in Tenant /\ row.presence = tenants[t].presence /\ row.email = tenants[t].email
        /\ row.status = tenants[t].status /\ row.quota = q
    BY <1>0, QuotaColumn
  <2>2. LoadTenant(r, "saveTenant", t, row, {"quota"})
    BY <1>5 DEF BeginUpdateTenantQuota
  <2>3. "saveTenant" \in TenantSaves /\ {"quota"} \in SUBSET Columns
    BY DEF TenantSaves, Columns
  <2>4. row.presence = tenants[t].presence /\ TenantAsAsked(tenants[t], row, {"quota"})
    BY <2>1 DEF TenantAsAsked
  <2> HIDE DEF row
  <2> QED
    BY <2>1, <2>2, <2>3, <2>4, LoadTenantStep
<1>6. ASSUME NEW t \in Tenants, BeginDeleteTenant(r, t)
      PROVE  AdminInv'
  <2>1. LoadTenant(r, "removeTenant", t, tenants[t], {})
    BY <1>6 DEF BeginDeleteTenant
  <2>2. "removeTenant" \in TenantSaves /\ {} \in SUBSET Columns /\ TenantAsAsked(tenants[t], tenants[t], {})
    BY DEF TenantSaves, TenantAsAsked
  <2> QED
    BY <1>0, <2>1, <2>2, LoadTenantStep
<1> QED
  BY <1>1, <1>2, <1>3, <1>4, <1>5, <1>6 DEF TenantRequest

\* A handler that holds a provider as read, with what the client asked for.
LEMMA LoadProviderStep ==
  ASSUME AdminInv, NEW r \in Requests, NEW at \in {"saveProvider", "countConfigs"}, NEW p \in Providers,
         NEW row \in Provider, NEW asked \in SUBSET Columns,
         LoadProvider(r, at, p, row, asked),
         row.presence = providers[p].presence, ProviderAsAsked(providers[p], row, asked)
  PROVE  AdminInv'
<1> DEFINE h == [Idle EXCEPT !.at = at, !.provider = p, !.entity = row, !.asked = asked]
<1>1. h.at = at /\ h.provider = p /\ h.entity = row /\ h.asked = asked
  BY DEF Idle
<1>2. h \in Request
  BY DEF Idle, Request, Deletions, Columns
<1>3. Enter(r, h) /\ Stored(providers[p]) /\ UNCHANGED <<tables, faults, cutOff>>
  BY DEF LoadProvider
<1> HIDE DEF h
<1>4. HandlerOK(h)
  BY <1>1 DEF HandlerOK, TenantSaves, Deletions, Verifying
<1>5. Held(h) /\ h.at \notin TenantSaves
  BY <1>1, <1>3 DEF Held, TenantHeld, ProviderHeld, ConfigHeld, CountHeld, TenantSaves, Deletions, Stored
<1> QED
  BY <1>2, <1>3, <1>4, <1>5, EnterStep

LEMMA ActiveColumn ==
  ASSUME NEW old \in Provider, NEW active \in BOOLEAN
  PROVE  LET row == [old EXCEPT !.active = active] IN
         /\ row \in Provider
         /\ row.presence = old.presence /\ row.active = active /\ row.secret = old.secret
  BY DEF Provider

LEMMA AssignmentRequestStep ==
  ASSUME AdminInv, NEW r \in Requests,
         \/ \E t \in Tenants, p \in Providers : BeginAssign(r, t, p)
         \/ \E c \in Configs, enabled \in BOOLEAN : BeginUpdateConfig(r, c, enabled)
         \/ \E t \in Tenants, c \in Configs : BeginDeleteConfig(r, t, c) \/ BeginVerification(r, t, c)
  PROVE  AdminInv'
<1> USE DEF Held, TenantHeld, ProviderHeld, ConfigHeld, CountHeld, HandlerOK,
            TenantSaves, Deletions, Verifying, Assignments
<1>1. ASSUME NEW t \in Tenants, NEW p \in Providers, BeginAssign(r, t, p) PROVE AdminInv'
  <2> DEFINE h == [Idle EXCEPT !.at = "findProvider", !.tenant = t, !.provider = p]
  <2>1. h \in Request /\ h.at = "findProvider" /\ h.tenant = t /\ h.provider = p
    BY DEF Idle, Request
  <2>2. Enter(r, h) /\ UNCHANGED <<tables, faults, cutOff>>
    BY <1>1 DEF BeginAssign
  <2> HIDE DEF h
  <2>3. HandlerOK(h) /\ Held(h) /\ h.at \notin TenantSaves
    BY <2>1
  <2> QED
    BY <2>1, <2>2, <2>3, EnterStep
<1>2. ASSUME NEW c \in Configs, NEW enabled \in BOOLEAN, BeginUpdateConfig(r, c, enabled) PROVE AdminInv'
  <2> DEFINE row == [configs[c] EXCEPT !.enabled = enabled]
             h == [Idle EXCEPT !.at = "saveConfig", !.tenant = configs[c].tenant, !.config = c,
                               !.entity = row, !.asked = {"enabled"}]
  <2>1. configs[c] \in Config /\ Stored(configs[c])
    BY <1>2 DEF BeginUpdateConfig, AdminInv, AdministrationTypeOK
  <2>2. /\ row \in Config /\ Stored(row)
        /\ row.tenant = configs[c].tenant /\ row.provider = configs[c].provider
    BY <2>1 DEF Config, Stored
  <2> HIDE DEF row
  <2>3. /\ h \in Request /\ h.at = "saveConfig" /\ h.tenant = configs[c].tenant /\ h.config = c
        /\ h.entity = row
    BY <2>1, <2>2 DEF Idle, Request, Config
  <2>4. Enter(r, h) /\ UNCHANGED <<tables, faults, cutOff>>
    BY <1>2 DEF BeginUpdateConfig, row
  <2> HIDE DEF h
  <2>5. HandlerOK(h) /\ Held(h) /\ h.at \notin TenantSaves
    BY <2>1, <2>2, <2>3 DEF Stored
  <2> QED
    BY <2>3, <2>4, <2>5, EnterStep
<1>3. ASSUME NEW t \in Tenants, NEW c \in Configs, BeginDeleteConfig(r, t, c) PROVE AdminInv'
  <2> DEFINE h == [Idle EXCEPT !.at = "findTenantConfig", !.tenant = t, !.config = c]
  <2>1. h \in Request /\ h.at = "findTenantConfig" /\ h.config = c
    BY DEF Idle, Request
  <2>2. Enter(r, h) /\ UNCHANGED <<tables, faults, cutOff>>
    BY <1>3 DEF BeginDeleteConfig
  <2> HIDE DEF h
  <2>3. HandlerOK(h) /\ Held(h) /\ h.at \notin TenantSaves
    BY <2>1
  <2> QED
    BY <2>1, <2>2, <2>3, EnterStep
<1>4. ASSUME NEW t \in Tenants, NEW c \in Configs, BeginVerification(r, t, c) PROVE AdminInv'
  <2> DEFINE p == configs[c].provider
             h == [Idle EXCEPT !.at = "getProvider", !.tenant = t, !.provider = p]
  <2>1. p \in Providers
    BY <1>4 DEF BeginVerification, Stored, AdminInv, ConfigsNamed
  <2>2. Enter(r, h) /\ UNCHANGED <<tables, faults, cutOff>>
    BY <1>4 DEF BeginVerification
  <2> HIDE DEF p
  <2>3. h \in Request /\ h.at = "getProvider" /\ h.tenant = t /\ h.provider = p
    BY <2>1 DEF Idle, Request
  <2> HIDE DEF h
  <2>4. HandlerOK(h) /\ Held(h) /\ h.at \notin TenantSaves
    BY <2>1, <2>3
  <2> QED
    BY <2>2, <2>3, <2>4, EnterStep
<1> QED
  BY <1>1, <1>2, <1>3, <1>4

LEMMA ProviderRequestStep ==
  ASSUME AdminInv, NEW r \in Requests, ProviderRequest(r)
  PROVE  AdminInv'
<1>0. \A p \in Providers : providers[p] \in Provider
  BY DEF AdminInv, AdministrationTypeOK
<1>1. ASSUME NEW active \in BOOLEAN, NEW s \in Secrets \union {None}, BeginCreateProvider(r, active, s)
      PROVE  AdminInv'
  <2> DEFINE row == [presence |-> "stored", active |-> active, secret |-> s]
             h == [Idle EXCEPT !.at = "insertProvider", !.entity = row]
  <2>1. row \in Provider
    BY DEF Provider, Presence
  <2> HIDE DEF row
  <2>2. h \in Request /\ h.at = "insertProvider" /\ h.entity = row
    BY <2>1 DEF Idle, Request, Creations
  <2>3. Enter(r, h) /\ UNCHANGED <<tables, faults, cutOff>>
    BY <1>1 DEF BeginCreateProvider, row
  <2> HIDE DEF h
  <2>4. HandlerOK(h) /\ Held(h) /\ h.at \notin TenantSaves
    BY <2>1, <2>2 DEF HandlerOK, Held, TenantHeld, ProviderHeld, ConfigHeld, CountHeld, TenantSaves, Deletions, Verifying
  <2> QED
    BY <2>2, <2>3, <2>4, EnterStep
<1>2. ASSUME NEW p \in Providers, NEW active \in BOOLEAN \union {None}, NEW s \in Secrets \union {None},
             BeginUpdateProvider(r, p, active, s)
      PROVE  AdminInv'
  <2> DEFINE old == providers[p]
             isActive == Given(active, old.active)
             secret == Given(s, old.secret)
             row == [old EXCEPT !.active = isActive, !.secret = secret]
             asked == (IF active = None THEN {} ELSE {"active"}) \union (IF s = None THEN {} ELSE {"secret"})
  <2>1. old \in Provider /\ isActive \in BOOLEAN /\ secret \in Secrets \union {None}
    BY <1>0 DEF Provider, Given
  <2>2. LoadProvider(r, "saveProvider", p, row, asked)
    BY <1>2 DEF BeginUpdateProvider
  <2> HIDE DEF old, isActive, secret
  <2>3. /\ row \in Provider /\ row.presence = old.presence
        /\ row.active = isActive /\ row.secret = secret
    BY <2>1 DEF Provider
  <2>4. asked \in SUBSET Columns
    BY DEF Columns
  <2>5. ProviderAsAsked(old, row, asked)
    BY <2>3 DEF ProviderAsAsked, Given, isActive, secret
  <2> HIDE DEF row, asked
  <2> QED
    BY <2>2, <2>3, <2>4, <2>5, LoadProviderStep DEF old
<1>3. ASSUME NEW p \in Providers, NEW active \in BOOLEAN,
             BeginUpdateProviderStatus(r, p, active) \/ (active = FALSE /\ BeginDeleteProvider(r, p))
      PROVE  AdminInv'
  <2> DEFINE row == [providers[p] EXCEPT !.active = active]
  <2>1. /\ row \in Provider /\ row.presence = providers[p].presence
        /\ row.active = active /\ row.secret = providers[p].secret
    BY <1>0, ActiveColumn
  <2>2. \E at \in {"saveProvider", "countConfigs"} : LoadProvider(r, at, p, row, {"active"})
    BY <1>3 DEF BeginUpdateProviderStatus, BeginDeleteProvider
  <2>3. {"active"} \in SUBSET Columns /\ ProviderAsAsked(providers[p], row, {"active"})
    BY <2>1 DEF Columns, ProviderAsAsked
  <2> HIDE DEF row
  <2> QED
    BY <2>1, <2>2, <2>3, LoadProviderStep
<1> QED
  BY <1>1, <1>2, <1>3, AssignmentRequestStep DEF ProviderRequest

-----------------------------------------------------------------------------
(***************************************************************************)
(* Handlers that read and go on, or end.                                   *)
(***************************************************************************)

\* A handler that goes on with what it has.
Moved(q, at) == [q EXCEPT !.at = at]

LEMMA MovedFields ==
  ASSUME NEW q \in Request, NEW at \in {"saveTenant", "findConfig", "insertConfig", "removeConfig",
                                       "countVerifications", "deactivate", "insertVerification"}
  PROVE  LET row == Moved(q, at) IN
         /\ row \in Request /\ row.at = at
         /\ row.tenant = q.tenant /\ row.provider = q.provider /\ row.config = q.config
         /\ row.entity = q.entity /\ row.asked = q.asked /\ row.users = q.users
         /\ row.stale = q.stale /\ row.late = q.late
  BY DEF Moved, Request, TenantSaves, Assignments, Deletions, Verifying

LEMMA EndsStep ==
  ASSUME AdminInv, NEW r \in Requests, Ends(r), UNCHANGED tables,
         faults' \in 0 .. MaxFaults, cutOff' \subseteq Tenants, cutOff \subseteq cutOff',
         reqs[r].at = "insertAdmin" => reqs[r].tenant \in cutOff'
  PROVE  AdminInv'
<1>1. Idle.at \notin TenantSaves
  BY DEF Idle, TenantSaves
<1> QED
  BY <1>1, IdleType, IdleHeld, QuietStep DEF Ends

LEMMA MovesStep ==
  ASSUME AdminInv, NEW r \in Requests, NEW at, Moves(r, at), UNCHANGED <<tables, faults, cutOff>>,
         \/ reqs[r].at = "checkEmail" /\ at = "saveTenant"
         \/ reqs[r].at = "findProvider" /\ at = "findConfig"
         \/ reqs[r].at = "findConfig" /\ at = "insertConfig"
         \/ reqs[r].at = "findTenantConfig" /\ at = "removeConfig" /\ Stored(configs[reqs[r].config])
         \/ /\ reqs[r].at = "countConfigs" /\ at = "countVerifications"
            /\ \A c \in Configs : Stored(configs[c]) => configs[c].provider # reqs[r].provider
         \/ /\ reqs[r].at = "countVerifications" /\ at = "deactivate"
            /\ \A v \in verified : v[2] # reqs[r].provider
         \/ reqs[r].at = "getProvider" /\ at = "insertVerification" /\ ActiveProvider(reqs[r].provider)
  PROVE  AdminInv'
<1> DEFINE q == reqs[r]
           row == Moved(q, at)
<1>0. q \in Request /\ HandlerOK(q) /\ Held(q)
  BY DEF AdminInv, AdministrationTypeOK
<1>1. /\ row \in Request /\ row.at = at
      /\ row.tenant = q.tenant /\ row.provider = q.provider /\ row.config = q.config
      /\ row.entity = q.entity /\ row.asked = q.asked /\ row.users = q.users
      /\ row.stale = q.stale /\ row.late = q.late
  BY <1>0, MovedFields
<1>2. reqs' = [reqs EXCEPT ![r] = row]
  BY DEF Moves, Moved
<1> HIDE DEF row
<1>3. HandlerOK(row)
  BY <1>0, <1>1 DEF HandlerOK, TenantSaves, Deletions, Verifying
<1>4. Held(row)
  <2>1. TenantHeld(row)
    BY <1>0, <1>1 DEF Held, TenantHeld, TenantSaves
  <2>2. ProviderHeld(row)
    BY <1>0, <1>1 DEF Held, ProviderHeld, Deletions, ActiveProvider
  <2>3. ConfigHeld(row)
    BY <1>0, <1>1 DEF Held, ConfigHeld, Stored
  <2>4. CountHeld(row)
    BY <1>0, <1>1 DEF Held, CountHeld
  <2> QED
    BY <2>1, <2>2, <2>3, <2>4 DEF Held
<1>5. row.at \in TenantSaves =>
        \A p \in Requests \ {r}, u \in Users :
          reqs[p].at \in TenantSaves /\ u \in reqs[p].users /\ u \in row.users => reqs[p].tenant = row.tenant
  BY <1>1 DEF AdminInv, LoadedOnce, TenantSaves
<1>6. faults' \in 0 .. MaxFaults /\ cutOff' \subseteq Tenants /\ cutOff' = cutOff /\ reqs[r].at # "insertAdmin"
  BY DEF AdminInv, AdministrationTypeOK
<1> QED
  BY <1>1, <1>2, <1>3, <1>4, <1>5, <1>6, QuietStep

LEMMA ReadStep ==
  ASSUME AdminInv, NEW r \in Requests,
         \/ CheckEmail(r) \/ FindProvider(r) \/ FindConfig(r) \/ FindTenantConfig(r)
         \/ CountConfigs(r) \/ CountVerifications(r) \/ GetProvider(r)
  PROVE  AdminInv'
<1>1. UNCHANGED <<tables, faults, cutOff>> /\ reqs[r].at # "insertAdmin"
  BY DEF CheckEmail, FindProvider, FindConfig, FindTenantConfig, CountConfigs, CountVerifications, GetProvider
<1>2. CASE Ends(r)
  BY <1>1, <1>2, EndsStep DEF AdminInv, AdministrationTypeOK
<1>3. CASE ~Ends(r)
  BY <1>1, <1>3, MovesStep
     DEF CheckEmail, FindProvider, FindConfig, FindTenantConfig, CountConfigs, CountVerifications, GetProvider,
         MovesOrEnds
<1> QED
  BY <1>2, <1>3

LEMMA DatabaseErrorStep ==
  ASSUME AdminInv, NEW r \in Requests, DatabaseError(r)
  PROVE  AdminInv'
<1>1. faults' \in 0 .. MaxFaults
  BY AdminFaultsAssumption DEF DatabaseError, AdminInv, AdministrationTypeOK
<1>2. Ends(r) /\ UNCHANGED tables /\ cutOff' = cutOff \union CutOff(r)
  BY DEF DatabaseError
<1>3. reqs[r].at = "insertAdmin" => reqs[r].tenant \in Tenants
  BY DEF AdminInv, AdministrationTypeOK, HandlerOK
<1>4. CutOff(r) \subseteq Tenants /\ (reqs[r].at = "insertAdmin" => reqs[r].tenant \in CutOff(r))
  BY <1>3 DEF CutOff
<1>5. cutOff' \subseteq Tenants /\ cutOff \subseteq cutOff'
  BY <1>2, <1>4 DEF AdminInv, AdministrationTypeOK
<1> QED
  BY <1>1, <1>2, <1>4, <1>5, EndsStep

LEMMA CrashStep ==
  ASSUME AdminInv, Crash
  PROVE  AdminInv'
<1>0. UNCHANGED <<tenants, users, providers, configs, verified>> /\ \A r \in Requests : reqs'[r] = Idle
  BY DEF Crash, tables
<1>1. faults' \in 0 .. MaxFaults
  BY AdminFaultsAssumption DEF Crash, AdminInv, AdministrationTypeOK
<1>2. ASSUME NEW r \in Requests
      PROVE  CutOff(r) \subseteq Tenants /\ (reqs[r].at = "insertAdmin" => reqs[r].tenant \in CutOff(r))
  BY DEF CutOff, AdminInv, AdministrationTypeOK, HandlerOK
<1>3. /\ cutOff' \subseteq Tenants /\ cutOff \subseteq cutOff'
      /\ \A r \in Requests : reqs[r].at = "insertAdmin" => reqs[r].tenant \in cutOff'
  BY <1>2 DEF Crash, AdminInv, AdministrationTypeOK
<1>4. AdministrationTypeOK'
  <2>1. reqs' \in [Requests -> Request] /\ \A r \in Requests : HandlerOK(reqs'[r])
    BY <1>0, IdleType DEF Crash
  <2> QED
    BY <1>0, <1>1, <1>3, <2>1 DEF AdminInv, AdministrationTypeOK
<1>5. ConfigsNamed' /\ RowsHaveTenants'
  BY <1>0 DEF AdminInv, ConfigsNamed, RowsHaveTenants, MayBelongTo
<1>6. TenantsHaveUsers'
  BY <1>0, <1>3 DEF AdminInv, TenantsHaveUsers, UsersOf
<1>7. LoadedOnce'
  BY <1>0 DEF LoadedOnce, Idle, TenantSaves
<1>8. ASSUME NEW r \in Requests PROVE Held(reqs[r])'
  BY <1>0 DEF Held, TenantHeld, ProviderHeld, ConfigHeld, CountHeld, Idle, TenantSaves, Deletions
<1> QED
  BY <1>4, <1>5, <1>6, <1>7, <1>8 DEF AdminInv

-----------------------------------------------------------------------------
(***************************************************************************)
(* What a write does to the handlers of other requests.                    *)
(***************************************************************************)

\* Handler q is as it was, but that a write may have overtaken it.
Kept(q) ==
  /\ reqs'[q].at = reqs[q].at /\ reqs'[q].tenant = reqs[q].tenant /\ reqs'[q].provider = reqs[q].provider
  /\ reqs'[q].config = reqs[q].config /\ reqs'[q].entity = reqs[q].entity
  /\ reqs'[q].asked = reqs[q].asked /\ reqs'[q].users = reqs[q].users
  /\ reqs[q].stale => reqs'[q].stale
  /\ reqs[q].late => reqs'[q].late

\* Request r ended with a write that overtook the handlers in O and C.
Overtakes(r, O, C) ==
  /\ reqs' \in [Requests -> Request]
  /\ reqs'[r] = Idle
  /\ \A q \in Requests \ {r} : Kept(q)
  /\ \A q \in O \ {r} : reqs'[q].stale
  /\ \A q \in C \ {r} : reqs'[q].late

LEMMA WritesEffect ==
  ASSUME AdminInv, NEW r \in Requests, NEW O \in SUBSET Requests, NEW C \in SUBSET Requests,
         Writes(r, Idle, O, C)
  PROVE  Overtakes(r, O, C)
<1>1. reqs'[r] = Idle /\ reqs' = [q \in Requests |-> reqs'[q]]
  BY DEF Writes
<1>2. ASSUME NEW q \in Requests \ {r}
      PROVE  /\ reqs'[q] \in Request /\ Kept(q)
             /\ q \in O => reqs'[q].stale
             /\ q \in C => reqs'[q].late
  <2> DEFINE old == reqs[q]
             stale == old.stale \/ q \in O
             late == old.late \/ q \in C
  <2>1. reqs'[q] = [old EXCEPT !.stale = stale, !.late = late]
    BY <1>2 DEF Writes
  <2>2. old \in Request /\ stale \in BOOLEAN /\ late \in BOOLEAN
    BY <1>2 DEF AdminInv, AdministrationTypeOK
  <2>3. (old.stale => stale) /\ (old.late => late) /\ (q \in O => stale) /\ (q \in C => late)
    OBVIOUS
  <2> HIDE DEF old, stale, late
  <2>4. /\ reqs'[q] \in Request
        /\ reqs'[q].at = old.at /\ reqs'[q].tenant = old.tenant /\ reqs'[q].provider = old.provider
        /\ reqs'[q].config = old.config /\ reqs'[q].entity = old.entity
        /\ reqs'[q].asked = old.asked /\ reqs'[q].users = old.users
        /\ reqs'[q].stale = stale /\ reqs'[q].late = late
    <3>1. reqs'[q] \in Request
      BY <2>1, <2>2 DEF Request
    <3>2. /\ reqs'[q].at = old.at /\ reqs'[q].tenant = old.tenant /\ reqs'[q].provider = old.provider
          /\ reqs'[q].config = old.config /\ reqs'[q].entity = old.entity
          /\ reqs'[q].asked = old.asked /\ reqs'[q].users = old.users
      BY <2>1, <2>2 DEF Request
    <3>3. reqs'[q].late = late
      BY <2>1, <2>2 DEF Request
    <3>4. reqs'[q].stale = stale
      BY <2>1, <2>2 DEF Request
    <3> QED
      BY <3>1, <3>2, <3>3, <3>4
  <2> QED
    BY <2>3, <2>4 DEF Kept, old
<1>3. reqs' \in [Requests -> Request]
  BY <1>1, <1>2, IdleType
<1> QED
  BY <1>1, <1>2, <1>3 DEF Overtakes

\* What handlers hold stays as it should be while those they do not hold change.
LEMMA HandlerStays == ASSUME NEW q, HandlerOK(reqs[q]), Kept(q) PROVE HandlerOK(reqs'[q])
  BY DEF Kept, HandlerOK

LEMMA LoadedOnceStays ==
  ASSUME LoadedOnce, \A q \in Requests : Kept(q) \/ reqs'[q].at \notin TenantSaves
  PROVE  LoadedOnce'
  BY DEF LoadedOnce, Kept

LEMMA TenantHeldStays ==
  ASSUME NEW q \in Requests, TenantHeld(reqs[q]), Kept(q), UNCHANGED <<tenants, users>>
  PROVE  TenantHeld(reqs[q])'
  BY DEF TenantHeld, Kept, UsersOf

LEMMA ProviderHeldStays ==
  ASSUME NEW q \in Requests, ProviderHeld(reqs[q]), Kept(q), UNCHANGED providers
  PROVE  ProviderHeld(reqs[q])'
  BY DEF ProviderHeld, Kept

LEMMA ConfigHeldStays ==
  ASSUME NEW q \in Requests, ConfigHeld(reqs[q]), Kept(q), UNCHANGED configs
  PROVE  ConfigHeld(reqs[q])'
  BY DEF ConfigHeld, Kept

LEMMA CountHeldStays ==
  ASSUME NEW q \in Requests, CountHeld(reqs[q]), Kept(q), UNCHANGED <<configs, verified>>
  PROVE  CountHeld(reqs[q])'
  BY DEF CountHeld, Kept

LEMMA IdleStays ==
  ASSUME NEW q \in Requests, reqs'[q] = Idle
  PROVE  Held(reqs[q])'
  BY DEF Held, TenantHeld, ProviderHeld, ConfigHeld, CountHeld, Idle, TenantSaves, Deletions

\* A tenant keeps its users, or its creation in flight.
LEMMA TenantsKeepUsers ==
  ASSUME TenantsHaveUsers, NEW r \in Requests, reqs[r].at # "insertAdmin",
         \A q \in Requests \ {r} : Kept(q),
         UNCHANGED <<tenants, users>>, cutOff \subseteq cutOff'
  PROVE  TenantsHaveUsers'
  BY DEF TenantsHaveUsers, UsersOf, Kept

\* The types that a write to any table has to preserve, given that of the table.
LEMMA HandlersStep ==
  ASSUME AdminInv, NEW r \in Requests, reqs' \in [Requests -> Request],
         HandlerOK(reqs'[r]), reqs'[r].at \notin TenantSaves,
         \A q \in Requests \ {r} : Kept(q)
  PROVE  (\A q \in Requests : HandlerOK(reqs'[q])) /\ LoadedOnce'
<1>1. \A q \in Requests : HandlerOK(reqs'[q])
  BY HandlerStays DEF AdminInv, AdministrationTypeOK
<1>2. LoadedOnce'
  BY LoadedOnceStays DEF AdminInv
<1> QED
  BY <1>1, <1>2

-----------------------------------------------------------------------------
(***************************************************************************)
(* Writes to the providers and to what uses them.                          *)
(***************************************************************************)
LEMMA ConfigWriteStep ==
  ASSUME AdminInv, NEW r \in Requests, NEW O \in SUBSET Requests, NEW C \in SUBSET Requests,
         reqs[r].at # "insertAdmin", Overtakes(r, O, C),
         UNCHANGED <<tenants, users, providers, verified, faults, cutOff>>,
         NEW c \in Configs, NEW row \in Config, configs' = [configs EXCEPT ![c] = row],
         row.presence # "unused", row.tenant \in Tenants, row.provider \in Providers,
         Stored(row) => Stored(tenants[row.tenant]),
         configs[c].presence # "unused" => row.tenant = configs[c].tenant /\ row.provider = configs[c].provider,
         HoldConfig(c) \subseteq O \/ Stored(row),
         Stored(row) /\ ~Stored(configs[c]) => Past(row.provider, {"countVerifications", "deactivate"}) \subseteq C
  PROVE  AdminInv'
<1>0. configs \in [Configs -> Config] /\ \A q \in Requests : HandlerOK(reqs[q]) /\ Held(reqs[q])
  BY DEF AdminInv, AdministrationTypeOK
<1>1. configs' \in [Configs -> Config] /\ configs'[c] = row /\ \A b \in Configs : b # c => configs'[b] = configs[b]
  BY <1>0
<1>2. /\ reqs' \in [Requests -> Request] /\ reqs'[r] = Idle /\ \A q \in Requests \ {r} : Kept(q)
      /\ HandlerOK(reqs'[r]) /\ reqs'[r].at \notin TenantSaves
  BY IdleType DEF Overtakes, Idle, TenantSaves
<1>3. (\A q \in Requests : HandlerOK(reqs'[q])) /\ LoadedOnce'
  BY <1>2, HandlersStep
<1>4. AdministrationTypeOK'
  BY <1>1, <1>2, <1>3 DEF AdminInv, AdministrationTypeOK
<1>5. ConfigsNamed' /\ RowsHaveTenants'
  BY <1>1 DEF AdminInv, ConfigsNamed, RowsHaveTenants, MayBelongTo
<1>6. TenantsHaveUsers'
  BY <1>2, TenantsKeepUsers DEF AdminInv
<1>7. ASSUME NEW q \in Requests \ {r} PROVE Held(reqs[q])'
  <2>1. TenantHeld(reqs[q])' /\ ProviderHeld(reqs[q])'
    BY <1>0, <1>2, TenantHeldStays, ProviderHeldStays DEF Held
  <2>2. ConfigHeld(reqs[q])'
    <3>1. reqs[q].at \in {"saveConfig", "removeConfig"} =>
            reqs[q].config \in Configs /\ configs[reqs[q].config].presence # "unused"
      BY <1>0 DEF Held, ConfigHeld, HandlerOK
    <3>2. CASE reqs[q].config = c
      BY <1>0, <1>1, <1>2, <3>1, <3>2 DEF Held, ConfigHeld, Kept, Overtakes, HoldConfig
    <3>3. CASE reqs[q].config # c
      BY <1>0, <1>1, <1>2, <3>1, <3>3 DEF Held, ConfigHeld, Kept
    <3> QED
      BY <3>2, <3>3
  <2>3. CountHeld(reqs[q])'
    <3>1. CASE Stored(row) /\ ~Stored(configs[c]) /\ reqs[q].provider = row.provider
      BY <1>2, <3>1 DEF CountHeld, Kept, Overtakes, Past
    <3>2. CASE ~(Stored(row) /\ ~Stored(configs[c]) /\ reqs[q].provider = row.provider)
      <4>1. Stored(configs[c]) => configs[c].presence # "unused"
        BY DEF Stored
      <4>2. ASSUME NEW b \in Configs, Stored(configs'[b]), configs'[b].provider = reqs[q].provider
            PROVE  Stored(configs[b]) /\ configs[b].provider = reqs[q].provider
        BY <1>1, <3>2, <4>1, <4>2
      <4> QED
        BY <1>0, <1>2, <4>2 DEF Held, CountHeld, Kept
    <3> QED
      BY <3>1, <3>2
  <2> QED
    BY <2>1, <2>2, <2>3 DEF Held
<1>8. Held(reqs[r])'
  BY <1>2, IdleStays
<1> QED
  BY <1>3, <1>4, <1>5, <1>6, <1>7, <1>8 DEF AdminInv

LEMMA InsertConfigStep ==
  ASSUME AdminInv, NEW r \in Requests, NEW c \in Configs, NEW enabled \in BOOLEAN, InsertConfig(r, c, enabled)
  PROVE  AdminInv'
<1> DEFINE t == reqs[r].tenant
           p == reqs[r].provider
           row == [presence |-> "stored", tenant |-> t, provider |-> p, enabled |-> enabled]
           C == Past(p, {"countVerifications", "deactivate"})
<1>1. t \in Tenants /\ p \in Providers /\ reqs[r].at # "insertAdmin" /\ MayAssign(t, p)
  BY DEF InsertConfig, Refused, AdminInv, AdministrationTypeOK, HandlerOK
<1>2. /\ row \in Config /\ Stored(row) /\ row.presence # "unused"
      /\ row.tenant = t /\ row.provider = p
  BY <1>1 DEF Config, Presence, Stored
<1>3. /\ configs[c].presence = "unused" /\ configs' = [configs EXCEPT ![c] = row]
      /\ UNCHANGED <<tenants, users, providers, verified, faults, cutOff>>
  BY DEF InsertConfig
<1>4. {} \in SUBSET Requests /\ C \in SUBSET Requests
  BY DEF Past
<1>5. Overtakes(r, {}, C)
  BY <1>4, WritesEffect DEF InsertConfig
<1> HIDE DEF row, C
<1> QED
  BY <1>1, <1>2, <1>3, <1>4, <1>5, ConfigWriteStep DEF MayAssign, C

LEMMA SaveConfigStep ==
  ASSUME AdminInv, NEW r \in Requests, SaveConfig(r)
  PROVE  AdminInv'
<1> DEFINE c == reqs[r].config
           row == reqs[r].entity
           C == IF Stored(configs[c]) THEN {} ELSE Past(row.provider, {"countVerifications", "deactivate"})
<1>1. /\ reqs[r].at = "saveConfig" /\ reqs[r].at # "insertAdmin"
      /\ configs' = [configs EXCEPT ![c] = row]
      /\ UNCHANGED <<tenants, users, providers, verified, faults, cutOff>>
  BY DEF SaveConfig
<1>2. /\ c \in Configs /\ row \in Config /\ Stored(row)
      /\ configs[c].presence # "unused"
      /\ row.tenant = configs[c].tenant /\ row.provider = configs[c].provider
  BY <1>1 DEF AdminInv, AdministrationTypeOK, HandlerOK, Held, ConfigHeld
<1>3. row.presence # "unused" /\ row.tenant \in Tenants /\ row.provider \in Providers
  BY <1>2 DEF AdminInv, ConfigsNamed, Stored
<1>4. Stored(tenants[row.tenant])
  <2>1. CASE Stored(configs[c])
    BY <1>2, <2>1 DEF AdminInv, RowsHaveTenants
  <2>2. CASE ~Stored(configs[c])
    BY <1>1, <2>2 DEF SaveConfig, Refused, MayAssign
  <2> QED
    BY <2>1, <2>2
<1>5. HoldConfig(c) \in SUBSET Requests /\ C \in SUBSET Requests
  BY DEF HoldConfig, Past
<1>6. Overtakes(r, HoldConfig(c), C)
  BY <1>5, WritesEffect DEF SaveConfig
<1> HIDE DEF row, c
<1> QED
  BY <1>1, <1>2, <1>3, <1>4, <1>5, <1>6, ConfigWriteStep

LEMMA RemoveConfigStep ==
  ASSUME AdminInv, NEW r \in Requests, RemoveConfig(r)
  PROVE  AdminInv'
<1> DEFINE c == reqs[r].config
           old == configs[c]
           row == [old EXCEPT !.presence = "deleted"]
<1>1. /\ reqs[r].at = "removeConfig" /\ reqs[r].at # "insertAdmin"
      /\ configs' = [configs EXCEPT ![c] = row]
      /\ UNCHANGED <<tenants, users, providers, verified, faults, cutOff>>
  BY DEF RemoveConfig
<1>2. c \in Configs /\ old \in Config /\ old.presence # "unused"
  BY <1>1 DEF AdminInv, AdministrationTypeOK, HandlerOK, Held, ConfigHeld
<1>3. old.tenant \in Tenants /\ old.provider \in Providers
  BY <1>2 DEF AdminInv, ConfigsNamed
<1>4. HoldConfig(c) \in SUBSET Requests /\ {} \in SUBSET Requests
  BY DEF HoldConfig
<1>5. Overtakes(r, HoldConfig(c), {})
  BY <1>4, WritesEffect DEF RemoveConfig
<1> HIDE DEF old
<1>6. /\ row \in Config /\ row.presence = "deleted" /\ ~Stored(row)
      /\ row.tenant = old.tenant /\ row.provider = old.provider
  BY <1>2 DEF Config, Presence, Stored
<1> HIDE DEF row, c
<1> QED
  BY <1>1, <1>2, <1>3, <1>4, <1>5, <1>6, ConfigWriteStep DEF old

LEMMA InsertProviderStep ==
  ASSUME AdminInv, NEW r \in Requests, NEW p \in Providers, InsertProvider(r, p)
  PROVE  AdminInv'
<1>0. providers \in [Providers -> Provider] /\ \A q \in Requests : HandlerOK(reqs[q]) /\ Held(reqs[q])
  BY DEF AdminInv, AdministrationTypeOK
<1>1. /\ reqs[r].at = "insertProvider" /\ ~Stored(providers[p])
      /\ UNCHANGED <<tenants, users, configs, verified, faults, cutOff>>
      /\ \A o \in Providers : o # p => providers'[o] = providers[o]
  BY <1>0 DEF InsertProvider, Stored
<1>2. providers' \in [Providers -> Provider]
  BY <1>0, <1>1 DEF InsertProvider, HandlerOK
<1>3. /\ reqs' \in [Requests -> Request] /\ reqs'[r] = Idle
      /\ HandlerOK(reqs'[r]) /\ reqs'[r].at \notin TenantSaves
      /\ \A q \in Requests \ {r} : reqs'[q] = reqs[q]
  BY IdleType DEF InsertProvider, Ends, AdminInv, AdministrationTypeOK, Idle, TenantSaves
<1>4. \A q \in Requests \ {r} : Kept(q)
  BY <1>3 DEF Kept
<1>5. (\A q \in Requests : HandlerOK(reqs'[q])) /\ LoadedOnce'
  BY <1>3, <1>4, HandlersStep
<1>6. AdministrationTypeOK'
  BY <1>1, <1>2, <1>3, <1>5 DEF AdminInv, AdministrationTypeOK
<1>7. ConfigsNamed' /\ RowsHaveTenants' /\ TenantsHaveUsers'
  <2>1. TenantsHaveUsers'
    BY <1>1, <1>4, TenantsKeepUsers DEF AdminInv
  <2> QED
    BY <1>1, <2>1 DEF AdminInv, ConfigsNamed, RowsHaveTenants, MayBelongTo
<1>8. ASSUME NEW q \in Requests \ {r} PROVE Held(reqs[q])'
  <2>1. TenantHeld(reqs[q])' /\ ConfigHeld(reqs[q])' /\ CountHeld(reqs[q])'
    BY <1>0, <1>1, <1>4, TenantHeldStays, ConfigHeldStays, CountHeldStays DEF Held
  <2>2. reqs[q].at \in Deletions \union {"saveProvider", "insertVerification"} =>
          reqs[q].provider \in Providers /\ reqs[q].provider # p
    BY <1>0, <1>1 DEF Held, ProviderHeld, HandlerOK, Verifying
  <2>3. ProviderHeld(reqs[q])'
    BY <1>0, <1>1, <1>3, <2>2 DEF Held, ProviderHeld
  <2> QED
    BY <2>1, <2>3 DEF Held
<1>9. Held(reqs[r])'
  BY <1>3, IdleStays
<1> QED
  BY <1>5, <1>6, <1>7, <1>8, <1>9 DEF AdminInv

LEMMA SaveProviderStep ==
  ASSUME AdminInv, NEW r \in Requests, SaveProvider(r)
  PROVE  AdminInv'
<1> DEFINE p == reqs[r].provider
           row == reqs[r].entity
<1>0. providers \in [Providers -> Provider] /\ \A q \in Requests : HandlerOK(reqs[q]) /\ Held(reqs[q])
  BY DEF AdminInv, AdministrationTypeOK
<1>1. /\ reqs[r].at \in Deletions \union {"saveProvider"} /\ reqs[r].at # "insertAdmin"
      /\ providers' = [providers EXCEPT ![p] = row]
      /\ UNCHANGED <<tenants, users, configs, verified, faults, cutOff>>
  BY DEF SaveProvider, Deletions
<1>2. p \in Providers /\ row \in Provider /\ Stored(row)
  BY <1>0, <1>1 DEF HandlerOK, Held, ProviderHeld
<1>3. Overtakes(r, HoldProvider(p), {})
  <2>1. HoldProvider(p) \in SUBSET Requests /\ {} \in SUBSET Requests
    BY DEF HoldProvider
  <2> QED
    BY <2>1, WritesEffect DEF SaveProvider
<1> HIDE DEF p, row
<1>4. /\ providers' \in [Providers -> Provider] /\ providers'[p] = row
      /\ \A o \in Providers : o # p => providers'[o] = providers[o]
  BY <1>0, <1>1, <1>2
<1>5. /\ reqs' \in [Requests -> Request] /\ reqs'[r] = Idle /\ \A q \in Requests \ {r} : Kept(q)
      /\ HandlerOK(reqs'[r]) /\ reqs'[r].at \notin TenantSaves
  BY <1>3, IdleType DEF Overtakes, Idle, TenantSaves
<1>6. (\A q \in Requests : HandlerOK(reqs'[q])) /\ LoadedOnce'
  BY <1>5, HandlersStep
<1>7. AdministrationTypeOK'
  BY <1>1, <1>4, <1>5, <1>6 DEF AdminInv, AdministrationTypeOK
<1>8. ConfigsNamed' /\ RowsHaveTenants' /\ TenantsHaveUsers'
  <2>1. TenantsHaveUsers'
    BY <1>1, <1>5, TenantsKeepUsers DEF AdminInv
  <2> QED
    BY <1>1, <2>1 DEF AdminInv, ConfigsNamed, RowsHaveTenants, MayBelongTo
<1>9. ASSUME NEW q \in Requests \ {r} PROVE Held(reqs[q])'
  <2>1. TenantHeld(reqs[q])' /\ ConfigHeld(reqs[q])' /\ CountHeld(reqs[q])'
    BY <1>0, <1>1, <1>5, TenantHeldStays, ConfigHeldStays, CountHeldStays DEF Held
  <2>2. reqs[q].at \in Deletions \union {"saveProvider", "insertVerification"} => reqs[q].provider \in Providers
    BY <1>0 DEF HandlerOK, Verifying
  <2>3. CASE reqs[q].provider = p
    <3>1. reqs[q].at \in Deletions \union {"saveProvider", "insertVerification"} => reqs'[q].stale
      BY <1>3, <2>3 DEF Overtakes, HoldProvider
    <3>2. ProviderHeld(reqs[q])'
      BY <1>0, <1>2, <1>4, <1>5, <2>3, <3>1 DEF Held, ProviderHeld, Kept
    <3> QED
      BY <2>1, <3>2 DEF Held
  <2>4. CASE reqs[q].provider # p
    <3>1. ProviderHeld(reqs[q])'
      BY <1>0, <1>4, <1>5, <2>2, <2>4 DEF Held, ProviderHeld, Kept
    <3> QED
      BY <2>1, <3>1 DEF Held
  <2> QED
    BY <2>3, <2>4
<1>10. Held(reqs[r])'
  BY <1>5, IdleStays
<1> QED
  BY <1>6, <1>7, <1>8, <1>9, <1>10 DEF AdminInv

LEMMA InsertVerificationStep ==
  ASSUME AdminInv, NEW r \in Requests, InsertVerification(r)
  PROVE  AdminInv'
<1> DEFINE t == reqs[r].tenant
           p == reqs[r].provider
<1>0. \A q \in Requests : HandlerOK(reqs[q]) /\ Held(reqs[q])
  BY DEF AdminInv, AdministrationTypeOK
<1>1. /\ reqs[r].at = "insertVerification" /\ t \in Tenants /\ p \in Providers /\ Stored(tenants[t])
      /\ UNCHANGED <<tenants, users, providers, configs, faults, cutOff>>
      /\ verified' = verified \union {<<t, p>>}
  BY <1>0 DEF InsertVerification, Refused, HandlerOK, Verifying
<1>2. Overtakes(r, {}, Past(p, {"deactivate"}))
  <2>1. {} \in SUBSET Requests /\ Past(p, {"deactivate"}) \in SUBSET Requests
    BY DEF Past
  <2> QED
    BY <2>1, WritesEffect DEF InsertVerification
<1> HIDE DEF t, p
<1>3. /\ reqs' \in [Requests -> Request] /\ reqs'[r] = Idle /\ \A q \in Requests \ {r} : Kept(q)
      /\ HandlerOK(reqs'[r]) /\ reqs'[r].at \notin TenantSaves
  BY <1>2, IdleType DEF Overtakes, Idle, TenantSaves
<1>4. (\A q \in Requests : HandlerOK(reqs'[q])) /\ LoadedOnce'
  BY <1>3, HandlersStep
<1>5. AdministrationTypeOK'
  BY <1>1, <1>3, <1>4 DEF AdminInv, AdministrationTypeOK
<1>6. ConfigsNamed' /\ RowsHaveTenants' /\ TenantsHaveUsers'
  <2>1. TenantsHaveUsers'
    BY <1>1, <1>3, TenantsKeepUsers DEF AdminInv
  <2>2. \A v \in verified' : Stored(tenants[v[1]])
    BY <1>1 DEF AdminInv, RowsHaveTenants
  <2> QED
    BY <1>1, <2>1, <2>2 DEF AdminInv, ConfigsNamed, RowsHaveTenants, MayBelongTo
<1>7. ASSUME NEW q \in Requests \ {r} PROVE Held(reqs[q])'
  <2>1. TenantHeld(reqs[q])' /\ ProviderHeld(reqs[q])' /\ ConfigHeld(reqs[q])'
    BY <1>0, <1>1, <1>3, TenantHeldStays, ProviderHeldStays, ConfigHeldStays DEF Held
  <2>2. CASE reqs[q].provider = p
    <3>1. reqs[q].at = "deactivate" => reqs'[q].late
      BY <1>2, <2>2 DEF Overtakes, Past
    <3>2. CountHeld(reqs[q])'
      BY <1>0, <1>1, <1>3, <3>1 DEF Held, CountHeld, Kept
    <3> QED
      BY <2>1, <3>2 DEF Held
  <2>3. CASE reqs[q].provider # p
    <3>1. CountHeld(reqs[q])'
      BY <1>0, <1>1, <1>3, <2>3 DEF Held, CountHeld, Kept
    <3> QED
      BY <2>1, <3>1 DEF Held
  <2> QED
    BY <2>2, <2>3
<1>8. Held(reqs[r])'
  BY <1>3, IdleStays
<1> QED
  BY <1>4, <1>5, <1>6, <1>7, <1>8 DEF AdminInv

-----------------------------------------------------------------------------
(***************************************************************************)
(* Writes to the tenants and their users.                                  *)
(***************************************************************************)
LEMMA InsertTenantStep ==
  ASSUME AdminInv, NEW r \in Requests, NEW t \in Tenants, InsertTenant(r, t)
  PROVE  AdminInv'
<1> DEFINE old == reqs[r]
           row == reqs[r].entity
           admin == AdminOf(t, row.email)
<1>0. tenants \in [Tenants -> Tenant] /\ \A q \in Requests : HandlerOK(reqs[q]) /\ Held(reqs[q])
  BY DEF AdminInv, AdministrationTypeOK
<1>1. /\ old.at = "insertTenant" /\ old.at # "insertAdmin" /\ ~Stored(tenants[t])
      /\ UNCHANGED <<users, providers, configs, verified, faults, cutOff>>
      /\ tenants' = [tenants EXCEPT ![t] = row]
  BY DEF InsertTenant, Stored
<1>2. row \in Tenant /\ Stored(row)
  BY <1>0, <1>1 DEF HandlerOK
<1>3. admin \in User /\ Stored(admin) /\ admin.tenant = t
  BY <1>2 DEF AdminOf, Tenant, User, Presence, Stored
<1>4. /\ tenants' \in [Tenants -> Tenant] /\ Stored(tenants'[t])
      /\ \A o \in Tenants : o # t => tenants'[o] = tenants[o]
  BY <1>0, <1>1, <1>2
<1>5. /\ reqs' \in [Requests -> Request]
      /\ reqs'[r].at = "insertAdmin" /\ reqs'[r].tenant = t /\ reqs'[r].entity = admin
      /\ \A q \in Requests \ {r} : reqs'[q] = reqs[q]
  <2> DEFINE new == [old EXCEPT !.at = "insertAdmin", !.tenant = t, !.entity = admin]
  <2>1. reqs \in [Requests -> Request] /\ old \in Request
    BY DEF AdminInv, AdministrationTypeOK
  <2>2. reqs' = [reqs EXCEPT ![r] = new]
    BY <2>1 DEF InsertTenant
  <2> HIDE DEF old, admin
  <2>3. new \in Request
    BY <1>3, <2>1 DEF Request, Creations
  <2>4. new.at = "insertAdmin" /\ new.tenant = t /\ new.entity = admin
    BY <2>1 DEF Request
  <2> QED
    BY <2>1, <2>2, <2>3, <2>4
<1> HIDE DEF old, row, admin
<1>6. HandlerOK(reqs'[r]) /\ reqs'[r].at \notin TenantSaves /\ \A q \in Requests \ {r} : Kept(q)
  BY <1>3, <1>5 DEF HandlerOK, Kept, TenantSaves, Deletions, Verifying
<1>7. (\A q \in Requests : HandlerOK(reqs'[q])) /\ LoadedOnce'
  BY <1>5, <1>6, HandlersStep
<1>8. AdministrationTypeOK'
  BY <1>1, <1>4, <1>5, <1>7 DEF AdminInv, AdministrationTypeOK
<1>9. \A o \in Tenants : Stored(tenants[o]) => Stored(tenants'[o])
  BY <1>4
<1>10. ConfigsNamed' /\ RowsHaveTenants'
  <2>1. \A u \in Users : users[u].tenant \in Tenants \union {None}
    BY DEF AdminInv, AdministrationTypeOK, User
  <2>2. \A v \in verified : v[1] \in Tenants
    BY DEF AdminInv, AdministrationTypeOK
  <2>3. \A c \in Configs : Stored(configs[c]) => configs[c].tenant \in Tenants
    BY DEF AdminInv, ConfigsNamed, Stored
  <2> QED
    BY <1>1, <1>9, <2>1, <2>2, <2>3 DEF AdminInv, ConfigsNamed, RowsHaveTenants, MayBelongTo
<1>11. TenantsHaveUsers'
  <2> SUFFICES ASSUME NEW o \in Tenants, Stored(tenants'[o])
               PROVE  \/ UsersOf(o)' # {}
                      \/ \E q \in Requests : reqs'[q].at = "insertAdmin" /\ reqs'[q].tenant = o
                      \/ o \in cutOff'
    BY DEF TenantsHaveUsers
  <2>1. CASE o = t
    BY <1>5, <2>1
  <2>2. CASE o # t
    <3>1. UsersOf(o)' = UsersOf(o)
      BY <1>1 DEF UsersOf
    <3> QED
      BY <1>1, <1>4, <1>5, <2>2, <3>1 DEF AdminInv, TenantsHaveUsers, old
  <2> QED
    BY <2>1, <2>2
<1>12. ASSUME NEW q \in Requests \ {r} PROVE Held(reqs[q])'
  <2>1. ProviderHeld(reqs[q])' /\ ConfigHeld(reqs[q])' /\ CountHeld(reqs[q])'
    BY <1>0, <1>1, <1>6, ProviderHeldStays, ConfigHeldStays, CountHeldStays DEF Held
  <2>2. TenantHeld(reqs[q])'
    <3>1. \A o \in Tenants : UsersOf(o)' = UsersOf(o)
      BY <1>1 DEF UsersOf
    <3>2. reqs[q].at \in TenantSaves => reqs[q].tenant \in Tenants
      BY <1>0 DEF HandlerOK
    <3> QED
      BY <1>0, <1>1, <1>4, <1>5, <3>1, <3>2 DEF Held, TenantHeld
  <2> QED
    BY <2>1, <2>2 DEF Held
<1>13. Held(reqs[r])'
  BY <1>5 DEF Held, TenantHeld, ProviderHeld, ConfigHeld, CountHeld, TenantSaves, Deletions
<1> QED
  BY <1>7, <1>8, <1>10, <1>11, <1>12, <1>13 DEF AdminInv

LEMMA InsertUserStep ==
  ASSUME AdminInv, NEW r \in Requests, NEW u \in Users, InsertUser(r, u)
  PROVE  AdminInv'
<1> DEFINE row == reqs[r].entity
<1>0. users \in [Users -> User] /\ \A q \in Requests : HandlerOK(reqs[q]) /\ Held(reqs[q])
  BY DEF AdminInv, AdministrationTypeOK
<1>1. /\ reqs[r].at \in {"insertAdmin", "insertUser"} /\ users[u].presence = "unused"
      /\ MayBelongTo(row.tenant)
      /\ UNCHANGED <<tenants, providers, configs, verified, faults, cutOff>>
      /\ users' = [users EXCEPT ![u] = row]
  BY DEF InsertUser, Refused
<1>2. /\ row \in User /\ Stored(row)
      /\ reqs[r].at = "insertAdmin" => row.tenant = reqs[r].tenant
  BY <1>0, <1>1 DEF HandlerOK
<1>3. Overtakes(r, HoldTenant(row.tenant), {})
  <2>1. HoldTenant(row.tenant) \in SUBSET Requests /\ {} \in SUBSET Requests
    BY DEF HoldTenant
  <2> QED
    BY <2>1, WritesEffect DEF InsertUser
<1> HIDE DEF row
<1>4. /\ users' \in [Users -> User] /\ users'[u] = row
      /\ \A v \in Users : v # u => users'[v] = users[v]
  BY <1>0, <1>1, <1>2
<1>5. /\ reqs' \in [Requests -> Request] /\ reqs'[r] = Idle /\ \A q \in Requests \ {r} : Kept(q)
      /\ HandlerOK(reqs'[r]) /\ reqs'[r].at \notin TenantSaves
  BY <1>3, IdleType DEF Overtakes, Idle, TenantSaves
<1>6. (\A q \in Requests : HandlerOK(reqs'[q])) /\ LoadedOnce'
  BY <1>5, HandlersStep
<1>7. AdministrationTypeOK'
  BY <1>1, <1>4, <1>5, <1>6 DEF AdminInv, AdministrationTypeOK
<1>8. ConfigsNamed' /\ RowsHaveTenants'
  BY <1>1, <1>4 DEF AdminInv, ConfigsNamed, RowsHaveTenants, MayBelongTo
<1>9. ASSUME NEW o \in Tenants
      PROVE  /\ UsersOf(o) \subseteq UsersOf(o)'
             /\ o = row.tenant => u \in UsersOf(o)'
             /\ o # row.tenant => UsersOf(o)' = UsersOf(o)
  BY <1>1, <1>2, <1>4 DEF UsersOf, Stored
<1>10. TenantsHaveUsers'
  <2> SUFFICES ASSUME NEW o \in Tenants, Stored(tenants[o])
               PROVE  \/ UsersOf(o)' # {}
                      \/ \E q \in Requests : reqs'[q].at = "insertAdmin" /\ reqs'[q].tenant = o
                      \/ o \in cutOff'
    BY <1>1 DEF TenantsHaveUsers
  <2>1. CASE o = row.tenant
    BY <1>9, <2>1
  <2>2. CASE o # row.tenant
    BY <1>1, <1>2, <1>5, <1>9, <2>2 DEF AdminInv, TenantsHaveUsers, Kept
  <2> QED
    BY <2>1, <2>2
<1>11. ASSUME NEW q \in Requests \ {r} PROVE Held(reqs[q])'
  <2>1. ProviderHeld(reqs[q])' /\ ConfigHeld(reqs[q])' /\ CountHeld(reqs[q])'
    BY <1>0, <1>1, <1>5, ProviderHeldStays, ConfigHeldStays, CountHeldStays DEF Held
  <2>2. TenantHeld(reqs[q])'
    <3> SUFFICES ASSUME reqs[q].at \in TenantSaves PROVE TenantHeld(reqs[q])'
      BY <1>5 DEF TenantHeld, Kept
    <3>1. reqs[q].tenant \in Tenants /\ reqs[q].users \subseteq Users
      BY <1>0 DEF HandlerOK, AdminInv, AdministrationTypeOK, Request
    <3>2. Stored(reqs[q].entity) /\ \A v \in reqs[q].users : v # u
      BY <1>0, <1>1 DEF Held, TenantHeld
    <3>3. CASE reqs[q].tenant = row.tenant
      <4>1. reqs'[q].stale
        BY <1>3, <3>3 DEF Overtakes, HoldTenant
      <4> QED
        BY <1>0, <1>4, <1>5, <3>1, <3>2, <4>1 DEF Held, TenantHeld, Kept
    <3>4. CASE reqs[q].tenant # row.tenant
        BY <1>0, <1>1, <1>4, <1>5, <1>9, <3>1, <3>2, <3>4 DEF Held, TenantHeld, Kept, UsersOf
    <3> QED
      BY <3>3, <3>4
  <2> QED
    BY <2>1, <2>2 DEF Held
<1>12. Held(reqs[r])'
  BY <1>5, IdleStays
<1> QED
  BY <1>6, <1>7, <1>8, <1>10, <1>11, <1>12 DEF AdminInv

\* What a save does to each user, given the list loaded with the tenant.
LEMMA RelinkedUser ==
  ASSUME AdminInv, NEW t \in Tenants, NEW loaded, users' = RelinkedUsers(t, loaded), NEW u \in Users
  PROVE  /\ users'[u] \in User
         /\ users'[u].presence = users[u].presence
         /\ ~Stored(users[u]) => users'[u] = users[u]
         /\ Stored(users[u]) /\ u \in loaded => users'[u].tenant = t
         /\ Stored(users[u]) /\ u \notin loaded =>
              users'[u].tenant = IF users[u].tenant = t THEN None ELSE users[u].tenant
<1> DEFINE old == users[u]
<1>1. old \in User
  BY DEF AdminInv, AdministrationTypeOK
<1>2. users'[u] = IF ~Stored(old) THEN old
                  ELSE IF u \in loaded THEN [old EXCEPT !.tenant = t]
                  ELSE IF old.tenant = t THEN [old EXCEPT !.tenant = None]
                  ELSE old
  BY DEF RelinkedUsers
<1> HIDE DEF old
<1>3. ASSUME NEW to \in Tenants \union {None}
      PROVE  LET row == [old EXCEPT !.tenant = to] IN
             row \in User /\ row.presence = old.presence /\ row.tenant = to
  BY <1>1 DEF User
<1> QED
  BY <1>1, <1>2, <1>3 DEF old

LEMMA SaveTenantStep ==
  ASSUME AdminInv, NEW r \in Requests, SaveTenant(r)
  PROVE  AdminInv'
<1> DEFINE t == reqs[r].tenant
           row == reqs[r].entity
           loaded == reqs[r].users
<1>0. tenants \in [Tenants -> Tenant] /\ \A q \in Requests : HandlerOK(reqs[q]) /\ Held(reqs[q])
  BY DEF AdminInv, AdministrationTypeOK
<1>1. /\ reqs[r].at = "saveTenant" /\ reqs[r].at \in TenantSaves /\ reqs[r].at # "insertAdmin"
      /\ UNCHANGED <<providers, configs, verified, faults>>
      /\ tenants' = [tenants EXCEPT ![t] = row]
      /\ users' = RelinkedUsers(t, loaded)
      /\ cutOff' = cutOff \union (IF reqs[r].stale THEN {t} ELSE {})
  BY DEF SaveTenant, TenantSaves
<1>2. t \in Tenants /\ row \in Tenant /\ Stored(row)
  BY <1>0, <1>1 DEF HandlerOK, Held, TenantHeld
<1>3. /\ \A u \in loaded : users[u].tenant \in {t, None}
      /\ reqs[r].stale \/ (Stored(tenants[t]) /\ loaded = UsersOf(t))
  BY <1>0, <1>1 DEF Held, TenantHeld
<1>4. Overtakes(r, HoldTenant(t), {})
  <2>1. HoldTenant(t) \in SUBSET Requests /\ {} \in SUBSET Requests
    BY DEF HoldTenant
  <2> QED
    BY <2>1, WritesEffect DEF SaveTenant
<1>5. \A u \in Users :
        /\ users'[u] \in User
        /\ users'[u].presence = users[u].presence
        /\ ~Stored(users[u]) => users'[u] = users[u]
        /\ Stored(users[u]) /\ u \in loaded => users'[u].tenant = t
        /\ Stored(users[u]) /\ u \notin loaded =>
             users'[u].tenant = IF users[u].tenant = t THEN None ELSE users[u].tenant
  BY <1>1, <1>2, RelinkedUser
<1>6. ASSUME NEW q \in Requests, reqs[q].at \in TenantSaves, NEW u \in Users, u \in loaded, u \in reqs[q].users
      PROVE  reqs[q].tenant = t
  BY <1>1, <1>6 DEF AdminInv, LoadedOnce
<1> HIDE DEF t, row, loaded
<1>7. /\ tenants' \in [Tenants -> Tenant] /\ tenants'[t] = row
      /\ \A o \in Tenants : o # t => tenants'[o] = tenants[o]
  BY <1>0, <1>1, <1>2
<1>8. users' \in [Users -> User]
  BY <1>1, <1>5 DEF RelinkedUsers
<1>9. /\ reqs' \in [Requests -> Request] /\ reqs'[r] = Idle /\ \A q \in Requests \ {r} : Kept(q)
      /\ HandlerOK(reqs'[r]) /\ reqs'[r].at \notin TenantSaves
  BY <1>4, IdleType DEF Overtakes, Idle, TenantSaves
<1>10. (\A q \in Requests : HandlerOK(reqs'[q])) /\ LoadedOnce'
  BY <1>9, HandlersStep
<1>11. AdministrationTypeOK'
  BY <1>1, <1>2, <1>7, <1>8, <1>9, <1>10 DEF AdminInv, AdministrationTypeOK
<1>12. \A o \in Tenants : Stored(tenants[o]) => Stored(tenants'[o])
  BY <1>2, <1>7
<1>13. ConfigsNamed' /\ RowsHaveTenants'
  <2>1. ASSUME NEW u \in Users, Stored(users'[u]) PROVE users'[u].tenant = None \/ Stored(tenants'[users'[u].tenant])
    <3>1. Stored(users[u]) /\ users[u].tenant \in Tenants \union {None}
      BY <1>5, <2>1 DEF AdminInv, AdministrationTypeOK, User, Stored
    <3>2. users'[u].tenant \in {t, None, users[u].tenant}
      BY <1>5, <3>1
    <3>3. MayBelongTo(users[u].tenant)
      BY <3>1 DEF AdminInv, RowsHaveTenants
    <3> QED
      BY <1>2, <1>7, <1>12, <3>1, <3>2, <3>3 DEF MayBelongTo
  <2>2. \A v \in verified : v[1] \in Tenants
    BY DEF AdminInv, AdministrationTypeOK
  <2>3. \A c \in Configs : Stored(configs[c]) => configs[c].tenant \in Tenants
    BY DEF AdminInv, ConfigsNamed, Stored
  <2> QED
    BY <1>1, <1>12, <2>1, <2>2, <2>3 DEF AdminInv, ConfigsNamed, RowsHaveTenants, MayBelongTo
<1>14. ASSUME NEW o \in Tenants, o # t
       PROVE  UsersOf(o)' = UsersOf(o)
  <2>1. o # None /\ t # None
    BY <1>2, AdminNoneAssumption
  <2>2. ASSUME NEW u \in Users
        PROVE  (Stored(users'[u]) /\ users'[u].tenant = o) <=> (Stored(users[u]) /\ users[u].tenant = o)
    BY <1>3, <1>5, <1>14, <2>1 DEF Stored
  <2> QED
    BY <2>2 DEF UsersOf
<1>15. TenantsHaveUsers'
  <2> SUFFICES ASSUME NEW o \in Tenants, Stored(tenants'[o])
               PROVE  \/ UsersOf(o)' # {}
                      \/ \E q \in Requests : reqs'[q].at = "insertAdmin" /\ reqs'[q].tenant = o
                      \/ o \in cutOff'
    BY DEF TenantsHaveUsers
  <2>0. cutOff \subseteq cutOff' /\ (reqs[r].stale => t \in cutOff')
    BY <1>1
  <2>1. CASE o = t /\ reqs[r].stale
    BY <2>0, <2>1
  <2>2. ASSUME o # t \/ ~reqs[r].stale
        PROVE  Stored(tenants[o]) /\ UsersOf(o) \subseteq UsersOf(o)'
    <3>1. CASE o # t
      BY <1>7, <1>14, <3>1
    <3>2. CASE o = t
      <4>1. Stored(tenants[t]) /\ loaded = UsersOf(t)
        BY <1>3, <2>2, <3>2
      <4>2. \A u \in UsersOf(t) : Stored(users'[u]) /\ users'[u].tenant = t
        BY <1>5, <4>1 DEF UsersOf, Stored
      <4> QED
        BY <3>2, <4>1, <4>2 DEF UsersOf
    <3> QED
      BY <3>1, <3>2
  <2> QED
    BY <1>1, <1>9, <2>0, <2>1, <2>2 DEF AdminInv, TenantsHaveUsers, Kept
<1>16. ASSUME NEW q \in Requests \ {r} PROVE Held(reqs[q])'
  <2>1. ProviderHeld(reqs[q])' /\ ConfigHeld(reqs[q])' /\ CountHeld(reqs[q])'
    BY <1>0, <1>1, <1>9, ProviderHeldStays, ConfigHeldStays, CountHeldStays DEF Held
  <2>2. TenantHeld(reqs[q])'
    <3> SUFFICES ASSUME reqs[q].at \in TenantSaves PROVE TenantHeld(reqs[q])'
      BY <1>9 DEF TenantHeld, Kept
    <3>1. reqs[q].tenant \in Tenants /\ reqs[q].users \subseteq Users
      BY <1>0 DEF HandlerOK, AdminInv, AdministrationTypeOK, Request
    <3>2. \A u \in reqs[q].users : users[u].presence # "unused" /\ users[u].tenant \in {reqs[q].tenant, None}
      BY <1>0 DEF Held, TenantHeld
    <3>3. ASSUME NEW u \in reqs[q].users
          PROVE  users'[u].presence # "unused" /\ users'[u].tenant \in {reqs[q].tenant, None}
      BY <1>5, <1>6, <3>1, <3>2
    <3>4. CASE reqs[q].tenant = t
      <4>1. reqs'[q].stale
        BY <1>4, <3>4 DEF Overtakes, HoldTenant
      <4> QED
        BY <1>0, <1>9, <3>3, <4>1 DEF Held, TenantHeld, Kept
    <3>5. CASE reqs[q].tenant # t
      BY <1>0, <1>7, <1>9, <1>14, <3>1, <3>3, <3>5 DEF Held, TenantHeld, Kept, UsersOf
    <3> QED
      BY <3>4, <3>5
  <2> QED
    BY <2>1, <2>2 DEF Held
<1>17. Held(reqs[r])'
  BY <1>9, IdleStays
<1> QED
  BY <1>10, <1>11, <1>13, <1>15, <1>16, <1>17 DEF AdminInv

LEMMA RemoveTenantStep ==
  ASSUME AdminInv, NEW r \in Requests, RemoveTenant(r)
  PROVE  AdminInv'
<1> DEFINE t == reqs[r].tenant
           O == HoldTenant(t) \union {q \in Requests : reqs[q].at = "saveConfig" /\ reqs[q].tenant = t}
<1>0. /\ tenants \in [Tenants -> Tenant] /\ users \in [Users -> User] /\ configs \in [Configs -> Config]
      /\ verified \subseteq Tenants \X Providers
      /\ \A q \in Requests : HandlerOK(reqs[q]) /\ Held(reqs[q])
  BY DEF AdminInv, AdministrationTypeOK
<1>1. /\ reqs[r].at = "removeTenant" /\ reqs[r].at # "insertAdmin"
      /\ UNCHANGED <<providers, faults, cutOff>>
      /\ tenants' = [tenants EXCEPT ![t].presence = "deleted"]
      /\ users' = [u \in Users |-> IF u \in UsersOf(t) THEN [users[u] EXCEPT !.presence = "deleted"]
                                                      ELSE users[u]]
      /\ configs' = CascadedConfigs(t)
      /\ verified' = {v \in verified : v[1] # t}
  BY DEF RemoveTenant
<1>2. t \in Tenants
  BY <1>0, <1>1 DEF HandlerOK, TenantSaves
<1>3. Overtakes(r, O, {})
  <2>1. O \in SUBSET Requests /\ {} \in SUBSET Requests
    BY DEF HoldTenant
  <2> QED
    BY <2>1, WritesEffect DEF RemoveTenant
<1>4. reqs[r].at \in TenantSaves
  BY <1>1 DEF TenantSaves
<1> HIDE DEF t, O
<1>5. /\ tenants' \in [Tenants -> Tenant] /\ ~Stored(tenants'[t])
      /\ \A o \in Tenants : o # t => tenants'[o] = tenants[o]
  <2> DEFINE old == tenants[t]
             row == [old EXCEPT !.presence = "deleted"]
  <2>1. tenants' = [tenants EXCEPT ![t] = row] /\ old \in Tenant
    BY <1>0, <1>1, <1>2
  <2> HIDE DEF old
  <2>2. row \in Tenant /\ ~Stored(row)
    BY <2>1 DEF Tenant, Presence, Stored
  <2> HIDE DEF row
  <2> QED
    BY <1>0, <1>2, <2>1, <2>2
<1>6. ASSUME NEW u \in Users
      PROVE  /\ users'[u] \in User
             /\ users'[u].tenant = users[u].tenant
             /\ users[u].presence # "unused" => users'[u].presence # "unused"
             /\ Stored(users'[u]) <=> Stored(users[u]) /\ users[u].tenant # t
  <2> DEFINE old == users[u]
             row == [old EXCEPT !.presence = "deleted"]
  <2>1. /\ old \in User
        /\ users'[u] = IF Stored(old) /\ old.tenant = t THEN row ELSE old
    BY <1>0, <1>1 DEF UsersOf
  <2> HIDE DEF old
  <2>2. row \in User /\ row.presence = "deleted" /\ row.tenant = old.tenant
    BY <2>1 DEF User, Presence
  <2> HIDE DEF row
  <2> QED
    BY <2>1, <2>2 DEF old, Stored
<1>7. ASSUME NEW c \in Configs
      PROVE  /\ configs'[c] \in Config
             /\ configs'[c].tenant = configs[c].tenant /\ configs'[c].provider = configs[c].provider
             /\ configs'[c].presence = "unused" <=> configs[c].presence = "unused"
             /\ Stored(configs'[c]) <=> Stored(configs[c]) /\ configs[c].tenant # t
  <2> DEFINE old == configs[c]
             row == [old EXCEPT !.presence = "deleted"]
  <2>1. /\ old \in Config
        /\ configs'[c] = IF Stored(old) /\ old.tenant = t THEN row ELSE old
    BY <1>0, <1>1 DEF CascadedConfigs
  <2> HIDE DEF old
  <2>2. row \in Config /\ row.presence = "deleted" /\ row.tenant = old.tenant /\ row.provider = old.provider
    BY <2>1 DEF Config, Presence
  <2> HIDE DEF row
  <2> QED
    BY <2>1, <2>2 DEF old, Stored
<1>8. users' \in [Users -> User] /\ configs' \in [Configs -> Config] /\ verified' \subseteq Tenants \X Providers
  BY <1>0, <1>1, <1>6, <1>7 DEF CascadedConfigs
<1>9. /\ reqs' \in [Requests -> Request] /\ reqs'[r] = Idle /\ \A q \in Requests \ {r} : Kept(q)
      /\ HandlerOK(reqs'[r]) /\ reqs'[r].at \notin TenantSaves
  BY <1>3, IdleType DEF Overtakes, Idle, TenantSaves
<1>10. (\A q \in Requests : HandlerOK(reqs'[q])) /\ LoadedOnce'
  BY <1>9, HandlersStep
<1>11. AdministrationTypeOK'
  BY <1>1, <1>5, <1>8, <1>9, <1>10 DEF AdminInv, AdministrationTypeOK
<1>12. ConfigsNamed'
  BY <1>7 DEF AdminInv, ConfigsNamed
<1>13. RowsHaveTenants'
  <2>1. ASSUME NEW u \in Users, Stored(users'[u]) PROVE users'[u].tenant = None \/ Stored(tenants'[users'[u].tenant])
    <3>1. users[u].tenant \in Tenants \union {None}
      BY <1>0 DEF User
    <3>2. MayBelongTo(users[u].tenant) /\ users[u].tenant # t /\ users'[u].tenant = users[u].tenant
      BY <1>6, <2>1 DEF AdminInv, RowsHaveTenants
    <3> QED
      BY <1>5, <3>1, <3>2 DEF MayBelongTo
  <2>2. ASSUME NEW c \in Configs, Stored(configs'[c]) PROVE Stored(tenants'[configs'[c].tenant])
    <3>1. Stored(configs[c]) /\ configs[c].tenant # t /\ configs'[c].tenant = configs[c].tenant
      BY <1>7, <2>2
    <3>2. configs[c].tenant \in Tenants /\ Stored(tenants[configs[c].tenant])
      BY <3>1 DEF AdminInv, ConfigsNamed, RowsHaveTenants, Stored
    <3> QED
      BY <1>5, <3>1, <3>2
  <2>3. \A v \in verified' : Stored(tenants'[v[1]])
    BY <1>0, <1>1, <1>5 DEF AdminInv, RowsHaveTenants
  <2> QED
    BY <2>1, <2>2, <2>3 DEF RowsHaveTenants, MayBelongTo
<1>14. ASSUME NEW o \in Tenants, o # t
       PROVE  UsersOf(o)' = UsersOf(o)
  BY <1>6, <1>14 DEF UsersOf
<1>15. TenantsHaveUsers'
  <2> SUFFICES ASSUME NEW o \in Tenants, Stored(tenants'[o])
               PROVE  \/ UsersOf(o)' # {}
                      \/ \E q \in Requests : reqs'[q].at = "insertAdmin" /\ reqs'[q].tenant = o
                      \/ o \in cutOff'
    BY DEF TenantsHaveUsers
  <2>1. o # t /\ Stored(tenants[o]) /\ UsersOf(o)' = UsersOf(o)
    BY <1>5, <1>14
  <2> QED
    BY <1>1, <1>9, <2>1 DEF AdminInv, TenantsHaveUsers, Kept
<1>16. ASSUME NEW q \in Requests \ {r} PROVE Held(reqs[q])'
  <2>1. ProviderHeld(reqs[q])'
    BY <1>0, <1>1, <1>9, ProviderHeldStays DEF Held
  <2>2. TenantHeld(reqs[q])'
    <3> SUFFICES ASSUME reqs[q].at \in TenantSaves PROVE TenantHeld(reqs[q])'
      BY <1>9 DEF TenantHeld, Kept
    <3>1. reqs[q].tenant \in Tenants /\ reqs[q].users \subseteq Users
      BY <1>0 DEF HandlerOK, AdminInv, AdministrationTypeOK, Request
    <3>2. \A u \in reqs[q].users : users'[u].presence # "unused" /\ users'[u].tenant \in {reqs[q].tenant, None}
      BY <1>0, <1>6, <3>1 DEF Held, TenantHeld
    <3>3. CASE reqs[q].tenant = t
      <4>1. reqs'[q].stale
        BY <1>3, <3>3 DEF Overtakes, HoldTenant, O
      <4> QED
        BY <1>0, <1>9, <3>2, <4>1 DEF Held, TenantHeld, Kept
    <3>4. CASE reqs[q].tenant # t
      BY <1>0, <1>5, <1>9, <1>14, <3>1, <3>2, <3>4 DEF Held, TenantHeld, Kept, UsersOf
    <3> QED
      BY <3>3, <3>4
  <2>3. ConfigHeld(reqs[q])'
    <3>1. reqs[q].at \in {"saveConfig", "removeConfig"} =>
            reqs[q].config \in Configs /\ configs[reqs[q].config].presence # "unused"
      BY <1>0 DEF Held, ConfigHeld, HandlerOK
    <3>2. reqs[q].at = "saveConfig" /\ reqs[q].tenant = t => reqs'[q].stale
      BY <1>3 DEF Overtakes, O
    <3> QED
      BY <1>0, <1>7, <1>9, <3>1, <3>2 DEF Held, ConfigHeld, Kept
  <2>4. CountHeld(reqs[q])'
    BY <1>0, <1>1, <1>7, <1>9 DEF Held, CountHeld, Kept
  <2> QED
    BY <2>1, <2>2, <2>3, <2>4 DEF Held
<1>17. Held(reqs[r])'
  BY <1>9, IdleStays
<1> QED
  BY <1>10, <1>11, <1>12, <1>13, <1>15, <1>16, <1>17 DEF AdminInv

-----------------------------------------------------------------------------
(***************************************************************************)
(* The inductive invariant.                                                *)
(***************************************************************************)
LEMMA AdminStep == AdminInv /\ [Next]_vars => AdminInv'
<1> SUFFICES ASSUME AdminInv, [Next]_vars PROVE AdminInv'
  OBVIOUS
<1>1. CASE UNCHANGED vars
  <2> USE <1>1 DEF vars
  <2>1. AdministrationTypeOK' /\ ConfigsNamed' /\ LoadedOnce'
    BY DEF AdminInv, AdministrationTypeOK, HandlerOK, ConfigsNamed, LoadedOnce
  <2>2. RowsHaveTenants' /\ TenantsHaveUsers'
    BY DEF AdminInv, RowsHaveTenants, MayBelongTo, TenantsHaveUsers, UsersOf
  <2>3. \A r \in Requests : Held(reqs[r])'
    BY DEF AdminInv, Held, TenantHeld, ProviderHeld, ConfigHeld, CountHeld, UsersOf
  <2> QED
    BY <2>1, <2>2, <2>3 DEF AdminInv
<1>2. CASE Crash
  BY <1>2, CrashStep
<1>3. ASSUME NEW r \in Requests, TenantRequest(r) \/ ProviderRequest(r) PROVE AdminInv'
  BY <1>3, TenantRequestStep, ProviderRequestStep
<1>4. ASSUME NEW r \in Requests, Continue(r) PROVE AdminInv'
  BY <1>4, InsertTenantStep, InsertUserStep, SaveTenantStep, RemoveTenantStep, ReadStep,
     InsertConfigStep, SaveConfigStep, RemoveConfigStep, InsertProviderStep, SaveProviderStep,
     InsertVerificationStep, DatabaseErrorStep
     DEF Continue
<1> QED
  BY <1>1, <1>2, <1>3, <1>4 DEF Next

LEMMA AdminInvariance == Spec => []AdminInv
  BY AdminInit, AdminStep, PTL DEF Spec

\* In every reachable state the tables and the handlers in flight have the form
\* they should, whatever requests, database errors and crashes came before.
THEOREM AdministrationTypeCorrect == Spec => []AdministrationTypeOK
<1>1. AdminInv => AdministrationTypeOK
  BY DEF AdminInv
<1> QED
  BY <1>1, AdminInvariance, PTL

\* No user, assignment or verification outlives its tenant, whatever handlers of
\* AdminService were under way when the tenant was deleted.
THEOREM RowsKeepTenants == Spec => []RowsHaveTenants
<1>1. AdminInv => RowsHaveTenants
  BY DEF AdminInv
<1> QED
  BY <1>1, AdminInvariance, PTL

\* A tenant has a user, or its creation is under way or was cut off, or a stale
\* save of tenant.users took its users away.
THEOREM TenantsKeepTheirUsers == Spec => []TenantsHaveUsers
<1>1. AdminInv => TenantsHaveUsers
  BY DEF AdminInv
<1> QED
  BY <1>1, AdminInvariance, PTL

\* deleteProvider deactivates a provider in use only if it came into use after it
\* was counted; createVerification uses an inactive one only if it was overtaken.
THEOREM UsedProvidersStay == Spec => []ProvidersInUseStay
<1>1. AdminInv => ProvidersInUseStay
  <2> SUFFICES ASSUME AdminInv, NEW r \in Requests
               PROVE  /\ reqs[r].at = "deactivate" /\ InUse(reqs[r].provider) => reqs[r].late
                      /\ reqs[r].at = "insertVerification" /\ ~providers[reqs[r].provider].active => reqs[r].stale
    BY DEF ProvidersInUseStay
  <2>1. CountHeld(reqs[r]) /\ ProviderHeld(reqs[r])
    BY DEF AdminInv, Held
  <2> QED
    BY <2>1 DEF CountHeld, ProviderHeld, InUse
<1> QED
  BY <1>1, AdminInvariance, PTL

-----------------------------------------------------------------------------
(***************************************************************************)
(* What a step may never do.                                               *)
(***************************************************************************)

\* Beginning a request writes no table.
LEMMA RequestsWriteNothing ==
  ASSUME NEW r \in Requests, TenantRequest(r) \/ ProviderRequest(r)
  PROVE  UNCHANGED tables
<1>1. CASE TenantRequest(r)
  BY <1>1 DEF TenantRequest, BeginCreateTenant, BeginRegister, BeginUpdateTenant, BeginUpdateTenantStatus,
              BeginUpdateTenantQuota, BeginDeleteTenant, LoadTenant
<1>2. CASE ProviderRequest(r)
  BY <1>2 DEF ProviderRequest, BeginAssign, BeginUpdateConfig, BeginDeleteConfig, BeginVerification,
              BeginCreateProvider, BeginUpdateProvider, BeginUpdateProviderStatus, BeginDeleteProvider,
              LoadProvider
<1> QED
  BY <1>1, <1>2

\* The writers of each table.
LEMMA WhoWrites ==
  ASSUME [Next]_vars
  PROVE  \/ UNCHANGED tables
         \/ \E r \in Requests :
              \/ \E t \in Tenants : InsertTenant(r, t)
              \/ \E u \in Users : InsertUser(r, u)
              \/ SaveTenant(r) \/ RemoveTenant(r)
              \/ \E c \in Configs, enabled \in BOOLEAN : InsertConfig(r, c, enabled)
              \/ SaveConfig(r) \/ RemoveConfig(r)
              \/ \E p \in Providers : InsertProvider(r, p)
              \/ SaveProvider(r) \/ InsertVerification(r)
<1>1. CASE UNCHANGED vars
  BY <1>1 DEF vars, tables
<1>2. CASE Crash
  BY <1>2 DEF Crash
<1>3. ASSUME NEW r \in Requests,
             \/ CheckEmail(r) \/ FindProvider(r) \/ FindConfig(r) \/ FindTenantConfig(r) \/ CountConfigs(r)
             \/ CountVerifications(r) \/ GetProvider(r) \/ DatabaseError(r)
      PROVE  UNCHANGED tables
  BY <1>3 DEF CheckEmail, FindProvider, FindConfig, FindTenantConfig, CountConfigs, CountVerifications,
              GetProvider, DatabaseError
<1>4. ASSUME NEW r \in Requests, Continue(r), ~UNCHANGED tables
      PROVE  \/ \E t \in Tenants : InsertTenant(r, t)
             \/ \E u \in Users : InsertUser(r, u)
             \/ SaveTenant(r) \/ RemoveTenant(r)
             \/ \E c \in Configs, enabled \in BOOLEAN : InsertConfig(r, c, enabled)
             \/ SaveConfig(r) \/ RemoveConfig(r)
             \/ \E p \in Providers : InsertProvider(r, p)
             \/ SaveProvider(r) \/ InsertVerification(r)
  BY <1>3, <1>4 DEF Continue
<1> QED
  BY <1>1, <1>2, <1>4, RequestsWriteNothing DEF Next

\* A write that ends handler r leaves it idle.
LEMMA WritesEnd == ASSUME NEW r \in Requests, NEW O, NEW C, Writes(r, Idle, O, C) PROVE reqs'[r] = Idle
  BY DEF Writes

\* updateTenant, updateTenantStatus and updateTenantQuota change what they were
\* asked to and nothing else, and bring no deleted tenant back, unless their save
\* overtook another write.
THEOREM TenantUpdatesAreAsAsked == Spec => TenantsChangeAsAsked
<1>1. ASSUME AdminInv, [Next]_vars, NEW t \in Tenants,
             tenants[t].presence # "unused", Stored(tenants'[t]), tenants'[t] # tenants[t]
      PROVE  \E r \in Requests :
               /\ SavesTenant(r, t)
               /\ \/ reqs[r].stale
                  \/ /\ Stored(tenants[t])
                     /\ tenants'[t].email # tenants[t].email => "email" \in reqs[r].asked
                     /\ tenants'[t].status # tenants[t].status => "status" \in reqs[r].asked
                     /\ tenants'[t].quota # tenants[t].quota => "quota" \in reqs[r].asked
  <2>0. tenants \in [Tenants -> Tenant] /\ \A r \in Requests : HandlerOK(reqs[r]) /\ Held(reqs[r])
    BY <1>1 DEF AdminInv, AdministrationTypeOK
  <2>1. PICK r \in Requests : (\E o \in Tenants : InsertTenant(r, o)) \/ SaveTenant(r) \/ RemoveTenant(r)
    BY <1>1, WhoWrites
       DEF tables, InsertUser, InsertConfig, SaveConfig, RemoveConfig, InsertProvider, SaveProvider,
           InsertVerification
  <2>2. ~ \E o \in Tenants : InsertTenant(r, o)
    BY <1>1, <2>0 DEF InsertTenant
  <2>3. ~ RemoveTenant(r)
    <3> SUFFICES ASSUME RemoveTenant(r) PROVE FALSE
      OBVIOUS
    <3>1. tenants' = [tenants EXCEPT ![reqs[r].tenant].presence = "deleted"]
      BY DEF RemoveTenant
    <3>2. reqs[r].tenant = t
      BY <1>1, <2>0, <3>1
    <3>3. tenants'[t] = [tenants[t] EXCEPT !.presence = "deleted"] /\ tenants[t] \in Tenant
      BY <2>0, <3>1, <3>2
    <3>4. tenants'[t].presence = "deleted"
      BY <3>3 DEF Tenant
    <3> QED
      BY <1>1, <3>4 DEF Stored
  <2>4. SaveTenant(r)
    BY <2>1, <2>2, <2>3
  <2>5. /\ reqs[r].at = "saveTenant" /\ reqs'[r] = Idle
        /\ tenants' = [tenants EXCEPT ![reqs[r].tenant] = reqs[r].entity]
    BY <2>4, WritesEnd DEF SaveTenant
  <2>6. reqs[r].tenant = t /\ tenants'[t] = reqs[r].entity
    BY <1>1, <2>0, <2>5
  <2>7. reqs[r].stale \/ (Stored(tenants[t]) /\ TenantAsAsked(tenants[t], tenants'[t], reqs[r].asked))
    BY <2>0, <2>5, <2>6 DEF Held, TenantHeld, TenantSaves
  <2> QED
    BY <2>5, <2>6, <2>7 DEF SavesTenant, TenantAsAsked
<1>2. AdminInv /\ [Next]_vars =>
        [\A t \in Tenants :
           tenants[t].presence # "unused" /\ Stored(tenants'[t]) /\ tenants'[t] # tenants[t] =>
             \E r \in Requests :
               /\ SavesTenant(r, t)
               /\ \/ reqs[r].stale
                  \/ /\ Stored(tenants[t])
                     /\ tenants'[t].email # tenants[t].email => "email" \in reqs[r].asked
                     /\ tenants'[t].status # tenants[t].status => "status" \in reqs[r].asked
                     /\ tenants'[t].quota # tenants[t].quota => "quota" \in reqs[r].asked]_vars
  BY <1>1
<1> QED
  BY <1>2, AdminInvariance, PTL DEF Spec, TenantsChangeAsAsked

\* Updating a tenant parts it from no user and gives it none, unless the save
\* overtook another write; only deleting a tenant deletes users.
THEOREM UsersStayWithTenant == Spec => UsersMoveOnlyByStaleSave
<1>1. ASSUME AdminInv, [Next]_vars, NEW u \in Users, Stored(users[u]),
             users'[u].tenant # users[u].tenant \/ users'[u].presence = "deleted"
      PROVE  \E r \in Requests :
               \/ \E t \in Tenants : SavesTenant(r, t) /\ reqs[r].stale /\ Stored(users'[u])
               \/ reqs[r].at = "removeTenant" /\ reqs[r].tenant = users[u].tenant
  <2>0. /\ users \in [Users -> User] /\ \A r \in Requests : HandlerOK(reqs[r]) /\ Held(reqs[r])
        /\ users'[u] # users[u]
    BY <1>1 DEF AdminInv, AdministrationTypeOK, Stored
  <2>1. PICK r \in Requests : (\E v \in Users : InsertUser(r, v)) \/ SaveTenant(r) \/ RemoveTenant(r)
    BY <2>0, WhoWrites, <1>1
       DEF tables, InsertTenant, InsertConfig, SaveConfig, RemoveConfig, InsertProvider, SaveProvider,
           InsertVerification
  <2>2. ~ \E v \in Users : InsertUser(r, v)
    BY <1>1, <2>0 DEF InsertUser, Stored
  <2>3. CASE SaveTenant(r)
    <3> DEFINE t == reqs[r].tenant
               loaded == reqs[r].users
    <3>1. /\ reqs[r].at = "saveTenant" /\ reqs'[r] = Idle
          /\ users' = RelinkedUsers(t, loaded)
      BY <2>3, WritesEnd DEF SaveTenant
    <3>2. t \in Tenants /\ (reqs[r].stale \/ loaded = UsersOf(t))
      BY <2>0, <3>1 DEF HandlerOK, Held, TenantHeld, TenantSaves
    <3>3. SavesTenant(r, t)
      BY <3>1 DEF SavesTenant
    <3> HIDE DEF t, loaded
    <3>4. /\ Stored(users'[u])
          /\ u \in loaded => users'[u].tenant = t
          /\ u \notin loaded => users'[u].tenant = IF users[u].tenant = t THEN None ELSE users[u].tenant
      BY <1>1, <3>1, <3>2, RelinkedUser DEF Stored
    <3>5. reqs[r].stale
      BY <1>1, <3>2, <3>4 DEF UsersOf, Stored
    <3> QED
      BY <3>2, <3>3, <3>4, <3>5
  <2>4. CASE RemoveTenant(r)
    <3>1. /\ reqs[r].at = "removeTenant"
          /\ users'[u] = IF u \in UsersOf(reqs[r].tenant) THEN [users[u] EXCEPT !.presence = "deleted"]
                                                          ELSE users[u]
      BY <2>4 DEF RemoveTenant
    <3>2. u \in UsersOf(reqs[r].tenant)
      BY <2>0, <3>1
    <3> QED
      BY <3>1, <3>2 DEF UsersOf
  <2> QED
    BY <2>1, <2>2, <2>3, <2>4
<1>2. AdminInv /\ [Next]_vars =>
        [\A u \in Users :
           Stored(users[u]) /\ (users'[u].tenant # users[u].tenant \/ users'[u].presence = "deleted") =>
             \E r \in Requests :
               \/ \E t \in Tenants : SavesTenant(r, t) /\ reqs[r].stale /\ Stored(users'[u])
               \/ reqs[r].at = "removeTenant" /\ reqs[r].tenant = users[u].tenant]_vars
  BY <1>1
<1> QED
  BY <1>2, AdminInvariance, PTL DEF Spec, UsersMoveOnlyByStaleSave

\* A provider's activity and credentials change only when asked, and a deleted
\* assignment comes back, only by a save that overtook another write.
THEOREM ProviderUpdatesAreAsAsked == Spec => ProvidersChangeAsAsked
<1>1. ASSUME AdminInv, [Next]_vars, NEW p \in Providers, Stored(providers[p]), providers'[p] # providers[p]
      PROVE  \E r \in Requests :
               /\ SavesProvider(r, p)
               /\ \/ reqs[r].stale
                  \/ /\ providers'[p].active # providers[p].active => "active" \in reqs[r].asked
                     /\ providers'[p].secret # providers[p].secret => "secret" \in reqs[r].asked
  <2>0. providers \in [Providers -> Provider] /\ \A r \in Requests : HandlerOK(reqs[r]) /\ Held(reqs[r])
    BY <1>1 DEF AdminInv, AdministrationTypeOK
  <2>1. PICK r \in Requests : (\E o \in Providers : InsertProvider(r, o)) \/ SaveProvider(r)
    BY <1>1, WhoWrites
       DEF tables, InsertTenant, InsertUser, SaveTenant, RemoveTenant, InsertConfig, SaveConfig, RemoveConfig,
           InsertVerification
  <2>2. ~ \E o \in Providers : InsertProvider(r, o)
    BY <1>1, <2>0 DEF InsertProvider, Stored
  <2>3. /\ reqs[r].at \in {"saveProvider", "deactivate"} /\ reqs'[r] = Idle
        /\ providers' = [providers EXCEPT ![reqs[r].provider] = reqs[r].entity]
    BY <2>1, <2>2, WritesEnd DEF SaveProvider
  <2>4. reqs[r].provider = p /\ providers'[p] = reqs[r].entity
    BY <1>1, <2>0, <2>3
  <2>5. reqs[r].stale \/ ProviderAsAsked(providers[p], providers'[p], reqs[r].asked)
    BY <2>0, <2>3, <2>4 DEF Held, ProviderHeld, Deletions
  <2> QED
    BY <2>3, <2>4, <2>5 DEF SavesProvider, ProviderAsAsked
<1>2. ASSUME AdminInv, [Next]_vars, NEW c \in Configs, configs[c].presence = "deleted", Stored(configs'[c])
      PROVE  \E r \in Requests : SavesConfig(r, c) /\ reqs[r].stale
  <2>0. /\ configs \in [Configs -> Config] /\ \A r \in Requests : HandlerOK(reqs[r]) /\ Held(reqs[r])
        /\ ~Stored(configs[c]) /\ configs'[c] # configs[c]
    BY <1>2 DEF AdminInv, AdministrationTypeOK, Stored
  <2>1. PICK r \in Requests :
          \/ \E d \in Configs, enabled \in BOOLEAN : InsertConfig(r, d, enabled)
          \/ SaveConfig(r) \/ RemoveConfig(r) \/ RemoveTenant(r)
    BY <1>2, <2>0, WhoWrites
       DEF tables, InsertTenant, InsertUser, SaveTenant, InsertProvider, SaveProvider, InsertVerification
  <2>2. ASSUME NEW d \in Configs, NEW enabled \in BOOLEAN, InsertConfig(r, d, enabled) PROVE FALSE
    <3>1. d # c
      BY <1>2, <2>2 DEF InsertConfig
    <3> QED
      BY <2>0, <2>2, <3>1 DEF InsertConfig
  <2>3. ~RemoveConfig(r)
    <3> SUFFICES ASSUME RemoveConfig(r) PROVE FALSE
      OBVIOUS
    <3>1. configs' = [configs EXCEPT ![reqs[r].config].presence = "deleted"]
      BY DEF RemoveConfig
    <3>2. configs'[c] = [configs[c] EXCEPT !.presence = "deleted"] /\ configs[c] \in Config
      BY <2>0, <3>1
    <3>3. configs'[c].presence = "deleted"
      BY <3>2 DEF Config
    <3> QED
      BY <1>2, <3>3 DEF Stored
  <2>4. ~RemoveTenant(r)
    BY <2>0 DEF RemoveTenant, CascadedConfigs
  <2>5. SaveConfig(r)
    BY <2>1, <2>2, <2>3, <2>4
  <2>6. /\ reqs[r].at = "saveConfig" /\ reqs'[r] = Idle
        /\ configs' = [configs EXCEPT ![reqs[r].config] = reqs[r].entity]
    BY <2>5, WritesEnd DEF SaveConfig
  <2>7. reqs[r].config = c
    BY <2>0, <2>6
  <2>8. reqs[r].stale
    BY <2>0, <2>6, <2>7 DEF Held, ConfigHeld
  <2> QED
    BY <2>6, <2>7, <2>8 DEF SavesConfig
<1>3. AdminInv /\ [Next]_vars =>
        [/\ \A p \in Providers :
             Stored(providers[p]) /\ providers'[p] # providers[p] =>
               \E r \in Requests :
                 /\ SavesProvider(r, p)
                 /\ \/ reqs[r].stale
                    \/ /\ providers'[p].active # providers[p].active => "active" \in reqs[r].asked
                       /\ providers'[p].secret # providers[p].secret => "secret" \in reqs[r].asked
         /\ \A c \in Configs :
             configs[c].presence = "deleted" /\ Stored(configs'[c]) =>
               \E r \in Requests : SavesConfig(r, c) /\ reqs[r].stale]_vars
  BY <1>1, <1>2
<1> QED
  BY <1>3, AdminInvariance, PTL DEF Spec, ProvidersChangeAsAsked
=============================================================================
