--------------------------- MODULE Administration ---------------------------
(***************************************************************************)
(* AdminService (src/admin/admin.service.ts) behind AdminController, with  *)
(* AuthService.register and the choice of a tenant's provider by           *)
(* ProvidersFactory: tenants, their users, providers and the assignments   *)
(* that connect them.                                                      *)
(*                                                                         *)
(* Every update loads an entity, changes it and saves it, and save writes  *)
(* the whole entity back: every column that differs from the row by then,  *)
(* an INSERT if the row is gone, and for a tenant loaded with its users    *)
(* the tenant_id of users that came or went meanwhile.  A handler is one   *)
(* action per awaited query.  Names, priorities and capabilities are left  *)
(* out: any enabled assignment of a tenant may be its primary one.         *)
(***************************************************************************)
EXTENDS Naturals, FiniteSets

CONSTANTS
  Tenants, Users, Providers, Configs,   \* ids that can be generated
  Emails,      \* email addresses, of tenants and of users
  Quotas,      \* values of quota_limit
  Secrets,     \* credentials of a provider
  Requests,    \* HTTP requests that can be in flight at once
  MaxFaults,   \* bound on database errors and process crashes
  None         \* null

ASSUME AdminFaultsAssumption == MaxFaults \in Nat
ASSUME AdminNoneAssumption ==
  None \notin Tenants \union Users \union Providers \union Configs \union Emails \union Quotas
                \union Secrets

VARIABLES
  tenants, users, providers, configs,   \* the tables
  verified,   \* the <<tenant, provider>> of the verifications table
  reqs,       \* the handler of each request in flight
  faults,     \* database errors and crashes so far
  cutOff      \* history: tenants whose creation ended early, or that were saved stale

tables == <<tenants, users, providers, configs, verified>>
vars == <<tenants, users, providers, configs, verified, reqs, faults, cutOff>>

-----------------------------------------------------------------------------
Presence == {"unused", "stored", "deleted"}
Statuses == {"active", "suspended"}

Tenant   == [presence : Presence, email : Emails \union {None}, status : Statuses,
             quota : Quotas \union {None}]
User     == [presence : Presence, email : Emails \union {None}, tenant : Tenants \union {None}]
Provider == [presence : Presence, active : BOOLEAN, secret : Secrets \union {None}]
Config   == [presence : Presence, tenant : Tenants \union {None},
             provider : Providers \union {None}, enabled : BOOLEAN]

NoTenant   == [presence |-> "unused", email |-> None, status |-> "active", quota |-> None]
NoUser     == [presence |-> "unused", email |-> None, tenant |-> None]
NoProvider == [presence |-> "unused", active |-> TRUE, secret |-> None]
NoConfig   == [presence |-> "unused", tenant |-> None, provider |-> None, enabled |-> TRUE]

\* The query each handler awaits next.
Creations    == {"insertTenant", "insertAdmin", "insertUser", "insertProvider"}
TenantSaves  == {"checkEmail", "saveTenant", "removeTenant"}
Assignments  == {"findProvider", "findConfig", "insertConfig", "saveConfig", "findTenantConfig",
                 "removeConfig"}
Deletions    == {"countConfigs", "countVerifications", "deactivate"}
Verifying    == {"getProvider", "insertVerification"}

Request ==
  [at       : {"idle", "saveProvider"} \union Creations \union TenantSaves \union Assignments
                \union Deletions \union Verifying,
   tenant   : Tenants \union {None},
   provider : Providers \union {None},
   config   : Configs \union {None},
   entity   : Tenant \union User \union Provider \union Config \union {None},   \* to be saved
   asked    : SUBSET {"email", "status", "quota", "active", "secret", "enabled"},
   users    : SUBSET Users,     \* tenant.users as loaded
   stale    : BOOLEAN,          \* history: what it read was changed since
   late     : BOOLEAN]          \* history: what it counted was added to since

Idle == [at |-> "idle", tenant |-> None, provider |-> None, config |-> None, entity |-> None,
         asked |-> {}, users |-> {}, stale |-> FALSE, late |-> FALSE]

Init ==
  /\ tenants = [t \in Tenants |-> NoTenant]
  /\ users = [u \in Users |-> NoUser]
  /\ providers = [p \in Providers |-> NoProvider]
  /\ configs = [c \in Configs |-> NoConfig]
  /\ verified = {}
  /\ reqs = [r \in Requests |-> Idle]
  /\ faults = 0
  /\ cutOff = {}

Stored(row) == row.presence = "stored"

UsersOf(t) == {u \in Users : Stored(users[u]) /\ users[u].tenant = t}

Enter(r, handler) == reqs[r].at = "idle" /\ reqs' = [reqs EXCEPT ![r] = handler]
Moves(r, at)      == reqs' = [reqs EXCEPT ![r].at = at]
Ends(r)           == reqs' = [reqs EXCEPT ![r] = Idle]
MovesOrEnds(r, found, at) == IF found THEN Moves(r, at) ELSE Ends(r)

\* Handler r goes on as next after a write that overtakes the handlers in Overtaken
\* that hold the row, and those in Counted that counted without it.
Writes(r, next, Overtaken, Counted) ==
  reqs' = [q \in Requests |-> IF q = r THEN next ELSE
             [reqs[q] EXCEPT !.stale = @ \/ q \in Overtaken, !.late = @ \/ q \in Counted]]

HoldTenant(t)   == {q \in Requests : reqs[q].at \in TenantSaves /\ reqs[q].tenant = t}
HoldProvider(p) == {q \in Requests : /\ reqs[q].at \in Deletions \union {"saveProvider", "insertVerification"}
                                     /\ reqs[q].provider = p}
HoldConfig(c)   == {q \in Requests : reqs[q].at = "saveConfig" /\ reqs[q].config = c}
Past(p, ats)    == {q \in Requests : reqs[q].at \in ats /\ reqs[q].provider = p}

-----------------------------------------------------------------------------
(***************************************************************************)
(* Constraints of the schema.                                              *)
(***************************************************************************)
TenantEmailFree(e, t) == \A o \in Tenants \ {t} : Stored(tenants[o]) => tenants[o].email # e
UserEmailFree(e)      == \A u \in Users : Stored(users[u]) => users[u].email # e
MayBelongTo(t)        == t = None \/ Stored(tenants[t])
Unassigned(t, p)      == \A c \in Configs : ~(Stored(configs[c]) /\ configs[c].tenant = t
                                                               /\ configs[c].provider = p)
MayAssign(t, p)       == Stored(tenants[t]) /\ Stored(providers[p]) /\ Unassigned(t, p)

\* The database turns down the write that handler r awaits.
Refused(r) ==
  LET req == reqs[r] IN
  \/ req.at = "insertTenant" /\ ~TenantEmailFree(req.entity.email, None)
  \/ req.at \in {"insertAdmin", "insertUser"}
       /\ ~(UserEmailFree(req.entity.email) /\ MayBelongTo(req.entity.tenant))
  \/ req.at = "saveTenant" /\ ~TenantEmailFree(req.entity.email, req.tenant)
  \/ req.at = "insertConfig" /\ ~MayAssign(req.tenant, req.provider)
  \/ req.at = "saveConfig" /\ ~Stored(configs[req.config])
       /\ ~MayAssign(req.entity.tenant, req.entity.provider)
  \/ req.at = "insertVerification" /\ ~Stored(tenants[req.tenant])

-----------------------------------------------------------------------------
(***************************************************************************)
(* Tenants and users.                                                      *)
(***************************************************************************)
BeginCreateTenant(r, e, s, q) ==
  /\ TenantEmailFree(e, None)
  /\ Enter(r, [Idle EXCEPT !.at = "insertTenant",
                !.entity = [presence |-> "stored", email |-> e, status |-> s, quota |-> q]])
  /\ UNCHANGED <<tables, faults, cutOff>>

\* Variant: tenant_id is taken from the tenant before it has an id.
UnlinkedAdmin(t, e) == [presence |-> "stored", email |-> e, tenant |-> None]

AdminOf(t, e) == [presence |-> "stored", email |-> e, tenant |-> t]

InsertTenant(r, t) ==
  LET row == reqs[r].entity IN
  /\ reqs[r].at = "insertTenant" /\ ~Refused(r)
  /\ tenants[t].presence = "unused"
  /\ tenants' = [tenants EXCEPT ![t] = row]
  /\ reqs' = [reqs EXCEPT ![r].at = "insertAdmin", ![r].tenant = t,
                 ![r].entity = AdminOf(t, row.email)]
  /\ UNCHANGED <<users, providers, configs, verified, faults, cutOff>>

BeginRegister(r, e, t) ==
  /\ UserEmailFree(e)
  /\ Enter(r, [Idle EXCEPT !.at = "insertUser",
                !.entity = [presence |-> "stored", email |-> e, tenant |-> t]])
  /\ UNCHANGED <<tables, faults, cutOff>>

\* The first admin of a new tenant, or a registered user.
InsertUser(r, u) ==
  /\ reqs[r].at \in {"insertAdmin", "insertUser"} /\ ~Refused(r)
  /\ users[u].presence = "unused"
  /\ users' = [users EXCEPT ![u] = reqs[r].entity]
  /\ Writes(r, Idle, HoldTenant(reqs[r].entity.tenant), {})
  /\ UNCHANGED <<tenants, providers, configs, verified, faults, cutOff>>

\* Variant: the tenant is loaded with an empty list of users.
LoadTenantAlone(r, at, t, row, asked) ==
  /\ Stored(tenants[t])
  /\ Enter(r, [Idle EXCEPT !.at = at, !.tenant = t, !.entity = row, !.asked = asked])
  /\ UNCHANGED <<tables, faults, cutOff>>

\* getTenant, and the handler that goes on with the tenant as loaded.
LoadTenant(r, at, t, row, asked) ==
  /\ Stored(tenants[t])
  /\ Enter(r, [Idle EXCEPT !.at = at, !.tenant = t, !.entity = row, !.asked = asked, !.users = UsersOf(t)])
  /\ UNCHANGED <<tables, faults, cutOff>>

\* None is a field that the body does not have.
Given(value, old) == IF value = None THEN old ELSE value

\* The columns of a body with the email e and the quota q.
BodyColumns(e, q) == (IF e = None THEN {} ELSE {"email"}) \union (IF q = None THEN {} ELSE {"quota"})

\* Variant: the body's defaults are those of a new tenant.
UpdateWithDefaults(r, t, e, q) ==
  LoadTenant(r, "saveTenant", t,
             [tenants[t] EXCEPT !.email = Given(e, @), !.quota = Given(q, @), !.status = "active"],
             BodyColumns(e, q))

BeginUpdateTenant(r, t, e, q) ==
  LET old == tenants[t] IN
  LoadTenant(r, IF Given(e, old.email) # old.email THEN "checkEmail" ELSE "saveTenant", t,
             [old EXCEPT !.email = Given(e, @), !.quota = Given(q, @)],
             BodyColumns(e, q))

BeginUpdateTenantStatus(r, t, s) ==
  LoadTenant(r, "saveTenant", t, [tenants[t] EXCEPT !.status = s], {"status"})

BeginUpdateTenantQuota(r, t, q) ==
  LoadTenant(r, "saveTenant", t, [tenants[t] EXCEPT !.quota = q], {"quota"})

BeginDeleteTenant(r, t) == LoadTenant(r, "removeTenant", t, tenants[t], {})

CheckEmail(r) ==
  /\ reqs[r].at = "checkEmail"
  /\ MovesOrEnds(r, TenantEmailFree(reqs[r].entity.email, None), "saveTenant")
  /\ UNCHANGED <<tables, faults, cutOff>>

\* tenant.users: who is in the list belongs to the tenant, who is not does not.
RelinkedUsers(t, loaded) ==
  [u \in Users |-> IF ~Stored(users[u]) THEN users[u]
                   ELSE IF u \in loaded THEN [users[u] EXCEPT !.tenant = t]
                   ELSE IF users[u].tenant = t THEN [users[u] EXCEPT !.tenant = None]
                   ELSE users[u]]

SaveTenant(r) ==
  LET t == reqs[r].tenant IN
  /\ reqs[r].at = "saveTenant" /\ ~Refused(r)
  /\ tenants' = [tenants EXCEPT ![t] = reqs[r].entity]
  /\ users' = RelinkedUsers(t, reqs[r].users)
  /\ cutOff' = cutOff \union (IF reqs[r].stale THEN {t} ELSE {})
  /\ Writes(r, Idle, HoldTenant(t), {})
  /\ UNCHANGED <<providers, configs, verified, faults>>

\* Variant: assignments are kept.
KeptConfigs(t) == configs

\* The foreign keys to tenants are ON DELETE CASCADE.
CascadedConfigs(t) ==
  [c \in Configs |-> IF Stored(configs[c]) /\ configs[c].tenant = t
                       THEN [configs[c] EXCEPT !.presence = "deleted"] ELSE configs[c]]

RemoveTenant(r) ==
  LET t == reqs[r].tenant IN
  /\ reqs[r].at = "removeTenant"
  /\ tenants' = [tenants EXCEPT ![t].presence = "deleted"]
  /\ users' = [u \in Users |-> IF u \in UsersOf(t) THEN [users[u] EXCEPT !.presence = "deleted"]
                                                  ELSE users[u]]
  /\ configs' = CascadedConfigs(t)
  /\ verified' = {v \in verified : v[1] # t}
  /\ Writes(r, Idle, HoldTenant(t) \union {q \in Requests : reqs[q].at = "saveConfig" /\ reqs[q].tenant = t},
            {})
  /\ UNCHANGED <<providers, faults, cutOff>>

-----------------------------------------------------------------------------
(***************************************************************************)
(* Assignments of providers to tenants.                                    *)
(***************************************************************************)
BeginAssign(r, t, p) ==
  /\ Stored(tenants[t])
  /\ Enter(r, [Idle EXCEPT !.at = "findProvider", !.tenant = t, !.provider = p])
  /\ UNCHANGED <<tables, faults, cutOff>>

FindProvider(r) ==
  /\ reqs[r].at = "findProvider"
  /\ MovesOrEnds(r, Stored(providers[reqs[r].provider]), "findConfig")
  /\ UNCHANGED <<tables, faults, cutOff>>

FindConfig(r) ==
  /\ reqs[r].at = "findConfig"
  /\ MovesOrEnds(r, Unassigned(reqs[r].tenant, reqs[r].provider), "insertConfig")
  /\ UNCHANGED <<tables, faults, cutOff>>

InsertConfig(r, c, enabled) ==
  LET t == reqs[r].tenant  p == reqs[r].provider IN
  /\ reqs[r].at = "insertConfig" /\ ~Refused(r)
  /\ configs[c].presence = "unused"
  /\ configs' = [configs EXCEPT ![c] = [presence |-> "stored", tenant |-> t, provider |-> p,
                                        enabled |-> enabled]]
  /\ Writes(r, Idle, {}, Past(p, {"countVerifications", "deactivate"}))
  /\ UNCHANGED <<tenants, users, providers, verified, faults, cutOff>>

BeginUpdateConfig(r, c, enabled) ==
  /\ Stored(configs[c])
  /\ Enter(r, [Idle EXCEPT !.at = "saveConfig", !.tenant = configs[c].tenant, !.config = c,
                           !.entity = [configs[c] EXCEPT !.enabled = enabled], !.asked = {"enabled"}])
  /\ UNCHANGED <<tables, faults, cutOff>>

SaveConfig(r) ==
  LET c == reqs[r].config IN
  /\ reqs[r].at = "saveConfig" /\ ~Refused(r)
  /\ configs' = [configs EXCEPT ![c] = reqs[r].entity]
  /\ Writes(r, Idle, HoldConfig(c),
            IF Stored(configs[c]) THEN {}
              ELSE Past(reqs[r].entity.provider, {"countVerifications", "deactivate"}))
  /\ UNCHANGED <<tenants, users, providers, verified, faults, cutOff>>

BeginDeleteConfig(r, t, c) ==
  /\ Stored(tenants[t])
  /\ Enter(r, [Idle EXCEPT !.at = "findTenantConfig", !.tenant = t, !.config = c])
  /\ UNCHANGED <<tables, faults, cutOff>>

FindTenantConfig(r) ==
  LET c == reqs[r].config IN
  /\ reqs[r].at = "findTenantConfig"
  /\ MovesOrEnds(r, Stored(configs[c]) /\ configs[c].tenant = reqs[r].tenant, "removeConfig")
  /\ UNCHANGED <<tables, faults, cutOff>>

RemoveConfig(r) ==
  LET c == reqs[r].config IN
  /\ reqs[r].at = "removeConfig"
  /\ configs' = [configs EXCEPT ![c].presence = "deleted"]
  /\ Writes(r, Idle, HoldConfig(c), {})
  /\ UNCHANGED <<tenants, users, providers, verified, faults, cutOff>>

-----------------------------------------------------------------------------
(***************************************************************************)
(* Providers.                                                              *)
(***************************************************************************)
BeginCreateProvider(r, active, s) ==
  /\ Enter(r, [Idle EXCEPT !.at = "insertProvider",
                !.entity = [presence |-> "stored", active |-> active, secret |-> s]])
  /\ UNCHANGED <<tables, faults, cutOff>>

InsertProvider(r, p) ==
  /\ reqs[r].at = "insertProvider"
  /\ providers[p].presence = "unused"
  /\ providers' = [providers EXCEPT ![p] = reqs[r].entity]
  /\ Ends(r)
  /\ UNCHANGED <<tenants, users, configs, verified, faults, cutOff>>

\* The provider as read, and what the handler goes on to do with it.
LoadProvider(r, at, p, row, asked) ==
  /\ Stored(providers[p])
  /\ Enter(r, [Idle EXCEPT !.at = at, !.provider = p, !.entity = row, !.asked = asked])
  /\ UNCHANGED <<tables, faults, cutOff>>

BeginUpdateProvider(r, p, active, s) ==
  LoadProvider(r, "saveProvider", p,
               [providers[p] EXCEPT !.active = Given(active, @), !.secret = Given(s, @)],
               (IF active = None THEN {} ELSE {"active"}) \union (IF s = None THEN {} ELSE {"secret"}))

BeginUpdateProviderStatus(r, p, active) ==
  LoadProvider(r, "saveProvider", p, [providers[p] EXCEPT !.active = active], {"active"})

BeginDeleteProvider(r, p) ==
  LoadProvider(r, "countConfigs", p, [providers[p] EXCEPT !.active = FALSE], {"active"})

CountConfigs(r) ==
  /\ reqs[r].at = "countConfigs"
  /\ MovesOrEnds(r, \A c \in Configs : Stored(configs[c]) => configs[c].provider # reqs[r].provider,
                 "countVerifications")
  /\ UNCHANGED <<tables, faults, cutOff>>

\* Variant: only assignments keep a provider from being deleted.
SkipVerifications(r) ==
  /\ reqs[r].at = "countVerifications"
  /\ Moves(r, "deactivate")
  /\ UNCHANGED <<tables, faults, cutOff>>

CountVerifications(r) ==
  /\ reqs[r].at = "countVerifications"
  /\ MovesOrEnds(r, \A v \in verified : v[2] # reqs[r].provider, "deactivate")
  /\ UNCHANGED <<tables, faults, cutOff>>

\* Variant: a body without is_active activates the provider.
SaveActive(r) ==
  LET p == reqs[r].provider IN
  /\ reqs[r].at \in {"saveProvider", "deactivate"}
  /\ providers' = [providers EXCEPT ![p] = [reqs[r].entity EXCEPT !.active = @ \/ "active" \notin reqs[r].asked]]
  /\ Writes(r, Idle, HoldProvider(p), {})
  /\ UNCHANGED <<tenants, users, configs, verified, faults, cutOff>>

SaveProvider(r) ==
  LET p == reqs[r].provider IN
  /\ reqs[r].at \in {"saveProvider", "deactivate"}
  /\ providers' = [providers EXCEPT ![p] = reqs[r].entity]
  /\ Writes(r, Idle, HoldProvider(p), {})
  /\ UNCHANGED <<tenants, users, configs, verified, faults, cutOff>>

-----------------------------------------------------------------------------
(***************************************************************************)
(* createVerification, as far as it uses the above.                        *)
(***************************************************************************)

\* getPrimaryProviderForTenant, which asks whether the assignment is enabled.
BeginVerification(r, t, c) ==
  /\ Stored(configs[c]) /\ configs[c].tenant = t /\ configs[c].enabled
  /\ Enter(r, [Idle EXCEPT !.at = "getProvider", !.tenant = t, !.provider = configs[c].provider])
  /\ UNCHANGED <<tables, faults, cutOff>>

\* getProviderById and getProviderEntityById.
ActiveProvider(p) == Stored(providers[p]) /\ providers[p].active

GetProvider(r) ==
  /\ reqs[r].at = "getProvider"
  /\ MovesOrEnds(r, ActiveProvider(reqs[r].provider), "insertVerification")
  /\ UNCHANGED <<tables, faults, cutOff>>

InsertVerification(r) ==
  LET t == reqs[r].tenant  p == reqs[r].provider IN
  /\ reqs[r].at = "insertVerification" /\ ~Refused(r)
  /\ verified' = verified \union {<<t, p>>}
  /\ Writes(r, Idle, {}, Past(p, {"deactivate"}))
  /\ UNCHANGED <<tenants, users, providers, configs, faults, cutOff>>

-----------------------------------------------------------------------------
(***************************************************************************)
(* Failures.                                                               *)
(***************************************************************************)

\* A tenant that is stored without its admin.
CutOff(r) == IF reqs[r].at = "insertAdmin" THEN {reqs[r].tenant} ELSE {}

\* A query fails, or the database turns a write down; the handler throws, and what
\* it stored before stays.  (saveTenant also fails if an account of the tenant was
\* added meanwhile, whose tenant_id may not be set to null.)
DatabaseError(r) ==
  /\ \/ reqs[r].at # "idle" /\ faults < MaxFaults /\ faults' = faults + 1
     \/ Refused(r) /\ UNCHANGED faults
  /\ cutOff' = cutOff \union CutOff(r)
  /\ Ends(r)
  /\ UNCHANGED tables

\* The process dies with every request in flight.
Crash ==
  /\ faults < MaxFaults
  /\ faults' = faults + 1
  /\ \E r \in Requests : reqs[r].at # "idle"
  /\ cutOff' = cutOff \union UNION {CutOff(r) : r \in Requests}
  /\ reqs' = [r \in Requests |-> Idle]
  /\ UNCHANGED tables

-----------------------------------------------------------------------------
TenantRequest(r) ==
  \/ \E e \in Emails, s \in Statuses, q \in Quotas : BeginCreateTenant(r, e, s, q)
  \/ \E e \in Emails, t \in Tenants \union {None} : BeginRegister(r, e, t)
  \/ \E t \in Tenants, e \in Emails \union {None}, q \in Quotas \union {None} : BeginUpdateTenant(r, t, e, q)
  \/ \E t \in Tenants, s \in Statuses : BeginUpdateTenantStatus(r, t, s)
  \/ \E t \in Tenants, q \in Quotas : BeginUpdateTenantQuota(r, t, q)
  \/ \E t \in Tenants : BeginDeleteTenant(r, t)

ProviderRequest(r) ==
  \/ \E t \in Tenants, p \in Providers : BeginAssign(r, t, p)
  \/ \E c \in Configs, enabled \in BOOLEAN : BeginUpdateConfig(r, c, enabled)
  \/ \E t \in Tenants, c \in Configs : BeginDeleteConfig(r, t, c) \/ BeginVerification(r, t, c)
  \/ \E active \in BOOLEAN, s \in Secrets \union {None} : BeginCreateProvider(r, active, s)
  \/ \E p \in Providers, active \in BOOLEAN \union {None}, s \in Secrets \union {None} :
       BeginUpdateProvider(r, p, active, s)
  \/ \E p \in Providers, active \in BOOLEAN : BeginUpdateProviderStatus(r, p, active)
  \/ \E p \in Providers : BeginDeleteProvider(r, p)

Continue(r) ==
  \/ \E t \in Tenants : InsertTenant(r, t)
  \/ \E u \in Users : InsertUser(r, u)
  \/ CheckEmail(r) \/ SaveTenant(r) \/ RemoveTenant(r)
  \/ FindProvider(r) \/ FindConfig(r) \/ SaveConfig(r) \/ FindTenantConfig(r) \/ RemoveConfig(r)
  \/ \E c \in Configs, enabled \in BOOLEAN : InsertConfig(r, c, enabled)
  \/ \E p \in Providers : InsertProvider(r, p)
  \/ CountConfigs(r) \/ CountVerifications(r) \/ SaveProvider(r)
  \/ GetProvider(r) \/ InsertVerification(r)
  \/ DatabaseError(r)

Next == Crash \/ \E r \in Requests : TenantRequest(r) \/ ProviderRequest(r) \/ Continue(r)

Spec == Init /\ [][Next]_vars

-----------------------------------------------------------------------------
(***************************************************************************)
(* Properties.                                                             *)
(***************************************************************************)

\* Every handler holds what its next query is about, in the form of its table.
HandlerOK(req) ==
  /\ req.at \in TenantSaves => req.tenant \in Tenants /\ req.entity \in Tenant
  /\ req.at = "insertTenant" => req.entity \in Tenant /\ Stored(req.entity)
  /\ req.at \in {"insertAdmin", "insertUser"} => req.entity \in User /\ Stored(req.entity)
  /\ req.at = "insertAdmin" => req.tenant \in Tenants /\ req.entity.tenant = req.tenant
  /\ req.at = "insertProvider" => req.entity \in Provider
  /\ req.at \in Deletions \union {"saveProvider"} => req.provider \in Providers /\ req.entity \in Provider
  /\ req.at \in Verifying \union {"findProvider", "findConfig", "insertConfig"} =>
       req.tenant \in Tenants /\ req.provider \in Providers
  /\ req.at \in {"saveConfig", "findTenantConfig", "removeConfig"} => req.config \in Configs
  /\ req.at = "saveConfig" => req.entity \in Config /\ Stored(req.entity)

AdministrationTypeOK ==
  /\ tenants \in [Tenants -> Tenant]
  /\ users \in [Users -> User]
  /\ providers \in [Providers -> Provider]
  /\ configs \in [Configs -> Config]
  /\ verified \subseteq Tenants \X Providers
  /\ reqs \in [Requests -> Request]
  /\ \A r \in Requests : HandlerOK(reqs[r])
  /\ faults \in 0 .. MaxFaults
  /\ cutOff \subseteq Tenants

\* No user, assignment or verification is left of a tenant that was deleted,
\* whatever handlers were about to store one or to save the tenant once more.
RowsHaveTenants ==
  /\ \A u \in Users : Stored(users[u]) => MayBelongTo(users[u].tenant)
  /\ \A c \in Configs : Stored(configs[c]) => Stored(tenants[configs[c].tenant])
  /\ \A v \in verified : Stored(tenants[v[1]])

\* createTenant is not atomic: a tenant without any user is one whose admin is
\* still to be stored, or whose creation ended after its first INSERT, or that a
\* stale save brought back or parted from its users.
TenantsHaveUsers ==
  \A t \in Tenants : Stored(tenants[t]) =>
    \/ UsersOf(t) # {}
    \/ \E r \in Requests : reqs[r].at = "insertAdmin" /\ reqs[r].tenant = t
    \/ t \in cutOff

InUse(p) ==
  \/ \E c \in Configs : Stored(configs[c]) /\ configs[c].provider = p
  \/ \E v \in verified : v[2] = p

\* deleteProvider deactivates no provider in use, unless an assignment or a
\* verification was added after it was counted; and createVerification uses no
\* inactive provider, unless it was deactivated after it was found.
ProvidersInUseStay ==
  \A r \in Requests :
    /\ reqs[r].at = "deactivate" /\ InUse(reqs[r].provider) => reqs[r].late
    /\ reqs[r].at = "insertVerification" /\ ~providers[reqs[r].provider].active => reqs[r].stale

\* Request r saves tenant t, provider p or assignment c in this step.
SavesTenant(r, t)   == reqs[r].at = "saveTenant" /\ reqs[r].tenant = t /\ reqs'[r] = Idle
SavesProvider(r, p) == reqs[r].at \in {"saveProvider", "deactivate"} /\ reqs[r].provider = p /\ reqs'[r] = Idle
SavesConfig(r, c)   == reqs[r].at = "saveConfig" /\ reqs[r].config = c /\ reqs'[r] = Idle

\* An update writes the columns that the request asked for and no others, and a
\* deleted tenant stays deleted, unless the save overtakes another write.
TenantsChangeAsAsked ==
  [][\A t \in Tenants :
       tenants[t].presence # "unused" /\ Stored(tenants'[t]) /\ tenants'[t] # tenants[t] =>
         \E r \in Requests :
           /\ SavesTenant(r, t)
           /\ \/ reqs[r].stale
              \/ /\ Stored(tenants[t])
                 /\ tenants'[t].email # tenants[t].email => "email" \in reqs[r].asked
                 /\ tenants'[t].status # tenants[t].status => "status" \in reqs[r].asked
                 /\ tenants'[t].quota # tenants[t].quota => "quota" \in reqs[r].asked]_vars

\* A user leaves the tenant, or comes back to it, only when a save of the tenant
\* overtakes another write: an update of the tenant is not about its users.
UsersMoveOnlyByStaleSave ==
  [][\A u \in Users :
       Stored(users[u]) /\ (users'[u].tenant # users[u].tenant \/ users'[u].presence = "deleted") =>
         \E r \in Requests :
           \/ \E t \in Tenants : SavesTenant(r, t) /\ reqs[r].stale /\ Stored(users'[u])
           \/ reqs[r].at = "removeTenant" /\ reqs[r].tenant = users[u].tenant]_vars

\* The same of providers and assignments: one that was deactivated, whose secret
\* was rotated or that was deleted meanwhile is written back only by a stale save.
ProvidersChangeAsAsked ==
  [][/\ \A p \in Providers :
         Stored(providers[p]) /\ providers'[p] # providers[p] =>
           \E r \in Requests :
             /\ SavesProvider(r, p)
             /\ \/ reqs[r].stale
                \/ /\ providers'[p].active # providers[p].active => "active" \in reqs[r].asked
                   /\ providers'[p].secret # providers[p].secret => "secret" \in reqs[r].asked
     /\ \A c \in Configs :
         configs[c].presence = "deleted" /\ Stored(configs'[c]) =>
           \E r \in Requests : SavesConfig(r, c) /\ reqs[r].stale]_vars
=============================================================================
