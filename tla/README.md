# Verification of the KYC adapter

TLA+ models, TLC runs and TLAPS proofs for the KYC adapter backend (`src/`, a
NestJS service over PostgreSQL and Redis).  A tenant creates *verifications*;
the adapter runs their steps against an external identity provider (IDmeta, or
the built-in Mock), stores what the provider answers, lets staff override a
result, takes the provider's webhooks, and credits an *account* when a
verification is finalized.  Around this stand users and their credentials, the
administration of tenants and providers, and the events that tell browsers and
the tenant's server what became of a verification.

What makes the system hard is that every handler reads a row, awaits (a provider
call, a file, another query) and then writes the row back, with no transaction,
lock or version column anywhere.  The models interleave the handlers at those
awaits.

## 1. Inventory

Paths are below `src/src/`; line numbers are those of `PROJECT.json`.

| Component | State | Operations | Model |
|---|---|---|---|
| Status algebra, `common/verification-status.enum.ts` | none | `normalizeProviderStatus`, `numericStatusToLegacy` | `VerificationStatus`, complete except for `legacyStatusToNumeric`, which nothing calls |
| Verification handlers, `verifications/verifications.service.ts` | table `verifications`, `metadata.verification_steps`, image files | create, 6 government steps, 5 image steps, finalize, manual finalize, override, upload, single-step processing | `Verifications` |
| Accounts as credited, same file | table `accounts`, `verifications.account_id` | `saveAccountFromVerification` | `Verifications`, promise in `AccountLedger` |
| AccountsService, `accounts/` | table `accounts` | update, remove | both (with `ON DELETE SET NULL`) in `Verifications` |
| File storage, `common/file-storage.service.ts` | files `uploads/verifications/<id>/<step>` | `saveBase64Image` | variable `files` of `Verifications` |
| IDmeta provider | credentials of the instance | calls, status maps, `handleWebhook` | answers in `VerificationStatus`, `cached` in `Webhooks` |
| Mock provider | none | decides at once | `SessionStatuses` |
| Provider webhooks, `webhooks/webhooks.service.ts` | table `webhook_logs` | `handleProviderWebhook`, `replayWebhook` | `Webhooks`; its event and callback in `Events` |
| Providers factory | instances by name | primary provider, by id, by slug | variable `primary` of `Verifications`; activation in `Administration` |
| Administration, `admin/admin.service.ts` | tenants, providers, assignments, users | create/update/delete | `Administration`; the effect of a rotated secret in `Webhooks` |
| Authentication, `auth/` | refresh tokens, API keys | login, register, refresh, revoke, keys | `Sessions`; `register` in `Administration` |
| Events, `websocket/`, `shared/redis.service.ts` | rooms, Redis connection | start, publish, subscribe, join, broadcast | `Events`; in `Verifications` a publication is an await that may fail |
| Outgoing webhooks | none | one POST, retry not implemented | `SendCallback` in `Events` |
| Schema, `database/migrations` | unique columns, foreign keys | cascades | guards and cascades of `Verifications`, `Sessions`, `Administration` |
| Bootstrap, `main.ts` | none | start | `Events`, as far as it waits for Redis |
| Tenant statistics, encryption | none | read-only, library calls | not modelled |

Interactions.  Controllers call the services, one asynchronous handler per HTTP
request.  The verification handlers and the webhook handler call the provider
instance that `ProvidersFactory` keeps for the process, write the same row of
`verifications`, and publish events.  Only finalization writes `accounts` from a
verification; deleting an account clears `verifications.account_id` through the
foreign key.  Deleting a tenant removes its users, their tokens and keys, its
assignments and verifications, through foreign keys as well, under every handler
that is about to store one.  Events go through Redis, if it is configured, and
only webhooks are also broadcast directly.

Hard behaviours, all listed with their lines under `hazards` in `PROJECT.json`:
stale read-modify-write of `verification_steps`; a status stored over a decision
taken meanwhile; two finalizations of one verification; a failure between the
account and its link; an upload that fails half way; a file emptied for a new
upload whose write then fails, while the row still names it; webhooks that come early,
twice, replayed, or while the secret is rotated; two refreshes of one token, or one
that is cut off between its two writes or whose answer is lost; entities that are loaded with their
relations and saved whole, over whatever was written meanwhile; counts that are
stale when the provider is deactivated; a subscription that is made before there is
a connection, and a Redis that cannot be reached, goes away or falls silent; crashes.

What makes each component correct:

* status algebra: no answer before finalization becomes a positive status;
* verification handlers: a positive status was decided by someone entitled to; a
  step loses another step's record only in the way the code admits; a single-step
  upload leaves 'processing';
* accounts: an account exists only on the strength of a finalized verification, and
  links point to live accounts;
* file storage: an image that is recorded can be served;
* webhooks: a log says what became of the payload; only authenticated payloads are
  written, which is what the code does and stricter than a document (section 6); an
  authentic one is;
* authentication: rotation replaces a token once and revokes it only for a successor,
  revocation is final, nothing outlives its user;
* administration: no row outlives its tenant, an update changes what it was asked to,
  a provider in use is not deactivated;
* events: an event reaches the room it is about and no other, and its failure
  fails no handler that has stored its result, except an override and an upload, nor
  keeps the callback from being sent.

## 2. Modules

```
VerificationStatus  <-  Verifications  <-  Webhooks  <-  MCWebhooks
                          |  |                     |
            AccountLedger    |  MCVerifications    |
            (INSTANCE)       |                     |
                     VerificationsProofs      WebhooksProofs
                             |                     |
                        LedgerProofs               |
                             |                     |
                        ImagesProofs  -------------+

Sessions <- MCSessions        Administration <- MCAdministration        Events <- MCEvents
         <- SessionsProofs                   <- AdministrationProofs           <- EventsProofs
```

The last three stand apart: sessions and administration read no column that a
verification handler writes, and events none at all, so that their products with
`Verifications` would only interleave independent steps.

**`VerificationStatus`** translates `normalizeProviderStatus` branch by branch
over raw statuses (number, boolean, text, missing), one word per spelling since
the code upper-cases, and composes it with IDmeta's maps.  `StepStatuses` and
`FinalStatuses` are everything a step or a finalization can store; the other
modules draw the provider's answer from them.

**`Verifications`** holds

| Variable | Code |
|---|---|
| `rows` | table `verifications`: status, provider, who issued the external id, `account_id`, whether `user_metadata` was given, `metadata.verification_steps`, `is_overridden` |
| `accounts` | table `accounts`: status and the verification it was last credited for |
| `files` | image files by verification and step |
| `primary` | the tenant's primary provider, read at each call |
| `reqs` | per request in flight: the await it stands at and the local variables that survive it |
| `faults` | database errors and crashes so far (bound `MaxFaults`) |
| `decisions` | history: the positive decisions someone entitled took |

One action is one handler's code between two awaits.  `Begin...` actions carry
the checks of a handler (a request that fails them changes nothing and is left
out), `Store...` actions the answer and the `UPDATE`.  `CreateVerification`,
`StoreSession` are `createVerification`; `BeginImageStep`, `OpenImage`,
`WriteImage`, `StoreImageStep` the five steps with images (`writeFile` empties the
file before it fills it); `BeginGovernmentStep`,
`StoreGovernmentStep` PhilSys and the five government databases; `BeginFinalize`
to `LinkAccount` the two finalizations with `saveAccountFromVerification`;
`BeginOverride`, `StoreOverride` the override; `BeginUpload` to `RejectUpload`
the single-step upload; `BeginUpdateAccount`, `StoreUpdatedAccount` the
load, merge and save of `AccountsService.update`, which writes back columns a
finalization credited meanwhile.  `CallFails` and `DatabaseError` are the throws, `Crash`
the end of the process.

Merged for size, where nothing can tell the difference: the read of the row, of
the primary provider and the publication of 'progress' at the beginning of a
step (the row's fields used later are the ones read first, and a failure there
has changed nothing); the provider's answer and the `UPDATE` that stores it; the
front and back image of a document.  One tenant is modelled, since every query
filters by `tenant_id`.  Rows of `verification_documents` are not modelled.

**`AccountLedger`** is the abstract promise about accounts: six lines of state
machine without requests, awaits or failures.  `Verifications` implements it
(`ImplementsLedger`), with the history of decisions as the set of finalized
verifications.

**`Webhooks`** extends `Verifications` with `handleProviderWebhook` and
`replayWebhook`.  A log row keeps which verification the payload is about, which
secret signed it, and whether it still serialises to what was signed: a replay
reads the payload from a `jsonb` column, whose key order is PostgreSQL's
(`stable`).  `cached` is the secret the provider instance was initialized with;
it survives until `Restart`.  Status and payload are left open until
they are applied.  Whether a tenant can be inferred from the payload is left out: the code
only warns when it cannot.  The branch that updates the linked account asks for a status
that IDmeta's map never gives a webhook (theorem `StepStatusesStored`), so it is
left out.

**`Sessions`** is `auth.service.ts` with the guards.

| Variable | Code |
|---|---|
| `users` | the users still in the table |
| `access` | users with an access token that has not expired (nothing is stored of it) |
| `tokens`, `keys` | tables `refresh_tokens` and `api_keys`: owner, revoked or active, expired |
| `reqs`, `faults` | as above |
| `forked` | history: tokens whose refresh overlapped another or was cut off before its UPDATE |
| `lost` | history: tokens whose answer was not delivered |

`BeginLogin`/`StoreLogin` and `BeginRefresh`/`StoreSuccessor`/`RevokeToken` are login and
rotation, one action per query, and `Answer` or `AnswerLost` what becomes of the response:
a token is stored, and the one before it revoked, while the client may not have the new
one and never get it; `BeginUseKey`/`TouchKey` the guard with
`validateApiKey`, `BeginRevokeKey`/`DeactivateKey` the revocation; `RemoveUser` what
`deleteTenant` does to a user, with the cascades; `ExpireToken`, `ExpireKey` and
`ExpireAccess` are time.  The parent of a token is history: no column holds it.
Secrets are abstracted, so that presenting a token is naming it.

**`Administration`** is `admin.service.ts`, `register` and the part of
`createVerification` that uses a provider.  The tables `tenants`, `users`,
`providers`, `configs` and the pairs of `verified` are variables; a handler in
`reqs` carries the entity it will save, with the relation it loaded
(`tenant.users`), and what the client asked to change.  `save` writes the
whole entity: columns changed meanwhile go back, a deleted row is
inserted again, and the users of a tenant are relinked to the list that was
loaded (`RelinkedUsers`, TypeORM's `Repository.save`, marked external).  `Refused` gathers the
unique columns and foreign keys; `CascadedConfigs` and `RemoveTenant` what they
cascade to.  `stale`, `late` and `cutOff` are history: a handler's entity or count was
overtaken, a creation ended between its two INSERTs.  Priorities, names and
capabilities are left out, so that any enabled assignment may be the primary one.

**`Events`** is the start of the process (`ConstructGateway`, which subscribes;
`Connect`, which comes later; `ConnectionReady`, `PingAnswered`, `ConnectionFails`,
`ConnectTimeout`, the promise that `onModuleInit` returns), the connection to Redis
while serving (`LoseRedis`, `RetryRedis`: it is lost, or stays open while Redis
answers nothing, `silent`), rooms (`Join`, `Leave`) and four kinds
of handlers that publish: steps (with finalization), overrides, single-step uploads and
webhooks, reduced to the order in which they store, publish and answer.  The client is
`undefined` before `onModuleInit`, `null` without Redis, and otherwise in one of
ioredis' states.  `got` and `posts` are history: who was told of what.  A request is
used once, so that the histories say all of it.  What a process that dies leaves
behind is not in this module: no state here survives it, and what it has stored is
in the others.

**`MCVerifications`**, **`MCWebhooks`**, **`MCSessions`**, **`MCAdministration`** and
**`MCEvents`** add symmetry sets and constraints; **`VerificationsProofs`**,
**`LedgerProofs`**, **`ImagesProofs`**, **`WebhooksProofs`**, **`SessionsProofs`**,
**`AdministrationProofs`** and **`EventsProofs`** hold the theorems.

Definitions that are marked *Variant* and are used nowhere are plausible mistakes
in the operation below them; the `mutants` of `PROJECT.json` say which property
each of them breaks.

## 3. Runs

| Run | Instance | Shows |
|---|---|---|
| `finalize` | 2 verifications, 2 accounts, 2 requests, 1 fault | `AccountsAreEarned`, `NewAccountOnlyWhenUnlinked`, `CreditsLostOnlyByStaleUpdate`, `ImplementsLedger`, `HandlersInOrder` under concurrent creation, finalization, override, and update and deletion of accounts |
| `steps` | 1 verification, 2 requests, 2 steps (one with an optional image), 1 fault, with and without `user_metadata` | `TypeOK`, `RecordedImagesAreStored`, `StepsLostOnlyByStaleWrite` under image and government steps and a change of provider |
| `statuses` | 1 verification, 3 requests, no fault | `PositiveStatusIsDecided` and `SingleStepSettles` while a step, both finalizations, an override, an upload and a change of provider overwrite each other's status |
| `webhooks` | 2 calls, 2 logs, 2 secrets, 1 request, 1 fault | `LogsAreTruthful`, `OnlyAuthenticApplied`, `PositiveStatusIsDecided` under rotation, replay and restart |
| `webhook_answers` | 1 call, 2 logs, 1 secret, no fault | `AuthenticWebhookProcessed` |
| `sessions` | 1 user, 3 refresh tokens, 1 API key, 2 requests, 1 fault | `TokensForkOnlyByOverlap`, `RevokedOnlyWhenReplaced`, `CredentialsHaveUsers`, `RevokedKeyStaysRevoked`, `ReplacedTokenIsRevoked` while tokens expire, answers are lost and the user is deleted |
| `administration` | 1 tenant, 2 users, 1 provider, 2 assignments, 2 emails, 2 quotas, 2 requests, 1 fault, within `TenantsOrProviders` | `RowsHaveTenants`, `TenantsHaveUsers`, `ProvidersInUseStay`, `TenantsChangeAsAsked`, `UsersMoveOnlyByStaleSave`, `ProvidersChangeAsAsked` |
| `events` | 2 verifications, 1 connection, 2 requests, with and without Redis, 1 outage | `BootSettles`, `FailedAfterStoreOnlyByOutage`, `EventsReachOnlyTheirRoom`, `WebhookReachesRoom`, `CallbackIsSent` |
| `one_account`, `images_preserved`, `webhook_secret`, `live_updates` | the smallest that suffice | the code does not do what a comment or document says, section 6 |

Bounds.  Two handlers of the same row show every interference of one handler's
read and write with another's; a third is in `statuses`, where an upload, an
override and the unfinished creation meet.  Two verifications and two accounts let
an account be credited by one and linked to another, and be deleted in between;
with one image an upload and a re-upload of the same step already differ in what
they find.  One fault splits any handler once, which is what each partial-failure
hazard needs; without a bound the models would only repeat lost requests.
Requests reuse their slots, so sequences are not bounded, only concurrency is.
Account ids are not reused, so a run that used them up creates no more; deletion and
credit of both are reached before that.

Three refresh tokens are a login and two successors of its token, the least that
forks, or a chain of two rotations; two tokens could not fork.  One user suffices,
since no query of one user's credentials touches another's.  One tenant and one
provider suffice for what one row suffers; two users let one be registered beside
the first admin, two assignments let one be inserted while the other is deleted.
`TenantsOrProviders` keeps the administration run small: once a provider exists, a
tenant is only created, active, with its admin, and deleted, and nothing fails.  All
of tenants, users and failures is explored without providers; the two parts meet
only in the deletion of a tenant, the assignments and the verifications, which the
constraint leaves in.  In `events` a second verification gives a
connection a room the event is not about; one outage separates a Redis that was
lost from one that was never there, and as `RetryRedis` leads from one kind of outage to the
other, it shows both.

Deadlock is not checked: with all ids and log rows used the system rests, as
the real one does without requests.

## 4. Fairness

`FairSpec` of `Verifications` and of `Sessions` ask weak fairness of `Continue(r)` for each request and
`WebhooksFairSpec` of `ContinueHook(h)` for each webhook call: Node's event loop
resumes a handler once its await settles, and each await does, with a result or
an error: the provider call has a timeout in the HTTP client, queries and files
answer or fail.  That a publication settles as well is an assumption about Redis, which
has no timeout of its own once it is connected; `SingleStepSettles` and
`AuthenticWebhookProcessed` hold only as long as Redis does not fall silent for good.
Nothing is assumed of clients, staff, administrators or the
provider's webhooks, and nothing of *how* an await settles: a call may fail each
time.  The liveness runs of verifications and webhooks have `MaxFaults = 0`: after a crash or a refused
`UPDATE` in the catch a row stays in 'processing', and no code recovers it.
`AuthenticWebhookProcessed` also fixes the secret; `webhook_secret` shows why.
`ReplacedTokenIsRevoked` is checked with a fault: its promise
excepts the refresh that was cut off.  It is stated as one formula over all tokens, for which
TLC needs a third of the time of one per token; the two are equivalent because a
revocation, a deletion and a cut-off are never undone.

`FairSpec` of `Events` adds the timer of ten seconds (`ConnectTimeout`), and nothing about
Redis: whether it is ever ready, answers the ping, is lost, falls silent or comes back is open.  A
publication is enabled only while Redis is not `silent`, so that a handler that publishes
then waits, as the code does.  `WebhookReachesRoom` therefore excepts an outage, for
then nothing is broadcast, and `CallbackIsSent` is promised when Redis does not stay
silent: the webhook publishes before it sends the callback.  `BootSettles` likewise names what
it needs, that the start does not wait for the ping for ever.

## 5. Proofs

The theorems hold for any sets of ids, accounts, requests, steps, images, logs,
secrets, tokens, keys, tenants, users, providers, assignments and connections and any
bound on faults and outages, from the named assumptions of the module they are about
only: that the placeholders (`None`, `NoImage`, `Truncated`, ...) are not members of
those sets, that subsets are subsets, and that the bounds are numbers.  Every safety invariant and every action
property of a passing run is the subject of a theorem.

`VerificationsProofs`:

* `NotVerifiedBeforeFinalized`, `StepStatusesStored`: the status algebra never
  makes a step's answer positive, and stores only known strings;
* `TypeCorrect`: `Spec => []TypeOK`;
* `OnlyDecidedPositives`: `Spec => []PositiveStatusIsDecided`;
* `EveryAccountEarned`: `Spec => []AccountsAreEarned`;
* `HandlersStayInOrder`: `Spec => []HandlersInOrder`.

None of these is inductive alone.  A finalization that
has reached `find` must already have seen 'verified', or its credit would be
unearned; an image save writes `reqs[r].image` into `files` under
`reqs[r].step`, which keeps the type only if both are not null there.
`HandlersInOrder` says what each program counter implies; with it (`Typed`) the types and
the two invariants are each kept by every action, which is proved action by
action.  That a step keeps `PositiveStatusIsDecided` uses that step
statuses are not positive, the lemma about the status algebra.  TLC checks
`HandlersInOrder` in run `finalize` as well.

`LedgerProofs`, `AccountsFollowLedger`: `Spec => ImplementsLedger`.  Initial states
map to initial states, and every step to a step of the ledger or a stutter: crediting an
account to `Credit`, linking to `Link`, storing a finalization that says
'verified' to `Finalize`, creation with an account to `Open`, removal to `Delete`,
everything else to a stutter.  It needs,
besides `Typed`, the invariant `Present`: a row that was not created is empty and
undecided, and a handler in flight works on a row that was.  Without it the
creation of a row could change a link the ledger sees.  An update of an account is a
`Credit` to the verification it had read: the ledger allows it because a verification that was
finalized stays finalized, which is what `HandlersInOrder` says of the handler.
`CreditsAreLostOnlyToStaleUpdates`: `Spec => CreditsLostOnlyByStaleUpdate`, action by
action under `Typed` and `NothingLeft`: an account that is not there rests on no
verification.
`AccountsAreOpenedOnlyWhenUnlinked`: `Spec => NewAccountOnlyWhenUnlinked`.  A handler
opens an account when the link it read before names no account that is there.  The
danger is an account that comes back: it is deleted, a finalization finds nothing,
a stale update restores it, and some handler links it again before the first one
opens another.  `LinkedOnce` excludes this.  Links name accounts that are there
(`LinksLive`, the foreign key); the account of a handler is one that was opened (`Seeks`); one
that was not found is no longer linked (`Apart`); and a handler
links only the account it opened itself, which no other handler of the row has read or is
about to link (`OneOpener`).  So a link that was cleared is never written again.
TLC checked `LinkedOnce` as an invariant of the instance of run `finalize` before it was proved.

`ImagesProofs`:

* `RecordedImagesHaveFiles`: `Spec => []RecordedImagesAreStored`.  A handler may write back
  what it read arbitrarily long ago, so the invariant is strengthened by
  `StepsReadAreStored` (the images among the steps a handler has read have files)
  and `ImagesWrittenAreStored` (so has the image it has saved itself); files are
  replaced, never removed (`FilesStay`).
* `StepsAreLostOnlyToStaleWrites`: `Spec => StepsLostOnlyByStaleWrite`, action by
  action under `Typed` and `Present`.

`WebhooksProofs` is about `WebhooksSpec`, in which webhooks, replays, rotations and
restarts interleave with every verification handler.  The invariant has two parts.
`RowsInv` is that of the verifications (`Typed`, `Decided`, `Present`).  It survives because
a step of `WebhooksSpec` is a step of `Next`, one write of a status that is not
positive, or an end of handlers (`StepOfRows`, `ApplyEffect`).  `HooksInv` adds
what a call in flight relies on: its log is still 'received' and it alone works on it
(`OneHookPerLog`); the log was applied exactly if only its completion is left; past the
check the payload is authentic and as it was signed (`HookInOrder`); a log
names a verification that exists (`LogsInOrder`), which no step removes (`RowsStay`).

* `WebhooksTypeCorrect`, `OnlyAuthenticWebhooksApplied`, `LogsStayTruthful`: the types,
  `OnlyAuthenticApplied` and `LogsAreTruthful`, from `HooksInv`;
* `WebhooksDecideNothing`: `PositiveStatusIsDecided` and `AccountsAreEarned` hold of
  `WebhooksSpec` too;
* `WebhooksFollowLedger`, `WebhooksKeepAccounts`: so do `ImplementsLedger`,
  `NewAccountOnlyWhenUnlinked` and `CreditsLostOnlyByStaleUpdate`, since a
  webhook writes neither an account nor a link;
* `WebhooksKeepImages`, `WebhooksKeepSteps`: and `RecordedImagesAreStored` and
  `StepsLostOnlyByStaleWrite`, since its update leaves the metadata alone.

`SessionsProofs` proves, from the one inductive invariant `Inv`:

* `SessionsTypeCorrect`, `NothingOutlivesItsUser`: the types, and
  `CredentialsHaveUsers`, which is inductive with them;
* `RotationIsExclusive`: `Spec => []TokensForkOnlyByOverlap`.  That a token has two
  successors shows only at the second INSERT, so the invariant says earlier what will
  lead there: of two refreshes of one token the second is an overlap (`Alone`), a
  token with a successor is revoked, deleted or about to be revoked (`Spent`), and a refresh
  that has yet to store a successor of a token that has one is an overlap
  (`Second`).  `Fresh` and `Lineage` keep a new token from being its own parent's heir;
* `RevocationFollowsReplacement`: `Spec => []RevokedOnlyWhenReplaced`, with `Heirs`: a refresh
  about to revoke has stored a successor, for the user of the token (`OwnToken`), which
  is the one it will answer with.  It does not say that nobody is logged out: an answer
  that is lost after the revocation leaves the client without a token, which the
  property allows for that token (`lost`) and nothing in the code prevents;
* `RevocationIsFinal`: `Spec => RevokedKeyStaysRevoked`, with `FreshKeys`: an id that was
  not used has no revoked key to bring back.

`EventsProofs` proves, from `EventsInv`: `EventsTypeCorrect`; `EventsSeldomFailRequests`,
`Spec => []FailedAfterStoreOnlyByOutage`, which needs that the client of a process that
serves is lost or ended only after an outage (`ClientFollowsBoot`) and that a handler has
stored what its position says, an upload from its first query on
(`HandlerInOrder`); `EventsStayInTheirRoom`, `Spec => EventsReachOnlyTheirRoom`, which
holds because the gateway's subscription never comes about, so that
only `Emit` tells anybody anything.

`AdministrationProofs` proves, from the inductive invariant `AdminInv`:

* `AdministrationTypeCorrect`, `RowsKeepTenants`: the types and `RowsHaveTenants`;
* `TenantsKeepTheirUsers`: `Spec => []TenantsHaveUsers`;
* `UsedProvidersStay`: `Spec => []ProvidersInUseStay`;
* `TenantUpdatesAreAsAsked`, `UsersStayWithTenant`, `ProviderUpdatesAreAsAsked`: the
  action properties `TenantsChangeAsAsked`, `UsersMoveOnlyByStaleSave` and
  `ProvidersChangeAsAsked`.

These properties excuse a handler that was overtaken, so the invariant has to say what holds
of one that was not (`Held`).  Unless it is `stale`, the tenant or provider it will save is the
row but for the columns the client asked for, its list of users is that of the tenant
(`TenantHeld`), the provider it will use is active (`ProviderHeld`) and the
assignment it will save is there (`ConfigHeld`); unless it is `late`, what a deletion
counted is still so (`CountHeld`).  A stale handler is bound as well: the users it
loaded are of its tenant or of none, and no user was loaded with two tenants
(`LoadedOnce`); without that, a stale save could take the users of a tenant that was in
nobody's hands, and `TenantsHaveUsers` would fail.  `ConfigsNamed` lets an assignment that is
inserted again name its tenant, which the foreign key then asks for.  The proof has a
frame lemma for handlers whose rows nobody wrote (`Kept`) and one for those that a write overtakes
(`Overtakes`), a lemma for each action that writes a table, and `WhoWrites`
for the action properties.  TLC checked `AdminInv` as an invariant before it was proved.

Only model-checked: the liveness properties `SingleStepSettles`,
`AuthenticWebhookProcessed`, `ReplacedTokenIsRevoked`, `BootSettles`, `WebhookReachesRoom`
and `CallbackIsSent`.  Liveness under fairness, and facts about `ENABLED`, are out of the
prover's reach.

## 6. Where code and documents differ

Four differences are shown by runs, whose counterexample is what the code does:

* `one_account`: the new account is saved before it is linked; a second finalization
  in between finds no link and creates another account.
* `images_preserved`: each image step writes back the steps it read before the
  provider call, so concurrent ones drop each other's image; the document on image
  storage says all are preserved.
* `webhook_secret`: a comment (`webhooks.service.ts:57`) says the provider is always
  initialized; it is initialized once, and checks the signature again with the secret it got
  then, so rotation leaves webhooks that the service has authenticated in 'received'.
* `live_updates`: the gateway subscribes in its constructor, before `onModuleInit` has
  made a Redis client, and `subscribe` returns without one.  What the steps
  publish therefore reaches no browser; the integration guide says all verification
  endpoints support WebSocket updates.  Webhooks reach the room, being broadcast directly
  (`WebhookReachesRoom` holds).

Five more need no interleaving to be seen.  In each the model follows the code, so that
what is checked and proved is what the code does, *against* the document:

* Government steps.  `FRONTEND_INTEGRATION_PH_GOVERNMENT_APIS.md` gives 'approved' as a status each
  endpoint may answer (lines 106, 151, 194, 275, 320, 385), lets clients poll for it (494)
  and explains it as "Verification succeeded" (524).  `normalizeProviderStatus` answers
  no success before the finalization (`verification-status.enum.ts:128`, `:161`): a
  government step that succeeds stores and answers 'processing', as
  `NotVerifiedBeforeFinalized` and `StepStatusesStored` prove.
  `PositiveStatusIsDecided` states this behaviour.
* Webhooks.  `SYSTEM_ARCHITECTURE.md:740` maps IDmeta's webhook statuses to 'approved' among others, line
  899 lists it in the events, lines 416-418 let the webhook update the account with verified
  data, and the comment at `webhooks.service.ts:145` announces that update.  The same
  normalization (`idmeta.provider.ts:638`) makes 'processing' of a success, so that the update is
  never reached and is not modelled.  The test that expects 'approved'
  (`webhooks.service.spec.ts:98`) puts a mock in the place of the provider.
  `PositiveStatusIsDecided` and `WebhooksDecideNothing` are about the code.
* Payloads without a tenant.  `SYSTEM_ARCHITECTURE.md:913` says that if no tenant can be inferred "signature
  verification is skipped but the update is still processed", as its diagram does (884-889), and
  line 715 that the signature is verified "if secret present".  The code checks every payload,
  only warns of the missing tenant (`webhooks.service.ts:111-115`), and refuses when the provider has no
  secret (85-96).  `OnlyAuthenticApplied` is the stricter promise of the code.
* A Redis that cannot be reached.  `redis.service.ts:123` says "Redis connection failed (continuing
  without Redis)", and `SYSTEM_ARCHITECTURE.md:990` calls Redis optional.  `onModuleInit` returns its
  promise from inside `try` (47) without awaiting it, so that a rejection escapes that
  `catch`, and the process exits.  `ConnectionFails` and `ConnectTimeout` end in `failed` for
  this reason; no property calls that correct.
* A Redis that falls silent during the start.  The message at `redis.service.ts:58` promises a
  "timeout after 10 seconds"; 'ready' clears that timer (94) before the ping (96), which has none.  A Redis
  that accepts the connection and then does not answer hangs the start, which is
  why `BootSettles` excepts a ping that is never answered.

Not recorded as a divergence, because no document claims otherwise, but visible in the
properties: an upload whose rejection was stored is answered with an error when that
event cannot be published, as an override is, the client whose new refresh token is lost on
the way is logged out, two refreshes of one token may both succeed, an update of a tenant may
part it from users registered meanwhile, a finalized verification goes back to
'processing' under a late step, an account update may undo a credit.

## 7. Plan

Done, the system's most important behaviour first: status algebra, verification
handlers, accounts and their update, webhooks, sessions, administration, events, and the theorems
of section 5.  Next:

1. an abstract specification of token rotation (a family of tokens with one live
   leaf), implemented by `Sessions` as long as no refreshes overlap, with its proof;
2. the hazards without a property: the priority of assignments, with which
   `getPrimaryProviderForTenant` may pick an inactive provider, and the default of a quota.

Not modelled, and why: the rows of `verification_documents` (written once, read by
nobody who decides), statistics, lists and reports (read-only), encryption (library
calls), the check that a provider's name is new (`BeginCreateProvider` lets both names in; no
other handler reads a name), the HTTP exchange with IDmeta and the checks of image bytes (I/O whose result
is an answer or an error), the priority of assignments and the class of a provider (any
enabled assignment is the primary one, any provider answers), quotas (no code reads
them before it creates a verification), handlers without a route or caller (among them
`AccountsService.create`), and cross-tenant isolation (every
query is filtered in its own text, which a model could only restate).

`SaveTenant`, `SaveProvider` and `SaveConfig` are one step where TypeORM reads the row again,
computes the difference and writes the columns that differ.  Of a request that writes the row
between these queries the model loses every column or none, whereas the code would lose those
that its first query saw differ, and a row deleted between them stays deleted: the
properties already excuse the save as overtaken in either case.
