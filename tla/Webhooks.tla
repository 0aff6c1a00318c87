------------------------------ MODULE Webhooks ------------------------------
(***************************************************************************)
(* WebhooksService.handleProviderWebhook (src/webhooks/webhooks.service.ts)*)
(* beside the handlers of Verifications: what IDmeta posts is logged,      *)
(* authenticated twice and written over the verification it names, while   *)
(* requests of the tenant advance, finalize and override the same row.     *)
(*                                                                         *)
(* The signature is checked with the provider's webhook secret as read     *)
(* from the database, and then again by the IDmetaProvider instance, which *)
(* holds the credentials it was initialized with for as long as the        *)
(* process lives.                                                          *)
(*                                                                         *)
(* The branch that updates the linked account is left out: it asks for     *)
(* 'approved' or 'verified', and mapStatus answers neither before          *)
(* finalization (theorem StepStatusesStored).                              *)
(***************************************************************************)
EXTENDS Verifications

CONSTANTS
  Hooks,          \* webhook calls that can be in flight at once
  Logs,           \* rows of webhook_logs
  Secrets,        \* webhook secrets of the provider
  Uninitialized   \* the provider instance has no credentials yet

ASSUME SecretsAssumption ==
  /\ None \notin Secrets \union Logs
  /\ Uninitialized \notin Secrets \union {None}

VARIABLES
  logs,      \* the webhook_logs table
  hooks,     \* the handler of each webhook call in flight
  secret,    \* providers.webhook_secret of IDmeta
  cached,    \* credentials.webhookSecret of the IDmetaProvider instance
  applied    \* history: the logged webhooks written to their verification

hookVars == <<logs, hooks, secret, cached, applied>>

Log == [status       : {"absent", "received", "processed", "failed"},
        about        : Ids \union {None},       \* payload.verification_id, by its row
        signed       : Secrets \union {None},   \* the secret of the signature, if any
        intact       : BOOLEAN,                 \* payload serialises to what was signed
        stable       : BOOLEAN,                 \* and does so when read back from jsonb
        verification : Ids \union {None}]       \* verification_id

NoLog == [status |-> "absent", about |-> None, signed |-> None,
          intact |-> TRUE, stable |-> TRUE, verification |-> None]

Hook == [at     : {"idle", "lookup", "check", "refuse", "handle", "apply", "complete"},
         log    : Logs \union {None},
         secret : Secrets \union {None}]        \* webhook_secret as read

NoHook == [at |-> "idle", log |-> None, secret |-> None]

WebhooksTypeOK ==
  /\ logs \in [Logs -> Log]
  /\ hooks \in [Hooks -> Hook]
  /\ secret \in Secrets \union {None}
  /\ cached \in Secrets \union {None, Uninitialized}
  /\ applied \subseteq Logs

WebhooksInit ==
  /\ Init
  /\ logs = [l \in Logs |-> NoLog]
  /\ hooks = [h \in Hooks |-> NoHook]
  /\ secret \in Secrets \union {None}
  /\ cached = Uninitialized
  /\ applied = {}

HookEnds(h)      == hooks' = [hooks EXCEPT ![h] = NoHook]
HookMoves(h, at) == hooks' = [hooks EXCEPT ![h].at = at]

\* The log that call h works for, and the verification it is about.
LogOf(h)   == logs[hooks[h].log]
AboutOf(h) == LogOf(h).about

-----------------------------------------------------------------------------
(***************************************************************************)
(* The handler.                                                            *)
(***************************************************************************)

\* The log row is saved before anything is checked.
BeginHook(h, l, log) ==
  /\ hooks[h].at = "idle"
  /\ logs[l].status = "absent"
  /\ logs' = [logs EXCEPT ![l] = log]
  /\ hooks' = [hooks EXCEPT ![h] = [NoHook EXCEPT !.at = "lookup", !.log = l]]
  /\ UNCHANGED <<secret, cached, applied>>
  /\ UNCHANGED vars

\* IDmeta reports on a session it opened; that its id may not be stored yet is
\* no obstacle.  The payload's status is left open until it is used.
ReceiveWebhook(h, l, v, s, stable) ==
  /\ Exists(v)
  /\ rows[v].provider = "IDmeta"
  /\ BeginHook(h, l, [NoLog EXCEPT !.status = "received", !.about = v, !.signed = s,
                                    !.stable = stable])

\* replayWebhook handles a logged payload anew, whatever became of it.  The
\* payload comes back from a jsonb column, which orders the keys its own way.
ReplayWebhook(h, l, k) ==
  /\ logs[k].status # "absent"
  /\ BeginHook(h, l, [logs[k] EXCEPT !.status = "received", !.intact = logs[k].stable,
                                      !.verification = None])

\* Variant: the secret is taken from the instance instead of the database.
LookupCached(h) ==
  /\ hooks[h].at = "lookup"
  /\ hooks' = [hooks EXCEPT ![h] = [@ EXCEPT !.at = "check", !.secret = cached]]
  /\ UNCHANGED <<logs, secret, cached, applied>>
  /\ UNCHANGED vars

\* getProviderEntityById.
LookupProvider(h) ==
  /\ hooks[h].at = "lookup"
  /\ hooks' = [hooks EXCEPT ![h] = [@ EXCEPT !.at = "check", !.secret = secret]]
  /\ UNCHANGED <<logs, secret, cached, applied>>
  /\ UNCHANGED vars

\* Variant: a missing signature passes.
AcceptsUnsigned(log, s) == s # None /\ log.signed \in {s, None} /\ log.intact

\* verifySignature: HMAC over the payload as it serialises now.
Authentic(log, s) == s # None /\ log.signed = s /\ log.intact

\* `if (!provider.isInitialized)`: only the first one to come sets the credentials.
Initialize(s) == cached' = IF cached = Uninitialized THEN s ELSE cached

\* A payload from which no tenant can be inferred is checked like any other.
CheckSignature(h) ==
  /\ hooks[h].at = "check"
  /\ Initialize(hooks[h].secret)
  /\ HookMoves(h, IF Authentic(LogOf(h), hooks[h].secret) THEN "handle" ELSE "refuse")
  /\ UNCHANGED <<logs, secret, applied>>
  /\ UNCHANGED vars

\* The log is marked failed and the call answered 401.
RefuseWebhook(h) ==
  /\ hooks[h].at = "refuse"
  /\ logs' = [logs EXCEPT ![hooks[h].log].status = "failed"]
  /\ HookEnds(h)
  /\ UNCHANGED <<secret, cached, applied>>
  /\ UNCHANGED vars

\* Variant: an instance without a secret turns every payload down.
AcceptedIfConfigured(h) == cached # None /\ Authentic(LogOf(h), cached)

\* IDmetaProvider.handleWebhook checks the signature again if it holds a secret,
\* and throws; then the row is looked up by its external id, if stored.  In both
\* cases the log stays 'received'.
AcceptedByProvider(h) == cached = None \/ Authentic(LogOf(h), cached)

HandleWebhook(h) ==
  /\ hooks[h].at = "handle"
  /\ IF AcceptedByProvider(h) /\ rows[AboutOf(h)].ext # None
       THEN HookMoves(h, "apply")
       ELSE HookEnds(h)
  /\ UNCHANGED <<logs, secret, cached, applied>>
  /\ UNCHANGED vars

\* Variant: the log is marked before the verification is written.
CompleteFirst(h) ==
  /\ hooks[h].at = "apply"
  /\ logs' = [logs EXCEPT ![hooks[h].log] =
                [@ EXCEPT !.status = "processed", !.verification = AboutOf(h)]]
  /\ HookMoves(h, "complete")
  /\ UNCHANGED <<secret, cached, applied>>
  /\ UNCHANGED vars

\* The UPDATE writes the status whatever the row holds by now.
ApplyWebhook(h) ==
  /\ hooks[h].at = "apply"
  /\ \E status \in StepStatuses : rows' = [rows EXCEPT ![AboutOf(h)].status = status]
  /\ applied' = applied \union {hooks[h].log}
  /\ HookMoves(h, "complete")
  /\ UNCHANGED <<accounts, files, primary, reqs, faults, decisions>>
  /\ UNCHANGED <<logs, secret, cached>>

\* Events and the client's callback follow; their failures are swallowed.
CompleteWebhook(h) ==
  /\ hooks[h].at = "complete"
  /\ logs' = [logs EXCEPT ![hooks[h].log] =
                [@ EXCEPT !.status = "processed", !.verification = AboutOf(h)]]
  /\ HookEnds(h)
  /\ UNCHANGED <<secret, cached, applied>>
  /\ UNCHANGED vars

\* A query is refused: the handler rethrows.
WebhookError(h) ==
  /\ hooks[h].at # "idle"
  /\ faults < MaxFaults
  /\ faults' = faults + 1
  /\ HookEnds(h)
  /\ UNCHANGED <<rows, accounts, files, primary, reqs, decisions>>
  /\ UNCHANGED <<logs, secret, cached, applied>>

-----------------------------------------------------------------------------
(***************************************************************************)
(* The rest of the process.                                                *)
(***************************************************************************)

\* AdminService.updateProvider writes the secret, and nothing tells the instance.
RotateSecret(s) ==
  /\ s # secret
  /\ secret' = s
  /\ UNCHANGED <<logs, hooks, cached, applied>>
  /\ UNCHANGED vars

\* createVerification, the steps and finalization initialize the instance too.
RequestArrives(r, v) ==
  /\ Receive(r, v)
  /\ IF primary = "IDmeta" /\ reqs'[r].at \in {"session", "save", "call", "finalize"}
       THEN Initialize(secret)
       ELSE UNCHANGED cached
  /\ UNCHANGED <<logs, hooks, secret, applied>>

\* The process dies with every call in flight and the instance's credentials.
Restart ==
  /\ faults < MaxFaults
  /\ faults' = faults + 1
  /\ reqs' = [r \in Requests |-> Idle]
  /\ hooks' = [h \in Hooks |-> NoHook]
  /\ cached' = Uninitialized
  /\ UNCHANGED <<rows, accounts, files, primary, decisions>>
  /\ UNCHANGED <<logs, secret, applied>>

ContinueHook(h) ==
  \/ LookupProvider(h) \/ CheckSignature(h) \/ RefuseWebhook(h)
  \/ HandleWebhook(h) \/ ApplyWebhook(h) \/ CompleteWebhook(h) \/ WebhookError(h)

Post(h, l) ==
  \/ \E v \in Ids, s \in Secrets \union {None}, stable \in BOOLEAN : ReceiveWebhook(h, l, v, s, stable)
  \/ \E k \in Logs : ReplayWebhook(h, l, k)

WebhooksNext ==
  \/ \E h \in Hooks : ContinueHook(h)
  \/ \E h \in Hooks, l \in Logs : Post(h, l)
  \/ \E s \in Secrets : RotateSecret(s)
  \/ \E r \in Requests : Continue(r) /\ UNCHANGED hookVars
  \/ \E r \in Requests, v \in Ids : RequestArrives(r, v)
  \/ \E a \in Accounts : RemoveAccount(a) /\ UNCHANGED hookVars
  \/ \E p \in Providers : AssignProvider(p) /\ UNCHANGED hookVars
  \/ Restart

webhooksVars == <<vars, hookVars>>

WebhooksSpec == WebhooksInit /\ [][WebhooksNext]_webhooksVars

\* As for requests, the event loop runs every webhook handler to its end.
WebhooksFairSpec == WebhooksSpec /\ \A h \in Hooks : WF_webhooksVars(ContinueHook(h))

-----------------------------------------------------------------------------
\* A webhook log tells what became of the payload: 'processed' if it was written
\* to the verification the log names, 'failed' only if it was not.
LogsAreTruthful ==
  \A l \in Logs :
    /\ logs[l].status = "processed" => l \in applied /\ logs[l].verification = logs[l].about
    /\ logs[l].status = "failed" => l \notin applied

\* Nothing is written to a verification on the strength of a payload that was
\* not signed, or that a replay read back in another form than was signed,
\* however the secret is rotated and the handlers interleave.  The code promises
\* more than SYSTEM_ARCHITECTURE.md, which exempts payloads without a tenant.
OnlyAuthenticApplied ==
  \A l \in applied : logs[l].signed \in Secrets /\ logs[l].intact

\* Without database errors or crashes, and while the secret stays what it is, an
\* authentic webhook about a session whose id is stored is processed.
AuthenticWebhookProcessed ==
  \A h \in Hooks, l \in Logs :
    ( /\ hooks[h].at = "lookup" /\ hooks[h].log = l
      /\ Authentic(logs[l], secret)
      /\ rows[logs[l].about].ext # None ) ~> (logs[l].status = "processed")

\* "Initialize provider with centralized credentials (always initialize)": what has
\* passed the check with the provider's secret is not turned down by the instance,
\* which checks with the secret it was initialized with.
CheckedWebhookIsHandled ==
  [][\A h \in Hooks :
       /\ hooks[h].at = "handle" /\ hooks'[h].at = "idle"
       /\ UNCHANGED faults
       => rows[AboutOf(h)].ext = None]_webhooksVars
=============================================================================
