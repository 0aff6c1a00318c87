--------------------------- MODULE WebhooksProofs ---------------------------
(***************************************************************************)
(* Proofs about Webhooks: what is written on the strength of a payload,    *)
(* what the log tells of it, and that the promises about verifications and *)
(* accounts survive webhooks written over the rows at any moment.          *)
(***************************************************************************)
EXTENDS Webhooks, ImagesProofs

\* A log row that was used is about a verification that exists, and only such a
\* one was applied.
LogsInOrder ==
  \A l \in Logs :
    IF logs[l].status = "absent"
      THEN l \notin applied
      ELSE logs[l].about \in Ids /\ Exists(logs[l].about)

\* A call in flight works for a log that is still 'received', and has applied it
\* when only its completion is left; past the check the payload is authentic.
HookInOrder(h) ==
  hooks[h].at # "idle" =>
    /\ hooks[h].log \in Logs
    /\ LogOf(h).status = "received"
    /\ hooks[h].at = "complete" <=> hooks[h].log \in applied
    /\ hooks[h].at \in {"handle", "apply", "complete"} => LogOf(h).signed \in Secrets /\ LogOf(h).intact

\* No two calls in flight share a log row.
OneHookPerLog ==
  \A g, h \in Hooks :
    hooks[g].at # "idle" /\ hooks[h].at # "idle" /\ hooks[g].log = hooks[h].log => g = h

HooksInv ==
  /\ WebhooksTypeOK
  /\ LogsInOrder
  /\ OneHookPerLog
  /\ \A h \in Hooks : HookInOrder(h)
  /\ LogsAreTruthful
  /\ OnlyAuthenticApplied

\* What the verifications contribute.
RowsInv == Typed /\ Decided /\ Present

-----------------------------------------------------------------------------
(***************************************************************************)
(* What a step is for the verifications.                                   *)
(***************************************************************************)

\* A webhook's query fails, or the process restarts.
Fails ==
  /\ faults < MaxFaults
  /\ faults' = faults + 1
  /\ reqs' = reqs \/ reqs' = [r \in Requests |-> Idle]
  /\ UNCHANGED <<rows, accounts, files, primary, decisions>>

LEMMA StepOfRows ==
  ASSUME WebhooksNext
  PROVE  [Next]_vars \/ (\E h \in Hooks : ApplyWebhook(h)) \/ Fails
<1>1. ASSUME NEW h \in Hooks, ContinueHook(h), ~ApplyWebhook(h)
      PROVE  UNCHANGED vars \/ Fails
  BY <1>1 DEF ContinueHook, LookupProvider, CheckSignature, RefuseWebhook, HandleWebhook,
              CompleteWebhook, WebhookError, Fails
<1>2. ASSUME NEW h \in Hooks, NEW l \in Logs, Post(h, l)
      PROVE  UNCHANGED vars
  BY <1>2 DEF Post, ReceiveWebhook, ReplayWebhook, BeginHook
<1>3. ASSUME NEW s \in Secrets, RotateSecret(s)
      PROVE  UNCHANGED vars
  BY <1>3 DEF RotateSecret
<1>4. ASSUME NEW r \in Requests, NEW v \in Ids, RequestArrives(r, v)
      PROVE  Next
  BY <1>4 DEF RequestArrives, Next
<1>5. Restart => Fails
  BY DEF Restart, Fails
<1> QED
  BY <1>1, <1>2, <1>3, <1>4, <1>5 DEF WebhooksNext, Next

\* No verification is ever deleted.
LEMMA RowsStay ==
  ASSUME Typed, Present, [Next]_vars, NEW v \in Ids, Exists(v)
  PROVE  Exists(v)'
<1>1. CASE UNCHANGED vars
  BY <1>1 DEF vars, Exists
<1>2. ASSUME NEW r \in Requests, Stores(r) PROVE Exists(v)'
  BY <1>2, StoreEffect DEF Exists, LegacyStatuses
<1>3. ASSUME NEW r \in Requests, Passes(r) PROVE Exists(v)'
  BY <1>3, PassEffect DEF Exists
<1>4. ASSUME NEW r \in Requests, CreditAccount(r) PROVE Exists(v)'
  BY <1>4, CreditEffect DEF Exists
<1>5. ASSUME NEW r \in Requests, LinkAccount(r) PROVE Exists(v)'
  BY <1>5, LinkEffect DEF Exists
<1>6. ASSUME NEW r \in Requests, NEW w \in Ids, Receive(r, w) PROVE Exists(v)'
  BY <1>6, ReceiveEffect DEF Exists
<1>7. ASSUME NEW r \in Requests, StoreUpdatedAccount(r) PROVE Exists(v)'
  BY <1>7, UpdateEffect DEF Exists
<1>8. ASSUME NEW a \in Accounts, RemoveAccount(a) PROVE Exists(v)'
  BY <1>8, RemoveEffect DEF Exists
<1>9. CASE \/ \E r \in Requests, a \in Accounts : BeginUpdateAccount(r, a)
           \/ \E p \in Providers : AssignProvider(p)
           \/ Crash
  BY <1>9 DEF BeginUpdateAccount, AssignProvider, Crash, Exists
<1> QED
  BY <1>1, <1>2, <1>3, <1>4, <1>5, <1>6, <1>7, <1>8, <1>9 DEF Next, Continue, Stores, Passes

\* A webhook writes a status that is no positive decision, in a row that exists.
LEMMA ApplyEffect ==
  ASSUME Typed, HooksInv, NEW h \in Hooks, ApplyWebhook(h)
  PROVE  LET v == AboutOf(h) IN
         /\ v \in Ids /\ Exists(v)
         /\ rows'[v] \in Row
         /\ rows'[v].status \in LegacyStatuses \ Positive
         /\ rows'[v].account = rows[v].account /\ rows'[v].steps = rows[v].steps
         /\ rows' = [rows EXCEPT ![v] = rows'[v]]
         /\ UNCHANGED <<accounts, files, primary, reqs, faults, decisions>>
<1> DEFINE v == AboutOf(h)
<1>1. v \in Ids /\ Exists(v)
  BY DEF ApplyWebhook, HooksInv, HookInOrder, LogsInOrder, LogOf, AboutOf
<1>2. PICK status \in StepStatuses : rows' = [rows EXCEPT ![v].status = status]
  BY DEF ApplyWebhook
<1>3. status \in LegacyStatuses \ Positive
  BY StepAnswers
<1> DEFINE row == [rows[v] EXCEPT !.status = status]
<1>4. row \in Row /\ row.status = status /\ row.account = rows[v].account /\ row.steps = rows[v].steps
  BY <1>1, <1>3, StatusField DEF Typed, TypeOK, Row
<1>5. rows' = [rows EXCEPT ![v] = row]
  BY <1>2
<1> HIDE DEF row
<1>6. rows'[v] = row
  BY <1>1, <1>5 DEF Typed, TypeOK
<1>7. UNCHANGED <<accounts, files, primary, reqs, faults, decisions>>
  BY DEF ApplyWebhook
<1> QED
  BY <1>1, <1>3, <1>4, <1>5, <1>6, <1>7

LEMMA ApplyKeepsRows ==
  ASSUME RowsInv, HooksInv, NEW h \in Hooks, ApplyWebhook(h)
  PROVE  RowsInv'
<1> DEFINE v == AboutOf(h)
           row == rows'[v]
<1>1. /\ v \in Ids /\ Exists(v) /\ row \in Row /\ row.status \in LegacyStatuses \ Positive
      /\ rows' = [rows EXCEPT ![v] = row]
      /\ UNCHANGED <<accounts, files, primary, reqs, faults, decisions>>
  BY ApplyEffect DEF RowsInv
<1> HIDE DEF v, row
<1>2. TypeOK'
  BY <1>1 DEF RowsInv, Typed, TypeOK
<1>3. HandlersInOrder'
  BY <1>1 DEF RowsInv, Typed, HandlersInOrder
<1>4. PositiveStatusIsDecided'
  BY <1>1 DEF RowsInv, Decided, PositiveStatusIsDecided, Positive, Typed, TypeOK
<1>5. AccountsAreEarned'
  BY <1>1 DEF RowsInv, Decided, AccountsAreEarned, AccountExists
<1>6. Present'
  <2>1. row.status # "absent"
    BY <1>1 DEF LegacyStatuses
  <2>2. \A w \in Ids : (Exists(w) <=> Exists(w)') /\ (w # v => rows'[w] = rows[w])
    BY <1>1, <2>1 DEF Exists, RowsInv, Typed, TypeOK
  <2>3. \A w \in Ids : ~Exists(w)' => rows'[w] = NoRow /\ decisions'[w] = {}
    BY <1>1, <2>2 DEF RowsInv, Present
  <2>4. ASSUME NEW q \in Requests, reqs'[q].at \notin {"idle", "update"}
        PROVE  rows'[reqs'[q].id].status # "absent"
    <3>1. reqs[q].id \in Ids /\ Exists(reqs[q].id)
      BY <1>1, <2>4 DEF RowsInv, Present, Typed, HandlersInOrder
    <3> QED
      BY <1>1, <2>2, <3>1 DEF Exists
  <2> QED
    BY <2>3, <2>4 DEF Present, Exists
<1> QED
  BY <1>2, <1>3, <1>4, <1>5, <1>6 DEF RowsInv, Typed, Decided

LEMMA FailsKeepsRows ==
  ASSUME RowsInv, Fails
  PROVE  RowsInv'
<1>1. UNCHANGED <<rows, accounts, files, primary, decisions>> /\ faults' \in 0 .. MaxFaults
  BY FaultsAssumption DEF Fails, RowsInv, Typed, TypeOK
<1>2. reqs' = reqs \/ reqs' = [r \in Requests |-> Idle]
  BY DEF Fails
<1>3. reqs' \in [Requests -> Request]
  BY <1>2, IdleType DEF RowsInv, Typed, TypeOK
<1>4. TypeOK'
  BY <1>1, <1>3 DEF RowsInv, Typed, TypeOK
<1>5. HandlersInOrder'
  BY <1>1, <1>2 DEF RowsInv, Typed, HandlersInOrder, Idle
<1>6. Decided'
  BY <1>1, QuietStep DEF RowsInv, Decided
<1>7. Present'
  BY <1>1, <1>2 DEF RowsInv, Present, Exists, Idle
<1> QED
  BY <1>4, <1>5, <1>6, <1>7 DEF RowsInv, Typed

LEMMA RowsInvStep ==
  ASSUME RowsInv, HooksInv, WebhooksNext
  PROVE  /\ RowsInv'
         /\ \A v \in Ids : Exists(v) => Exists(v)'
<1>1. CASE [Next]_vars
  <2>1. Typed' /\ Decided' /\ Present'
    BY <1>1, TypeStep, DecidedStep, PresentStep DEF RowsInv, Decided
  <2>2. \A v \in Ids : Exists(v) => Exists(v)'
    BY <1>1, RowsStay DEF RowsInv
  <2> QED
    BY <2>1, <2>2 DEF RowsInv
<1>2. ASSUME NEW h \in Hooks, ApplyWebhook(h)
      PROVE  /\ RowsInv'
             /\ \A v \in Ids : Exists(v) => Exists(v)'
  <2>1. RowsInv'
    BY <1>2, ApplyKeepsRows
  <2>2. \A v \in Ids : Exists(v) => Exists(v)'
    BY <1>2, ApplyEffect DEF Exists, LegacyStatuses, RowsInv, Typed, TypeOK
  <2> QED
    BY <2>1, <2>2
<1>3. CASE Fails
  BY <1>3, FailsKeepsRows DEF Fails, Exists
<1> QED
  BY <1>1, <1>2, <1>3, StepOfRows

-----------------------------------------------------------------------------
(***************************************************************************)
(* The calls and their logs.                                               *)
(***************************************************************************)
LEMMA HooksInit == WebhooksInit => HooksInv
<1> SUFFICES ASSUME WebhooksInit PROVE HooksInv
  OBVIOUS
<1>1. NoLog \in Log /\ NoLog.status = "absent" /\ NoHook \in Hook /\ NoHook.at = "idle"
  BY DEF NoLog, Log, NoHook, Hook
<1>2. WebhooksTypeOK
  BY <1>1 DEF WebhooksInit, WebhooksTypeOK
<1>3. LogsInOrder /\ LogsAreTruthful /\ OnlyAuthenticApplied
  BY <1>1 DEF WebhooksInit, LogsInOrder, LogsAreTruthful, OnlyAuthenticApplied
<1>4. OneHookPerLog /\ \A h \in Hooks : HookInOrder(h)
  BY <1>1 DEF WebhooksInit, OneHookPerLog, HookInOrder
<1> QED
  BY <1>2, <1>3, <1>4 DEF HooksInv

\* Call h works for log l, or may take it because it is unused.
Owns(h, l) ==
  \/ hooks[h].at # "idle" /\ hooks[h].log = l
  \/ hooks[h].at = "idle" /\ logs[l].status = "absent"

\* A call that goes on as row, and leaves its log l as entry, keeps the invariant
\* if the two agree with each other and with what has been applied.
LEMMA OneHookMoves ==
  ASSUME HooksInv, NEW h \in Hooks, NEW l \in Logs, Owns(h, l),
         NEW row \in Hook, hooks' = [hooks EXCEPT ![h] = row],
         NEW entry \in Log, logs' = [logs EXCEPT ![l] = entry],
         secret' \in Secrets \union {None}, cached' \in Secrets \union {None, Uninitialized},
         applied' \subseteq Logs,
         \A k \in Logs : k # l => (k \in applied' <=> k \in applied),
         \A v \in Ids : Exists(v) => Exists(v)',
         entry.status # "absent", entry.about \in Ids, Exists(entry.about),
         entry.status = "processed" => l \in applied' /\ entry.verification = entry.about,
         entry.status = "failed" => l \notin applied',
         l \in applied' => entry.signed \in Secrets /\ entry.intact,
         row.at # "idle" =>
           /\ row.log = l
           /\ entry.status = "received"
           /\ row.at = "complete" <=> l \in applied'
           /\ row.at \in {"handle", "apply", "complete"} => entry.signed \in Secrets /\ entry.intact
  PROVE  HooksInv'
<1>1. hooks \in [Hooks -> Hook] /\ logs \in [Logs -> Log]
  BY DEF HooksInv, WebhooksTypeOK
<1>2. hooks'[h] = row /\ \A g \in Hooks : g # h => hooks'[g] = hooks[g]
  BY <1>1
<1>3. logs'[l] = entry /\ \A k \in Logs : k # l => logs'[k] = logs[k]
  BY <1>1
<1>4. \A g \in Hooks : g # h /\ hooks[g].at # "idle" => hooks[g].log \in Logs /\ hooks[g].log # l
  BY DEF Owns, HooksInv, HookInOrder, OneHookPerLog, LogOf
<1>5. WebhooksTypeOK'
  BY <1>1 DEF WebhooksTypeOK
<1>6. LogsInOrder'
  <2>0. \A v \in Ids : rows[v].status # "absent" => rows'[v].status # "absent"
    BY DEF Exists
  <2>1. logs'[l].status # "absent" /\ logs'[l].about \in Ids /\ rows'[logs'[l].about].status # "absent"
    BY <1>3, <2>0 DEF Exists
  <2>2. ASSUME NEW k \in Logs, k # l, logs'[k].status = "absent" PROVE k \notin applied'
    BY <1>3, <2>2 DEF HooksInv, LogsInOrder
  <2>3. ASSUME NEW k \in Logs, k # l, logs'[k].status # "absent"
        PROVE  logs'[k].about \in Ids /\ rows'[logs'[k].about].status # "absent"
    BY <1>3, <2>0, <2>3 DEF HooksInv, LogsInOrder, Exists
  <2> QED
    BY <2>1, <2>2, <2>3 DEF LogsInOrder, Exists
<1>7. OneHookPerLog'
  BY <1>2, <1>4 DEF OneHookPerLog, HooksInv
<1>8. ASSUME NEW g \in Hooks PROVE HookInOrder(g)'
  <2>1. CASE g = h
    BY <1>2, <1>3, <2>1 DEF HookInOrder, LogOf
  <2>2. CASE g # h
    BY <1>2, <1>3, <1>4, <2>2 DEF HooksInv, HookInOrder, LogOf
  <2> QED
    BY <2>1, <2>2
<1>9. LogsAreTruthful'
  BY <1>3 DEF HooksInv, LogsAreTruthful
<1>10. OnlyAuthenticApplied'
  BY <1>3 DEF HooksInv, OnlyAuthenticApplied
<1> QED
  BY <1>5, <1>6, <1>7, <1>8, <1>9, <1>10 DEF HooksInv

\* A call that moves to at, or ends, without a write.
LEMMA QuietHook ==
  ASSUME HooksInv, NEW h \in Hooks, hooks[h].at # "idle",
         NEW row \in Hook, hooks' = [hooks EXCEPT ![h] = row],
         UNCHANGED <<logs, secret, applied>>, cached' \in Secrets \union {None, Uninitialized},
         \A v \in Ids : Exists(v) => Exists(v)',
         row.at # "idle" =>
           /\ row.log = hooks[h].log
           /\ row.at = "complete" <=> hooks[h].at = "complete"
           /\ row.at \in {"handle", "apply", "complete"} => LogOf(h).signed \in Secrets /\ LogOf(h).intact
  PROVE  HooksInv'
<1> DEFINE l == hooks[h].log
           entry == logs[l]
<1>1. /\ l \in Logs /\ entry.status = "received"
      /\ hooks[h].at = "complete" <=> l \in applied
  BY DEF HooksInv, HookInOrder, LogOf
<1>2. entry \in Log /\ logs' = [logs EXCEPT ![l] = entry]
  BY <1>1 DEF HooksInv, WebhooksTypeOK
<1>3. entry.about \in Ids /\ Exists(entry.about)
  BY <1>1 DEF HooksInv, LogsInOrder
<1>4. l \in applied => entry.signed \in Secrets /\ entry.intact
  BY DEF HooksInv, OnlyAuthenticApplied
<1>5. secret' \in Secrets \union {None} /\ applied' = applied /\ applied \subseteq Logs
  BY DEF HooksInv, WebhooksTypeOK
<1>6. row.at \in {"handle", "apply", "complete"} => entry.signed \in Secrets /\ entry.intact
  BY DEF LogOf
<1>7. Owns(h, l)
  BY DEF Owns
<1> HIDE DEF entry
<1> QED
  BY <1>1, <1>2, <1>3, <1>4, <1>5, <1>6, <1>7, OneHookMoves

LEMMA MovedHook ==
  ASSUME HooksInv, NEW h \in Hooks, NEW at \in {"lookup", "check", "refuse", "handle", "apply", "complete"},
         HookMoves(h, at)
  PROVE  \E row \in Hook : /\ row.at = at /\ row.log = hooks[h].log
                           /\ hooks' = [hooks EXCEPT ![h] = row]
<1> DEFINE row == [hooks[h] EXCEPT !.at = at]
<1>1. row \in Hook /\ row.at = at /\ row.log = hooks[h].log
  BY DEF HooksInv, WebhooksTypeOK, Hook
<1>2. hooks' = [hooks EXCEPT ![h] = row]
  BY DEF HookMoves
<1> HIDE DEF row
<1> QED
  BY <1>1, <1>2

LEMMA NoHookType == NoHook \in Hook /\ NoHook.at = "idle"
  BY DEF NoHook, Hook

\* A call that is received or replayed takes an unused log.
LEMMA PostStep ==
  ASSUME HooksInv, NEW h \in Hooks, NEW l \in Logs, Post(h, l),
         \A v \in Ids : Exists(v) => Exists(v)'
  PROVE  HooksInv'
<1> DEFINE row == [NoHook EXCEPT !.at = "lookup", !.log = l]
<1>1. row \in Hook /\ row.at = "lookup" /\ row.log = l
  BY DEF NoHook, Hook
<1>2. PICK entry \in Log :
        /\ entry.status = "received" /\ entry.about \in Ids /\ Exists(entry.about)
        /\ BeginHook(h, l, entry)
  <2>1. CASE \E v \in Ids, s \in Secrets \union {None}, stable \in BOOLEAN : ReceiveWebhook(h, l, v, s, stable)
    <3> PICK v \in Ids, s \in Secrets \union {None}, stable \in BOOLEAN : ReceiveWebhook(h, l, v, s, stable)
      BY <2>1
    <3> DEFINE entry == [NoLog EXCEPT !.status = "received", !.about = v, !.signed = s, !.stable = stable]
    <3>1. entry \in Log /\ entry.status = "received" /\ entry.about = v
      BY DEF NoLog, Log
    <3>2. Exists(v) /\ BeginHook(h, l, entry)
      BY DEF ReceiveWebhook
    <3> HIDE DEF entry
    <3> QED
      BY <3>1, <3>2
  <2>2. CASE \E k \in Logs : ReplayWebhook(h, l, k)
    <3> PICK k \in Logs : ReplayWebhook(h, l, k)
      BY <2>2
    <3> DEFINE entry == [logs[k] EXCEPT !.status = "received", !.intact = logs[k].stable, !.verification = None]
    <3>1. logs[k] \in Log /\ logs[k].stable \in BOOLEAN
      BY DEF HooksInv, WebhooksTypeOK, Log
    <3>2. entry \in Log /\ entry.status = "received" /\ entry.about = logs[k].about
      BY <3>1 DEF Log
    <3>3. logs[k].about \in Ids /\ Exists(logs[k].about) /\ BeginHook(h, l, entry)
      BY DEF ReplayWebhook, HooksInv, LogsInOrder
    <3> HIDE DEF entry
    <3> QED
      BY <3>2, <3>3
  <2> QED
    BY <2>1, <2>2 DEF Post
<1>3. /\ hooks[h].at = "idle" /\ logs[l].status = "absent"
      /\ hooks' = [hooks EXCEPT ![h] = row] /\ logs' = [logs EXCEPT ![l] = entry]
      /\ UNCHANGED <<secret, cached, applied>>
  BY <1>2 DEF BeginHook
<1> HIDE DEF row
<1>4. Owns(h, l)
  BY <1>3 DEF Owns
<1>5. l \notin applied
  BY <1>3 DEF HooksInv, LogsInOrder
<1>6. secret \in Secrets \union {None} /\ cached \in Secrets \union {None, Uninitialized} /\ applied \subseteq Logs
  BY DEF HooksInv, WebhooksTypeOK
<1> QED
  BY <1>1, <1>2, <1>3, <1>4, <1>5, <1>6, OneHookMoves

LEMMA LookupStep ==
  ASSUME HooksInv, NEW h \in Hooks, LookupProvider(h),
         \A v \in Ids : Exists(v) => Exists(v)'
  PROVE  HooksInv'
<1> DEFINE row == [hooks[h] EXCEPT !.at = "check", !.secret = secret]
<1>1. row \in Hook /\ row.at = "check" /\ row.log = hooks[h].log
  BY DEF HooksInv, WebhooksTypeOK, Hook
<1>2. /\ hooks[h].at = "lookup" /\ hooks' = [hooks EXCEPT ![h] = row]
      /\ UNCHANGED <<logs, secret, cached, applied>>
  BY DEF LookupProvider
<1>3. cached \in Secrets \union {None, Uninitialized}
  BY DEF HooksInv, WebhooksTypeOK
<1> HIDE DEF row
<1> QED
  BY <1>1, <1>2, <1>3, QuietHook

\* Only a payload that verifies goes on to be handled.
LEMMA CheckStep ==
  ASSUME HooksInv, NEW h \in Hooks, CheckSignature(h),
         \A v \in Ids : Exists(v) => Exists(v)'
  PROVE  HooksInv'
<1>1. hooks[h].at = "check" /\ UNCHANGED <<logs, secret, applied>>
  BY DEF CheckSignature
<1>2. hooks[h].secret \in Secrets \union {None}
  BY DEF HooksInv, WebhooksTypeOK, Hook
<1>3. cached' \in Secrets \union {None, Uninitialized}
  BY <1>2 DEF CheckSignature, Initialize, HooksInv, WebhooksTypeOK
<1>4. CASE Authentic(LogOf(h), hooks[h].secret)
  <2>1. LogOf(h).signed \in Secrets /\ LogOf(h).intact
    BY <1>2, <1>4 DEF Authentic
  <2>2. HookMoves(h, "handle")
    BY <1>4 DEF CheckSignature
  <2>3. PICK row \in Hook : /\ row.at = "handle" /\ row.log = hooks[h].log
                           /\ hooks' = [hooks EXCEPT ![h] = row]
    BY <2>2, MovedHook
  <2> QED
    BY <1>1, <1>3, <2>1, <2>3, QuietHook
<1>5. CASE ~Authentic(LogOf(h), hooks[h].secret)
  <2>1. HookMoves(h, "refuse")
    BY <1>5 DEF CheckSignature
  <2>2. PICK row \in Hook : /\ row.at = "refuse" /\ row.log = hooks[h].log
                           /\ hooks' = [hooks EXCEPT ![h] = row]
    BY <2>1, MovedHook
  <2> QED
    BY <1>1, <1>3, <2>2, QuietHook
<1> QED
  BY <1>4, <1>5

LEMMA HandleStep ==
  ASSUME HooksInv, NEW h \in Hooks, HandleWebhook(h) \/ WebhookError(h),
         \A v \in Ids : Exists(v) => Exists(v)'
  PROVE  HooksInv'
<1>1. hooks[h].at # "idle" /\ UNCHANGED <<logs, secret, cached, applied>>
  BY DEF HandleWebhook, WebhookError
<1>2. cached \in Secrets \union {None, Uninitialized}
  BY DEF HooksInv, WebhooksTypeOK
<1>3. CASE HookEnds(h)
  BY <1>1, <1>2, <1>3, NoHookType, QuietHook DEF HookEnds
<1>4. CASE hooks[h].at = "handle" /\ HookMoves(h, "apply")
  <2>1. LogOf(h).signed \in Secrets /\ LogOf(h).intact
    BY <1>4 DEF HooksInv, HookInOrder
  <2>2. PICK row \in Hook : /\ row.at = "apply" /\ row.log = hooks[h].log
                           /\ hooks' = [hooks EXCEPT ![h] = row]
    BY <1>4, MovedHook
  <2> QED
    BY <1>1, <1>2, <1>4, <2>1, <2>2, QuietHook
<1> QED
  BY <1>3, <1>4 DEF HandleWebhook, WebhookError

\* The log of the call is marked, 'processed' if it was applied and 'failed' if it
\* was refused.
LEMMA EndStep ==
  ASSUME HooksInv, NEW h \in Hooks, RefuseWebhook(h) \/ CompleteWebhook(h),
         \A v \in Ids : Exists(v) => Exists(v)'
  PROVE  HooksInv'
<1> DEFINE l == hooks[h].log
<1>1. /\ l \in Logs /\ hooks[h].at \in {"refuse", "complete"}
      /\ hooks[h].at = "complete" <=> l \in applied
      /\ UNCHANGED <<secret, cached, applied>>
      /\ logs[l] \in Log /\ logs[l].about \in Ids /\ Exists(logs[l].about)
  BY DEF RefuseWebhook, CompleteWebhook, HooksInv, HookInOrder, LogsInOrder, LogOf, WebhooksTypeOK
<1>2. PICK entry \in Log :
        /\ logs' = [logs EXCEPT ![l] = entry]
        /\ entry.about = logs[l].about /\ entry.signed = logs[l].signed /\ entry.intact = logs[l].intact
        /\ IF l \in applied THEN entry.status = "processed" /\ entry.verification = entry.about
                            ELSE entry.status = "failed"
  <2>1. CASE RefuseWebhook(h)
    <3> DEFINE entry == [logs[l] EXCEPT !.status = "failed"]
    <3>1. /\ entry \in Log /\ entry.about = logs[l].about /\ entry.signed = logs[l].signed
          /\ entry.intact = logs[l].intact /\ entry.status = "failed"
      BY <1>1 DEF Log
    <3>2. logs' = [logs EXCEPT ![l] = entry] /\ l \notin applied
      BY <1>1, <2>1 DEF RefuseWebhook
    <3> HIDE DEF entry
    <3> QED
      BY <3>1, <3>2
  <2>2. CASE CompleteWebhook(h)
    <3> DEFINE entry == [logs[l] EXCEPT !.status = "processed", !.verification = AboutOf(h)]
    <3>1. AboutOf(h) = logs[l].about
      BY DEF AboutOf, LogOf
    <3>2. /\ entry \in Log /\ entry.about = logs[l].about /\ entry.signed = logs[l].signed
          /\ entry.intact = logs[l].intact /\ entry.status = "processed"
          /\ entry.verification = entry.about
      BY <1>1, <3>1 DEF Log
    <3>3. logs' = [logs EXCEPT ![l] = entry] /\ l \in applied
      BY <1>1, <2>2 DEF CompleteWebhook
    <3> HIDE DEF entry
    <3> QED
      BY <3>2, <3>3
  <2> QED
    BY <2>1, <2>2
<1>3. hooks' = [hooks EXCEPT ![h] = NoHook]
  BY DEF RefuseWebhook, CompleteWebhook, HookEnds
<1>4. l \in applied => entry.signed \in Secrets /\ entry.intact
  BY <1>2 DEF HooksInv, OnlyAuthenticApplied
<1>5. secret \in Secrets \union {None} /\ cached \in Secrets \union {None, Uninitialized} /\ applied \subseteq Logs
  BY DEF HooksInv, WebhooksTypeOK
<1>6. Owns(h, l)
  BY <1>1 DEF Owns
<1> HIDE DEF l
<1> QED
  BY <1>1, <1>2, <1>3, <1>4, <1>5, <1>6, NoHookType, OneHookMoves

LEMMA ApplyStep ==
  ASSUME HooksInv, NEW h \in Hooks, ApplyWebhook(h),
         \A v \in Ids : Exists(v) => Exists(v)'
  PROVE  HooksInv'
<1> DEFINE l == hooks[h].log
           entry == logs[l]
<1>1. /\ hooks[h].at = "apply" /\ HookMoves(h, "complete")
      /\ applied' = applied \union {l} /\ UNCHANGED <<logs, secret, cached>>
  BY DEF ApplyWebhook
<1>2. /\ l \in Logs /\ entry.status = "received" /\ entry.about \in Ids /\ Exists(entry.about)
      /\ entry.signed \in Secrets /\ entry.intact
  BY <1>1 DEF HooksInv, HookInOrder, LogsInOrder, LogOf
<1>3. entry \in Log /\ logs' = [logs EXCEPT ![l] = entry]
  BY <1>1, <1>2 DEF HooksInv, WebhooksTypeOK
<1>4. PICK row \in Hook : /\ row.at = "complete" /\ row.log = l
                         /\ hooks' = [hooks EXCEPT ![h] = row]
  BY <1>1, MovedHook
<1>5. /\ applied' \subseteq Logs /\ l \in applied'
      /\ \A k \in Logs : k # l => (k \in applied' <=> k \in applied)
      /\ secret' \in Secrets \union {None} /\ cached' \in Secrets \union {None, Uninitialized}
  BY <1>1, <1>2 DEF HooksInv, WebhooksTypeOK
<1>6. Owns(h, l)
  BY <1>1 DEF Owns
<1> HIDE DEF l, entry
<1> QED
  BY <1>2, <1>3, <1>4, <1>5, <1>6, OneHookMoves

\* The rest of the process leaves calls and logs alone, or ends with them.
LEMMA AsideStep ==
  ASSUME HooksInv, UNCHANGED <<logs, applied>>,
         hooks' = hooks \/ hooks' = [h \in Hooks |-> NoHook],
         secret' \in Secrets \union {None}, cached' \in Secrets \union {None, Uninitialized},
         \A v \in Ids : Exists(v) => Exists(v)'
  PROVE  HooksInv'
<1>1. WebhooksTypeOK'
  BY NoHookType DEF HooksInv, WebhooksTypeOK
<1>2. LogsInOrder'
  BY DEF HooksInv, LogsInOrder, Exists
<1>3. LogsAreTruthful' /\ OnlyAuthenticApplied'
  BY DEF HooksInv, LogsAreTruthful, OnlyAuthenticApplied
<1>4. CASE hooks' = hooks
  <2>1. OneHookPerLog' /\ \A h \in Hooks : HookInOrder(h)'
    BY <1>4 DEF HooksInv, OneHookPerLog, HookInOrder, LogOf
  <2> QED
    BY <1>1, <1>2, <1>3, <2>1 DEF HooksInv
<1>5. CASE hooks' = [h \in Hooks |-> NoHook]
  <2>1. OneHookPerLog' /\ \A h \in Hooks : HookInOrder(h)'
    BY <1>5, NoHookType DEF OneHookPerLog, HookInOrder
  <2> QED
    BY <1>1, <1>2, <1>3, <2>1 DEF HooksInv
<1> QED
  BY <1>4, <1>5

LEMMA HooksStep ==
  ASSUME HooksInv, WebhooksNext, \A v \in Ids : Exists(v) => Exists(v)'
  PROVE  HooksInv'
<1>0. secret \in Secrets \union {None} /\ cached \in Secrets \union {None, Uninitialized}
  BY DEF HooksInv, WebhooksTypeOK
<1>1. ASSUME NEW h \in Hooks, ContinueHook(h) PROVE HooksInv'
  BY <1>1, LookupStep, CheckStep, HandleStep, EndStep, ApplyStep DEF ContinueHook
<1>2. ASSUME NEW h \in Hooks, NEW l \in Logs, Post(h, l) PROVE HooksInv'
  BY <1>2, PostStep
<1>3. ASSUME NEW s \in Secrets, RotateSecret(s) PROVE HooksInv'
  BY <1>0, <1>3, AsideStep DEF RotateSecret
<1>4. CASE UNCHANGED hookVars
  BY <1>0, <1>4, AsideStep DEF hookVars
<1>5. ASSUME NEW r \in Requests, NEW v \in Ids, RequestArrives(r, v) PROVE HooksInv'
  <2>1. cached' \in Secrets \union {None, Uninitialized}
    BY <1>0, <1>5 DEF RequestArrives, Initialize
  <2> QED
    BY <1>0, <1>5, <2>1, AsideStep DEF RequestArrives
<1>6. CASE Restart
  BY <1>0, <1>6, AsideStep DEF Restart
<1> QED
  BY <1>1, <1>2, <1>3, <1>4, <1>5, <1>6 DEF WebhooksNext

LEMMA WebhooksInvariance == WebhooksSpec => [](RowsInv /\ HooksInv)
<1>1. WebhooksInit => RowsInv /\ HooksInv
  BY InitType, DecidedInit, PresentInit, HooksInit DEF WebhooksInit, RowsInv, Typed
<1>2. ASSUME RowsInv, HooksInv, [WebhooksNext]_webhooksVars
      PROVE  RowsInv' /\ HooksInv'
  <2>1. CASE WebhooksNext
    BY <1>2, <2>1, RowsInvStep, HooksStep
  <2>2. CASE UNCHANGED webhooksVars
    <3>1. UNCHANGED vars /\ UNCHANGED hookVars
      BY <2>2 DEF webhooksVars
    <3>2. RowsInv'
      BY <1>2, <3>1, TypeStep, DecidedStep, PresentStep DEF RowsInv, Decided
    <3>3. HooksInv'
      BY <1>2, <3>1, AsideStep DEF vars, hookVars, Exists, HooksInv, WebhooksTypeOK
    <3> QED
      BY <3>2, <3>3
  <2> QED
    BY <1>2, <2>1, <2>2
<1> QED
  BY <1>1, <1>2, PTL DEF WebhooksSpec

-----------------------------------------------------------------------------
\* Logs, calls and secrets stay well formed.
THEOREM WebhooksTypeCorrect == WebhooksSpec => []WebhooksTypeOK
<1>1. RowsInv /\ HooksInv => WebhooksTypeOK
  BY DEF HooksInv
<1> QED
  BY <1>1, WebhooksInvariance, PTL

\* What was written to a verification on the strength of a payload was signed with
\* a secret of the provider, and in the form it has in the log, for any number of
\* calls, replays, rotations of the secret and restarts.
THEOREM OnlyAuthenticWebhooksApplied == WebhooksSpec => []OnlyAuthenticApplied
<1>1. RowsInv /\ HooksInv => OnlyAuthenticApplied
  BY DEF HooksInv
<1> QED
  BY <1>1, WebhooksInvariance, PTL

\* The log never calls a payload processed that was not applied, nor failed one that
\* was.
THEOREM LogsStayTruthful == WebhooksSpec => []LogsAreTruthful
<1>1. RowsInv /\ HooksInv => LogsAreTruthful
  BY DEF HooksInv
<1> QED
  BY <1>1, WebhooksInvariance, PTL

\* Webhooks written over the rows at any moment make up no positive status, and
\* credit no account.
THEOREM WebhooksDecideNothing == WebhooksSpec => [](PositiveStatusIsDecided /\ AccountsAreEarned)
<1>1. RowsInv /\ HooksInv => PositiveStatusIsDecided /\ AccountsAreEarned
  BY DEF RowsInv, Decided
<1> QED
  BY <1>1, WebhooksInvariance, PTL

\* Nor do webhooks and restarts break the promise about accounts and their links.
THEOREM WebhooksFollowLedger == WebhooksSpec => ImplementsLedger
<1>1. WebhooksInit => Ledger!Init
  BY LedgerInit DEF WebhooksInit
<1>2. ASSUME RowsInv, HooksInv, [WebhooksNext]_webhooksVars
      PROVE  [Ledger!Next]_(Ledger!ledgerVars)
  <2>1. CASE [Next]_vars
    BY <1>2, <2>1, LedgerStep DEF RowsInv
  <2>2. ASSUME NEW h \in Hooks, ApplyWebhook(h)
        PROVE  [Ledger!Next]_(Ledger!ledgerVars)
    <3>1. UNCHANGED <<accounts, decisions>> /\ \A v \in Ids : rows'[v].account = rows[v].account
      BY <1>2, <2>2, ApplyEffect DEF RowsInv, Typed, TypeOK
    <3> QED
      BY <3>1, LedgerStutter
  <2>3. CASE Fails
    BY <2>3, LedgerStutter DEF Fails
  <2>4. WebhooksNext \/ UNCHANGED vars
    BY <1>2 DEF webhooksVars
  <2> QED
    BY <2>1, <2>2, <2>3, <2>4, StepOfRows
<1> QED
  BY <1>1, <1>2, WebhooksInvariance, PTL DEF WebhooksSpec, ImplementsLedger, Ledger!Spec

\* Nor do they let a finalization open an account beside the linked one, or undo
\* credits: a webhook writes no link and no account.
THEOREM WebhooksKeepAccounts ==
  WebhooksSpec => NewAccountOnlyWhenUnlinked /\ CreditsLostOnlyByStaleUpdate
<1> DEFINE Losses == \A a \in Accounts :
                       accounts'[a] # accounts[a] /\ accounts'[a].status = "verified" => Explained(a)
<1>1. WebhooksInit => NothingLeft /\ LinkedOnce
  BY NothingLeftInit, LinkedInit DEF WebhooksInit
<1>2. ASSUME RowsInv, HooksInv, NothingLeft, LinkedOnce, [WebhooksNext]_webhooksVars
      PROVE  /\ NothingLeft' /\ LinkedOnce'
             /\ [OpensUnlinked]_vars /\ [Losses]_vars
  <2>0. Typed /\ Present
    BY <1>2 DEF RowsInv
  <2>1. CASE [Next]_vars
    BY <1>2, <2>0, <2>1, NothingLeftStep, LinkedStep, OpeningStep, ChangesExplained
  <2>2. ASSUME UNCHANGED accounts, \A v \in Ids : rows'[v].account = rows[v].account,
               \A r \in Requests : reqs'[r] = reqs[r] \/ reqs'[r] = Idle
        PROVE  NothingLeft' /\ LinkedOnce' /\ OpensUnlinked /\ Losses
    <3>1. LinksLive' /\ \A a \in Accounts : Known(a) => accounts'[a].status # "absent"
      BY <1>2, <2>2 DEF LinkedOnce, LinksLive, AccountExists, Known
    <3>2. \A r \in Requests : reqs'[r].at \notin Saving \/ reqs'[r] = reqs[r]
      BY <2>2 DEF Idle, Saving
    <3>3. LinkedOnce'
      BY <1>2, <2>0, <2>2, <3>1, <3>2, LinkedQuiet
    <3>4. NothingLeft' /\ OpensUnlinked /\ Losses
      BY <1>2, <2>2 DEF NothingLeft, AccountExists, OpensUnlinked
    <3> QED
      BY <3>3, <3>4
  <2>3. ASSUME NEW h \in Hooks, ApplyWebhook(h) PROVE NothingLeft' /\ LinkedOnce' /\ OpensUnlinked /\ Losses
    <3>1. /\ UNCHANGED <<accounts, reqs>>
          /\ \A v \in Ids : rows'[v].account = rows[v].account
      BY <1>2, <2>0, <2>3, ApplyEffect DEF Typed, TypeOK
    <3> QED
      BY <2>2, <3>1
  <2>4. CASE Fails
    BY <2>2, <2>4 DEF Fails
  <2>5. WebhooksNext \/ UNCHANGED vars
    BY <1>2 DEF webhooksVars
  <2> QED
    BY <2>1, <2>3, <2>4, <2>5, StepOfRows
<1> QED
  BY <1>1, <1>2, WebhooksInvariance, PTL
     DEF WebhooksSpec, NewAccountOnlyWhenUnlinked, CreditsLostOnlyByStaleUpdate, OpensUnlinked, Explained

\* A recorded image keeps its file under webhooks as well.
THEOREM WebhooksKeepImages == WebhooksSpec => []RecordedImagesAreStored
<1>1. WebhooksInit => ImagesBacked
  BY ImagesInit DEF WebhooksInit
<1>2. ASSUME RowsInv, HooksInv, ImagesBacked, [WebhooksNext]_webhooksVars
      PROVE  ImagesBacked'
  <2>0. Typed
    BY <1>2 DEF RowsInv
  <2>1. CASE [Next]_vars
    BY <1>2, <2>0, <2>1, ImagesStep
  <2>2. ASSUME UNCHANGED files, \A v \in Ids : rows'[v].steps = rows[v].steps,
               \A r \in Requests : reqs'[r] = reqs[r] \/ reqs'[r] = Idle
        PROVE  ImagesBacked'
    <3>1. Idle.at = "idle"
      BY DEF Idle
    <3> QED
      BY <1>2, <2>2, <3>1
         DEF ImagesBacked, RecordedImagesAreStored, StepsReadAreStored, ImagesWrittenAreStored
  <2>3. ASSUME NEW h \in Hooks, ApplyWebhook(h) PROVE ImagesBacked'
    <3>1. UNCHANGED <<files, reqs>> /\ \A v \in Ids : rows'[v].steps = rows[v].steps
      BY <1>2, <2>0, <2>3, ApplyEffect DEF Typed, TypeOK
    <3> QED
      BY <2>2, <3>1
  <2>4. CASE Fails
    BY <2>2, <2>4 DEF Fails
  <2>5. WebhooksNext \/ UNCHANGED vars
    BY <1>2 DEF webhooksVars
  <2> QED
    BY <2>1, <2>3, <2>4, <2>5, StepOfRows
<1>3. ImagesBacked => RecordedImagesAreStored
  BY DEF ImagesBacked
<1> QED
  BY <1>1, <1>2, <1>3, WebhooksInvariance, PTL DEF WebhooksSpec

\* A webhook drops no recorded step: its update leaves the metadata alone.
THEOREM WebhooksKeepSteps == WebhooksSpec => StepsLostOnlyByStaleWrite
<1> DEFINE Lost ==
      \A v \in Ids, s \in ImageSteps :
        rows[v].steps[s] # None /\ rows'[v].steps[s] = None =>
          \E r \in Requests :
            /\ reqs[r].id = v /\ reqs[r].at = "call" /\ reqs'[r].at = "idle"
            /\ reqs[r].steps # rows[v].steps \/ (reqs[r].step = None /\ rows[v].userMeta)
<1>1. ASSUME RowsInv, HooksInv, [WebhooksNext]_webhooksVars
      PROVE  [Lost]_vars
  <2>0. Typed /\ Present
    BY <1>1 DEF RowsInv
  <2>1. CASE Next
    BY <2>0, <2>1, LossStep
  <2>2. ASSUME NEW h \in Hooks, ApplyWebhook(h) PROVE Lost
    <3>1. \A v \in Ids : rows'[v].steps = rows[v].steps
      BY <1>1, <2>0, <2>2, ApplyEffect DEF Typed, TypeOK
    <3> QED
      BY <3>1
  <2>3. CASE Fails
    BY <2>3 DEF Fails
  <2>4. WebhooksNext \/ UNCHANGED vars
    BY <1>1 DEF webhooksVars
  <2> QED
    BY <2>1, <2>2, <2>3, <2>4, StepOfRows
<1> QED
  BY <1>1, WebhooksInvariance, PTL DEF WebhooksSpec, StepsLostOnlyByStaleWrite
=============================================================================
