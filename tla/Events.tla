-------------------------------- MODULE Events --------------------------------
(***************************************************************************)
(* How clients hear of a verification: RedisService, EventPublisher,       *)
(* KYCWebSocketGateway and OutgoingWebhookService, from the start of the   *)
(* process on, beside the handlers that publish: the steps, the single-step*)
(* upload, the overrides (src/verifications/verifications.service.ts) and  *)
(* the provider's webhooks (src/webhooks/webhooks.service.ts), of which    *)
(* only the order of storing, publishing and answering is kept.  What they *)
(* store is in Verifications and Webhooks.                                 *)
(***************************************************************************)
EXTENDS Naturals

CONSTANTS
  Verifications,   \* the verifications that are told of
  Clients,         \* WebSocket connections
  Requests,        \* requests and webhook calls the process handles
  MaxOutages,      \* bound on how often the connection to Redis is lost
  None             \* null

ASSUME EventsAssumption == MaxOutages \in Nat /\ None \notin Verifications

VARIABLES
  configured,   \* REDIS_HOST is set
  boot,         \* how far the start of the process has come
  client,       \* RedisService.client
  subscribed,   \* the gateway listens to 'verification-events'
  rooms,        \* the rooms each WebSocket connection has joined
  reqs,         \* the handler of each request, and how it ended
  got,          \* history: the requests of which each connection got an event
  posts,        \* history: the requests whose callback was attempted
  outages       \* how often the connection was lost so far

vars == <<configured, boot, client, subscribed, rooms, reqs, got, posts, outages>>

-----------------------------------------------------------------------------
Kinds == {"step", "upload", "override", "webhook"}

\* The query or call each handler awaits next.
Request == [at       : {"idle", "begin", "progress", "store", "record", "completed", "reject", "rejected",
                        "publish", "fetch", "emit", "callback", "answered", "failed", "unpublished"},
            kind     : Kinds,
            about    : Verifications \union {None},
            callback : BOOLEAN,     \* callback_url is set
            stored   : BOOLEAN]     \* the verification was written

Unsent == [at |-> "idle", kind |-> "step", about |-> None, callback |-> FALSE, stored |-> FALSE]

EventsTypeOK ==
  /\ configured \in BOOLEAN
  /\ boot \in {"created", "constructed", "connecting", "pinging", "listening", "failed"}
  /\ client \in {"undefined", "null", "connecting", "ready", "silent", "lost", "ended"}
  /\ subscribed \in BOOLEAN
  /\ rooms \in [Clients -> SUBSET Verifications]
  /\ reqs \in [Requests -> Request]
  /\ \A r \in Requests : reqs[r].at = "idle" <=> reqs[r].about = None
  /\ got \in [Clients -> SUBSET Requests]
  /\ posts \subseteq Requests
  /\ outages \in 0 .. MaxOutages

Init ==
  /\ configured \in BOOLEAN
  /\ boot = "created"
  /\ client = "undefined"
  /\ subscribed = FALSE
  /\ rooms = [c \in Clients |-> {}]
  /\ reqs = [r \in Requests |-> Unsent]
  /\ got = [c \in Clients |-> {}]
  /\ posts = {}
  /\ outages = 0

-----------------------------------------------------------------------------
(***************************************************************************)
(* The start of the process.  Nest constructs every provider before it     *)
(* calls the first onModuleInit, and listens after the last.               *)
(***************************************************************************)
bootVars == <<configured, boot, client, subscribed>>
callVars == <<rooms, reqs, got, posts, outages>>

\* RedisService.subscribe returns if there is no client.
ConstructGateway ==
  /\ boot = "created"
  /\ boot' = "constructed"
  /\ subscribed' = (client \notin {"undefined", "null"})
  /\ UNCHANGED <<configured, client, callVars>>

Connect ==
  /\ boot = "constructed"
  /\ IF configured THEN boot' = "connecting" /\ client' = "connecting"
                   ELSE boot' = "listening" /\ client' = "null"
  /\ UNCHANGED <<configured, subscribed, callVars>>

\* 'ready' clears the timer; the promise is still to be resolved by the ping, which
\* has no timeout of its own.
ConnectionReady ==
  /\ boot = "connecting"
  /\ boot' = "pinging"
  /\ client' = "ready"
  /\ UNCHANGED <<configured, subscribed, callVars>>

PingAnswered ==
  /\ boot = "pinging"
  /\ boot' = "listening"
  /\ UNCHANGED <<configured, client, subscribed, callVars>>

\* The promise is returned and not awaited, so that its rejection is not caught by
\* RedisService: listen() rejects, and with it bootstrap, which nobody catches.
RejectBoot ==
  /\ boot' = "failed"
  /\ UNCHANGED client

\* 'error', 'close' or the rejection of connect(), or the ping after 'ready'.
ConnectionFails ==
  /\ boot \in {"connecting", "pinging"}
  /\ RejectBoot
  /\ UNCHANGED <<configured, subscribed, callVars>>

\* Variant: the timer removes the listeners of the client and rejects nothing.
StopListening ==
  /\ boot = "connecting"
  /\ UNCHANGED vars

ConnectTimeout ==
  /\ boot = "connecting"
  /\ RejectBoot
  /\ UNCHANGED <<configured, subscribed, callVars>>

Serving == boot = "listening"

\* The connection is lost, or stays open while Redis answers no command any more:
\* the client has no commandTimeout.
LoseRedis ==
  /\ Serving /\ client = "ready"
  /\ outages < MaxOutages
  /\ outages' = outages + 1
  /\ client' \in {"lost", "silent"}
  /\ UNCHANGED <<configured, boot, subscribed, rooms, reqs, got, posts>>

\* retryStrategy: the client reconnects, or gives up after three attempts.  A silent
\* Redis answers again or breaks the connection, or does neither.
RetryRedis ==
  /\ Serving
  /\ \/ client = "lost" /\ client' \in {"ready", "silent", "ended"}
     \/ client = "silent" /\ client' \in {"ready", "lost"}
  /\ UNCHANGED <<configured, boot, subscribed, callVars>>

-----------------------------------------------------------------------------
(***************************************************************************)
(* WebSocket connections.                                                  *)
(***************************************************************************)

\* joinVerificationRoom, for 'subscribe' and 'join_verification'.
Join(c, v) ==
  /\ Serving
  /\ rooms' = [rooms EXCEPT ![c] = @ \union {v}]
  /\ UNCHANGED <<bootVars, reqs, got, posts, outages>>

\* handleUnsubscribe.
Leave(c, v) ==
  /\ Serving /\ v \in rooms[c]
  /\ rooms' = [rooms EXCEPT ![c] = @ \ {v}]
  /\ UNCHANGED <<bootVars, reqs, got, posts, outages>>

\* Variant: the event is emitted to every connection.
Everybody(r) == [c \in Clients |-> got[c] \union {r}]

\* server.to(room).emit: whoever is in the room by now.
ToRoom(r) == [c \in Clients |-> IF reqs[r].about \in rooms[c] THEN got[c] \union {r} ELSE got[c]]

-----------------------------------------------------------------------------
(***************************************************************************)
(* Handlers.                                                               *)
(***************************************************************************)
Moves(r, at) == reqs' = [reqs EXCEPT ![r].at = at]

\* Steps and finalization announce themselves before they call the provider, an
\* upload stores 'processing' first, overrides and webhooks store what they were given.
First(kind) ==
  CASE kind = "step" -> "progress" [] kind = "upload" -> "begin" [] OTHER -> "store"

\* Variant: a webhook that matches no verification is handled as well.
ReceiveUnknown(r, kind, v, callback) ==
  /\ Serving /\ reqs[r].at = "idle"
  /\ reqs' = [reqs EXCEPT ![r] = [at |-> First(kind), kind |-> kind,
                                  about |-> IF kind = "webhook" THEN None ELSE v,
                                  callback |-> callback, stored |-> FALSE]]
  /\ UNCHANGED <<bootVars, rooms, got, posts, outages>>

Receive(r, kind, v, callback) ==
  /\ Serving /\ reqs[r].at = "idle"
  /\ reqs' = [reqs EXCEPT ![r] = [at |-> First(kind), kind |-> kind, about |-> v,
                                  callback |-> callback, stored |-> FALSE]]
  /\ UNCHANGED <<bootVars, rooms, got, posts, outages>>

\* RedisService.publish does nothing without a client, throws once the client has
\* given a command up, and waits for a Redis that is silent.  A gateway that listened
\* would broadcast the event.
Publishable == client \in {"null", "ready"}
Published(r) == Publishable /\ got' = IF subscribed /\ client = "ready" THEN ToRoom(r) ELSE got
PublishFails == client \in {"lost", "ended"} /\ UNCHANGED got

\* processSingleStepVerification, which uploadDocument awaits: UPDATE 'processing'.
BeginUpload(r) ==
  /\ reqs[r].at = "begin"
  /\ reqs' = [reqs EXCEPT ![r].stored = TRUE, ![r].at = "progress"]
  /\ UNCHANGED <<bootVars, rooms, got, posts, outages>>

\* publishProgress, which fails a step before anything is stored and rejects an upload.
PublishProgress(r) ==
  /\ reqs[r].at = "progress"
  /\ \/ Published(r) /\ Moves(r, "store")
     \/ PublishFails /\ Moves(r, IF reqs[r].kind = "upload" THEN "reject" ELSE "unpublished")
  /\ UNCHANGED <<bootVars, rooms, posts, outages>>

Store(r) ==
  /\ reqs[r].at = "store"
  /\ reqs' = [reqs EXCEPT ![r].stored = TRUE,
                          ![r].at = IF reqs[r].kind \in {"override", "upload"} THEN "completed"
                                                                               ELSE "record"]
  /\ UNCHANGED <<bootVars, rooms, got, posts, outages>>

\* What is written beside the verification: the webhook's log, or the account that
\* a finalization credits.
Record(r) ==
  /\ reqs[r].at = "record"
  /\ Moves(r, IF reqs[r].kind = "webhook" THEN "publish" ELSE "completed")
  /\ UNCHANGED <<bootVars, rooms, got, posts, outages>>

\* The provider or the database fails the request; an upload is rejected instead, as
\* long as that can be stored.
CallFails(r) ==
  /\ reqs[r].at \in {"begin", "store", "record", "reject"}
  /\ Moves(r, IF reqs[r].kind = "upload" /\ reqs[r].at # "reject" THEN "reject" ELSE "failed")
  /\ UNCHANGED <<bootVars, rooms, got, posts, outages>>

\* Variant: the publishCompleted of the steps is not guarded either.
PublishUnguarded(r) ==
  /\ reqs[r].at = "completed"
  /\ \/ Published(r) /\ Moves(r, "answered")
     \/ PublishFails /\ Moves(r, "unpublished")
  /\ UNCHANGED <<bootVars, rooms, posts, outages>>

\* publishCompleted: the steps swallow its failure, overrideVerification does not, and
\* an upload that was processed is rejected for it.
PublishCompleted(r) ==
  /\ reqs[r].at = "completed"
  /\ \/ Published(r) /\ Moves(r, "answered")
     \/ PublishFails /\ Moves(r, CASE reqs[r].kind = "override" -> "unpublished"
                                   [] reqs[r].kind = "upload"   -> "reject"
                                   [] OTHER                     -> "answered")
  /\ UNCHANGED <<bootVars, rooms, posts, outages>>

\* The catch of processSingleStepVerification: UPDATE 'rejected'.
RejectUpload(r) ==
  /\ reqs[r].at = "reject"
  /\ reqs' = [reqs EXCEPT ![r].stored = TRUE, ![r].at = "rejected"]
  /\ UNCHANGED <<bootVars, rooms, got, posts, outages>>

\* Its publishCompleted is in no try block: the failure is the answer of uploadDocument.
PublishRejected(r) ==
  /\ reqs[r].at = "rejected"
  /\ \/ Published(r) /\ Moves(r, "answered")
     \/ PublishFails /\ Moves(r, "unpublished")
  /\ UNCHANGED <<bootVars, rooms, posts, outages>>

\* Variant: an event that was published is not broadcast directly.
PublishOrBroadcast(r) ==
  /\ reqs[r].at = "publish"
  /\ \/ Published(r) /\ Moves(r, IF client = "null" THEN "fetch" ELSE "callback")
     \/ PublishFails /\ Moves(r, "callback")
  /\ UNCHANGED <<bootVars, rooms, posts, outages>>

\* Variant: the failure of the event fails the webhook.
PublishOrThrow(r) ==
  /\ reqs[r].at = "publish"
  /\ \/ Published(r) /\ Moves(r, "fetch")
     \/ PublishFails /\ Moves(r, "unpublished")
  /\ UNCHANGED <<bootVars, rooms, posts, outages>>

\* handleProviderWebhook publishes and broadcasts in one try block: if it cannot
\* publish, it does not broadcast either.
PublishWebhook(r) ==
  /\ reqs[r].at = "publish"
  /\ \/ Published(r) /\ Moves(r, "fetch")
     \/ PublishFails /\ Moves(r, "callback")
  /\ UNCHANGED <<bootVars, rooms, posts, outages>>

\* broadcast counts the sockets of the room before it emits.
FetchSockets(r) ==
  /\ reqs[r].at = "fetch"
  /\ Moves(r, "emit")
  /\ UNCHANGED <<bootVars, rooms, got, posts, outages>>

Emit(r) ==
  /\ reqs[r].at = "emit"
  /\ got' = ToRoom(r)
  /\ Moves(r, "callback")
  /\ UNCHANGED <<bootVars, rooms, posts, outages>>

\* sendWebhook: one POST, whose failure or timeout is logged; queueWebhookRetry
\* does nothing.
SendCallback(r) ==
  /\ reqs[r].at = "callback"
  /\ posts' = IF reqs[r].callback THEN posts \union {r} ELSE posts
  /\ Moves(r, "answered")
  /\ UNCHANGED <<bootVars, rooms, got, outages>>

-----------------------------------------------------------------------------
Boot == ConnectionReady \/ PingAnswered \/ ConnectionFails \/ ConnectTimeout

Continue(r) ==
  \/ BeginUpload(r) \/ PublishProgress(r) \/ Store(r) \/ Record(r) \/ CallFails(r)
  \/ PublishCompleted(r) \/ RejectUpload(r) \/ PublishRejected(r)
  \/ PublishWebhook(r) \/ FetchSockets(r) \/ Emit(r) \/ SendCallback(r)

Next ==
  \/ ConstructGateway \/ Connect \/ Boot
  \/ LoseRedis \/ RetryRedis
  \/ \E c \in Clients, v \in Verifications : Join(c, v) \/ Leave(c, v)
  \/ \E r \in Requests, kind \in Kinds, v \in Verifications, callback \in BOOLEAN :
       Receive(r, kind, v, callback)
  \/ \E r \in Requests : Continue(r)

Spec == Init /\ [][Next]_vars

\* The timer of ten seconds fires, and the event loop runs every handler on: queries
\* and calls settle, publications as long as Redis is not silent.  Of Redis itself
\* nothing is assumed: neither that it answers a ping nor that it comes back.
FairSpec ==
  /\ Spec
  /\ WF_vars(ConnectTimeout)
  /\ \A r \in Requests : WF_vars(Continue(r))

-----------------------------------------------------------------------------
(***************************************************************************)
(* Properties.                                                             *)
(***************************************************************************)

\* A start that waits for Redis comes to an end even if Redis never answers, but for
\* one that accepts the connection and then leaves the ping unanswered for ever: the
\* timer is cleared by then.
BootSettles ==
  <>[](boot # "pinging") => (boot = "connecting" ~> boot \in {"listening", "failed"})

\* What was stored is answered with an error because its event could not be published
\* by an override or by an upload whose rejection was stored, and by those only after
\* an outage of Redis.
FailedAfterStoreOnlyByOutage ==
  \A r \in Requests : reqs[r].at = "unpublished" /\ reqs[r].stored =>
    reqs[r].kind \in {"override", "upload"} /\ outages > 0

\* No connection gets an event of a verification whose room it is not in, or
\* before what the event tells is stored.
EventsReachOnlyTheirRoom ==
  [][\A c \in Clients, r \in Requests : r \in got'[c] \ got[c] =>
       reqs[r].about \in rooms[c] /\ reqs[r].stored]_vars

\* A webhook that updated a verification reaches the connections in its room even
\* without Redis, though not while a configured Redis is away.
WebhookReachesRoom ==
  \A c \in Clients, r \in Requests :
    reqs[r].at = "publish" /\ reqs[r].about \in rooms[c] ~>
      r \in got[c] \/ reqs[r].about \notin rooms[c] \/ outages > 0

\* Neither a Redis that is away nor the WebSockets keep the callback from being sent:
\* only an error of the database does, or a Redis that falls silent over and over or
\* for good.
CallbackIsSent ==
  <>[](client # "silent") =>
    \A r \in Requests :
      reqs[r].kind = "webhook" /\ reqs[r].stored /\ reqs[r].callback ~>
        r \in posts \/ reqs[r].at = "failed"

\* "All verification endpoints support WebSocket updates": a connection in the room
\* of a verification gets an event of a step of it, unless Redis is away.
StepReachesRoom ==
  \A c \in Clients, r \in Requests :
    reqs[r].kind = "step" /\ reqs[r].at = "completed" /\ reqs[r].about \in rooms[c] ~>
      r \in got[c] \/ reqs[r].about \notin rooms[c] \/ outages > 0 \/ ~configured
=============================================================================
