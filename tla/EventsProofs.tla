---------------------------- MODULE EventsProofs ----------------------------
(***************************************************************************)
(* Proofs about Events.                                                    *)
(***************************************************************************)
EXTENDS Events, TLAPS

\* How far the start has come says what the client is: the subscription was made
\* too early, and only an outage takes a client away.
ClientFollowsBoot ==
  /\ ~subscribed
  /\ boot \in {"created", "constructed"} => client = "undefined"
  /\ boot = "connecting" => configured
  /\ boot = "pinging" => configured /\ client = "ready"
  /\ Serving => client \notin {"undefined", "connecting"}
  /\ client \in {"silent", "lost", "ended"} => outages > 0

\* Where only an upload is.
OfUpload == {"begin", "reject", "rejected"}

\* Where a handler has written its verification.
AfterStore == {"record", "completed", "rejected", "publish", "fetch", "emit", "callback"}

\* A handler runs in a process that serves, and tells of what it has stored.
HandlerInOrder(r) ==
  /\ reqs[r].at # "idle" => Serving
  /\ reqs[r].at = "progress" /\ reqs[r].kind # "upload" => ~reqs[r].stored
  /\ reqs[r].at \in AfterStore => reqs[r].stored
  /\ reqs[r].at \in OfUpload => reqs[r].kind = "upload"
  /\ reqs[r].at = "unpublished" /\ reqs[r].stored => reqs[r].kind \in {"override", "upload"} /\ outages > 0

EventsInv ==
  /\ EventsTypeOK
  /\ ClientFollowsBoot
  /\ \A r \in Requests : HandlerInOrder(r)

LEMMA InitEventsInv == Init => EventsInv
<1> SUFFICES ASSUME Init PROVE EventsInv
  OBVIOUS
<1> USE EventsAssumption DEF Init
<1>1. EventsTypeOK
  <2>1. Unsent \in Request /\ Unsent.at = "idle" /\ Unsent.about = None
    BY DEF Unsent, Request, Kinds
  <2>2. reqs \in [Requests -> Request] /\ \A r \in Requests : reqs[r] = Unsent
    BY <2>1
  <2>3. got \in [Clients -> SUBSET Requests] /\ rooms \in [Clients -> SUBSET Verifications]
    OBVIOUS
  <2>4. \A r \in Requests : reqs[r].at = "idle" <=> reqs[r].about = None
    BY <2>1, <2>2
  <2>5. configured \in BOOLEAN /\ subscribed \in BOOLEAN
    OBVIOUS
  <2>6. outages \in 0 .. MaxOutages
    OBVIOUS
  <2>7. posts \subseteq Requests /\ boot = "created" /\ client = "undefined"
    OBVIOUS
  <2>. QED
    BY <2>2, <2>3, <2>4, <2>5, <2>6, <2>7 DEF EventsTypeOK
<1>2. ClientFollowsBoot
  BY DEF ClientFollowsBoot, Serving
<1>3. \A r \in Requests : HandlerInOrder(r)
  BY DEF HandlerInOrder, Unsent, OfUpload, AfterStore
<1>. QED
  BY <1>1, <1>2, <1>3 DEF EventsInv

\* The steps of the start and of the connection leave every handler where it is.
LEMMA BootKeepsInv ==
  ASSUME EventsInv, ConstructGateway \/ Connect \/ Boot \/ LoseRedis \/ RetryRedis
  PROVE  EventsInv'
<1> USE EventsAssumption DEF EventsInv, Boot, ConstructGateway, Connect, ConnectionReady, PingAnswered,
        ConnectionFails, ConnectTimeout, RejectBoot, LoseRedis, RetryRedis, callVars, Serving
<1>1. EventsTypeOK'
  <2>1. UNCHANGED <<rooms, reqs, got, posts, configured>>
    OBVIOUS
  <2>2. outages' \in 0 .. MaxOutages
    BY DEF EventsTypeOK
  <2>3. boot' \in {"created", "constructed", "connecting", "pinging", "listening", "failed"}
    BY DEF EventsTypeOK
  <2>4. client' \in {"undefined", "null", "connecting", "ready", "silent", "lost", "ended"}
        /\ subscribed' \in BOOLEAN
    BY DEF EventsTypeOK
  <2>. QED
    BY <2>1, <2>2, <2>3, <2>4 DEF EventsTypeOK
<1>2. ClientFollowsBoot'
  BY DEF ClientFollowsBoot, EventsTypeOK
<1>3. reqs' = reqs /\ (Serving => Serving') /\ (outages > 0 => outages' > 0)
  BY DEF EventsTypeOK
<1>4. ASSUME NEW r \in Requests PROVE HandlerInOrder(r)'
  BY <1>3 DEF HandlerInOrder
<1>. QED
  BY <1>1, <1>2, <1>4

\* A connection that joins or leaves a room disturbs nothing else.
LEMMA RoomsKeepInv ==
  ASSUME EventsInv, NEW c \in Clients, NEW v \in Verifications, Join(c, v) \/ Leave(c, v)
  PROVE  EventsInv'
<1> USE DEF EventsInv, Join, Leave, bootVars
<1>1. EventsTypeOK'
  <2>1. rooms' \in [Clients -> SUBSET Verifications]
    BY DEF EventsTypeOK
  <2>. QED
    BY <2>1 DEF EventsTypeOK
<1>2. ClientFollowsBoot'
  BY DEF ClientFollowsBoot, Serving
<1>3. ASSUME NEW r \in Requests PROVE HandlerInOrder(r)'
  BY DEF HandlerInOrder, Serving
<1>. QED
  BY <1>1, <1>2, <1>3

\* A step that changes the row of one handler and nothing of the connection keeps
\* the invariant if the row is well formed and in order.
LEMMA OneHandlerMoves ==
  ASSUME EventsInv, NEW r \in Requests, NEW row \in Request,
         reqs' = [reqs EXCEPT ![r] = row], UNCHANGED <<bootVars, rooms, outages>>,
         Serving, got' \in [Clients -> SUBSET Requests], posts' \subseteq Requests,
         row.at # "idle", row.about # None,
         row.at = "progress" /\ row.kind # "upload" => ~row.stored,
         row.at \in AfterStore => row.stored,
         row.at \in OfUpload => row.kind = "upload",
         row.at = "unpublished" /\ row.stored => row.kind \in {"override", "upload"} /\ outages > 0
  PROVE  EventsInv'
<1> USE DEF EventsInv, bootVars
<1>1. reqs \in [Requests -> Request]
  BY DEF EventsTypeOK
<1>2. reqs'[r] = row /\ \A s \in Requests : s # r => reqs'[s] = reqs[s]
  BY <1>1
<1>3. EventsTypeOK'
  <2>1. reqs' \in [Requests -> Request]
    BY <1>1
  <2>2. \A s \in Requests : reqs'[s].at = "idle" <=> reqs'[s].about = None
    BY <1>2 DEF EventsTypeOK
  <2>. QED
    BY <2>1, <2>2 DEF EventsTypeOK
<1>4. ClientFollowsBoot'
  BY DEF ClientFollowsBoot, Serving
<1>5. ASSUME NEW s \in Requests PROVE HandlerInOrder(s)'
  <2>1. CASE s = r
    BY <2>1, <1>2 DEF HandlerInOrder, Serving
  <2>2. CASE s # r
    BY <2>2, <1>2 DEF HandlerInOrder, Serving
  <2>. QED
    BY <2>1, <2>2
<1>. QED
  BY <1>3, <1>4, <1>5

\* Whom an event reaches is well formed, and nobody outside the room is reached.
LEMMA ToRoomType ==
  ASSUME EventsTypeOK, NEW r \in Requests
  PROVE  ToRoom(r) \in [Clients -> SUBSET Requests]
BY DEF EventsTypeOK, ToRoom

\* The gateway never listens, so what is published reaches nobody.
LEMMA PublishedReachesNobody ==
  ASSUME EventsInv, NEW r \in Requests, Published(r) \/ PublishFails
  PROVE  got' = got
BY DEF EventsInv, ClientFollowsBoot, Published, PublishFails

\* While the process serves, a publication fails only after an outage.
LEMMA PublishFailsAfterOutage ==
  ASSUME EventsInv, Serving, PublishFails
  PROVE  outages > 0
BY DEF EventsInv, ClientFollowsBoot, PublishFails

LEMMA ReceiveKeepsInv ==
  ASSUME EventsInv, NEW r \in Requests, NEW kind \in Kinds, NEW v \in Verifications,
         NEW callback \in BOOLEAN, Receive(r, kind, v, callback)
  PROVE  EventsInv'
<1> DEFINE row == [at |-> First(kind), kind |-> kind, about |-> v, callback |-> callback, stored |-> FALSE]
<1>1. First(kind) \in {"progress", "begin", "store"}
  BY DEF First
<1>2. row \in Request /\ row.about # None /\ row.at \in {"progress", "begin", "store"} /\ ~row.stored
  BY <1>1, EventsAssumption DEF Request
<1>3. reqs' = [reqs EXCEPT ![r] = row] /\ Serving /\ UNCHANGED <<bootVars, rooms, got, posts, outages>>
  BY DEF Receive
<1>4. got' \in [Clients -> SUBSET Requests] /\ posts' \subseteq Requests
  BY <1>3 DEF EventsInv, EventsTypeOK
<1>5. row.at \in OfUpload => row.kind = "upload"
  BY DEF OfUpload, First
<1> HIDE DEF row
<1>. QED
  BY <1>2, <1>3, <1>4, <1>5, OneHandlerMoves DEF AfterStore

LEMMA ContinueKeepsInv ==
  ASSUME EventsInv, NEW r \in Requests, Continue(r)
  PROVE  EventsInv'
<1>1. /\ reqs[r] \in Request /\ reqs \in [Requests -> Request]
      /\ got \in [Clients -> SUBSET Requests] /\ posts \subseteq Requests
  BY DEF EventsInv, EventsTypeOK
<1>2. reqs[r].at # "idle" /\ Serving /\ reqs[r].about # None /\ HandlerInOrder(r)
  <2>1. reqs[r].at # "idle"
    BY DEF Continue, BeginUpload, PublishProgress, Store, Record, CallFails, PublishCompleted,
           RejectUpload, PublishRejected, PublishWebhook, FetchSockets, Emit, SendCallback
  <2>. QED
    BY <2>1 DEF EventsInv, EventsTypeOK, HandlerInOrder
<1>3. got' \in [Clients -> SUBSET Requests] /\ posts' \subseteq Requests
  BY <1>1, ToRoomType, PublishedReachesNobody
     DEF EventsInv, Continue, BeginUpload, PublishProgress, Store, Record, CallFails, PublishCompleted,
         RejectUpload, PublishRejected, PublishWebhook, FetchSockets, Emit, SendCallback
<1>4. UNCHANGED <<bootVars, rooms, outages>>
  BY DEF Continue, BeginUpload, PublishProgress, Store, Record, CallFails, PublishCompleted,
         RejectUpload, PublishRejected, PublishWebhook, FetchSockets, Emit, SendCallback
<1>5. ASSUME NEW at, Moves(r, at),
             at \in AfterStore \union {"store", "reject", "answered", "failed", "unpublished"},
             at \in AfterStore => reqs[r].stored,
             at \in OfUpload => reqs[r].kind = "upload",
             at = "unpublished" /\ reqs[r].stored => reqs[r].kind \in {"override", "upload"} /\ outages > 0
      PROVE  EventsInv'
  <2> DEFINE row == [reqs[r] EXCEPT !.at = at]
  <2>1. row \in Request /\ row.at = at /\ row.about = reqs[r].about
        /\ row.kind = reqs[r].kind /\ row.stored = reqs[r].stored
    BY <1>1, <1>5 DEF Request, AfterStore
  <2>2. reqs' = [reqs EXCEPT ![r] = row]
    BY <1>1, <1>5 DEF Moves
  <2>3. row.at \notin {"idle", "progress"}
    BY <2>1, <1>5 DEF AfterStore
  <2> HIDE DEF row
  <2>. QED
    BY <2>1, <2>2, <2>3, <1>2, <1>3, <1>4, <1>5, OneHandlerMoves
<1>6. ASSUME NEW at, reqs' = [reqs EXCEPT ![r].stored = TRUE, ![r].at = at],
             at \in {"progress", "completed", "record", "rejected"},
             at = "progress" \/ at \in OfUpload => reqs[r].kind = "upload"
      PROVE  EventsInv'
  <2> DEFINE row == [reqs[r] EXCEPT !.stored = TRUE, !.at = at]
  <2>1. row \in Request /\ row.at = at /\ row.about = reqs[r].about
        /\ row.kind = reqs[r].kind /\ row.stored = TRUE
    BY <1>1, <1>6 DEF Request
  <2>2. reqs' = [reqs EXCEPT ![r] = row]
    BY <1>1, <1>6
  <2> HIDE DEF row
  <2>. QED
    BY <2>1, <2>2, <1>2, <1>3, <1>4, <1>6, OneHandlerMoves
<1>7. CASE BeginUpload(r) \/ RejectUpload(r)
  BY <1>7, <1>2, <1>6 DEF BeginUpload, RejectUpload, HandlerInOrder, OfUpload
<1>8. CASE Store(r)
  BY <1>8, <1>6 DEF Store, OfUpload
<1>9. CASE PublishProgress(r)
  <2>1. reqs[r].kind # "upload" => ~reqs[r].stored
    BY <1>9, <1>2 DEF PublishProgress, HandlerInOrder
  <2>. QED
    BY <2>1, <1>9, <1>5 DEF PublishProgress, OfUpload, AfterStore
<1>10. CASE Record(r) \/ CallFails(r)
  <2>1. CASE Record(r)
    <3>1. reqs[r].stored
      BY <2>1, <1>2 DEF Record, HandlerInOrder, OfUpload, AfterStore
    <3>. QED
      BY <3>1, <2>1, <1>5 DEF Record, OfUpload, AfterStore
  <2>2. CASE CallFails(r)
    BY <2>2, <1>2, <1>5 DEF CallFails, HandlerInOrder, OfUpload, AfterStore
  <2>. QED
    BY <1>10, <2>1, <2>2
<1>11. CASE PublishCompleted(r) \/ PublishRejected(r)
  <2>1. CASE PublishCompleted(r)
    BY <2>1, <1>5, PublishFailsAfterOutage, <1>2 DEF PublishCompleted, OfUpload, AfterStore
  <2>2. CASE PublishRejected(r)
    BY <2>2, <1>5, PublishFailsAfterOutage, <1>2 DEF PublishRejected, HandlerInOrder, OfUpload, AfterStore
  <2>. QED
    BY <1>11, <2>1, <2>2
<1>12. CASE PublishWebhook(r) \/ FetchSockets(r) \/ Emit(r) \/ SendCallback(r)
  <2>1. reqs[r].stored
    BY <1>12, <1>2 DEF PublishWebhook, FetchSockets, Emit, SendCallback, HandlerInOrder, OfUpload, AfterStore
  <2>. QED
    BY <2>1, <1>12, <1>5 DEF PublishWebhook, FetchSockets, Emit, SendCallback, OfUpload, AfterStore
<1>. QED
  BY <1>7, <1>8, <1>9, <1>10, <1>11, <1>12 DEF Continue

LEMMA NextEventsInv == EventsInv /\ [Next]_vars => EventsInv'
<1> SUFFICES ASSUME EventsInv, [Next]_vars PROVE EventsInv'
  OBVIOUS
<1>1. CASE ConstructGateway \/ Connect \/ Boot \/ LoseRedis \/ RetryRedis
  BY <1>1, BootKeepsInv
<1>2. CASE \E c \in Clients, v \in Verifications : Join(c, v) \/ Leave(c, v)
  BY <1>2, RoomsKeepInv
<1>3. CASE \E r \in Requests, kind \in Kinds, v \in Verifications, callback \in BOOLEAN :
             Receive(r, kind, v, callback)
  BY <1>3, ReceiveKeepsInv
<1>4. CASE \E r \in Requests : Continue(r)
  BY <1>4, ContinueKeepsInv
<1>5. CASE UNCHANGED vars
  BY <1>5 DEF vars, EventsInv, EventsTypeOK, ClientFollowsBoot, HandlerInOrder, Serving
<1>. QED
  BY <1>1, <1>2, <1>3, <1>4, <1>5 DEF Next

LEMMA AlwaysEventsInv == Spec => []EventsInv
BY InitEventsInv, NextEventsInv, PTL DEF Spec

\* Type correctness.
THEOREM EventsTypeCorrect == Spec => []EventsTypeOK
<1>1. EventsInv => EventsTypeOK
  BY DEF EventsInv
<1>. QED
  BY <1>1, AlwaysEventsInv, PTL

\* What was stored is answered with an error for its event by an override or by a
\* rejected upload only, and only after an outage.
THEOREM EventsSeldomFailRequests == Spec => []FailedAfterStoreOnlyByOutage
<1>1. EventsInv => FailedAfterStoreOnlyByOutage
  BY DEF EventsInv, HandlerInOrder, FailedAfterStoreOnlyByOutage
<1>. QED
  BY <1>1, AlwaysEventsInv, PTL

\* Events stay in the room of their verification and tell what is stored.
THEOREM EventsStayInTheirRoom == Spec => EventsReachOnlyTheirRoom
<1> DEFINE Reaches == \A c \in Clients, r \in Requests : r \in got'[c] \ got[c] =>
                        reqs[r].about \in rooms[c] /\ reqs[r].stored
<1>1. EventsInv /\ [Next]_vars => [Reaches]_vars
  <2> SUFFICES ASSUME EventsInv, Next PROVE Reaches
    BY DEF Reaches
  <2>1. got' = got \/ \E r \in Requests : Emit(r)
    BY PublishedReachesNobody
       DEF Next, ConstructGateway, Connect, Boot, ConnectionReady, PingAnswered, ConnectionFails,
           ConnectTimeout, LoseRedis, RetryRedis, Join, Leave, Receive, Continue, BeginUpload,
           PublishProgress, Store, Record, CallFails, PublishCompleted, RejectUpload, PublishRejected,
           PublishWebhook, FetchSockets, SendCallback, callVars
  <2>2. CASE got' = got
    BY <2>2 DEF Reaches
  <2>3. ASSUME NEW r \in Requests, Emit(r) PROVE Reaches
    <3>1. got' = ToRoom(r) /\ reqs[r].stored
      BY <2>3 DEF Emit, EventsInv, HandlerInOrder, AfterStore
    <3>2. ASSUME NEW c \in Clients, NEW s \in Requests, s \in got'[c] \ got[c]
          PROVE  s = r /\ reqs[r].about \in rooms[c]
      BY <3>1, <3>2 DEF ToRoom
    <3>. QED
      BY <3>1, <3>2 DEF Reaches
  <2>. QED
    BY <2>1, <2>2, <2>3
<1>. QED
  BY <1>1, AlwaysEventsInv, PTL DEF Spec, EventsReachOnlyTheirRoom, Reaches
=============================================================================
