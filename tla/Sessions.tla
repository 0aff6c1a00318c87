------------------------------ MODULE Sessions ------------------------------
(***************************************************************************)
(* AuthService (src/auth/auth.service.ts) and the guards in front of the   *)
(* controllers: login, rotation of refresh tokens, API keys, and the       *)
(* deletion of users under all of them.                                    *)
(*                                                                         *)
(* As in Verifications a handler is one action per awaited query: what it  *)
(* read and checked before an await may be stale after it.  Hashes and     *)
(* passwords are left out: a client presents a token or key it was given.  *)
(* Registration, which is about emails, is in Administration.              *)
(***************************************************************************)
EXTENDS Naturals

CONSTANTS
  Users,       \* registered users
  Tokens,      \* refresh tokens that can be generated
  Keys,        \* API keys that can be generated
  Requests,    \* HTTP requests that can be in flight at once
  MaxFaults,   \* bound on database errors and process crashes
  None         \* null

ASSUME SessionFaultsAssumption == MaxFaults \in Nat
ASSUME SessionNoneAssumption == None \notin Users \union Tokens \union Keys

VARIABLES
  users,    \* the users that are still in the table
  access,   \* users who hold an access token that has not expired
  tokens,   \* the refresh_tokens table
  keys,     \* the api_keys table
  reqs,     \* the handler of each request in flight
  faults,   \* database errors and crashes so far
  forked,   \* history: tokens whose refresh overlapped another or was cut off
  lost      \* history: tokens whose answer never reached the client

vars == <<users, access, tokens, keys, reqs, faults, forked, lost>>

-----------------------------------------------------------------------------
Presence == {"unused", "stored", "deleted"}

Token == [status  : Presence,
          user    : Users \union {None},      \* user_id
          revoked : BOOLEAN,                  \* revoked_at is set
          expired : BOOLEAN,                  \* expires_at has passed
          given   : BOOLEAN,                  \* history: the client was answered with it
          parent  : Tokens \union {None}]     \* history: the token it replaces

NoToken == [status |-> "unused", user |-> None, revoked |-> FALSE, expired |-> FALSE,
            given |-> FALSE, parent |-> None]

Key == [status  : Presence,
        user    : Users \union {None},        \* user_id
        active  : BOOLEAN,                    \* is_active
        expired : BOOLEAN]                    \* expires_at is set and has passed

NoKey == [status |-> "unused", user |-> None, active |-> TRUE, expired |-> FALSE]

\* The awaits of the handlers: INSERT of a first token, INSERT of a successor,
\* UPDATE of the token it replaces, UPDATE of last_used_at, UPDATE of is_active; and
\* the answer with a new token that is still to reach the client.
Request == [at    : {"idle", "login", "successor", "revoke", "answer", "touch", "deactivate"},
            user  : Users \union {None},
            token : Tokens \union {None},     \* the token presented
            new   : Tokens \union {None},     \* the token generated
            key   : Keys \union {None}]

Idle == [at |-> "idle", user |-> None, token |-> None, new |-> None, key |-> None]

\* Every credential was given to a user, and every handler knows whose credential
\* it works on.
SessionsTypeOK ==
  /\ users \subseteq Users
  /\ access \subseteq Users
  /\ tokens \in [Tokens -> Token]
  /\ keys \in [Keys -> Key]
  /\ reqs \in [Requests -> Request]
  /\ faults \in 0 .. MaxFaults
  /\ forked \subseteq Tokens
  /\ lost \subseteq Tokens
  /\ \A t \in Tokens : tokens[t].status # "unused" => tokens[t].user \in Users
  /\ \A k \in Keys : keys[k].status # "unused" => keys[k].user \in Users
  /\ \A r \in Requests :
       /\ reqs[r].at # "idle" => reqs[r].user \in Users
       /\ reqs[r].at \in {"successor", "revoke"} => reqs[r].token \in Tokens
       /\ reqs[r].at \in {"revoke", "answer"} => reqs[r].new \in Tokens
       /\ reqs[r].at \in {"touch", "deactivate"} => reqs[r].key \in Keys

Init ==
  /\ users = Users
  /\ access = {}
  /\ tokens = [t \in Tokens |-> NoToken]
  /\ keys = [k \in Keys |-> NoKey]
  /\ reqs = [r \in Requests |-> Idle]
  /\ faults = 0
  /\ forked = {}
  /\ lost = {}

Enter(r, at, u, t, k) ==
  /\ reqs[r].at = "idle"
  /\ reqs' = [reqs EXCEPT ![r] = [at |-> at, user |-> u, token |-> t, new |-> None, key |-> k]]

Finish(r) == reqs' = [reqs EXCEPT ![r] = Idle]

\* The foreign key user_id, which the INSERT checks.
MayBelongTo(u) == u \in users

\* The token that createRefreshToken stores for user u, in the place of token p.
createRefreshToken(u, p) == [NoToken EXCEPT !.status = "stored", !.user = u, !.parent = p]

-----------------------------------------------------------------------------
(***************************************************************************)
(* login.                                                                  *)
(***************************************************************************)

\* validateUser finds the user, whose password matches.
BeginLogin(r, u) ==
  /\ u \in users
  /\ Enter(r, "login", u, None, None)
  /\ UNCHANGED <<users, access, tokens, keys, faults, forked, lost>>

StoreLogin(r, n) ==
  LET u == reqs[r].user IN
  /\ reqs[r].at = "login"
  /\ MayBelongTo(u)
  /\ tokens[n].status = "unused"
  /\ tokens' = [tokens EXCEPT ![n] = createRefreshToken(u, None)]
  /\ reqs' = [reqs EXCEPT ![r].at = "answer", ![r].new = n]
  /\ UNCHANGED <<users, access, keys, faults, forked, lost>>

\* What login and refreshToken return reaches the client: the refresh token, and the
\* access token that was signed before.
Answer(r) ==
  /\ reqs[r].at = "answer"
  /\ tokens' = [tokens EXCEPT ![reqs[r].new].given = TRUE]
  /\ access' = access \union {reqs[r].user}
  /\ Finish(r)
  /\ UNCHANGED <<users, keys, faults, forked, lost>>

-----------------------------------------------------------------------------
(***************************************************************************)
(* refreshToken.                                                           *)
(***************************************************************************)

\* Another request is refreshing the same token.
BeingRefreshed(t) == \E q \in Requests : reqs[q].at \in {"successor", "revoke"} /\ reqs[q].token = t

\* Variant: the token is revoked before it is replaced.
RevokeThenReplace(r, t) ==
  /\ tokens[t].status = "stored"
  /\ tokens[t].given
  /\ ~tokens[t].revoked
  /\ ~tokens[t].expired
  /\ Enter(r, "successor", tokens[t].user, t, None)
  /\ tokens' = [tokens EXCEPT ![t].revoked = TRUE]
  /\ forked' = forked \union (IF BeingRefreshed(t) THEN {t} ELSE {})
  /\ UNCHANGED <<users, access, keys, faults, lost>>

\* A client presents a token that it was answered with.
BeginRefresh(r, t) ==
  /\ tokens[t].status = "stored"
  /\ tokens[t].given
  /\ ~tokens[t].revoked
  /\ ~tokens[t].expired
  /\ Enter(r, "successor", tokens[t].user, t, None)
  /\ forked' = forked \union (IF BeingRefreshed(t) THEN {t} ELSE {})
  /\ UNCHANGED <<users, access, tokens, keys, faults, lost>>

StoreSuccessor(r, n) ==
  LET u == reqs[r].user IN
  /\ reqs[r].at = "successor"
  /\ MayBelongTo(u)
  /\ tokens[n].status = "unused"
  /\ tokens' = [tokens EXCEPT ![n] = createRefreshToken(u, reqs[r].token)]
  /\ reqs' = [reqs EXCEPT ![r].at = "revoke", ![r].new = n]
  /\ UNCHANGED <<users, access, keys, faults, forked, lost>>

\* Variant: the old token is forgotten.
KeepToken(r) ==
  /\ reqs[r].at = "revoke"
  /\ reqs' = [reqs EXCEPT ![r].at = "answer"]
  /\ UNCHANGED <<users, access, tokens, keys, faults, forked, lost>>

\* The UPDATE of a row that is gone by now changes nothing, and is no error.
RevokeToken(r) ==
  LET t == reqs[r].token IN
  /\ reqs[r].at = "revoke"
  /\ tokens' = [tokens EXCEPT ![t].revoked = @ \/ tokens[t].status = "stored"]
  /\ reqs' = [reqs EXCEPT ![r].at = "answer"]
  /\ UNCHANGED <<users, access, keys, faults, forked, lost>>

-----------------------------------------------------------------------------
(***************************************************************************)
(* API keys.                                                               *)
(***************************************************************************)

\* JwtAuthGuard and JwtStrategy trust the payload of the access token: whether
\* the user still exists only the foreign key asks.
CreateApiKey(u, k) ==
  /\ u \in access
  /\ MayBelongTo(u)
  /\ keys[k].status = "unused"
  /\ keys' = [keys EXCEPT ![k] = [NoKey EXCEPT !.status = "stored", !.user = u]]
  /\ UNCHANGED <<users, access, tokens, reqs, faults, forked, lost>>

\* JwtOrApiKeyGuard, ApiKeyStrategy and validateApiKey up to its UPDATE.
BeginUseKey(r, k) ==
  /\ keys[k].status = "stored"
  /\ keys[k].active
  /\ ~keys[k].expired
  /\ Enter(r, "touch", keys[k].user, None, k)
  /\ UNCHANGED <<users, access, tokens, keys, faults, forked, lost>>

\* Variant: the entity is saved with last_used_at, as it was read.
SaveUsedKey(r) ==
  LET k == reqs[r].key IN
  /\ reqs[r].at = "touch"
  /\ keys' = [keys EXCEPT ![k].active = @ \/ keys[k].status = "stored"]
  /\ Finish(r)
  /\ UNCHANGED <<users, access, tokens, faults, forked, lost>>

\* last_used_at, which nothing reads, is updated alone.
TouchKey(r) ==
  /\ reqs[r].at = "touch"
  /\ Finish(r)
  /\ UNCHANGED <<users, access, tokens, keys, faults, forked, lost>>

\* revokeApiKey: a key of the user, whatever its state.
BeginRevokeKey(r, u, k) ==
  /\ u \in access
  /\ keys[k].status = "stored"
  /\ keys[k].user = u
  /\ Enter(r, "deactivate", u, None, k)
  /\ UNCHANGED <<users, access, tokens, keys, faults, forked, lost>>

DeactivateKey(r) ==
  LET k == reqs[r].key IN
  /\ reqs[r].at = "deactivate"
  /\ keys' = [keys EXCEPT ![k].active = @ /\ keys[k].status # "stored"]
  /\ Finish(r)
  /\ UNCHANGED <<users, access, tokens, faults, forked, lost>>

-----------------------------------------------------------------------------
(***************************************************************************)
(* The rest of the system, time and failures.                              *)
(***************************************************************************)

\* Variant: the foreign key of api_keys does not cascade.
KeepKey(k, u) == keys[k]

\* Variant: the foreign key of api_keys is ON DELETE SET NULL.
Disown(k, u) == IF keys[k].user = u THEN [keys[k] EXCEPT !.user = None] ELSE keys[k]

Cascade(k, u) ==
  IF keys[k].user = u /\ keys[k].status = "stored"
    THEN [keys[k] EXCEPT !.status = "deleted"] ELSE keys[k]

\* deleteTenant removes the users of the tenant, and the foreign keys of
\* refresh_tokens and api_keys remove what they own.  Access tokens live on.
RemoveUser(u) ==
  /\ u \in users
  /\ users' = users \ {u}
  /\ tokens' = [t \in Tokens |-> IF tokens[t].user = u /\ tokens[t].status = "stored"
                                   THEN [tokens[t] EXCEPT !.status = "deleted"] ELSE tokens[t]]
  /\ keys' = [k \in Keys |-> Cascade(k, u)]
  /\ UNCHANGED <<access, reqs, faults, forked, lost>>

ExpireToken(t) ==
  /\ tokens[t].status = "stored" /\ ~tokens[t].expired
  /\ tokens' = [tokens EXCEPT ![t].expired = TRUE]
  /\ UNCHANGED <<users, access, keys, reqs, faults, forked, lost>>

ExpireKey(k) ==
  /\ keys[k].status = "stored" /\ ~keys[k].expired
  /\ keys' = [keys EXCEPT ![k].expired = TRUE]
  /\ UNCHANGED <<users, access, tokens, reqs, faults, forked, lost>>

ExpireAccess(u) ==
  /\ u \in access
  /\ access' = access \ {u}
  /\ UNCHANGED <<users, tokens, keys, reqs, faults, forked, lost>>

\* A request that has stored the successor of a token ends before revoking it.
CutOff(r) == IF reqs[r].at = "revoke" THEN {reqs[r].token} ELSE {}

\* A request ends after its last query and before its answer arrives.
Unanswered(r) == IF reqs[r].at = "answer" THEN {reqs[r].new} ELSE {}

\* A query is refused and the handler throws; what it stored stays.
DatabaseError(r) ==
  /\ \/ /\ reqs[r].at \notin {"idle", "answer"}
        /\ faults < MaxFaults
        /\ faults' = faults + 1
     \/ /\ reqs[r].at \in {"login", "successor"}   \* the foreign key, which is no fault
        /\ ~MayBelongTo(reqs[r].user)
        /\ UNCHANGED faults
  /\ forked' = forked \union CutOff(r)
  /\ Finish(r)
  /\ UNCHANGED <<users, access, tokens, keys, lost>>

\* The connection breaks before the answer is out.
AnswerLost(r) ==
  /\ reqs[r].at = "answer"
  /\ faults < MaxFaults
  /\ faults' = faults + 1
  /\ lost' = lost \union Unanswered(r)
  /\ Finish(r)
  /\ UNCHANGED <<users, access, tokens, keys, forked>>

\* The process dies with every request in flight.
Crash ==
  /\ faults < MaxFaults
  /\ faults' = faults + 1
  /\ \E r \in Requests : reqs[r].at # "idle"
  /\ forked' = forked \union UNION {CutOff(r) : r \in Requests}
  /\ lost' = lost \union UNION {Unanswered(r) : r \in Requests}
  /\ reqs' = [r \in Requests |-> Idle]
  /\ UNCHANGED <<users, access, tokens, keys>>

-----------------------------------------------------------------------------
\* What a request does once it is in a handler.
Continue(r) ==
  \/ \E n \in Tokens : StoreLogin(r, n) \/ StoreSuccessor(r, n)
  \/ RevokeToken(r)
  \/ Answer(r) \/ AnswerLost(r)
  \/ TouchKey(r) \/ DeactivateKey(r)
  \/ DatabaseError(r)

Receive(r) ==
  \/ \E u \in Users : BeginLogin(r, u)
  \/ \E t \in Tokens : BeginRefresh(r, t)
  \/ \E k \in Keys : BeginUseKey(r, k)
  \/ \E u \in Users, k \in Keys : BeginRevokeKey(r, u, k)

Next ==
  \/ \E r \in Requests : Continue(r) \/ Receive(r)
  \/ \E u \in Users, k \in Keys : CreateApiKey(u, k)
  \/ \E u \in Users : RemoveUser(u) \/ ExpireAccess(u)
  \/ \E t \in Tokens : ExpireToken(t)
  \/ \E k \in Keys : ExpireKey(k)
  \/ Crash

Spec == Init /\ [][Next]_vars

\* The event loop runs every handler to its end, unless the tokens of this
\* instance are used up.
FairSpec == Spec /\ \A r \in Requests : WF_vars(Continue(r))

-----------------------------------------------------------------------------
(***************************************************************************)
(* Properties.                                                             *)
(***************************************************************************)
Successor(n, t) == tokens[n].parent = t

\* Rotation: a refresh token is replaced once.  Two successors of one token, that
\* is two live sessions out of one login, come only of refreshes that overlapped,
\* or of one that was cut off between storing the successor and revoking.
TokensForkOnlyByOverlap ==
  \A t, n1, n2 \in Tokens : n1 # n2 /\ Successor(n1, t) /\ Successor(n2, t) => t \in forked

BeingAnswered(n) == \E r \in Requests : reqs[r].at = "answer" /\ reqs[r].new = n

\* No failure between the queries of a refresh takes a session away: whoever presented
\* a token that is revoked by now was answered with a successor for the same user,
\* which goes only with the user, or is being answered, or that answer was lost after
\* the revocation, when nothing can be undone any more.
RevokedOnlyWhenReplaced ==
  \A t \in Tokens : tokens[t].revoked =>
    \E n \in Tokens :
      /\ Successor(n, t)
      /\ tokens[n].user = tokens[t].user
      /\ tokens[n].status = "stored" \/ tokens[n].user \notin users
      /\ tokens[n].given \/ BeingAnswered(n) \/ n \in lost

\* No token or key outlives its user, even one that a login, a refresh or an
\* access token stores for a user deleted meanwhile.
CredentialsHaveUsers ==
  /\ \A t \in Tokens : tokens[t].status = "stored" => tokens[t].user \in users
  /\ \A k \in Keys : keys[k].status = "stored" => keys[k].user \in users

\* A revoked API key is never active again, whatever requests were being
\* authenticated with it when it was revoked.
RevokedKeyStaysRevoked ==
  [][\A k \in Keys : ~keys[k].active => ~keys'[k].active]_vars

\* A token that was replaced is revoked in the end, unless its refresh was cut off
\* or its user is deleted.  Neither is ever undone, so that a later moment at which
\* it holds of all tokens is one from which it holds of each that was replaced.
ReplacedTokenIsRevoked ==
  []<>(\A t \in Tokens :
         (\E n \in Tokens : Successor(n, t)) =>
           (tokens[t].revoked \/ tokens[t].status = "deleted" \/ t \in forked))
=============================================================================
