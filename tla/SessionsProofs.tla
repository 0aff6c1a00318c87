--------------------------- MODULE SessionsProofs ---------------------------
(***************************************************************************)
(* Rotation of refresh tokens, for any number of users, tokens, concurrent *)
(* requests and failures: who may hold two successors of one token, what a *)
(* revoked token leaves behind, and that no credential outlives its user.  *)
(***************************************************************************)
EXTENDS Sessions, TLAPS

\* A token that was not generated yet is nobody's and replaces none.
Fresh == \A t \in Tokens : tokens[t].status = "unused" => tokens[t] = NoToken

\* Only a token that was generated is replaced.
Lineage == \A t, n \in Tokens : Successor(n, t) => tokens[t].status # "unused"

\* The token that a handler will answer with was generated.
Generated ==
  \A r \in Requests : reqs[r].at \in {"revoke", "answer"} => tokens[reqs[r].new].status # "unused"

\* A refresh works for the user of the token it was given.
OwnToken ==
  \A r \in Requests : reqs[r].at \in {"successor", "revoke"} =>
    reqs[r].user = tokens[reqs[r].token].user

\* The strengthening of TokensForkOnlyByOverlap.  Of two refreshes of one token
\* the second to begin overlaps the first; a token with a successor is revoked,
\* or a refresh is about to revoke it, so that no other begins without overlap;
\* and whoever is about to store a second successor overlapped the first.
Alone ==
  \A r, q \in Requests :
    /\ r # q /\ reqs[r].token = reqs[q].token
    /\ reqs[r].at \in {"successor", "revoke"} /\ reqs[q].at \in {"successor", "revoke"}
    => reqs[r].token \in forked

Spent ==
  \A t, n \in Tokens : Successor(n, t) =>
    \/ tokens[t].revoked \/ tokens[t].status = "deleted" \/ t \in forked
    \/ \E r \in Requests : reqs[r].at = "revoke" /\ reqs[r].token = t

Second ==
  \A r \in Requests, t, n \in Tokens :
    reqs[r].at = "successor" /\ reqs[r].token = t /\ Successor(n, t) => t \in forked

Rotation == Alone /\ Spent /\ Second /\ TokensForkOnlyByOverlap

\* The strengthening of RevokedOnlyWhenReplaced: a refresh about to revoke has
\* stored the successor that it will answer with.
Replaces(n, t) ==
  /\ Successor(n, t)
  /\ tokens[n].user = tokens[t].user
  /\ tokens[n].status = "stored" \/ tokens[n].user \notin users

Known(n) == tokens[n].given \/ BeingAnswered(n) \/ n \in lost

HasHeir(t) == \E n \in Tokens : Replaces(n, t) /\ Known(n)

Heirs ==
  /\ \A t \in Tokens : tokens[t].revoked => HasHeir(t)
  /\ \A r \in Requests : reqs[r].at = "revoke" => Replaces(reqs[r].new, reqs[r].token)

Inv ==
  /\ SessionsTypeOK /\ Fresh /\ Lineage /\ Generated /\ OwnToken /\ CredentialsHaveUsers
  /\ Rotation /\ Heirs

-----------------------------------------------------------------------------
(***************************************************************************)
(* The effects of the actions on tokens and handlers.                      *)
(***************************************************************************)

\* A new token.
NewToken(n, u, p) == tokens' = [tokens EXCEPT ![n] = createRefreshToken(u, p)]

LEMMA NewTokenFields ==
  ASSUME Inv, NEW n \in Tokens, NEW u \in Users, NEW p \in Tokens \union {None}, NewToken(n, u, p)
  PROVE  /\ tokens' \in [Tokens -> Token]
         /\ tokens'[n].status = "stored" /\ tokens'[n].user = u /\ tokens'[n].parent = p
         /\ ~tokens'[n].revoked
         /\ \A t \in Tokens : t # n => tokens'[t] = tokens[t]
<1> DEFINE token == createRefreshToken(u, p)
<1>1. token \in Token
  BY DEF createRefreshToken, NoToken, Token, Presence
<1>2. token.status = "stored" /\ token.user = u /\ token.parent = p /\ ~token.revoked
  BY DEF createRefreshToken, NoToken
<1>3. tokens' = [tokens EXCEPT ![n] = token]
  BY DEF NewToken
<1> HIDE DEF token
<1> QED
  BY <1>1, <1>2, <1>3 DEF Inv, SessionsTypeOK

\* A token being refreshed was generated.
LEMMA NewTokenNotRefreshed ==
  ASSUME Inv, NEW n \in Tokens, tokens[n].status = "unused", NEW r \in Requests,
         reqs[r].at \in {"successor", "revoke"}
  PROVE  reqs[r].token # n
<1>1. tokens[n].user = None
  BY DEF Inv, Fresh, NoToken
<1>2. reqs[r].user \in Users /\ reqs[r].user = tokens[reqs[r].token].user
  BY DEF Inv, SessionsTypeOK, OwnToken
<1> QED
  BY <1>1, <1>2, SessionNoneAssumption

\* A handler that goes on with the token it has generated.
LEMMA GoesOn ==
  ASSUME Inv, NEW r \in Requests, NEW n \in Tokens, NEW at \in {"revoke", "answer"},
         reqs' = [reqs EXCEPT ![r].at = at, ![r].new = n]
  PROVE  /\ reqs' \in [Requests -> Request]
         /\ reqs'[r].at = at /\ reqs'[r].new = n
         /\ reqs'[r].user = reqs[r].user /\ reqs'[r].token = reqs[r].token
         /\ \A q \in Requests : q # r => reqs'[q] = reqs[q]
<1> DEFINE row == [reqs[r] EXCEPT !.at = at, !.new = n]
<1>1. reqs \in [Requests -> Request] /\ reqs[r] \in Request
  BY DEF Inv, SessionsTypeOK
<1>2. /\ row \in Request /\ row.at = at /\ row.new = n
      /\ row.user = reqs[r].user /\ row.token = reqs[r].token
  BY <1>1 DEF Request
<1>3. reqs' = [reqs EXCEPT ![r] = row]
  BY <1>1
<1> HIDE DEF row
<1> QED
  BY <1>1, <1>2, <1>3

\* A new token takes no heir away, and is a successor of its parent only.
LEMMA NewTokenKeeps ==
  ASSUME Inv, NEW n \in Tokens, tokens[n].status = "unused", NEW u \in Users,
         NEW p \in Tokens \union {None}, NewToken(n, u, p),
         p = None \/ (p # n /\ p \in Tokens /\ tokens[p].status # "unused"), UNCHANGED <<users, lost>>,
         \A q \in Requests : reqs[q].at = "answer" => reqs'[q] = reqs[q]
  PROVE  /\ (Fresh /\ Lineage)'
         /\ \A m, t \in Tokens : Successor(m, t)' => Successor(m, t) \/ (m = n /\ t = p)
         /\ \A m, t \in Tokens : Replaces(m, t) => Replaces(m, t)'
         /\ \A t \in Tokens : HasHeir(t) => HasHeir(t)'
<1>1. /\ tokens'[n].status = "stored" /\ tokens'[n].user = u /\ tokens'[n].parent = p
      /\ \A t \in Tokens : t # n => tokens'[t] = tokens[t]
  BY NewTokenFields
<1>2. tokens[n].parent = None /\ \A m \in Tokens : ~Successor(m, n)
  BY DEF Inv, Fresh, Lineage, NoToken
<1>3. Fresh'
  BY <1>1 DEF Inv, Fresh
<1>4. \A m, t \in Tokens : Successor(m, t)' => Successor(m, t) \/ (m = n /\ t = p)
  BY <1>1 DEF Successor
<1>5. Lineage'
  BY <1>1, <1>4, SessionNoneAssumption DEF Inv, Lineage
<1>6. ASSUME NEW m \in Tokens, NEW t \in Tokens, Replaces(m, t)
      PROVE  Replaces(m, t)' /\ tokens'[m] = tokens[m]
  <2>1. m # n /\ t # n
    BY <1>2, <1>6, SessionNoneAssumption DEF Replaces, Successor
  <2> QED
    BY <1>1, <1>6, <2>1 DEF Replaces, Successor
<1>7. ASSUME NEW m \in Tokens, tokens'[m] = tokens[m], Known(m) PROVE Known(m)'
  BY <1>7 DEF Known, BeingAnswered
<1> QED
  BY <1>3, <1>4, <1>5, <1>6, <1>7 DEF HasHeir

\* A step that stores no token and revokes none, and lets no handler go on as a
\* refresh, keeps the rotation in order.
LEMMA QuietRotation ==
  ASSUME Inv, UNCHANGED <<users, tokens>>, forked \subseteq forked', lost \subseteq lost',
         \A r \in Requests : reqs'[r] = reqs[r] \/ reqs'[r].at \notin {"successor", "revoke", "answer"},
         \A r \in Requests : reqs[r].at = "revoke" =>
            reqs'[r] = reqs[r] \/ reqs[r].token \in forked',
         \A r \in Requests : reqs[r].at = "answer" =>
            reqs'[r] = reqs[r] \/ reqs[r].new \in lost'
  PROVE  (Fresh /\ Lineage /\ Generated /\ OwnToken /\ Rotation /\ Heirs)'
<1>1. (Fresh /\ Lineage /\ Generated /\ OwnToken)'
  BY DEF Inv, Fresh, Lineage, Generated, OwnToken, Successor
<1>2. (Alone /\ Second /\ TokensForkOnlyByOverlap)'
  BY DEF Inv, Rotation, Alone, Second, TokensForkOnlyByOverlap, Successor
<1>3. Spent'
  BY DEF Inv, Rotation, Spent, Successor
<1>4. Heirs'
  <2>1. \A n, t \in Tokens : Replaces(n, t) => Replaces(n, t)'
    BY DEF Replaces, Successor
  <2>2. \A n \in Tokens : Known(n) => Known(n)'
    BY DEF Known, BeingAnswered
  <2>3. \A r \in Requests : reqs[r].at = "revoke" => reqs[r].new \in Tokens /\ reqs[r].token \in Tokens
    BY DEF Inv, SessionsTypeOK
  <2> QED
    BY <2>1, <2>2, <2>3 DEF Inv, Heirs, HasHeir
<1> QED
  BY <1>1, <1>2, <1>3, <1>4 DEF Rotation

LEMMA InitInv == Init => Inv
<1> SUFFICES ASSUME Init PROVE Inv
  OBVIOUS
<1>1. SessionsTypeOK
  BY SessionFaultsAssumption
     DEF Init, SessionsTypeOK, NoToken, Token, NoKey, Key, Idle, Request, Presence
<1>2. Fresh /\ Lineage /\ Generated /\ OwnToken /\ CredentialsHaveUsers
  BY SessionNoneAssumption
     DEF Init, Fresh, Lineage, Generated, OwnToken, CredentialsHaveUsers, Successor, NoToken, NoKey, Idle
<1>3. Rotation /\ Heirs
  BY SessionNoneAssumption
     DEF Init, Rotation, Alone, Spent, Second, TokensForkOnlyByOverlap, Heirs, HasHeir, Successor,
         NoToken, Idle
<1> QED
  BY <1>1, <1>2, <1>3 DEF Inv

-----------------------------------------------------------------------------
(***************************************************************************)
(* The handlers.                                                           *)
(***************************************************************************)
LEMMA LoginInv ==
  ASSUME Inv, NEW r \in Requests,
         \/ \E u \in Users : BeginLogin(r, u)
         \/ \E n \in Tokens : StoreLogin(r, n)
  PROVE  Inv'
<1>1. CASE \E u \in Users : BeginLogin(r, u)
  <2>1. /\ reqs[r].at = "idle" /\ reqs'[r].at = "login"
        /\ \A q \in Requests : q # r => reqs'[q] = reqs[q]
    BY <1>1 DEF BeginLogin, Enter, Inv, SessionsTypeOK
  <2>2. SessionsTypeOK'
    BY <1>1 DEF BeginLogin, Enter, Inv, SessionsTypeOK, Request
  <2>3. CredentialsHaveUsers'
    BY <1>1 DEF BeginLogin, Inv, CredentialsHaveUsers
  <2>4. (Fresh /\ Lineage /\ Generated /\ OwnToken /\ Rotation /\ Heirs)'
    BY <1>1, <2>1, QuietRotation DEF BeginLogin, Enter
  <2> QED
    BY <2>2, <2>3, <2>4 DEF Inv
<1>2. ASSUME NEW n \in Tokens, StoreLogin(r, n) PROVE Inv'
  <2> DEFINE u == reqs[r].user
  <2>a. /\ reqs[r].at = "login" /\ u \in Users /\ u \in users /\ tokens[n].status = "unused"
        /\ reqs' = [reqs EXCEPT ![r].at = "answer", ![r].new = n]
        /\ UNCHANGED <<users, access, keys, faults, forked, lost>>
    BY <1>2 DEF StoreLogin, MayBelongTo, Inv, SessionsTypeOK
  <2>b. /\ reqs' \in [Requests -> Request]
        /\ reqs'[r].at = "answer" /\ reqs'[r].new = n /\ reqs'[r].user = u
        /\ \A q \in Requests : q # r => reqs'[q] = reqs[q]
    BY <2>a, GoesOn
  <2>1. /\ reqs[r].at = "login" /\ u \in Users /\ u \in users /\ tokens[n].status = "unused"
        /\ reqs'[r].at = "answer" /\ reqs'[r].new = n /\ reqs'[r].user = u
        /\ \A q \in Requests : q # r => reqs'[q] = reqs[q]
        /\ UNCHANGED <<users, access, keys, faults, forked, lost>>
    BY <2>a, <2>b
  <2>2. NewToken(n, u, None)
    BY <1>2 DEF StoreLogin, NewToken
  <2>3. /\ tokens' \in [Tokens -> Token]
        /\ tokens'[n].status = "stored" /\ tokens'[n].user = u /\ ~tokens'[n].revoked
        /\ \A t \in Tokens : t # n => tokens'[t] = tokens[t]
    BY <2>1, <2>2, NewTokenFields
  <2>4. SessionsTypeOK'
    BY <2>1, <2>3, <2>b DEF Inv, SessionsTypeOK
  <2>5. CredentialsHaveUsers'
    BY <2>1, <2>3 DEF Inv, CredentialsHaveUsers
  <2>6. /\ (Fresh /\ Lineage)'
        /\ \A m, t \in Tokens : Successor(m, t)' => Successor(m, t)
        /\ \A m, t \in Tokens : Replaces(m, t) => Replaces(m, t)'
        /\ \A t \in Tokens : HasHeir(t) => HasHeir(t)'
    BY <2>1, <2>2, NewTokenKeeps, SessionNoneAssumption
  <2>7. (Generated /\ OwnToken)'
    BY <2>1, <2>3, NewTokenNotRefreshed DEF Inv, Generated, OwnToken, SessionsTypeOK
  <2>8. (Alone /\ Second /\ TokensForkOnlyByOverlap)'
    BY <2>1, <2>6 DEF Inv, SessionsTypeOK, Rotation, Alone, Second, TokensForkOnlyByOverlap
  <2>9. Spent'
    BY <2>1, <2>3, <2>6 DEF Inv, Rotation, Spent, Lineage
  <2>10. Heirs'
    BY <2>1, <2>3, <2>6 DEF Inv, SessionsTypeOK, Heirs
  <2> QED
    BY <2>4, <2>5, <2>6, <2>7, <2>8, <2>9, <2>10 DEF Inv, Rotation
<1> QED
  BY <1>1, <1>2

LEMMA BeginRefreshInv ==
  ASSUME Inv, NEW r \in Requests, NEW t \in Tokens, BeginRefresh(r, t)
  PROVE  Inv'
<1>1. /\ reqs[r].at = "idle" /\ tokens[t].status = "stored" /\ ~tokens[t].revoked
      /\ reqs'[r].at = "successor" /\ reqs'[r].token = t /\ reqs'[r].user = tokens[t].user
      /\ \A q \in Requests : q # r => reqs'[q] = reqs[q]
      /\ UNCHANGED <<users, tokens, keys, lost>>
  BY DEF BeginRefresh, Enter, Inv, SessionsTypeOK
<1>2. forked \subseteq forked' /\ (BeingRefreshed(t) => t \in forked')
  BY DEF BeginRefresh
<1>3. SessionsTypeOK'
  BY <1>1 DEF BeginRefresh, Enter, Inv, SessionsTypeOK, Request, Token
<1>4. (Fresh /\ Lineage /\ Generated /\ CredentialsHaveUsers)'
  BY <1>1 DEF Inv, Fresh, Lineage, Generated, CredentialsHaveUsers, Successor
<1>5. OwnToken'
  BY <1>1 DEF Inv, OwnToken
<1>6. Alone'
  BY <1>1, <1>2 DEF Inv, Rotation, Alone, BeingRefreshed
<1>7. Spent'
  BY <1>1, <1>2 DEF Inv, Rotation, Spent, Successor
<1>8. Second'
  \* A successor of t, which is not revoked, means that t overlaps or forked before.
  <2>1. ASSUME NEW n \in Tokens, Successor(n, t) PROVE t \in forked'
    BY <1>1, <1>2, <2>1 DEF Inv, Rotation, Spent, BeingRefreshed
  <2> QED
    BY <1>1, <1>2, <2>1 DEF Inv, Rotation, Second, Successor
<1>9. TokensForkOnlyByOverlap'
  BY <1>1, <1>2 DEF Inv, Rotation, TokensForkOnlyByOverlap, Successor
<1>10. Heirs'
  BY <1>1 DEF Inv, Heirs, HasHeir, Replaces, Known, BeingAnswered, Successor
<1> QED
  BY <1>3, <1>4, <1>5, <1>6, <1>7, <1>8, <1>9, <1>10 DEF Inv, Rotation

LEMMA StoreSuccessorInv ==
  ASSUME Inv, NEW r \in Requests, NEW n \in Tokens, StoreSuccessor(r, n)
  PROVE  Inv'
<1> DEFINE u == reqs[r].user
           p == reqs[r].token
<1>a. /\ reqs[r].at = "successor" /\ u \in Users /\ u \in users /\ p \in Tokens
      /\ tokens[n].status = "unused"
      /\ reqs' = [reqs EXCEPT ![r].at = "revoke", ![r].new = n]
      /\ UNCHANGED <<users, access, keys, faults, forked, lost>>
  BY DEF StoreSuccessor, MayBelongTo, Inv, SessionsTypeOK
<1>b. /\ reqs' \in [Requests -> Request]
      /\ reqs'[r].at = "revoke" /\ reqs'[r].token = p /\ reqs'[r].user = u /\ reqs'[r].new = n
      /\ \A q \in Requests : q # r => reqs'[q] = reqs[q]
  BY <1>a, GoesOn
<1>1. /\ reqs[r].at = "successor" /\ u \in Users /\ u \in users /\ p \in Tokens
      /\ tokens[n].status = "unused"
      /\ reqs'[r].at = "revoke" /\ reqs'[r].token = p /\ reqs'[r].user = u /\ reqs'[r].new = n
      /\ \A q \in Requests : q # r => reqs'[q] = reqs[q]
      /\ UNCHANGED <<users, access, keys, faults, forked, lost>>
  BY <1>a, <1>b
<1>2. NewToken(n, u, p)
  BY DEF StoreSuccessor, NewToken
<1>3. p # n /\ u = tokens[p].user
  BY <1>1, NewTokenNotRefreshed DEF Inv, OwnToken
<1>4. tokens[p].status # "unused"
  <2>1. tokens[p].status = "unused" => tokens[p].user = None
    BY <1>1 DEF Inv, Fresh, NoToken
  <2> QED
    BY <1>1, <1>3, <2>1, SessionNoneAssumption
<1>5. /\ tokens' \in [Tokens -> Token]
      /\ tokens'[n].status = "stored" /\ tokens'[n].user = u /\ tokens'[n].parent = p
      /\ \A t \in Tokens : t # n => tokens'[t] = tokens[t]
  BY <1>1, <1>2, NewTokenFields
<1>6. /\ (Fresh /\ Lineage)'
      /\ \A m, t \in Tokens : Successor(m, t)' => Successor(m, t) \/ (m = n /\ t = p)
      /\ \A m, t \in Tokens : Replaces(m, t) => Replaces(m, t)'
      /\ \A t \in Tokens : HasHeir(t) => HasHeir(t)'
  BY <1>1, <1>2, <1>3, <1>4, NewTokenKeeps
<1>7. SessionsTypeOK'
  BY <1>1, <1>5, <1>b DEF Inv, SessionsTypeOK
<1>8. CredentialsHaveUsers'
  BY <1>1, <1>5 DEF Inv, CredentialsHaveUsers
<1>9. (Generated /\ OwnToken)'
  BY <1>1, <1>3, <1>5, NewTokenNotRefreshed DEF Inv, Generated, OwnToken, SessionsTypeOK
<1>10. Alone'
  BY <1>1 DEF Inv, Rotation, Alone
<1>11. Spent'
  <2>1. ASSUME NEW t \in Tokens, NEW m \in Tokens, Successor(m, t), t # n
        PROVE  \/ tokens'[t].revoked \/ tokens'[t].status = "deleted" \/ t \in forked'
               \/ \E q \in Requests : reqs'[q].at = "revoke" /\ reqs'[q].token = t
    BY <1>1, <1>5, <2>1 DEF Inv, Rotation, Spent
  <2>2. \A m \in Tokens : ~Successor(m, n)
    BY <1>1 DEF Inv, Lineage
  <2> QED
    BY <1>1, <1>6, <2>1, <2>2 DEF Spent
<1>12. Second'
  <2>1. ASSUME NEW q \in Requests, q # r, reqs[q].at = "successor", reqs[q].token = p
        PROVE  p \in forked
    BY <1>1, <2>1 DEF Inv, Rotation, Alone
  <2> QED
    BY <1>1, <1>6, <2>1 DEF Inv, Rotation, Second
<1>13. TokensForkOnlyByOverlap'
  \* A token with an older successor was found forked when r began to refresh it.
  <2>1. ASSUME NEW m \in Tokens, Successor(m, p) PROVE p \in forked
    BY <1>1, <2>1 DEF Inv, Rotation, Second
  <2> QED
    BY <1>1, <1>6, <2>1 DEF Inv, Rotation, TokensForkOnlyByOverlap
<1>14. Heirs'
  <2>1. Replaces(n, p)'
    BY <1>1, <1>3, <1>5 DEF Replaces, Successor
  <2>2. \A t \in Tokens : tokens'[t].revoked => HasHeir(t)'
    BY <1>1, <1>2, <1>5, <1>6, NewTokenFields DEF Inv, Heirs
  <2> QED
    BY <1>1, <1>6, <2>1, <2>2 DEF Inv, Heirs, SessionsTypeOK
<1> QED
  BY <1>6, <1>7, <1>8, <1>9, <1>10, <1>11, <1>12, <1>13, <1>14 DEF Inv, Rotation

LEMMA RevokeTokenInv ==
  ASSUME Inv, NEW r \in Requests, RevokeToken(r)
  PROVE  Inv'
<1> DEFINE p == reqs[r].token
<1>1. /\ reqs[r].at = "revoke" /\ p \in Tokens /\ reqs[r].user \in Users /\ reqs[r].new \in Tokens
      /\ reqs' = [reqs EXCEPT ![r].at = "answer"]
      /\ reqs'[r].at = "answer" /\ reqs'[r].user = reqs[r].user /\ reqs'[r].new = reqs[r].new
      /\ \A q \in Requests : q # r => reqs'[q] = reqs[q]
      /\ UNCHANGED <<users, access, keys, faults, forked, lost>>
  BY DEF RevokeToken, Inv, SessionsTypeOK
<1>2. /\ tokens' \in [Tokens -> Token]
      /\ \A t \in Tokens : /\ tokens'[t].status = tokens[t].status
                           /\ tokens'[t].user = tokens[t].user
                           /\ tokens'[t].parent = tokens[t].parent
                           /\ tokens'[t].given = tokens[t].given
                           /\ t # p => tokens'[t] = tokens[t]
      /\ tokens[p].status = "stored" => tokens'[p].revoked
      /\ tokens[p].revoked => tokens'[p].revoked
  <2> DEFINE spent == tokens[p].revoked \/ tokens[p].status = "stored"
             row == [tokens[p] EXCEPT !.revoked = spent]
  <2>1. spent \in BOOLEAN
    OBVIOUS
  <2>2. tokens[p] \in Token /\ tokens' = [tokens EXCEPT ![p] = row]
    BY <1>1 DEF RevokeToken, Inv, SessionsTypeOK
  <2>3. tokens[p].status = "stored" \/ tokens[p].revoked => spent = TRUE
    OBVIOUS
  <2> HIDE DEF spent
  <2>4. /\ row \in Token /\ row.status = tokens[p].status /\ row.user = tokens[p].user
        /\ row.parent = tokens[p].parent /\ row.given = tokens[p].given /\ row.revoked = spent
    BY <2>1, <2>2 DEF Token
  <2> HIDE DEF row
  <2> QED
    BY <1>1, <2>2, <2>3, <2>4 DEF Inv, SessionsTypeOK
<1>3. reqs' \in [Requests -> Request]
  BY <1>1 DEF Inv, SessionsTypeOK, Request
<1>4. tokens[p].status \in Presence /\ tokens[p].status # "unused"
  <2>1. tokens[p].status = "unused" => tokens[p].user = None
    BY <1>1 DEF Inv, Fresh, NoToken
  <2>2. reqs[r].user = tokens[p].user
    BY <1>1 DEF Inv, OwnToken
  <2> QED
    BY <1>1, <2>1, <2>2, SessionNoneAssumption DEF Inv, SessionsTypeOK, Token
<1>5. SessionsTypeOK'
  BY <1>1, <1>2, <1>3 DEF Inv, SessionsTypeOK
<1>6. Fresh'
  BY <1>1, <1>2, <1>4 DEF Inv, Fresh
<1>7. (Lineage /\ Generated /\ CredentialsHaveUsers)'
  BY <1>1, <1>2 DEF Inv, SessionsTypeOK, Lineage, Generated, CredentialsHaveUsers, Successor
<1>8. OwnToken'
  BY <1>1, <1>2, <1>3 DEF Inv, OwnToken, SessionsTypeOK
<1>9. (Alone /\ Second /\ TokensForkOnlyByOverlap)'
  BY <1>1, <1>2, <1>3 DEF Inv, Rotation, Alone, Second, TokensForkOnlyByOverlap, Successor
<1>10. Spent'
  <2>1. tokens'[p].revoked \/ tokens'[p].status = "deleted"
    BY <1>1, <1>2, <1>4 DEF Presence
  <2>2. ASSUME NEW t \in Tokens, NEW n \in Tokens, Successor(n, t), t # p
        PROVE  \/ tokens'[t].revoked \/ tokens'[t].status = "deleted" \/ t \in forked'
               \/ \E q \in Requests : reqs'[q].at = "revoke" /\ reqs'[q].token = t
    BY <1>1, <1>2, <2>2 DEF Inv, Rotation, Spent
  <2> QED
    BY <1>2, <2>1, <2>2 DEF Spent, Successor
<1>11. Heirs'
  <2>1. \A n, t \in Tokens : Replaces(n, t) => Replaces(n, t)'
    BY <1>1, <1>2 DEF Replaces, Successor
  <2>2. \A n \in Tokens : Known(n) => Known(n)'
    BY <1>1, <1>2 DEF Known, BeingAnswered
  <2>3. Replaces(reqs[r].new, p)' /\ Known(reqs[r].new)'
    BY <1>1, <2>1 DEF Inv, Heirs, Known, BeingAnswered
  <2>4. ASSUME NEW t \in Tokens, tokens'[t].revoked PROVE HasHeir(t)'
    BY <1>1, <1>2, <2>1, <2>2, <2>3, <2>4 DEF Inv, Heirs, HasHeir
  <2> QED
    BY <1>1, <2>1, <2>4 DEF Inv, Heirs, SessionsTypeOK
<1> QED
  BY <1>5, <1>6, <1>7, <1>8, <1>9, <1>10, <1>11 DEF Inv, Rotation

LEMMA AnswerInv ==
  ASSUME Inv, NEW r \in Requests, Answer(r)
  PROVE  Inv'
<1> DEFINE n == reqs[r].new
<1>1. /\ reqs[r].at = "answer" /\ n \in Tokens /\ reqs[r].user \in Users
      /\ reqs' = [reqs EXCEPT ![r] = Idle] /\ Idle \in Request /\ Idle.at = "idle"
      /\ reqs'[r] = Idle /\ \A q \in Requests : q # r => reqs'[q] = reqs[q]
      /\ UNCHANGED <<users, keys, faults, forked, lost>>
  BY DEF Answer, Finish, Inv, SessionsTypeOK, Idle, Request
<1>2. /\ tokens' \in [Tokens -> Token]
      /\ \A t \in Tokens : /\ tokens'[t].status = tokens[t].status
                           /\ tokens'[t].user = tokens[t].user
                           /\ tokens'[t].parent = tokens[t].parent
                           /\ tokens'[t].revoked = tokens[t].revoked
                           /\ tokens[t].given => tokens'[t].given
                           /\ t # n => tokens'[t] = tokens[t]
      /\ tokens'[n].given
  <2> DEFINE row == [tokens[n] EXCEPT !.given = TRUE]
  <2>1. tokens[n] \in Token /\ tokens' = [tokens EXCEPT ![n] = row]
    BY <1>1 DEF Answer, Inv, SessionsTypeOK
  <2>2. /\ row \in Token /\ row.status = tokens[n].status /\ row.user = tokens[n].user
        /\ row.parent = tokens[n].parent /\ row.revoked = tokens[n].revoked /\ row.given = TRUE
    BY <2>1 DEF Token
  <2> HIDE DEF row
  <2> QED
    BY <1>1, <2>1, <2>2 DEF Inv, SessionsTypeOK
<1>3. SessionsTypeOK'
  <2>1. reqs' \in [Requests -> Request] /\ access' \subseteq Users
    BY <1>1 DEF Answer, Inv, SessionsTypeOK
  <2> QED
    BY <1>1, <1>2, <2>1 DEF Inv, SessionsTypeOK
<1>4. tokens[n].status # "unused"
  BY <1>1 DEF Inv, Generated
<1>5. (Fresh /\ Lineage /\ Generated /\ CredentialsHaveUsers /\ OwnToken)'
  BY <1>1, <1>2, <1>4
     DEF Inv, SessionsTypeOK, Fresh, Lineage, Generated, CredentialsHaveUsers, OwnToken, Successor
<1>6. Rotation'
  BY <1>1, <1>2 DEF Inv, Rotation, Alone, Spent, Second, TokensForkOnlyByOverlap, Successor
<1>7. Heirs'
  <2>1. \A m, t \in Tokens : Replaces(m, t) => Replaces(m, t)'
    BY <1>1, <1>2 DEF Replaces, Successor
  <2>2. \A m \in Tokens : Known(m) => Known(m)'
    BY <1>1, <1>2 DEF Known, BeingAnswered
  <2> QED
    BY <1>1, <1>2, <2>1, <2>2 DEF Inv, SessionsTypeOK, Heirs, HasHeir
<1> QED
  BY <1>3, <1>5, <1>6, <1>7 DEF Inv

LEMMA CreateApiKeyInv ==
  ASSUME Inv, NEW u \in Users, NEW k \in Keys, CreateApiKey(u, k)
  PROVE  Inv'
<1>1. [NoKey EXCEPT !.status = "stored", !.user = u] \in Key
  BY DEF NoKey, Key, Presence
<1>2. /\ [NoKey EXCEPT !.status = "stored", !.user = u].user = u
      /\ u \in users
  BY DEF CreateApiKey, MayBelongTo, NoKey
<1>3. SessionsTypeOK' /\ CredentialsHaveUsers'
  <2> DEFINE key == [NoKey EXCEPT !.status = "stored", !.user = u]
  <2>1. key \in Key /\ key.user = u /\ keys' = [keys EXCEPT ![k] = key]
    BY <1>1, <1>2 DEF CreateApiKey
  <2> HIDE DEF key
  <2> QED
    BY <1>2, <2>1 DEF CreateApiKey, Inv, SessionsTypeOK, CredentialsHaveUsers
<1>4. (Fresh /\ Lineage /\ Generated /\ OwnToken /\ Rotation /\ Heirs)'
  BY QuietRotation DEF CreateApiKey
<1> QED
  BY <1>3, <1>4 DEF Inv

LEMMA UseKeyInv ==
  ASSUME Inv, NEW r \in Requests,
         \/ \E k \in Keys : BeginUseKey(r, k) \/ \E u \in Users : BeginRevokeKey(r, u, k)
         \/ TouchKey(r) \/ DeactivateKey(r)
  PROVE  Inv'
<1>1. ASSUME NEW k \in Keys, BeginUseKey(r, k) \/ \E u \in Users : BeginRevokeKey(r, u, k)
      PROVE  Inv'
  <2>1. /\ reqs[r].at = "idle" /\ reqs' \in [Requests -> Request]
        /\ reqs'[r].at \in {"touch", "deactivate"} /\ reqs'[r].user \in Users /\ reqs'[r].key = k
        /\ \A q \in Requests : q # r => reqs'[q] = reqs[q]
        /\ UNCHANGED <<users, access, tokens, keys, faults, forked, lost>>
    BY <1>1 DEF BeginUseKey, BeginRevokeKey, Enter, Inv, SessionsTypeOK, Request, Key
  <2>2. SessionsTypeOK' /\ CredentialsHaveUsers'
    BY <2>1 DEF Inv, SessionsTypeOK, CredentialsHaveUsers
  <2>3. (Fresh /\ Lineage /\ Generated /\ OwnToken /\ Rotation /\ Heirs)'
    BY <2>1, QuietRotation
  <2> QED
    BY <2>2, <2>3 DEF Inv
<1>2. ASSUME TouchKey(r) \/ DeactivateKey(r) PROVE Inv'
  <2>1. /\ reqs[r].at \in {"touch", "deactivate"} /\ reqs'[r] = Idle
        /\ reqs' = [reqs EXCEPT ![r] = Idle]
        /\ \A q \in Requests : q # r => reqs'[q] = reqs[q]
        /\ UNCHANGED <<users, access, tokens, faults, forked, lost>>
    BY <1>2 DEF TouchKey, DeactivateKey, Finish, Inv, SessionsTypeOK
  <2>2. /\ keys' \in [Keys -> Key]
        /\ \A k \in Keys : keys'[k].status = keys[k].status /\ keys'[k].user = keys[k].user
    <3>1. CASE TouchKey(r)
      BY <3>1 DEF TouchKey, Inv, SessionsTypeOK
    <3>2. CASE DeactivateKey(r)
      <4> DEFINE key == reqs[r].key
                 still == keys[key].active /\ keys[key].status # "stored"
                 row == [keys[key] EXCEPT !.active = still]
      <4>1. still \in BOOLEAN /\ key \in Keys /\ keys' = [keys EXCEPT ![key] = row]
        BY <3>2 DEF DeactivateKey, Inv, SessionsTypeOK
      <4> HIDE DEF still
      <4>2. row \in Key /\ row.status = keys[key].status /\ row.user = keys[key].user
        BY <4>1 DEF Inv, SessionsTypeOK, Key
      <4> HIDE DEF row, key
      <4> QED
        BY <4>1, <4>2 DEF Inv, SessionsTypeOK
    <3> QED
      BY <1>2, <3>1, <3>2
  <2>3. Idle \in Request /\ reqs'[r].at = "idle"
    BY <2>1 DEF Idle, Request
  <2>4. SessionsTypeOK' /\ CredentialsHaveUsers'
    BY <2>1, <2>2, <2>3 DEF Inv, SessionsTypeOK, CredentialsHaveUsers
  <2>5. (Fresh /\ Lineage /\ Generated /\ OwnToken /\ Rotation /\ Heirs)'
    BY <2>1, <2>3, QuietRotation
  <2> QED
    BY <2>4, <2>5 DEF Inv
<1> QED
  BY <1>1, <1>2

-----------------------------------------------------------------------------
(***************************************************************************)
(* Deletion, time and failures.                                            *)
(***************************************************************************)

\* Deleting a user, or the passing of time, takes no user, parent or revocation
\* from a token.
LEMMA RemovalInv ==
  ASSUME Inv, \/ \E u \in Users : RemoveUser(u) \/ ExpireAccess(u)
              \/ \E t \in Tokens : ExpireToken(t)
              \/ \E k \in Keys : ExpireKey(k)
  PROVE  Inv'
<1>1. /\ users' \subseteq users /\ UNCHANGED <<reqs, faults, forked, lost>>
      /\ access' \subseteq access
  BY DEF RemoveUser, ExpireAccess, ExpireToken, ExpireKey
<1>2. /\ tokens' \in [Tokens -> Token]
      /\ \A t \in Tokens : /\ tokens'[t].user = tokens[t].user
                           /\ tokens'[t].parent = tokens[t].parent
                           /\ tokens'[t].revoked = tokens[t].revoked
                           /\ tokens'[t].given = tokens[t].given
                           /\ tokens[t].status = "unused" => tokens'[t] = tokens[t]
                           /\ tokens[t].status = "deleted" => tokens'[t].status = "deleted"
                           /\ tokens'[t].status = "unused" => tokens[t].status = "unused"
                           /\ tokens'[t].status = "stored" =>
                                tokens[t].status = "stored" /\ tokens[t].user \in users'
                           /\ tokens[t].status = "stored" =>
                                tokens'[t].status = "stored" \/ tokens[t].user \notin users'
  <2>1. CASE \E u \in Users : RemoveUser(u)
    BY <2>1 DEF RemoveUser, Inv, SessionsTypeOK, CredentialsHaveUsers, Token, Presence
  <2>2. CASE \E u \in Users : ExpireAccess(u)
    BY <2>2 DEF ExpireAccess, Inv, SessionsTypeOK, CredentialsHaveUsers
  <2>3. CASE \E t \in Tokens : ExpireToken(t)
    <3>1. PICK x \in Tokens : ExpireToken(x)
      BY <2>3
    <3> DEFINE row == [tokens[x] EXCEPT !.expired = TRUE]
    <3>2. /\ tokens' = [tokens EXCEPT ![x] = row] /\ tokens[x].status = "stored"
          /\ tokens[x] \in Token /\ UNCHANGED users
      BY <3>1 DEF ExpireToken, Inv, SessionsTypeOK
    <3>3. /\ row \in Token /\ row.status = "stored" /\ row.user = tokens[x].user
          /\ row.parent = tokens[x].parent /\ row.revoked = tokens[x].revoked /\ row.given = tokens[x].given
      BY <3>2 DEF Token
    <3> HIDE DEF row
    <3> QED
      BY <3>2, <3>3 DEF Inv, SessionsTypeOK, CredentialsHaveUsers
  <2>4. CASE \E k \in Keys : ExpireKey(k)
    BY <2>4 DEF ExpireKey, Inv, SessionsTypeOK, CredentialsHaveUsers
  <2> QED
    BY <2>1, <2>2, <2>3, <2>4
<1>3. /\ keys' \in [Keys -> Key]
      /\ \A k \in Keys : /\ keys'[k].user = keys[k].user
                         /\ keys'[k].status # "unused" => keys[k].status # "unused"
                         /\ keys'[k].status = "stored" => keys[k].user \in users'
  <2>1. CASE \E u \in Users : RemoveUser(u)
    BY <2>1 DEF RemoveUser, Cascade, Inv, SessionsTypeOK, CredentialsHaveUsers, Key, Presence
  <2>2. CASE \E u \in Users : ExpireAccess(u)
    BY <2>2 DEF ExpireAccess, Inv, SessionsTypeOK, CredentialsHaveUsers
  <2>3. CASE \E t \in Tokens : ExpireToken(t)
    BY <2>3 DEF ExpireToken, Inv, SessionsTypeOK, CredentialsHaveUsers
  <2>4. CASE \E k \in Keys : ExpireKey(k)
    <3>1. PICK x \in Keys : ExpireKey(x)
      BY <2>4
    <3> DEFINE row == [keys[x] EXCEPT !.expired = TRUE]
    <3>2. /\ keys' = [keys EXCEPT ![x] = row] /\ keys[x].status = "stored"
          /\ keys[x] \in Key /\ UNCHANGED users
      BY <3>1 DEF ExpireKey, Inv, SessionsTypeOK
    <3>3. row \in Key /\ row.status = "stored" /\ row.user = keys[x].user
      BY <3>2 DEF Key
    <3> HIDE DEF row
    <3> QED
      BY <3>2, <3>3 DEF Inv, SessionsTypeOK, CredentialsHaveUsers
  <2> QED
    BY <2>1, <2>2, <2>3, <2>4
<1>4. SessionsTypeOK' /\ CredentialsHaveUsers'
  BY <1>1, <1>2, <1>3 DEF Inv, SessionsTypeOK, CredentialsHaveUsers
<1>5. (Fresh /\ Lineage /\ Generated /\ OwnToken)'
  BY <1>1, <1>2 DEF Inv, Fresh, Lineage, Generated, OwnToken, Successor, SessionsTypeOK
<1>6. Rotation'
  BY <1>1, <1>2 DEF Inv, Rotation, Alone, Spent, Second, TokensForkOnlyByOverlap, Successor
<1>7. Heirs'
  <2>1. \A n, t \in Tokens : Replaces(n, t) => Replaces(n, t)'
    BY <1>1, <1>2 DEF Replaces, Successor
  <2>2. \A n \in Tokens : Known(n) => Known(n)'
    BY <1>1, <1>2 DEF Known, BeingAnswered
  <2> QED
    BY <1>1, <1>2, <2>1, <2>2 DEF Inv, SessionsTypeOK, Heirs, HasHeir
<1> QED
  BY <1>4, <1>5, <1>6, <1>7 DEF Inv

LEMMA FailureInv ==
  ASSUME Inv, Crash \/ \E r \in Requests : DatabaseError(r) \/ AnswerLost(r)
  PROVE  Inv'
<1>1. /\ UNCHANGED <<users, access, tokens, keys>>
      /\ faults' \in 0 .. MaxFaults
  BY SessionFaultsAssumption DEF Crash, DatabaseError, AnswerLost, Inv, SessionsTypeOK
<1>2. /\ reqs' \in [Requests -> Request]
      /\ \A q \in Requests : reqs'[q] = reqs[q] \/ reqs'[q] = Idle
  <2>1. Idle \in Request
    BY DEF Idle, Request
  <2> QED
    BY <2>1 DEF Crash, DatabaseError, AnswerLost, Finish, Inv, SessionsTypeOK
<1>3. /\ forked \subseteq forked' /\ forked' \subseteq Tokens
      /\ lost \subseteq lost' /\ lost' \subseteq Tokens
      /\ \A q \in Requests : reqs[q].at = "revoke" => reqs'[q] = reqs[q] \/ reqs[q].token \in forked'
      /\ \A q \in Requests : reqs[q].at = "answer" => reqs'[q] = reqs[q] \/ reqs[q].new \in lost'
  <2>1. \A q \in Requests : CutOff(q) \subseteq Tokens /\ Unanswered(q) \subseteq Tokens
    BY DEF CutOff, Unanswered, Inv, SessionsTypeOK
  <2>2. \A q \in Requests : /\ reqs[q].at = "revoke" => reqs[q].token \in CutOff(q)
                            /\ reqs[q].at = "answer" => reqs[q].new \in Unanswered(q)
    BY DEF CutOff, Unanswered
  <2>3. CASE Crash
    BY <2>1, <2>2, <2>3 DEF Crash, Inv, SessionsTypeOK
  <2>4. CASE \E r \in Requests : DatabaseError(r)
    BY <2>1, <2>2, <2>4 DEF DatabaseError, Finish, Inv, SessionsTypeOK
  <2>5. CASE \E r \in Requests : AnswerLost(r)
    BY <2>1, <2>2, <2>5 DEF AnswerLost, Finish, Inv, SessionsTypeOK
  <2> QED
    BY <2>3, <2>4, <2>5
<1>4. Idle.at = "idle"
  BY DEF Idle
<1>5. SessionsTypeOK' /\ CredentialsHaveUsers'
  BY <1>1, <1>2, <1>3, <1>4 DEF Inv, SessionsTypeOK, CredentialsHaveUsers
<1>6. (Fresh /\ Lineage /\ Generated /\ OwnToken /\ Rotation /\ Heirs)'
  BY <1>1, <1>2, <1>3, <1>4, QuietRotation
<1> QED
  BY <1>5, <1>6 DEF Inv

LEMMA StepInv == Inv /\ [Next]_vars => Inv'
<1> SUFFICES ASSUME Inv, [Next]_vars PROVE Inv'
  OBVIOUS
<1>1. ASSUME NEW r \in Requests, Continue(r) PROVE Inv'
  <2>1. CASE \E n \in Tokens : StoreLogin(r, n)
    BY <2>1, LoginInv
  <2>2. CASE \E n \in Tokens : StoreSuccessor(r, n)
    BY <2>2, StoreSuccessorInv
  <2>3. CASE RevokeToken(r)
    BY <2>3, RevokeTokenInv
  <2>4. CASE TouchKey(r) \/ DeactivateKey(r)
    BY <2>4, UseKeyInv
  <2>5. CASE Answer(r)
    BY <2>5, AnswerInv
  <2>6. CASE DatabaseError(r) \/ AnswerLost(r)
    BY <2>6, FailureInv
  <2> QED
    BY <1>1, <2>1, <2>2, <2>3, <2>4, <2>5, <2>6 DEF Continue
<1>2. ASSUME NEW r \in Requests, Receive(r) PROVE Inv'
  BY <1>2, LoginInv, BeginRefreshInv, UseKeyInv DEF Receive
<1>3. CASE \E u \in Users, k \in Keys : CreateApiKey(u, k)
  BY <1>3, CreateApiKeyInv
<1>4. CASE \/ \E u \in Users : RemoveUser(u) \/ ExpireAccess(u)
           \/ \E t \in Tokens : ExpireToken(t)
           \/ \E k \in Keys : ExpireKey(k)
  BY <1>4, RemovalInv
<1>5. CASE Crash
  BY <1>5, FailureInv
<1>6. CASE UNCHANGED vars
  <2>1. SessionsTypeOK' /\ CredentialsHaveUsers'
    BY <1>6 DEF vars, Inv, SessionsTypeOK, CredentialsHaveUsers
  <2>2. (Fresh /\ Lineage /\ Generated /\ OwnToken /\ Rotation /\ Heirs)'
    BY <1>6, QuietRotation DEF vars
  <2> QED
    BY <2>1, <2>2 DEF Inv
<1> QED
  BY <1>1, <1>2, <1>3, <1>4, <1>5, <1>6 DEF Next

-----------------------------------------------------------------------------
(***************************************************************************)
(* The theorems.                                                           *)
(***************************************************************************)
LEMMA Invariance == Spec => []Inv
<1> QED
  BY InitInv, StepInv, PTL DEF Spec

\* Every stored token and key was given to a user, and every handler of
\* AuthService works for one, on a token or key it found.
THEOREM SessionsTypeCorrect == Spec => []SessionsTypeOK
<1>1. Inv => SessionsTypeOK
  BY DEF Inv
<1> QED
  BY <1>1, Invariance, PTL

\* refreshToken hands out two successors of one refresh token only if two
\* refreshes of it overlapped, or one ended between its two queries.
THEOREM RotationIsExclusive == Spec => []TokensForkOnlyByOverlap
<1>1. Inv => TokensForkOnlyByOverlap
  BY DEF Inv, Rotation
<1> QED
  BY <1>1, Invariance, PTL

\* refreshToken revokes a token only after its successor was stored, and only an answer
\* that is lost after that keeps the successor from the client.
THEOREM RevocationFollowsReplacement == Spec => []RevokedOnlyWhenReplaced
<1>1. Inv => RevokedOnlyWhenReplaced
  BY DEF Inv, Heirs, HasHeir, Replaces, Known, RevokedOnlyWhenReplaced
<1> QED
  BY <1>1, Invariance, PTL

\* The foreign keys of refresh_tokens and api_keys leave no credential of a
\* deleted user, whatever handlers were about to store one.
THEOREM NothingOutlivesItsUser == Spec => []CredentialsHaveUsers
<1>1. Inv => CredentialsHaveUsers
  BY DEF Inv
<1> QED
  BY <1>1, Invariance, PTL

\* A key that was not created yet is not revoked either.
FreshKeys == \A k \in Keys : keys[k].status = "unused" => keys[k].active

\* The effect of any step on one key.
LEMMA KeyStep ==
  ASSUME SessionsTypeOK, [Next]_vars, NEW k \in Keys
  PROVE  \/ keys'[k].status = keys[k].status /\ keys'[k].active = keys[k].active
         \/ keys[k].status = "stored" /\ keys'[k].status # "unused"
              /\ (keys'[k].active => keys[k].active)
         \/ keys[k].status = "unused" /\ keys'[k].active
<1> DEFINE Kept == keys'[k].status = keys[k].status /\ keys'[k].active = keys[k].active
           Stays == keys[k].status = "stored" /\ keys'[k].status # "unused"
                      /\ (keys'[k].active => keys[k].active)
           Made == keys[k].status = "unused" /\ keys'[k].active
<1>1. ASSUME UNCHANGED keys PROVE Kept
  BY <1>1
<1>2. ASSUME NEW u \in Users, NEW x \in Keys, CreateApiKey(u, x) PROVE Kept \/ Made
  <2> DEFINE key == [NoKey EXCEPT !.status = "stored", !.user = u]
  <2>1. key.active /\ keys' = [keys EXCEPT ![x] = key] /\ keys[x].status = "unused"
    BY <1>2 DEF CreateApiKey, NoKey
  <2> HIDE DEF key
  <2> QED
    BY <2>1 DEF SessionsTypeOK
<1>3. ASSUME NEW r \in Requests, DeactivateKey(r) PROVE Kept \/ Stays
  <2> DEFINE x == reqs[r].key
             still == keys[x].active /\ keys[x].status # "stored"
             row == [keys[x] EXCEPT !.active = still]
  <2>1. x \in Keys /\ keys' = [keys EXCEPT ![x] = row]
    BY <1>3 DEF DeactivateKey, SessionsTypeOK
  <2>2. /\ keys[x].active \in BOOLEAN /\ (keys[x].status # "stored" => still = keys[x].active)
        /\ keys[x].status = "stored" => ~still
    BY <2>1 DEF SessionsTypeOK, Key
  <2>3. row.status = keys[x].status /\ row.active = still
    BY <2>1 DEF SessionsTypeOK, Key
  <2> HIDE DEF x, still, row
  <2>4. k # x => Kept
    BY <2>1 DEF SessionsTypeOK
  <2>5. k = x => keys'[k] = row
    BY <2>1 DEF SessionsTypeOK
  <2> QED
    BY <2>2, <2>3, <2>4, <2>5
<1>4. ASSUME NEW u \in Users, RemoveUser(u) PROVE Kept \/ Stays
  BY <1>4 DEF RemoveUser, Cascade, SessionsTypeOK, Key
<1>5. ASSUME NEW x \in Keys, ExpireKey(x) PROVE Kept
  BY <1>5 DEF ExpireKey, SessionsTypeOK, Key
<1>6. ASSUME NEW r \in Requests, Continue(r) PROVE UNCHANGED keys \/ DeactivateKey(r)
  BY <1>6 DEF Continue, StoreLogin, StoreSuccessor, RevokeToken, Answer, AnswerLost, TouchKey, DatabaseError
<1>7. ASSUME NEW r \in Requests, Receive(r) PROVE UNCHANGED keys
  BY <1>7 DEF Receive, BeginLogin, BeginRefresh, BeginUseKey, BeginRevokeKey
<1>8. ASSUME \/ \E u \in Users : ExpireAccess(u)
             \/ \E t \in Tokens : ExpireToken(t)
             \/ Crash \/ UNCHANGED vars
      PROVE  UNCHANGED keys
  BY <1>8 DEF ExpireAccess, ExpireToken, Crash, vars
<1> HIDE DEF Kept, Stays, Made
<1>9. Kept \/ Stays \/ Made
  BY <1>1, <1>2, <1>3, <1>4, <1>5, <1>6, <1>7, <1>8 DEF Next
<1> QED
  BY <1>9 DEF Kept, Stays, Made

\* No handler of AuthService makes a revoked API key active again, validateApiKey
\* with its stale entity included.
THEOREM RevocationIsFinal == Spec => RevokedKeyStaysRevoked
<1>1. Init => FreshKeys
  BY DEF Init, FreshKeys, NoKey
<1>2. SessionsTypeOK /\ FreshKeys /\ [Next]_vars => FreshKeys'
  BY KeyStep DEF FreshKeys
<1>3. SessionsTypeOK /\ FreshKeys /\ [Next]_vars
        => [\A k \in Keys : ~keys[k].active => ~keys'[k].active]_vars
  BY KeyStep DEF FreshKeys
<1> QED
  BY <1>1, <1>2, <1>3, SessionsTypeCorrect, PTL DEF Spec, RevokedKeyStaysRevoked
=============================================================================
