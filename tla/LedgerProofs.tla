---------------------------- MODULE LedgerProofs ----------------------------
(***************************************************************************)
(* Verifications implements AccountLedger: whatever its handlers do at     *)
(* once, accounts and their links behave as if each were opened, credited, *)
(* linked and deleted in one step, on the strength of finalized            *)
(* verifications only.                                                     *)
(***************************************************************************)
EXTENDS VerificationsProofs

\* A row that was never created is empty and undecided, and a handler of a
\* verification works on a row that was.  Opening a verification for an account is only then a step of
\* the ledger.
Present ==
  /\ \A v \in Ids : ~Exists(v) => rows[v] = NoRow /\ decisions[v] = {}
  /\ \A r \in Requests : reqs[r].at \notin {"idle", "update"} => Exists(reqs[r].id)

-----------------------------------------------------------------------------
(***************************************************************************)
(* The effect of the actions on rows and handlers.                         *)
(***************************************************************************)

\* The actions that store a status.
Stores(r) ==
  \/ StoreSession(r) \/ StoreImageStep(r) \/ StoreGovernmentStep(r)
  \/ StoreFinalize(r) \/ StoreOverride(r) \/ MarkProcessing(r)
  \/ StoreAssessment(r) \/ RejectUpload(r)

\* All the others of a handler but those that write accounts and links.
Passes(r) ==
  \/ OpenImage(r) \/ WriteImage(r) \/ ReloadFinalized(r) \/ FindAccount(r)
  \/ AnnounceAssessment(r) \/ AssessmentFails(r) \/ CallFails(r) \/ DatabaseError(r)

\* A handler ends or goes on with the same verification, and no other moves.
Proceeds(r) ==
  /\ \A q \in Requests : q # r => reqs'[q] = reqs[q]
  /\ reqs'[r].at = "idle" \/ (reqs'[r].id = reqs[r].id /\ reqs[r].at # "update")

LEMMA FinishProceeds ==
  ASSUME Typed, NEW r \in Requests, Finish(r)
  PROVE  Proceeds(r)
  BY DEF Finish, Proceeds, Idle, Typed, TypeOK

LEMMA MoveProceeds ==
  ASSUME Typed, NEW r \in Requests, NEW at, reqs[r].at # "update", Move(r, at)
  PROVE  Proceeds(r)
  BY DEF Move, Proceeds, Typed, TypeOK, Request

\* A handler stores its status in the row it works on, and nothing about accounts.
LEMMA StoreEffect ==
  ASSUME Typed, NEW r \in Requests, Stores(r)
  PROVE  LET v == reqs[r].id IN
         /\ v \in Ids /\ reqs[r].at \notin {"idle", "update"}
         /\ rows'[v].status \in LegacyStatuses
         /\ rows'[v].account = rows[v].account
         /\ \A w \in Ids : w # v => rows'[w] = rows[w] /\ decisions'[w] = decisions[w]
         /\ decisions[v] \subseteq decisions'[v]
         /\ UNCHANGED accounts
         /\ Proceeds(r)
<1> DEFINE v == reqs[r].id
<1>0. v \in Ids /\ reqs[r].at \notin {"idle", "update"}
  BY DEF Stores, Typed, HandlersInOrder, StoreSession, StoreImageStep, StoreGovernmentStep,
         StoreFinalize, StoreOverride, MarkProcessing, StoreAssessment, RejectUpload
<1>1. UNCHANGED accounts
  BY DEF Stores, StoreSession, StoreImageStep, StoreGovernmentStep,
         StoreFinalize, StoreOverride, MarkProcessing, StoreAssessment, RejectUpload
<1>2. Proceeds(r)
  BY <1>0, FinishProceeds, MoveProceeds
     DEF Stores, StoreSession, StoreImageStep, StoreGovernmentStep,
         StoreFinalize, StoreOverride, MarkProcessing, StoreAssessment, RejectUpload
<1>3. /\ \A w \in Ids : w # v => decisions'[w] = decisions[w]
      /\ decisions[v] \subseteq decisions'[v]
  <2>1. UNCHANGED decisions \/ \E status : Record(v, status)
    BY DEF Stores, StoreSession, StoreImageStep, StoreGovernmentStep,
           StoreFinalize, StoreOverride, MarkProcessing, StoreAssessment, RejectUpload
  <2> QED
    BY <1>0, <2>1, RecordType DEF Typed
<1>4. rows' \in [Ids -> Row]
  BY StoreSessionType, ImageStepType, GovernmentStepType, FinalizationType, OverrideType, UploadType
     DEF Stores, Typed, TypeOK
<1>5. /\ rows'[v].status # "absent"
      /\ rows'[v].account = rows[v].account
      /\ \A w \in Ids : w # v => rows'[w] = rows[w]
  <2>1. CASE StoreSession(r)
    <3>1. PICK status \in SessionStatuses(rows[v].provider) :
            rows' = [rows EXCEPT ![v] = [rows[v] EXCEPT !.status = status, !.ext = rows[v].provider]]
      BY <2>1 DEF StoreSession
    <3>2. status # "absent"
      BY DEF SessionStatuses
    <3> DEFINE row == [rows[v] EXCEPT !.status = status, !.ext = rows[v].provider]
    <3>3. row.status = status /\ row.account = rows[v].account
      BY <1>0 DEF Typed, TypeOK, Row
    <3>4. rows' = [rows EXCEPT ![v] = row]
      BY <3>1
    <3> HIDE DEF row
    <3> QED
      BY <1>0, <3>2, <3>3, <3>4 DEF Typed, TypeOK
  <2>2. CASE StoreImageStep(r) \/ StoreGovernmentStep(r)
    <3>1. PICK status \in StepStatuses, steps \in {WithStep(reqs[r].steps, reqs[r].step, reqs[r].image),
                                                   NoSteps, reqs[r].steps} :
            rows' = [rows EXCEPT ![v] = [rows[v] EXCEPT !.status = status, !.steps = steps]]
      BY <2>2 DEF StoreImageStep, StoreGovernmentStep
    <3>2. status # "absent"
      BY StepAnswers DEF LegacyStatuses
    <3> DEFINE row == [rows[v] EXCEPT !.status = status, !.steps = steps]
    <3>3. row.status = status /\ row.account = rows[v].account
      BY <1>0 DEF Typed, TypeOK, Row
    <3>4. rows' = [rows EXCEPT ![v] = row]
      BY <3>1
    <3> HIDE DEF row
    <3> QED
      BY <1>0, <3>2, <3>3, <3>4 DEF Typed, TypeOK
  <2>3. CASE StoreOverride(r)
    <3>1. PICK status \in {"approved", "rejected"} :
            rows' = [rows EXCEPT ![v] = [rows[v] EXCEPT !.status = status, !.overridden = TRUE]]
      BY <2>3 DEF StoreOverride
    <3> DEFINE row == [rows[v] EXCEPT !.status = status, !.overridden = TRUE]
    <3>2. row.status = status /\ row.account = rows[v].account
      BY <1>0 DEF Typed, TypeOK, Row
    <3>3. rows' = [rows EXCEPT ![v] = row]
      BY <3>1
    <3> HIDE DEF row
    <3> QED
      BY <1>0, <3>2, <3>3 DEF Typed, TypeOK
  <2>4. CASE StoreFinalize(r) \/ MarkProcessing(r) \/ StoreAssessment(r) \/ RejectUpload(r)
    <3>1. PICK status \in LegacyStatuses : rows' = [rows EXCEPT ![v].status = status]
      BY <2>4, FinalAnswers
         DEF StoreFinalize, MarkProcessing, StoreAssessment, RejectUpload, SessionStatuses, LegacyStatuses
    <3>2. status # "absent"
      BY DEF LegacyStatuses
    <3> QED
      BY <1>0, <3>1, <3>2 DEF Typed, TypeOK, Row
  <2> QED
    BY <2>1, <2>2, <2>3, <2>4 DEF Stores
<1> QED
  BY <1>0, <1>1, <1>2, <1>3, <1>4, <1>5 DEF Row

\* The other actions of a handler touch neither the rows nor the accounts.
LEMMA PassEffect ==
  ASSUME Typed, NEW r \in Requests, Passes(r)
  PROVE  /\ UNCHANGED <<rows, accounts, decisions>>
         /\ reqs[r].at # "idle"
         /\ Proceeds(r)
<1>1. /\ UNCHANGED <<rows, accounts, decisions>>
      /\ reqs[r].at # "idle"
  BY DEF Passes, OpenImage, WriteImage, ReloadFinalized, FindAccount, AnnounceAssessment,
         AssessmentFails, CallFails, DatabaseError
<1>2. CASE ReloadFinalized(r)
  <2>1. Finish(r) \/ reqs' = [reqs EXCEPT ![r] = [@ EXCEPT !.at = "find", !.account = rows[reqs[r].id].account]]
    BY <1>2 DEF ReloadFinalized
  <2>2. CASE reqs' = [reqs EXCEPT ![r] = [@ EXCEPT !.at = "find", !.account = rows[reqs[r].id].account]]
    <3> DEFINE q == [reqs[r] EXCEPT !.at = "find", !.account = rows[reqs[r].id].account]
    <3>1. reqs' = [reqs EXCEPT ![r] = q] /\ q.id = reqs[r].id
      BY <2>2 DEF Typed, TypeOK, Request
    <3> HIDE DEF q
    <3> QED
      BY <1>1, <1>2, <3>1 DEF ReloadFinalized, Proceeds, Typed, TypeOK
  <2> QED
    BY <1>1, <2>1, <2>2, FinishProceeds
<1>3. CASE FindAccount(r)
  BY <1>1, <1>3 DEF FindAccount, Proceeds, Typed, TypeOK, Request
<1>4. CASE \/ OpenImage(r) \/ WriteImage(r) \/ AnnounceAssessment(r) \/ AssessmentFails(r)
           \/ CallFails(r) \/ DatabaseError(r)
  <2>1. Finish(r) \/ \E at : Move(r, at)
    BY <1>4 DEF OpenImage, WriteImage, AnnounceAssessment, AssessmentFails, CallFails, DatabaseError
  <2>2. Finish(r) \/ reqs[r].at # "update"
    BY <1>4 DEF OpenImage, WriteImage, AnnounceAssessment, AssessmentFails, CallFails, DatabaseError
  <2> QED
    BY <1>1, <2>1, <2>2, FinishProceeds, MoveProceeds
<1> QED
  BY <1>1, <1>2, <1>3, <1>4 DEF Passes

\* An account is credited for the verification of the handler, which goes on to
\* link it if the row was linked to another one.
LEMMA CreditEffect ==
  ASSUME Typed, NEW r \in Requests, CreditAccount(r)
  PROVE  /\ reqs[r].id \in Ids /\ reqs[r].at \notin {"idle", "update"}
         /\ "verified" \in decisions[reqs[r].id]
         /\ \E a \in Accounts :
              accounts' = [accounts EXCEPT ![a] = [status |-> "verified", last |-> reqs[r].id]]
         /\ UNCHANGED <<rows, decisions>>
         /\ Proceeds(r)
<1>1. /\ reqs[r].id \in Ids /\ reqs[r].at \notin {"idle", "update"}
      /\ "verified" \in decisions[reqs[r].id]
      /\ UNCHANGED <<rows, decisions>>
  BY DEF CreditAccount, Typed, HandlersInOrder
<1>2. PICK a \in Accounts :
        /\ accounts' = [accounts EXCEPT ![a] = [status |-> "verified", last |-> reqs[r].id]]
        /\ Finish(r) \/ reqs' = [reqs EXCEPT ![r] = [@ EXCEPT !.at = "link", !.target = a]]
  BY DEF CreditAccount
<1>3. CASE reqs' = [reqs EXCEPT ![r] = [@ EXCEPT !.at = "link", !.target = a]]
  <2> DEFINE q == [reqs[r] EXCEPT !.at = "link", !.target = a]
  <2>1. reqs' = [reqs EXCEPT ![r] = q] /\ q.id = reqs[r].id
    BY <1>3 DEF Typed, TypeOK, Request
  <2> HIDE DEF q
  <2>2. Proceeds(r)
    BY <1>1, <2>1 DEF Proceeds, Typed, TypeOK
  <2> QED
    BY <1>1, <1>2, <2>2
<1> QED
  BY <1>1, <1>2, <1>3, FinishProceeds

\* An update saves an account on the strength of the verification it rested on
\* when it was read, which was finalized then.
LEMMA UpdateEffect ==
  ASSUME Typed, NEW r \in Requests, StoreUpdatedAccount(r)
  PROVE  LET v == reqs[r].last  a == reqs[r].target IN
         /\ v \in Ids /\ a \in Accounts
         /\ "verified" \in decisions[v]
         /\ accounts' = [accounts EXCEPT ![a] = [status |-> "verified", last |-> v]]
         /\ UNCHANGED <<rows, decisions>>
         /\ Proceeds(r) /\ reqs'[r].at = "idle"
<1>1. reqs'[r].at = "idle"
  BY DEF StoreUpdatedAccount, Finish, Idle, Typed, TypeOK
<1> QED
  BY <1>1, FinishProceeds DEF StoreUpdatedAccount, Typed, HandlersInOrder

LEMMA LinkEffect ==
  ASSUME Typed, NEW r \in Requests, LinkAccount(r)
  PROVE  LET v == reqs[r].id  a == reqs[r].target IN
         /\ v \in Ids /\ reqs[r].at \notin {"idle", "update"}
         /\ "verified" \in decisions[v]
         /\ a \in Accounts /\ AccountExists(a)
         /\ rows'[v].status = rows[v].status
         /\ rows'[v].account = a
         /\ \A w \in Ids : w # v => rows'[w] = rows[w]
         /\ UNCHANGED <<accounts, decisions>>
         /\ Proceeds(r)
<1>1. reqs[r].id \in Ids /\ reqs[r].target \in Accounts /\ reqs[r].at \notin {"idle", "update"}
        /\ "verified" \in decisions[reqs[r].id]
  BY DEF LinkAccount, Typed, HandlersInOrder
<1>2. Proceeds(r)
  BY FinishProceeds DEF LinkAccount
<1> QED
  BY <1>1, <1>2 DEF LinkAccount, Typed, TypeOK, Row

\* What a request that arrives does: it enters a handler of v, and only
\* createVerification writes a row, which was absent.
LEMMA ReceiveEffect ==
  ASSUME Typed, NEW r \in Requests, NEW v \in Ids, Receive(r, v)
  PROVE  /\ UNCHANGED <<accounts, decisions>>
         /\ reqs'[r].id = v
         /\ \A q \in Requests : q # r => reqs'[q] = reqs[q]
         /\ \/ UNCHANGED rows /\ Exists(v)
            \/ /\ ~Exists(v)
               /\ rows'[v].status = "pending"
               /\ rows'[v].account = None \/ (rows'[v].account \in Accounts /\ AccountExists(rows'[v].account))
               /\ \A w \in Ids : w # v => rows'[w] = rows[w]
<1>1. CASE \E a \in Accounts \union {None}, m \in UserMetadata : CreateVerification(r, v, a, m)
  <2> PICK a \in Accounts \union {None}, m \in UserMetadata : CreateVerification(r, v, a, m)
    BY <1>1
  <2> DEFINE row == [NoRow EXCEPT !.status = "pending", !.provider = primary,
                                   !.account = a, !.userMeta = m]
  <2>1. rows' = [rows EXCEPT ![v] = row] /\ row.status = "pending" /\ row.account = a
    BY DEF CreateVerification, NoRow
  <2> HIDE DEF row
  <2>2. rows'[v] = row /\ \A w \in Ids : w # v => rows'[w] = rows[w]
    BY <2>1 DEF Typed, TypeOK
  <2> QED
    BY <2>1, <2>2 DEF CreateVerification, Enter, Idle, Typed, TypeOK
<1>2. CASE \E s \in ImageSteps, image \in Images \union {NoImage} : BeginImageStep(r, v, s, image)
  <2> PICK s \in ImageSteps, image \in Images \union {NoImage} : BeginImageStep(r, v, s, image)
    BY <1>2
  <2> DEFINE q == [Idle EXCEPT !.id = v, !.step = s, !.image = image, !.steps = rows[v].steps,
                               !.at = FirstAwait(image)]
  <2>1. reqs' = [reqs EXCEPT ![r] = q] /\ q.id = v
    BY DEF BeginImageStep, Idle
  <2> HIDE DEF q
  <2> QED
    BY <2>1 DEF BeginImageStep, CanCallProvider, Typed, TypeOK
<1>3. CASE BeginGovernmentStep(r, v)
  <2> DEFINE q == [Idle EXCEPT !.id = v, !.steps = rows[v].steps, !.at = "call"]
  <2>1. reqs' = [reqs EXCEPT ![r] = q] /\ q.id = v
    BY <1>3 DEF BeginGovernmentStep, Idle
  <2> HIDE DEF q
  <2> QED
    BY <1>3, <2>1 DEF BeginGovernmentStep, CanCallProvider, Typed, TypeOK
<1>4. CASE (\E op \in FinalizeOperations : BeginFinalize(r, v, op)) \/ BeginOverride(r, v) \/ BeginUpload(r, v)
  <2>1. \E op, at : Enter(r, op, v, at)
    BY <1>4 DEF BeginFinalize, BeginOverride, BeginUpload
  <2>2. reqs'[r].id = v /\ \A q \in Requests : q # r => reqs'[q] = reqs[q]
    BY <2>1 DEF Enter, Idle, Typed, TypeOK
  <2>3. UNCHANGED <<accounts, decisions, rows>> /\ Exists(v)
    BY <1>4 DEF BeginFinalize, BeginOverride, BeginUpload, CanCallProvider, Exists
  <2> QED
    BY <2>2, <2>3
<1> QED
  BY <1>1, <1>2, <1>3, <1>4 DEF Receive

\* Deleting an account clears the links to it and nothing else of a row.
LEMMA RemoveEffect ==
  ASSUME Typed, NEW a \in Accounts, RemoveAccount(a)
  PROVE  /\ \A v \in Ids : /\ rows'[v].status = rows[v].status
                           /\ rows'[v].account = IF rows[v].account = a THEN None ELSE rows[v].account
                           /\ rows[v].account = None => rows'[v] = rows[v]
         /\ accounts[a].status = "verified"
         /\ accounts' = [accounts EXCEPT ![a] = [status |-> "deleted", last |-> None]]
         /\ UNCHANGED <<reqs, decisions>>
<1>1. ASSUME NEW v \in Ids
      PROVE  /\ rows'[v] = [rows[v] EXCEPT !.account = Unlink(v, a)]
             /\ rows[v] \in Row
  BY DEF RemoveAccount, Typed, TypeOK
<1>2. a # None
  BY NoneAssumption
<1> QED
  BY <1>1, <1>2 DEF RemoveAccount, AccountExists, Unlink, Row

-----------------------------------------------------------------------------
(***************************************************************************)
(* Present is an invariant.                                                *)
(***************************************************************************)
LEMMA PresentInit == Init => Present
  BY DEF Init, Present, Exists, NoRow, Idle

\* A handler that leaves its row there, and the others alone, keeps Present.
LEMMA PresentFrame ==
  ASSUME Typed, Present, NEW r \in Requests, reqs[r].at \notin {"idle", "update"}, Proceeds(r),
         rows'[reqs[r].id].status # "absent",
         \A w \in Ids : w # reqs[r].id => rows'[w] = rows[w] /\ decisions'[w] = decisions[w]
  PROVE  Present'
<1>1. \A w \in Ids : rows[w].status # "absent" => rows'[w].status # "absent"
  OBVIOUS
<1>2. \A w \in Ids : rows'[w].status = "absent" => rows'[w] = NoRow /\ decisions'[w] = {}
  BY DEF Present, Exists
<1>3. ASSUME NEW q \in Requests, reqs'[q].at \notin {"idle", "update"}
      PROVE  rows'[reqs'[q].id].status # "absent"
  <2>1. CASE q = r
    BY <1>3, <2>1 DEF Proceeds
  <2>2. CASE q # r
    <3>1. reqs'[q] = reqs[q]
      BY <2>2 DEF Proceeds
    <3>2. reqs[q].id \in Ids /\ rows[reqs[q].id].status # "absent"
      BY <1>3, <3>1 DEF Present, Exists, Typed, HandlersInOrder
    <3> QED
      BY <1>1, <3>1, <3>2
  <2> QED
    BY <2>1, <2>2
<1> QED
  BY <1>2, <1>3 DEF Present, Exists

LEMMA PresentStep == Typed /\ Present /\ [Next]_vars => Present'
<1> SUFFICES ASSUME Typed, Present, [Next]_vars PROVE Present'
  OBVIOUS
<1>1. CASE UNCHANGED vars
  BY <1>1 DEF vars, Present, Exists
<1>2. ASSUME NEW r \in Requests, Stores(r) PROVE Present'
  <2>1. rows'[reqs[r].id].status # "absent" /\ reqs[r].id \in Ids
    BY <1>2, StoreEffect DEF Exists, LegacyStatuses
  <2> QED
    BY <1>2, <2>1, StoreEffect, PresentFrame
<1>3. ASSUME NEW r \in Requests, Passes(r) PROVE Present'
  BY <1>3, PassEffect DEF Present, Exists, Proceeds
<1>4. ASSUME NEW r \in Requests, CreditAccount(r) PROVE Present'
  BY <1>4, CreditEffect DEF Present, Exists, Proceeds
<1>5. ASSUME NEW r \in Requests, LinkAccount(r) PROVE Present'
  <2>1. rows[reqs[r].id].status # "absent" /\ rows'[reqs[r].id].status # "absent"
    BY <1>5, LinkEffect DEF Present, Exists
  <2> QED
    BY <1>5, <2>1, LinkEffect, PresentFrame
<1>6. ASSUME NEW r \in Requests, NEW v \in Ids, Receive(r, v) PROVE Present'
  <2>1. Exists(v)' /\ \A w \in Ids : Exists(w) => Exists(w)'
    BY <1>6, ReceiveEffect DEF Exists
  <2>2. \A w \in Ids : ~Exists(w)' => rows'[w] = NoRow /\ decisions'[w] = {}
    BY <1>6, <2>1, ReceiveEffect DEF Present, Exists
  <2>3. \A q \in Requests : reqs'[q].at \notin {"idle", "update"} => rows'[reqs'[q].id].status # "absent"
    <3>1. ASSUME NEW q \in Requests, q # r, reqs'[q].at \notin {"idle", "update"}
          PROVE  rows'[reqs'[q].id].status # "absent"
      <4>1. reqs'[q] = reqs[q]
        BY <1>6, <3>1, ReceiveEffect
      <4>2. reqs[q].id \in Ids /\ rows[reqs[q].id].status # "absent"
        BY <3>1, <4>1 DEF Present, Exists, Typed, HandlersInOrder
      <4> QED
        BY <2>1, <4>1, <4>2 DEF Exists
    <3>2. reqs'[r].id = v
      BY <1>6, ReceiveEffect
    <3> QED
      BY <2>1, <3>1, <3>2 DEF Exists
  <2> QED
    BY <2>2, <2>3 DEF Present, Exists
<1>7. ASSUME NEW r \in Requests, StoreUpdatedAccount(r) PROVE Present'
  BY <1>7, UpdateEffect DEF Present, Exists, Proceeds
<1>8. ASSUME NEW r \in Requests, NEW a \in Accounts, BeginUpdateAccount(r, a) PROVE Present'
  BY <1>8 DEF BeginUpdateAccount, Idle, Present, Exists, Typed, TypeOK
<1>9. ASSUME NEW a \in Accounts, RemoveAccount(a) PROVE Present'
  <2>1. ASSUME NEW v \in Ids, ~Exists(v) PROVE rows'[v] = NoRow
    <3>1. NoRow.account = None
      BY DEF NoRow
    <3>2. rows[v] = NoRow
      BY <2>1 DEF Present
    <3> QED
      BY <1>9, <3>1, <3>2, RemoveEffect
  <2>2. \A v \in Ids : Exists(v)' <=> Exists(v)
    BY <1>9, RemoveEffect DEF Exists
  <2> QED
    BY <1>9, <2>1, <2>2, RemoveEffect DEF Present, Typed, HandlersInOrder
<1>10. CASE (\E p \in Providers : AssignProvider(p)) \/ Crash
  BY <1>10 DEF AssignProvider, Crash, Present, Exists, Idle
<1> QED
  BY <1>1, <1>2, <1>3, <1>4, <1>5, <1>6, <1>7, <1>8, <1>9, <1>10 DEF Next, Continue, Stores, Passes

-----------------------------------------------------------------------------
(***************************************************************************)
(* The refinement.                                                         *)
(***************************************************************************)

\* The ledger's view of a state.
Finalizations == {v \in Ids : "verified" \in decisions[v]}
Links         == [v \in Ids |-> rows[v].account]

LEMMA LedgerInit == Init => Ledger!Init
<1> SUFFICES ASSUME Init PROVE Ledger!Init
  OBVIOUS
<1>1. {v \in Ids : "verified" \in decisions[v]} = {}
  BY DEF Init
<1>2. [v \in Ids |-> rows[v].account] = [v \in Ids |-> None]
  BY DEF Init, NoRow
<1> QED
  BY <1>1, <1>2 DEF Init, Ledger!Init

\* A step that keeps the links and decides on one verification only finalizes it
\* or is no step of the ledger.
LEMMA LedgerFinalize ==
  ASSUME NEW v \in Ids, UNCHANGED accounts,
         \A w \in Ids : rows'[w].account = rows[w].account,
         \A w \in Ids : w # v => decisions'[w] = decisions[w],
         decisions[v] \subseteq decisions'[v]
  PROVE  [Ledger!Next]_(Ledger!ledgerVars)
<1>1. Links' = Links
  BY DEF Links
<1>2. Finalizations' = Finalizations \/ Finalizations' = Finalizations \union {v}
  BY DEF Finalizations
<1> QED
  BY <1>1, <1>2 DEF Links, Finalizations, Ledger!Next, Ledger!Finalize, Ledger!ledgerVars

LEMMA LedgerStutter ==
  ASSUME UNCHANGED <<accounts, decisions>>, \A v \in Ids : rows'[v].account = rows[v].account
  PROVE  UNCHANGED Ledger!ledgerVars
<1>1. Links' = Links /\ Finalizations' = Finalizations
  BY DEF Links, Finalizations
<1> QED
  BY <1>1 DEF Links, Finalizations, Ledger!ledgerVars

LEMMA LedgerStep == Typed /\ Present /\ [Next]_vars => [Ledger!Next]_(Ledger!ledgerVars)
<1> SUFFICES ASSUME Typed, Present, [Next]_vars PROVE [Ledger!Next]_(Ledger!ledgerVars)
  OBVIOUS
<1>1. CASE UNCHANGED vars
  BY <1>1, LedgerStutter DEF vars
<1>2. ASSUME NEW r \in Requests, Stores(r) PROVE [Ledger!Next]_(Ledger!ledgerVars)
  BY <1>2, StoreEffect, LedgerFinalize
<1>3. ASSUME NEW r \in Requests, Passes(r) PROVE [Ledger!Next]_(Ledger!ledgerVars)
  BY <1>3, PassEffect, LedgerStutter
<1>4. ASSUME NEW r \in Requests, CreditAccount(r) PROVE [Ledger!Next]_(Ledger!ledgerVars)
  <2> DEFINE v == reqs[r].id
  <2>1. v \in Ids /\ v \in Finalizations
    BY <1>4, CreditEffect DEF Finalizations
  <2>2. PICK a \in Accounts : accounts' = [accounts EXCEPT ![a] = [status |-> "verified", last |-> v]]
    BY <1>4, CreditEffect
  <2>3. Links' = Links /\ Finalizations' = Finalizations
    BY <1>4, CreditEffect DEF Links, Finalizations
  <2>4. Ledger!Credit(v, a)
    BY <2>1, <2>2, <2>3 DEF Links, Finalizations, Ledger!Credit
  <2> QED
    BY <2>1, <2>4 DEF Ledger!Next
<1>5. ASSUME NEW r \in Requests, LinkAccount(r) PROVE [Ledger!Next]_(Ledger!ledgerVars)
  <2> DEFINE v == reqs[r].id
             a == reqs[r].target
  <2>1. v \in Ids /\ v \in Finalizations /\ a \in Accounts /\ accounts[a].status = "verified"
    BY <1>5, LinkEffect DEF Finalizations, AccountExists
  <2>2. Links' = [Links EXCEPT ![v] = a]
    BY <1>5, <2>1, LinkEffect DEF Links
  <2>3. Finalizations' = Finalizations /\ UNCHANGED accounts
    BY <1>5, LinkEffect DEF Finalizations
  <2>4. Ledger!Link(v, a)
    BY <2>1, <2>2, <2>3 DEF Links, Finalizations, Ledger!Link
  <2> QED
    BY <2>1, <2>4 DEF Ledger!Next, Ledger!Link
<1>6. ASSUME NEW r \in Requests, NEW v \in Ids, Receive(r, v) PROVE [Ledger!Next]_(Ledger!ledgerVars)
  <2> DEFINE a == rows'[v].account
  <2>1. CASE UNCHANGED rows
    BY <1>6, <2>1, ReceiveEffect, LedgerStutter
  <2>2. CASE ~Exists(v) /\ \A w \in Ids : w # v => rows'[w] = rows[w]
    <3>1. rows[v].account = None /\ v \notin Finalizations
      <4>1. NoRow.account = None
        BY DEF NoRow
      <4> QED
        BY <2>2, <4>1 DEF Present, Finalizations
    <3>2. CASE a = None
      BY <1>6, <2>2, <3>1, <3>2, ReceiveEffect, LedgerStutter
    <3>3. CASE a \in Accounts /\ AccountExists(a)
      <4>1. Links' = [Links EXCEPT ![v] = a] /\ Links[v] = None
        BY <2>2, <3>1 DEF Links
      <4>2. Finalizations' = Finalizations /\ UNCHANGED accounts
        BY <1>6, ReceiveEffect DEF Finalizations
      <4>3. Ledger!Open(v, a)
        BY <3>1, <3>3, <4>1, <4>2 DEF Links, Finalizations, Ledger!Open, AccountExists
      <4> QED
        BY <3>3, <4>3 DEF Ledger!Next, Ledger!Open
    <3> QED
      BY <1>6, <2>2, <3>2, <3>3, ReceiveEffect DEF Exists
  <2> QED
    BY <1>6, <2>1, <2>2, ReceiveEffect
<1>7. ASSUME NEW r \in Requests, StoreUpdatedAccount(r) PROVE [Ledger!Next]_(Ledger!ledgerVars)
  <2> DEFINE v == reqs[r].last
             a == reqs[r].target
  <2>1. v \in Ids /\ a \in Accounts /\ v \in Finalizations
    BY <1>7, UpdateEffect DEF Finalizations
  <2>2. accounts' = [accounts EXCEPT ![a] = [status |-> "verified", last |-> v]]
    BY <1>7, UpdateEffect
  <2>3. Links' = Links /\ Finalizations' = Finalizations
    BY <1>7, UpdateEffect DEF Links, Finalizations
  <2>4. Ledger!Credit(v, a)
    BY <2>1, <2>2, <2>3 DEF Links, Finalizations, Ledger!Credit
  <2> QED
    BY <2>1, <2>4 DEF Ledger!Next, Ledger!Credit
<1>8. ASSUME NEW r \in Requests, NEW a \in Accounts, BeginUpdateAccount(r, a)
       PROVE  [Ledger!Next]_(Ledger!ledgerVars)
  BY <1>8, LedgerStutter DEF BeginUpdateAccount
<1>9. ASSUME NEW a \in Accounts, RemoveAccount(a) PROVE [Ledger!Next]_(Ledger!ledgerVars)
  <2>1. Links' = [v \in Ids |-> IF Links[v] = a THEN None ELSE Links[v]]
    BY <1>9, RemoveEffect DEF Links
  <2>2. Finalizations' = Finalizations
    BY <1>9, RemoveEffect DEF Finalizations
  <2>3. Ledger!Delete(a)
    BY <1>9, <2>1, <2>2, RemoveEffect DEF Links, Finalizations, Ledger!Delete
  <2> QED
    BY <2>3 DEF Ledger!Next
<1>10. CASE (\E p \in Providers : AssignProvider(p)) \/ Crash
  BY <1>10, LedgerStutter DEF AssignProvider, Crash
<1> QED
  BY <1>1, <1>2, <1>3, <1>4, <1>5, <1>6, <1>7, <1>8, <1>9, <1>10 DEF Next, Continue, Stores, Passes

\* Accounts and their links behave as AccountLedger promises, whatever the
\* handlers of any number of requests do at once, and wherever they fail.
THEOREM AccountsFollowLedger == Spec => ImplementsLedger
<1>1. Init => Present
  BY PresentInit
<1>2. Typed /\ Decided /\ Present /\ [Next]_vars => Present'
  BY PresentStep
<1>3. Spec => [](Typed /\ Present)
  BY <1>1, <1>2, Invariance, PTL DEF Spec
<1> QED
  BY <1>3, LedgerInit, LedgerStep, PTL DEF Spec, ImplementsLedger, Ledger!Spec

-----------------------------------------------------------------------------
(***************************************************************************)
(* What becomes of a credit.                                               *)
(***************************************************************************)

\* An account that is not there rests on no verification.
NothingLeft == \A a \in Accounts : ~AccountExists(a) => accounts[a].last = None

\* The only actions that write accounts.
LEMMA AccountsWritten ==
  ASSUME Next
  PROVE  \/ UNCHANGED accounts
         \/ \E r \in Requests : CreditAccount(r) \/ StoreUpdatedAccount(r)
         \/ \E a \in Accounts : RemoveAccount(a)
<1>1. ASSUME NEW r \in Requests, Continue(r)
      PROVE  UNCHANGED accounts \/ CreditAccount(r) \/ StoreUpdatedAccount(r)
  BY <1>1 DEF Continue, StoreSession, OpenImage, WriteImage, StoreImageStep, StoreGovernmentStep,
              StoreFinalize, ReloadFinalized, FindAccount, LinkAccount, StoreOverride, MarkProcessing,
              StoreAssessment, AnnounceAssessment, AssessmentFails, RejectUpload, CallFails, DatabaseError
<1>2. ASSUME NEW r \in Requests, NEW v \in Ids, Receive(r, v)
      PROVE  UNCHANGED accounts
  BY <1>2 DEF Receive, CreateVerification, BeginImageStep, BeginGovernmentStep, BeginFinalize,
              BeginOverride, BeginUpload
<1> QED
  BY <1>1, <1>2 DEF Next, BeginUpdateAccount, AssignProvider, Crash

LEMMA NothingLeftInit == Init => NothingLeft
  BY DEF Init, NothingLeft

LEMMA NothingLeftStep == Typed /\ NothingLeft /\ [Next]_vars => NothingLeft'
<1> SUFFICES ASSUME Typed, NothingLeft, [Next]_vars PROVE NothingLeft'
  OBVIOUS
<1>1. CASE UNCHANGED accounts
  BY <1>1 DEF NothingLeft, AccountExists
<1>2. ASSUME NEW r \in Requests, CreditAccount(r) \/ StoreUpdatedAccount(r) PROVE NothingLeft'
  <2>1. PICK a \in Accounts :
               \E v : accounts' = [accounts EXCEPT ![a] = [status |-> "verified", last |-> v]]
    BY <1>2, CreditEffect, UpdateEffect
  <2>2. PICK v : accounts' = [accounts EXCEPT ![a] = [status |-> "verified", last |-> v]]
    BY <2>1
  <2> QED
    BY <2>2 DEF NothingLeft, AccountExists, Typed, TypeOK
<1>3. ASSUME NEW a \in Accounts, RemoveAccount(a) PROVE NothingLeft'
  BY <1>3, RemoveEffect DEF NothingLeft, AccountExists, Typed, TypeOK
<1> QED
  BY <1>1, <1>2, <1>3, AccountsWritten DEF vars

\* Where a new value of an account comes from: the finalization that credits it, or
\* an update that had read it before it changed.
Explained(a) ==
  \E r \in Requests :
    \/ reqs[r].at = "credit" /\ reqs[r].id = accounts'[a].last
    \/ /\ reqs[r].at = "update" /\ reqs[r].target = a
       /\ reqs[r].last = accounts'[a].last
       /\ reqs[r].last # accounts[a].last

LEMMA ChangesExplained ==
  ASSUME Typed, NothingLeft, Next, NEW a \in Accounts, accounts'[a] # accounts[a],
         accounts'[a].status = "verified"
  PROVE  Explained(a)
<1>1. ASSUME NEW r \in Requests, CreditAccount(r) PROVE Explained(a)
  <2>1. \E b \in Accounts :
          accounts' = [accounts EXCEPT ![b] = [status |-> "verified", last |-> reqs[r].id]]
    BY <1>1, CreditEffect
  <2>2. accounts'[a].last = reqs[r].id /\ reqs[r].at = "credit"
    BY <1>1, <2>1 DEF CreditAccount, Typed, TypeOK
  <2> QED
    BY <2>2 DEF Explained
<1>2. ASSUME NEW r \in Requests, StoreUpdatedAccount(r) PROVE Explained(a)
  <2>1. /\ accounts' = [accounts EXCEPT ![reqs[r].target] = [status |-> "verified", last |-> reqs[r].last]]
        /\ reqs[r].at = "update" /\ reqs[r].last \in Ids
    BY <1>2, UpdateEffect DEF StoreUpdatedAccount
  <2>2. reqs[r].target = a /\ accounts'[a] = [status |-> "verified", last |-> reqs[r].last]
    BY <2>1 DEF Typed, TypeOK
  <2>3. accounts[a].last # reqs[r].last
    <3>1. CASE AccountExists(a)
      BY <2>2, <3>1 DEF AccountExists, Typed, TypeOK, Account
    <3>2. CASE ~AccountExists(a)
      BY <2>1, <3>2, NoneAssumption DEF NothingLeft
    <3> QED
      BY <3>1, <3>2
  <2> QED
    BY <2>1, <2>2, <2>3 DEF Explained
<1>3. ASSUME NEW b \in Accounts, RemoveAccount(b) PROVE FALSE
  BY <1>3, RemoveEffect DEF Typed, TypeOK
<1> QED
  BY <1>1, <1>2, <1>3, AccountsWritten

\* A credit is undone, and a deleted account restored, by no handler but an update
\* of personal data that overlapped it, for any number of accounts and requests.
THEOREM CreditsAreLostOnlyToStaleUpdates == Spec => CreditsLostOnlyByStaleUpdate
<1> DEFINE Lost == \A a \in Accounts :
                     accounts'[a] # accounts[a] /\ accounts'[a].status = "verified" => Explained(a)
<1>1. Typed /\ NothingLeft /\ [Next]_vars => [Lost]_vars
  BY ChangesExplained
<1>2. Init => NothingLeft
  BY NothingLeftInit
<1>3. Typed /\ NothingLeft /\ [Next]_vars => NothingLeft'
  BY NothingLeftStep
<1> QED
  BY <1>1, <1>2, <1>3, Invariance, PTL DEF Spec, CreditsLostOnlyByStaleUpdate, Explained

-----------------------------------------------------------------------------
(***************************************************************************)
(* When an account is opened.                                              *)
(***************************************************************************)

\* The awaits of saveAccountFromVerification.
Saving == {"find", "credit", "link"}

\* An account that was ever in the table.
Known(a) == accounts[a].status # "absent"

\* The foreign key: a row is linked to an account that is there, or to none.
LinksLive == \A v \in Ids : rows[v].account # None => AccountExists(rows[v].account)

\* A handler knows the account its row was linked to, which it credits if it found it.
Seeks(q) ==
  /\ q.at \in {"find", "credit"} /\ q.account # None => Known(q.account)
  /\ q.at = "credit" => q.target \in {None, q.account}
  /\ q.at = "link" => Known(q.target)

\* The account that a handler did not find, or the new one that it is about to
\* link, is not the one its row is linked to.
Apart(q) ==
  /\ q.at = "credit" /\ q.target = None /\ q.account # None => rows[q.id].account # q.account
  /\ q.at = "link" => rows[q.id].account # q.target

\* Only the handler that opened an account links it to its row, so that no other
\* handler of this row has read the link and none is about to write it.
OneOpener ==
  \A q, r \in Requests :
    /\ reqs[q].at \in {"find", "credit"} /\ reqs[r].at = "link" /\ reqs[q].id = reqs[r].id =>
         reqs[q].account # reqs[r].target
    /\ reqs[q].at = "link" /\ reqs[r].at = "link" /\ reqs[q].target = reqs[r].target => q = r

LinkedOnce ==
  /\ LinksLive
  /\ \A r \in Requests : Seeks(reqs[r]) /\ Apart(reqs[r])
  /\ OneOpener

LEMMA LinkedInit == Init => LinkedOnce
<1> SUFFICES ASSUME Init PROVE LinkedOnce
  OBVIOUS
<1>1. \A r \in Requests : reqs[r].at = "idle"
  BY DEF Init, Idle
<1>2. \A v \in Ids : rows[v].account = None
  BY DEF Init, NoRow
<1> QED
  BY <1>1, <1>2 DEF LinkedOnce, LinksLive, Seeks, Apart, OneOpener

\* Handlers that save no account, or go on saving it as before, do no harm, whatever
\* becomes of the links that they do not rely on.
LEMMA LinkedFrame ==
  ASSUME Typed, LinkedOnce, LinksLive',
         \A a \in Accounts : Known(a) => accounts'[a].status # "absent",
         \A q \in Requests : reqs'[q].at \notin Saving \/ (reqs'[q] = reqs[q] /\ Apart(reqs[q])')
  PROVE  LinkedOnce'
<1>1. ASSUME NEW q \in Requests PROVE (Seeks(reqs[q]) /\ Apart(reqs[q]))'
  <2>1. CASE reqs'[q].at \notin Saving
    BY <2>1 DEF Saving, Seeks, Apart
  <2>2. CASE reqs'[q] = reqs[q] /\ Apart(reqs[q])'
    <3>1. Seeks(reqs[q]) /\ reqs[q].account \in Accounts \union {None} /\ (reqs[q].at = "link" => reqs[q].target \in Accounts)
      BY DEF LinkedOnce, Typed, TypeOK, HandlersInOrder, Request
    <3> QED
      BY <2>2, <3>1 DEF Seeks, Known
  <2> QED
    BY <2>1, <2>2
<1>2. OneOpener'
  BY DEF LinkedOnce, OneOpener, Saving
<1> QED
  BY <1>1, <1>2 DEF LinkedOnce

\* The links and accounts that a step leaves as they are, or takes away, or adds to
\* rows that are new.
LEMMA LinkedQuiet ==
  ASSUME Typed, Present, LinkedOnce, LinksLive',
         \A a \in Accounts : Known(a) => accounts'[a].status # "absent",
         \A v \in Ids : Exists(v) => rows'[v].account \in {None, rows[v].account},
         \A q \in Requests : reqs'[q].at \notin Saving \/ reqs'[q] = reqs[q]
  PROVE  LinkedOnce'
<1>1. ASSUME NEW q \in Requests, reqs'[q].at \in Saving
      PROVE  reqs'[q] = reqs[q] /\ Apart(reqs[q])'
  <2>1. reqs'[q] = reqs[q]
    BY <1>1
  <2>2. reqs[q].id \in Ids /\ Exists(reqs[q].id) /\ (reqs[q].at = "link" => reqs[q].target # None)
    BY <1>1, <2>1, NoneAssumption DEF Saving, Present, Typed, HandlersInOrder
  <2> QED
    BY <2>1, <2>2 DEF LinkedOnce, Apart
<1> QED
  BY <1>1, LinkedFrame

\* The handlers that are not about accounts stay so.
LEMMA NotSaving ==
  ASSUME Typed, NEW r \in Requests,
         Stores(r) \/ (Passes(r) /\ ~ReloadFinalized(r) /\ ~FindAccount(r))
  PROVE  reqs'[r].at \notin Saving
<1>1. Finish(r) \/ \E at \in Awaits \ Saving : Move(r, at)
  BY DEF Saving, Awaits, Stores, Passes, StoreSession, StoreImageStep, StoreGovernmentStep, StoreFinalize,
         StoreOverride, MarkProcessing, StoreAssessment, RejectUpload, OpenImage, WriteImage,
         AnnounceAssessment, AssessmentFails, CallFails, DatabaseError
<1>2. CASE Finish(r)
  BY <1>2 DEF Finish, Idle, Saving, Typed, TypeOK
<1>3. ASSUME NEW at \in Awaits \ Saving, Move(r, at) PROVE reqs'[r].at \notin Saving
  <2>1. reqs'[r].at = at
    BY <1>3 DEF Move, Typed, TypeOK, Request
  <2> QED
    BY <1>3, <2>1
<1> QED
  BY <1>1, <1>2, <1>3

LEMMA ReceiveNotSaving ==
  ASSUME Typed, NEW r \in Requests, NEW v \in Ids, Receive(r, v)
  PROVE  reqs'[r].at \notin Saving
<1>1. ASSUME NEW op, NEW at, at \notin Saving, Enter(r, op, v, at) PROVE reqs'[r].at \notin Saving
  BY <1>1 DEF Enter, Idle, Typed, TypeOK
<1>2. ASSUME NEW s \in ImageSteps, NEW image \in Images \union {NoImage}, BeginImageStep(r, v, s, image)
      PROVE  reqs'[r].at \notin Saving
  BY <1>2 DEF BeginImageStep, FirstAwait, Idle, Saving, Typed, TypeOK
<1>3. CASE BeginGovernmentStep(r, v)
  BY <1>3 DEF BeginGovernmentStep, Idle, Saving, Typed, TypeOK
<1>4. CASE \E a \in Accounts \union {None}, withMetadata \in UserMetadata :
             CreateVerification(r, v, a, withMetadata)
  BY <1>1, <1>4 DEF CreateVerification, Saving
<1>5. CASE (\E op \in FinalizeOperations : BeginFinalize(r, v, op)) \/ BeginOverride(r, v) \/ BeginUpload(r, v)
  BY <1>1, <1>5 DEF BeginFinalize, BeginOverride, BeginUpload, Saving
<1> QED
  BY <1>2, <1>3, <1>4, <1>5 DEF Receive

LEMMA LinkedReload ==
  ASSUME Typed, Present, LinkedOnce, NEW r \in Requests, ReloadFinalized(r)
  PROVE  LinkedOnce'
<1> DEFINE v == reqs[r].id
           a == rows[v].account
           row == [reqs[r] EXCEPT !.at = "find", !.account = a]
<1>0. v \in Ids /\ UNCHANGED <<rows, accounts>>
  BY DEF ReloadFinalized, Typed, HandlersInOrder
<1>1. CASE Finish(r)
  <2>1. \A q \in Requests : reqs'[q].at \notin Saving \/ reqs'[q] = reqs[q]
    BY <1>1 DEF Finish, Idle, Saving, Typed, TypeOK
  <2>2. LinksLive' /\ \A b \in Accounts : Known(b) => accounts'[b].status # "absent"
    BY <1>0 DEF LinkedOnce, LinksLive, AccountExists, Known
  <2> QED
    BY <1>0, <2>1, <2>2, LinkedQuiet
<1>2. CASE reqs' = [reqs EXCEPT ![r] = row]
  <2>1. /\ reqs'[r] = row /\ row.at = "find" /\ row.id = v /\ row.account = a
        /\ \A q \in Requests : q # r => reqs'[q] = reqs[q]
    BY <1>2 DEF Typed, TypeOK, Request
  <2> HIDE DEF row
  <2>2. LinksLive' /\ (a # None => Known(a))
    BY <1>0 DEF LinkedOnce, LinksLive, AccountExists, Known
  <2>3. ASSUME NEW q \in Requests PROVE (Seeks(reqs[q]) /\ Apart(reqs[q]))'
    BY <1>0, <2>1, <2>2 DEF LinkedOnce, Seeks, Apart, Known
  <2>4. OneOpener'
    BY <2>1 DEF LinkedOnce, OneOpener, Apart
  <2> QED
    BY <2>2, <2>3, <2>4 DEF LinkedOnce
<1> QED
  BY <1>1, <1>2 DEF ReloadFinalized

LEMMA LinkedFind ==
  ASSUME Typed, Present, LinkedOnce, NEW r \in Requests, FindAccount(r)
  PROVE  LinkedOnce'
<1> DEFINE v == reqs[r].id
           a == reqs[r].account
           target == Reused(a)
           row == [reqs[r] EXCEPT !.at = "credit", !.target = target]
<1>0. v \in Ids /\ UNCHANGED <<rows, accounts>> /\ reqs[r].at = "find"
  BY DEF FindAccount, Typed, HandlersInOrder
<1>1. reqs' = [reqs EXCEPT ![r] = row]
  BY DEF FindAccount
<1>2. target \in {None, a} /\ (target = None /\ a # None => ~AccountExists(a))
  BY DEF Reused
<1> HIDE DEF target, v, a
<1>3. /\ reqs'[r] = row /\ row.at = "credit" /\ row.id = v /\ row.account = a /\ row.target = target
      /\ \A q \in Requests : q # r => reqs'[q] = reqs[q]
  BY <1>1 DEF Typed, TypeOK, Request, v, a
<1> HIDE DEF row
<1>4. LinksLive'
  BY <1>0 DEF LinkedOnce, LinksLive, AccountExists
<1>5. rows[v].account = a => a = None \/ AccountExists(a)
  BY <1>0 DEF LinkedOnce, LinksLive
<1>6. ASSUME NEW q \in Requests PROVE (Seeks(reqs[q]) /\ Apart(reqs[q]))'
  <2>1. CASE q = r
    BY <1>0, <1>2, <1>3, <1>5, <2>1 DEF LinkedOnce, Seeks, Apart, Known, a
  <2>2. CASE q # r
    BY <1>0, <1>3, <2>2 DEF LinkedOnce, Seeks, Apart, Known
  <2> QED
    BY <2>1, <2>2
<1>7. OneOpener'
  BY <1>0, <1>3 DEF LinkedOnce, OneOpener, v, a
<1> QED
  BY <1>4, <1>6, <1>7 DEF LinkedOnce

LEMMA LinkedCredit ==
  ASSUME Typed, Present, LinkedOnce, NEW r \in Requests, CreditAccount(r)
  PROVE  LinkedOnce'
<1> DEFINE v == reqs[r].id
<1>0. v \in Ids /\ UNCHANGED rows /\ reqs[r].at = "credit" /\ Seeks(reqs[r])
  BY DEF CreditAccount, Typed, HandlersInOrder, LinkedOnce
<1>1. PICK a \in Accounts :
        /\ IF reqs[r].target = None THEN accounts[a].status = "absent" ELSE a = reqs[r].target
        /\ accounts' = [accounts EXCEPT ![a] = [status |-> "verified", last |-> v]]
        /\ IF reqs[r].account = a
             THEN Finish(r)
             ELSE reqs' = [reqs EXCEPT ![r] = [reqs[r] EXCEPT !.at = "link", !.target = a]]
  BY DEF CreditAccount
<1>2. /\ \A b \in Accounts : b # a => accounts'[b] = accounts[b]
      /\ accounts'[a].status = "verified"
  BY <1>1 DEF Typed, TypeOK
<1>3. /\ \A b \in Accounts : AccountExists(b) => accounts'[b].status = "verified"
      /\ \A b \in Accounts : Known(b) => accounts'[b].status # "absent"
  BY <1>2 DEF Known, AccountExists
<1>4. \A w \in Ids : rows[w].account \in Accounts \union {None}
  BY DEF Typed, TypeOK, Row
<1>5. LinksLive'
  BY <1>0, <1>3, <1>4 DEF LinkedOnce, LinksLive, AccountExists
<1>6. CASE reqs[r].account = a
  <2>1. \A q \in Requests : reqs'[q].at \notin Saving \/ reqs'[q] = reqs[q]
    BY <1>1, <1>6 DEF Finish, Idle, Saving, Typed, TypeOK
  <2> QED
    BY <1>0, <1>3, <1>5, <2>1, LinkedQuiet
<1>7. CASE reqs[r].account # a
  <2> DEFINE row == [reqs[r] EXCEPT !.at = "link", !.target = a]
  <2>1. a # None /\ ~Known(a) /\ ~AccountExists(a)
    BY <1>0, <1>1, <1>7, NoneAssumption DEF Seeks, Known, AccountExists
  <2>2. reqs' = [reqs EXCEPT ![r] = row]
    BY <1>1, <1>7
  <2>3. /\ reqs'[r] = row /\ row.at = "link" /\ row.id = v /\ row.target = a
        /\ \A q \in Requests : q # r => reqs'[q] = reqs[q]
    BY <2>2 DEF Typed, TypeOK, Request
  <2> HIDE DEF row, v
  <2>4. rows[v].account # a
    BY <1>0, <2>1 DEF LinkedOnce, LinksLive
  <2>5. \A q \in Requests : /\ reqs[q].at \in {"find", "credit"} => reqs[q].account # a
                            /\ reqs[q].at = "link" => reqs[q].target # a /\ reqs[q].target \in Accounts
                            /\ reqs[q].account \in Accounts \union {None}
    BY <2>1 DEF LinkedOnce, Seeks, Typed, TypeOK, HandlersInOrder, Request
  <2>6. ASSUME NEW q \in Requests PROVE (Seeks(reqs[q]) /\ Apart(reqs[q]))'
    <3>1. CASE q = r
      BY <1>0, <1>2, <2>3, <2>4, <3>1 DEF Seeks, Apart, Known
    <3>2. CASE q # r
      BY <1>0, <1>3, <2>3, <2>5, <3>2 DEF LinkedOnce, Seeks, Apart, Known
    <3> QED
      BY <3>1, <3>2
  <2>7. OneOpener'
    BY <2>3, <2>5 DEF LinkedOnce, OneOpener
  <2> QED
    BY <1>5, <2>6, <2>7 DEF LinkedOnce
<1> QED
  BY <1>6, <1>7

LEMMA LinkedLink ==
  ASSUME Typed, Present, LinkedOnce, NEW r \in Requests, LinkAccount(r)
  PROVE  LinkedOnce'
<1> DEFINE v == reqs[r].id
           a == reqs[r].target
<1>0. /\ v \in Ids /\ a \in Accounts /\ AccountExists(a) /\ reqs[r].at = "link"
      /\ rows'[v].account = a /\ \A w \in Ids : w # v => rows'[w] = rows[w]
      /\ UNCHANGED accounts /\ Finish(r)
  BY LinkEffect DEF LinkAccount
<1>1. LinksLive' /\ \A b \in Accounts : Known(b) => accounts'[b].status # "absent"
  BY <1>0 DEF LinkedOnce, LinksLive, AccountExists, Known
<1>2. reqs'[r].at \notin Saving /\ \A q \in Requests : q # r => reqs'[q] = reqs[q]
  BY <1>0 DEF Finish, Idle, Saving, Typed, TypeOK
<1>3. ASSUME NEW q \in Requests, q # r, reqs[q].at \in Saving PROVE Apart(reqs[q])'
  <2>1. reqs[q].id \in Ids
    BY <1>3 DEF Saving, Typed, HandlersInOrder
  <2>2. CASE reqs[q].id = v
    BY <1>0, <1>2, <1>3, <2>2 DEF LinkedOnce, OneOpener, Apart
  <2>3. CASE reqs[q].id # v
    BY <1>0, <1>2, <1>3, <2>1, <2>3 DEF LinkedOnce, Apart
  <2> QED
    BY <2>2, <2>3
<1> QED
  BY <1>1, <1>2, <1>3, LinkedFrame

LEMMA LinkedStep == Typed /\ Present /\ LinkedOnce /\ [Next]_vars => LinkedOnce'
<1> SUFFICES ASSUME Typed, Present, LinkedOnce, [Next]_vars PROVE LinkedOnce'
  OBVIOUS
<1>0. \A w \in Ids : rows[w].account \in Accounts \union {None}
  BY DEF Typed, TypeOK, Row
<1>1. ASSUME UNCHANGED accounts, \A v \in Ids : rows'[v].account = rows[v].account,
             \A q \in Requests : reqs'[q].at \notin Saving \/ reqs'[q] = reqs[q]
      PROVE  LinkedOnce'
  <2>1. LinksLive' /\ \A a \in Accounts : Known(a) => accounts'[a].status # "absent"
    BY <1>1 DEF LinkedOnce, LinksLive, AccountExists, Known
  <2> QED
    BY <1>1, <2>1, LinkedQuiet
<1>2. CASE UNCHANGED vars
  BY <1>1, <1>2 DEF vars
<1>3. ASSUME NEW r \in Requests, Stores(r) PROVE LinkedOnce'
  <2>1. \A v \in Ids : rows'[v].account = rows[v].account
    BY <1>3, StoreEffect
  <2> QED
    BY <1>1, <1>3, <2>1, StoreEffect, NotSaving DEF Proceeds
<1>4. ASSUME NEW r \in Requests, Passes(r), ~ReloadFinalized(r), ~FindAccount(r) PROVE LinkedOnce'
  BY <1>1, <1>4, PassEffect, NotSaving DEF Proceeds
<1>5. ASSUME NEW r \in Requests, NEW v \in Ids, Receive(r, v) PROVE LinkedOnce'
  <2>1. reqs'[r].at \notin Saving
    BY <1>5, ReceiveNotSaving
  <2>2. \A q \in Requests : reqs'[q].at \notin Saving \/ reqs'[q] = reqs[q]
    BY <1>5, <2>1, ReceiveEffect
  <2>3. UNCHANGED accounts
    BY <1>5, ReceiveEffect
  <2>4. /\ \A w \in Ids : Exists(w) => rows'[w].account = rows[w].account
        /\ \A w \in Ids : \/ rows'[w].account \in {None, rows[w].account}
                          \/ AccountExists(rows'[w].account)
    BY <1>5, ReceiveEffect
  <2>5. LinksLive' /\ \A a \in Accounts : Known(a) => accounts'[a].status # "absent"
    BY <2>3, <2>4 DEF LinkedOnce, LinksLive, AccountExists, Known
  <2> QED
    BY <2>2, <2>4, <2>5, LinkedQuiet
<1>6. ASSUME NEW r \in Requests, StoreUpdatedAccount(r) PROVE LinkedOnce'
  <2>1. UNCHANGED rows /\ \A q \in Requests : reqs'[q].at \notin Saving \/ reqs'[q] = reqs[q]
    BY <1>6, UpdateEffect DEF Proceeds, Saving
  <2>2. \A a \in Accounts : accounts'[a] = accounts[a] \/ accounts'[a].status = "verified"
    <3>1. PICK b \in Accounts : \E v : accounts' = [accounts EXCEPT ![b] = [status |-> "verified", last |-> v]]
      BY <1>6, UpdateEffect
    <3> QED
      BY <3>1 DEF Typed, TypeOK
  <2>3. LinksLive' /\ \A a \in Accounts : Known(a) => accounts'[a].status # "absent"
    BY <1>0, <2>1, <2>2 DEF LinkedOnce, LinksLive, AccountExists, Known
  <2> QED
    BY <2>1, <2>3, LinkedQuiet
<1>7. ASSUME NEW r \in Requests, NEW a \in Accounts, BeginUpdateAccount(r, a) PROVE LinkedOnce'
  <2>1. UNCHANGED <<rows, accounts>> /\ \A q \in Requests : reqs'[q].at \notin Saving \/ reqs'[q] = reqs[q]
    BY <1>7 DEF BeginUpdateAccount, Idle, Saving, Typed, TypeOK
  <2> QED
    BY <1>1, <2>1
<1>8. ASSUME NEW a \in Accounts, RemoveAccount(a) PROVE LinkedOnce'
  <2>1. /\ \A v \in Ids : rows'[v].account = IF rows[v].account = a THEN None ELSE rows[v].account
        /\ \A b \in Accounts : b # a => accounts'[b] = accounts[b]
        /\ accounts'[a].status = "deleted" /\ UNCHANGED reqs
    BY <1>8, RemoveEffect DEF Typed, TypeOK
  <2>2. LinksLive' /\ \A b \in Accounts : Known(b) => accounts'[b].status # "absent"
    BY <1>0, <2>1 DEF LinkedOnce, LinksLive, AccountExists, Known
  <2> QED
    BY <2>1, <2>2, LinkedQuiet
<1>9. CASE (\E p \in Providers : AssignProvider(p)) \/ Crash
  <2>1. UNCHANGED <<rows, accounts>> /\ \A q \in Requests : reqs'[q].at \notin Saving \/ reqs'[q] = reqs[q]
    BY <1>9 DEF AssignProvider, Crash, Idle, Saving
  <2> QED
    BY <1>1, <2>1
<1> QED
  BY <1>2, <1>3, <1>4, <1>5, <1>6, <1>7, <1>8, <1>9, LinkedReload, LinkedFind, LinkedCredit, LinkedLink
     DEF Next, Continue, Stores, Passes

\* When an account comes into the table, its handler has not read the link of its row.
OpensUnlinked ==
  \A r \in Requests, a \in Accounts :
    /\ reqs[r].at = "credit" /\ reqs'[r] # reqs[r]
    /\ accounts[a].status = "absent" /\ accounts'[a].status = "verified"
    /\ rows[reqs[r].id].account # None
    => rows[reqs[r].id].account # reqs[r].account

LEMMA OpeningStep == Typed /\ LinkedOnce /\ [Next]_vars => OpensUnlinked
<1> SUFFICES ASSUME Typed, LinkedOnce, [Next]_vars, NEW r \in Requests, NEW a \in Accounts,
                    reqs[r].at = "credit", reqs'[r] # reqs[r],
                    accounts[a].status = "absent", accounts'[a].status = "verified",
                    rows[reqs[r].id].account # None
             PROVE  rows[reqs[r].id].account # reqs[r].account
  BY DEF OpensUnlinked
<1>1. PICK q \in Requests : CreditAccount(q) \/ StoreUpdatedAccount(q)
  <2>1. ~UNCHANGED accounts /\ ~UNCHANGED vars
    BY DEF vars
  <2>2. \A b \in Accounts : ~RemoveAccount(b)
    BY RemoveEffect
  <2> QED
    BY <2>1, <2>2, AccountsWritten
<1>2. q = r
  BY <1>1, CreditEffect, UpdateEffect DEF Proceeds
<1>3. CreditAccount(r)
  BY <1>1, <1>2 DEF StoreUpdatedAccount
<1>4. reqs[r].target = None \/ reqs[r].target = a
  BY <1>3 DEF CreditAccount, Typed, TypeOK
<1>5. Seeks(reqs[r]) /\ Apart(reqs[r])
  BY DEF LinkedOnce
<1> QED
  BY <1>4, <1>5, NoneAssumption DEF Seeks, Apart, Known

\* saveAccountFromVerification opens an account only if the verification it read was
\* linked to none that is there, however many handlers finalize it at once and
\* whatever accounts are deleted or restored meanwhile.
THEOREM AccountsAreOpenedOnlyWhenUnlinked == Spec => NewAccountOnlyWhenUnlinked
<1>1. Typed /\ LinkedOnce /\ [Next]_vars => [OpensUnlinked]_vars
  BY OpeningStep
<1>2. Init => Present /\ LinkedOnce
  BY PresentInit, LinkedInit
<1>3. Typed /\ Present /\ LinkedOnce /\ [Next]_vars => Present' /\ LinkedOnce'
  BY PresentStep, LinkedStep
<1> QED
  BY <1>1, <1>2, <1>3, Invariance, PTL DEF Spec, NewAccountOnlyWhenUnlinked, OpensUnlinked
=============================================================================
