--------------------------- MODULE Verifications ---------------------------
(***************************************************************************)
(* VerificationsService (src/verifications/verifications.service.ts): the  *)
(* asynchronous handlers that create, advance, finalize and override a     *)
(* tenant's verifications, and the accounts they credit.                   *)
(*                                                                         *)
(* Every handler reads the verification once, awaits the provider and the  *)
(* file system, and writes the row back from what it read.  Handlers of    *)
(* different HTTP requests interleave at each await, so a handler is one   *)
(* action per awaited effect, and reqs[r].at is the await that request r   *)
(* stands at.  A read and the checks on it that follow without an await    *)
(* are one action; a provider's answer and the UPDATE that stores it are   *)
(* one action too, because nothing else sees the answer in between.        *)
(*                                                                         *)
(* One tenant is modelled: every query filters by tenant_id.  A request    *)
(* that fails its checks (400, 404) changes nothing and is not modelled.   *)
(***************************************************************************)
EXTENDS Naturals, FiniteSets, VerificationStatus

CONSTANTS
  Ids,            \* ids of verifications that can be created
  Accounts,       \* ids of accounts that can be created
  Requests,       \* HTTP requests that can be in flight at once
  ImageSteps,     \* step types that store images (document, biometrics, custom)
  OptionalImage,  \* those of them whose image may be left out
  Images,         \* uploaded images
  UserMetadata,   \* whether clients give metadata when they create: a subset of BOOLEAN
  Operations,     \* the operations clients use in this instance
  MaxFaults,      \* bound on database errors and process crashes
  None            \* null

Providers == {"IDmeta", "Mock"}

FinalizeOperations == {"finalizeVerification", "manualFinalizeVerification"}

AllOperations == {"createVerification", "imageStep", "governmentStep",
                  "overrideVerification", "uploadDocument",
                  "removeAccount", "updateAccount", "assignProvider"} \union FinalizeOperations

ASSUME OptionalAssumption == OptionalImage \subseteq ImageSteps
ASSUME OperationsAssumption == Operations \subseteq AllOperations
ASSUME MetadataAssumption == UserMetadata \subseteq BOOLEAN
ASSUME FaultsAssumption == MaxFaults \in Nat
ASSUME NoneAssumption ==
  /\ None \notin Ids \union Accounts \union Images \union ImageSteps
  /\ None \notin Providers

\* What verification_steps holds for a step: nothing (None), an entry without
\* an image, or an entry that names the stored image.
NoImage == "entry without image"
ASSUME NoImageAssumption == NoImage \notin Images /\ NoImage # None

\* A file that was opened for writing and is not written yet.
Truncated == "truncated file"
ASSUME TruncatedAssumption == Truncated # None

StepEntries == [ImageSteps -> Images \union {None, NoImage}]
NoSteps == [s \in ImageSteps |-> None]

VARIABLES
  rows,       \* the verifications table
  accounts,   \* the accounts table
  files,      \* the image files under uploads/verifications/<id>
  primary,    \* the tenant's primary provider
  reqs,       \* the handler of each request in flight
  faults,     \* database errors and crashes so far
  decisions   \* history: positive decisions taken on each verification

vars == <<rows, accounts, files, primary, reqs, faults, decisions>>

-----------------------------------------------------------------------------
Row == [status     : LegacyStatuses \union {"absent"},
        provider   : Providers,                  \* provider_id
        ext        : Providers \union {None},    \* who issued external_verification_id
        account    : Accounts \union {None},     \* account_id
        userMeta   : BOOLEAN,                    \* user_metadata was given
        steps      : StepEntries,                \* metadata.verification_steps
        overridden : BOOLEAN]                    \* is_overridden

NoRow == [status |-> "absent", provider |-> "IDmeta", ext |-> None, account |-> None,
          userMeta |-> FALSE, steps |-> NoSteps, overridden |-> FALSE]

Account == [status : {"absent", "verified", "deleted"},
            last   : Ids \union {None}]          \* last_verification_id

\* The awaits of the handlers.
Awaits == {"idle",
           "session",                            \* createVerification: provider call
           "save", "write", "call",              \* a step: image file, provider call
           "finalize", "reload", "find", "credit", "link",   \* finalization
           "override",                           \* overrideVerification: UPDATE
           "update",                             \* AccountsService.update: save
           "processing", "assess", "announce", "reject"}     \* single-step upload

Request == [at      : Awaits,
            id      : Ids \union {None},
            step    : ImageSteps \union {None},         \* None: a government step
            image   : Images \union {None, NoImage},
            steps   : StepEntries,                     \* verification_steps as read
            account : Accounts \union {None},          \* account_id as reloaded
            target  : Accounts \union {None},          \* the account found or created
            last    : Ids \union {None}]               \* its last_verification_id as read

Idle == [at |-> "idle", id |-> None, step |-> None, image |-> None,
         steps |-> NoSteps, account |-> None, target |-> None, last |-> None]

TypeOK ==
  /\ rows \in [Ids -> Row]
  /\ accounts \in [Accounts -> Account]
  /\ files \in [Ids -> [ImageSteps -> Images \union {None, Truncated}]]
  /\ primary \in Providers
  /\ reqs \in [Requests -> Request]
  /\ faults \in 0 .. MaxFaults
  /\ decisions \in [Ids -> SUBSET {"approved", "verified"}]

Init ==
  /\ rows = [v \in Ids |-> NoRow]
  /\ accounts = [a \in Accounts |-> [status |-> "absent", last |-> None]]
  /\ files = [v \in Ids |-> NoSteps]
  /\ primary \in Providers
  /\ reqs = [r \in Requests |-> Idle]
  /\ faults = 0
  /\ decisions = [v \in Ids |-> {}]

Exists(v)        == rows[v].status # "absent"
AccountExists(a) == accounts[a].status = "verified"

\* Request r, idle so far, enters the handler of operation op on v.
Enter(r, op, v, at) ==
  /\ op \in Operations
  /\ reqs[r].at = "idle"
  /\ reqs' = [reqs EXCEPT ![r] = [Idle EXCEPT !.id = v, !.at = at]]

Finish(r) == reqs' = [reqs EXCEPT ![r] = Idle]
Move(r, at) == reqs' = [reqs EXCEPT ![r].at = at]

\* Those entitled to decide (IDmeta when asked to finalize, the single-step
\* provider, staff) leave their positive decisions in the history variable.
Record(v, status) ==
  decisions' = [decisions EXCEPT ![v] = @ \union ({status} \intersect {"approved", "verified"})]

-----------------------------------------------------------------------------
(***************************************************************************)
(* createVerification.  The row is saved before the provider is called, so *)
(* that the provider can be given its id.                                  *)
(***************************************************************************)
CreateVerification(r, v, a, withMetadata) ==
  /\ Enter(r, "createVerification", v, "session")
  /\ ~Exists(v)                           \* a fresh UUID
  /\ a # None => AccountExists(a)         \* dto.accountId, if given, must be found
  /\ rows' = [rows EXCEPT ![v] = [NoRow EXCEPT !.status = "pending", !.provider = primary,
                                   !.account = a, !.userMeta = withMetadata]]
  /\ UNCHANGED <<accounts, files, primary, faults, decisions>>

\* IDmeta opens a session and answers 'pending'; Mock decides at once.
SessionStatuses(p) == IF p = "IDmeta" THEN {"pending"} ELSE {"approved", "rejected"}

\* The UPDATE writes the provider's status whatever the row holds by now.
StoreSession(r) ==
  LET v == reqs[r].id IN
  /\ reqs[r].at = "session"
  /\ \E status \in SessionStatuses(rows[v].provider) :
       /\ rows' = [rows EXCEPT ![v] =
                   [rows[v] EXCEPT !.status = status, !.ext = rows[v].provider]]
       /\ Record(v, status)
  /\ Finish(r)
  /\ UNCHANGED <<accounts, files, primary, faults>>

-----------------------------------------------------------------------------
(***************************************************************************)
(* The steps.  All of them call the tenant's primary provider of the       *)
(* moment, which must be IDmeta, with the external id of the row.          *)
(***************************************************************************)
CanCallProvider(v) ==
  /\ Exists(v)
  /\ primary = "IDmeta"
  /\ rows[v].ext # None

\* Variants: the optional image is not tested, or no image is saved.
AlwaysSave(image) == "save"
NeverSave(image)  == "call"

\* A step given an image saves it before it calls the provider.
FirstAwait(image) == IF image = NoImage THEN "call" ELSE "save"

\* runDocumentVerification, biometricsFaceMatch, biometricsRegistration,
\* customDocument and biometricVerification up to their first file or
\* provider call.  verification_steps is read here and written back later.
BeginImageStep(r, v, s, image) ==
  /\ "imageStep" \in Operations
  /\ reqs[r].at = "idle"
  /\ CanCallProvider(v)
  /\ image = NoImage => s \in OptionalImage
  /\ reqs' = [reqs EXCEPT ![r] = [Idle EXCEPT !.id = v, !.step = s, !.image = image,
                                   !.steps = rows[v].steps,
                                   !.at = FirstAwait(image)]]
  /\ UNCHANGED <<rows, accounts, files, primary, faults, decisions>>

\* saveBase64Image: the file name is a function of the id and the step type, so
\* a later upload for the same step replaces the file.  writeFile empties the
\* file first, and leaves it so when the write fails or the process dies.
OpenImage(r) ==
  /\ reqs[r].at = "save"
  /\ files' = [files EXCEPT ![reqs[r].id][reqs[r].step] = Truncated]
  /\ Move(r, "write")
  /\ UNCHANGED <<rows, accounts, primary, faults, decisions>>

WriteImage(r) ==
  /\ reqs[r].at = "write"
  /\ files' = [files EXCEPT ![reqs[r].id][reqs[r].step] = reqs[r].image]
  /\ Move(r, "call")
  /\ UNCHANGED <<rows, accounts, primary, faults, decisions>>

\* Variant: the spread of the existing steps is forgotten.
OnlyStep(steps, s, image) == [NoSteps EXCEPT ![s] = image]

WithStep(steps, s, image) == [steps EXCEPT ![s] = image]

\* The provider answers and metadata is written back: the steps as they were
\* read, with this one added.
StoreImageStep(r) ==
  LET v == reqs[r].id IN
  /\ reqs[r].at = "call"
  /\ reqs[r].step # None
  /\ \E status \in StepStatuses :
       rows' = [rows EXCEPT ![v] =
                [@ EXCEPT !.status = status,
                          !.steps = WithStep(reqs[r].steps, reqs[r].step, reqs[r].image)]]
  /\ Finish(r)
  /\ UNCHANGED <<accounts, files, primary, faults, decisions>>

\* verifyPhilsysPcn and the five Philippine government databases.
BeginGovernmentStep(r, v) ==
  /\ "governmentStep" \in Operations
  /\ reqs[r].at = "idle"
  /\ CanCallProvider(v)
  /\ reqs' = [reqs EXCEPT ![r] = [Idle EXCEPT !.id = v, !.steps = rows[v].steps, !.at = "call"]]
  /\ UNCHANGED <<rows, accounts, files, primary, faults, decisions>>

\* `...(verification.user_metadata || verification.metadata || {})`: metadata is
\* rebuilt from user_metadata when the client gave any, else from what was read.
StoreGovernmentStep(r) ==
  LET v == reqs[r].id IN
  /\ reqs[r].at = "call"
  /\ reqs[r].step = None
  /\ \E status \in StepStatuses :
       rows' = [rows EXCEPT ![v] =
                [@ EXCEPT !.status = status,
                          !.steps = IF rows[v].userMeta THEN NoSteps ELSE reqs[r].steps]]
  /\ Finish(r)
  /\ UNCHANGED <<accounts, files, primary, faults, decisions>>

-----------------------------------------------------------------------------
(***************************************************************************)
(* finalizeVerification, manualFinalizeVerification and, when the answer   *)
(* is 'verified', saveAccountFromVerification.                             *)
(***************************************************************************)
BeginFinalize(r, v, op) ==
  /\ Enter(r, op, v, "finalize")
  /\ CanCallProvider(v)
  /\ UNCHANGED <<rows, accounts, files, primary, faults, decisions>>

StoreFinalize(r) ==
  LET v == reqs[r].id IN
  /\ reqs[r].at = "finalize"
  /\ \E status \in FinalStatuses :
       /\ rows' = [rows EXCEPT ![v].status = status]
       /\ Record(v, status)
       /\ IF status = "verified" THEN Move(r, "reload") ELSE Finish(r)
  /\ UNCHANGED <<accounts, files, primary, faults>>

\* The row is read again; another handler may have changed its status, and then
\* no account is saved although the client is answered 'verified'.
ReloadFinalized(r) ==
  LET v == reqs[r].id IN
  /\ reqs[r].at = "reload"
  /\ IF rows[v].status = "verified"
       THEN reqs' = [reqs EXCEPT ![r] = [@ EXCEPT !.at = "find", !.account = rows[v].account]]
       ELSE Finish(r)
  /\ UNCHANGED <<rows, accounts, files, primary, faults, decisions>>

\* Variant: the link is not consulted.
NoReuse(a) == None

\* The account linked to the row, if it can be found.
Reused(a) == IF a # None /\ AccountExists(a) THEN a ELSE None

FindAccount(r) ==
  /\ reqs[r].at = "find"
  /\ reqs' = [reqs EXCEPT ![r] = [@ EXCEPT !.at = "credit", !.target = Reused(reqs[r].account)]]
  /\ UNCHANGED <<rows, accounts, files, primary, faults, decisions>>

\* save() inserts the account if its id is not in the table, be it new or
\* deleted since it was found.
CreditAccount(r) ==
  LET v == reqs[r].id IN
  /\ reqs[r].at = "credit"
  /\ \E a \in Accounts :
       /\ IF reqs[r].target = None THEN accounts[a].status = "absent" ELSE a = reqs[r].target
       /\ accounts' = [accounts EXCEPT ![a] = [status |-> "verified", last |-> v]]
       /\ IF reqs[r].account = a
            THEN Finish(r)
            ELSE reqs' = [reqs EXCEPT ![r] = [@ EXCEPT !.at = "link", !.target = a]]
  /\ UNCHANGED <<rows, files, primary, faults, decisions>>

\* account_id is written without looking at what the row holds by now.  The
\* foreign key refuses an account deleted meanwhile: see DatabaseError.
LinkAccount(r) ==
  /\ reqs[r].at = "link"
  /\ AccountExists(reqs[r].target)
  /\ rows' = [rows EXCEPT ![reqs[r].id].account = reqs[r].target]
  /\ Finish(r)
  /\ UNCHANGED <<accounts, files, primary, faults, decisions>>

-----------------------------------------------------------------------------
(***************************************************************************)
(* overrideVerification: a check on the row as read, then the UPDATE.      *)
(***************************************************************************)
BeginOverride(r, v) ==
  /\ Enter(r, "overrideVerification", v, "override")
  /\ rows[v].status \in {"needs_review", "rejected"}
  /\ UNCHANGED <<rows, accounts, files, primary, faults, decisions>>

\* Variant: an approval by staff credits an account as a finalization does.
StoreOverrideAndCredit(r) ==
  LET v == reqs[r].id IN
  /\ reqs[r].at = "override"
  /\ \E decision \in {"approved", "rejected"} :
       /\ rows' = [rows EXCEPT ![v] = [@ EXCEPT !.status = decision, !.overridden = TRUE]]
       /\ Record(v, decision)
       /\ IF decision = "approved" THEN Move(r, "find") ELSE Finish(r)
  /\ UNCHANGED <<accounts, files, primary, faults>>

StoreOverride(r) ==
  LET v == reqs[r].id IN
  /\ reqs[r].at = "override"
  /\ \E decision \in {"approved", "rejected"} :
       /\ rows' = [rows EXCEPT ![v] = [@ EXCEPT !.status = decision, !.overridden = TRUE]]
       /\ Record(v, decision)
  /\ Finish(r)
  /\ UNCHANGED <<accounts, files, primary, faults>>

-----------------------------------------------------------------------------
(***************************************************************************)
(* uploadDocument and, for the provider of type single_step,               *)
(* processSingleStepVerification, whose catch covers every await of it.    *)
(* For IDmeta an upload only adds a document row, which is not modelled.   *)
(***************************************************************************)
BeginUpload(r, v) ==
  /\ Enter(r, "uploadDocument", v, "processing")
  /\ rows[v].status = "pending"
  /\ rows[v].provider = "Mock"
  /\ UNCHANGED <<rows, accounts, files, primary, faults, decisions>>

MarkProcessing(r) ==
  /\ reqs[r].at = "processing"
  /\ rows' = [rows EXCEPT ![reqs[r].id].status = "processing"]
  /\ Move(r, "assess")
  /\ UNCHANGED <<accounts, files, primary, faults, decisions>>

StoreAssessment(r) ==
  LET v == reqs[r].id IN
  /\ reqs[r].at = "assess"
  /\ \E status \in SessionStatuses("Mock") :
       /\ rows' = [rows EXCEPT ![v].status = status]
       /\ Record(v, status)
  /\ Move(r, "announce")
  /\ UNCHANGED <<accounts, files, primary, faults>>

AnnounceAssessment(r) ==
  /\ reqs[r].at = "announce"
  /\ Finish(r)
  /\ UNCHANGED <<rows, accounts, files, primary, faults, decisions>>

\* Variant: no catch, the upload just ends.
AssessmentAborts(r) ==
  /\ reqs[r].at \in {"assess", "announce"}
  /\ Finish(r)
  /\ UNCHANGED <<rows, accounts, files, primary, faults, decisions>>

\* The provider, or the publication of either event, throws.
AssessmentFails(r) ==
  /\ reqs[r].at \in {"assess", "announce"}
  /\ Move(r, "reject")
  /\ UNCHANGED <<rows, accounts, files, primary, faults, decisions>>

RejectUpload(r) ==
  /\ reqs[r].at = "reject"
  /\ rows' = [rows EXCEPT ![reqs[r].id].status = "rejected"]
  /\ Finish(r)
  /\ UNCHANGED <<accounts, files, primary, faults, decisions>>

-----------------------------------------------------------------------------
(***************************************************************************)
(* AccountsService.update: the account is read, the client's fields are    *)
(* assigned, and the entity is saved.                                      *)
(***************************************************************************)
BeginUpdateAccount(r, a) ==
  /\ "updateAccount" \in Operations
  /\ reqs[r].at = "idle"
  /\ AccountExists(a)
  /\ reqs' = [reqs EXCEPT ![r] = [Idle EXCEPT !.target = a, !.last = accounts[a].last,
                                              !.at = "update"]]
  /\ UNCHANGED <<rows, accounts, files, primary, faults, decisions>>

\* Variant: new personal data have to be verified again.
StoreUnverifiedAccount(r) ==
  /\ reqs[r].at = "update"
  /\ accounts' = [accounts EXCEPT ![reqs[r].target] = [status |-> "verified", last |-> None]]
  /\ Finish(r)
  /\ UNCHANGED <<rows, files, primary, faults, decisions>>

\* save() writes every column that differs from the table by now, those the
\* client did not give included, and inserts the account if it is gone.
StoreUpdatedAccount(r) ==
  /\ reqs[r].at = "update"
  /\ accounts' = [accounts EXCEPT ![reqs[r].target] = [status |-> "verified", last |-> reqs[r].last]]
  /\ Finish(r)
  /\ UNCHANGED <<rows, files, primary, faults, decisions>>

-----------------------------------------------------------------------------
(***************************************************************************)
(* The rest of the system, as far as these handlers see it.                *)
(***************************************************************************)

\* Variant: a foreign key without ON DELETE SET NULL.
KeepLink(v, a) == rows[v].account

Unlink(v, a) == IF rows[v].account = a THEN None ELSE rows[v].account

\* AccountsService.remove; the foreign key clears the links (ON DELETE SET NULL).
RemoveAccount(a) ==
  /\ "removeAccount" \in Operations
  /\ AccountExists(a)
  /\ accounts' = [accounts EXCEPT ![a] = [status |-> "deleted", last |-> None]]
  /\ rows' = [v \in Ids |-> [rows[v] EXCEPT !.account = Unlink(v, a)]]
  /\ UNCHANGED <<files, primary, reqs, faults, decisions>>

\* An administrator assigns providers: another one becomes the primary.
AssignProvider(p) ==
  /\ "assignProvider" \in Operations
  /\ p # primary
  /\ primary' = p
  /\ UNCHANGED <<rows, accounts, files, reqs, faults, decisions>>

\* A call to the provider or an event throws, or a file cannot be written: the
\* handler rethrows, what it wrote so far stays.
CallFails(r) ==
  /\ reqs[r].at \in {"session", "save", "write", "call", "finalize"}
  /\ Finish(r)
  /\ UNCHANGED <<rows, accounts, files, primary, faults, decisions>>

\* A query is refused.  Inside processSingleStepVerification the catch answers
\* with another UPDATE; elsewhere the request fails.
DatabaseError(r) ==
  /\ \/ /\ reqs[r].at \in {"reload", "find", "credit", "link", "override", "update",
                           "processing", "assess", "reject"}
        /\ faults < MaxFaults
        /\ faults' = faults + 1
     \/ /\ reqs[r].at = "link"             \* the foreign key, which is no fault
        /\ ~AccountExists(reqs[r].target)
        /\ UNCHANGED faults
  /\ IF reqs[r].at \in {"processing", "assess"} THEN Move(r, "reject") ELSE Finish(r)
  /\ UNCHANGED <<rows, accounts, files, primary, decisions>>

\* The process dies: every request in flight is lost, the database is not.
Crash ==
  /\ faults < MaxFaults
  /\ faults' = faults + 1
  /\ \E r \in Requests : reqs[r].at # "idle"
  /\ reqs' = [r \in Requests |-> Idle]
  /\ UNCHANGED <<rows, accounts, files, primary, decisions>>

-----------------------------------------------------------------------------
\* What a request does once it is in a handler.
Continue(r) ==
  \/ StoreSession(r)
  \/ OpenImage(r) \/ WriteImage(r) \/ StoreImageStep(r) \/ StoreGovernmentStep(r)
  \/ StoreFinalize(r) \/ ReloadFinalized(r) \/ FindAccount(r) \/ CreditAccount(r) \/ LinkAccount(r)
  \/ StoreOverride(r)
  \/ StoreUpdatedAccount(r)
  \/ MarkProcessing(r) \/ StoreAssessment(r) \/ AnnounceAssessment(r) \/ AssessmentFails(r)
  \/ RejectUpload(r)
  \/ CallFails(r) \/ DatabaseError(r)

Receive(r, v) ==
  \/ \E a \in Accounts \union {None}, withMetadata \in UserMetadata :
        CreateVerification(r, v, a, withMetadata)
  \/ \E s \in ImageSteps, image \in Images \union {NoImage} : BeginImageStep(r, v, s, image)
  \/ BeginGovernmentStep(r, v)
  \/ \E op \in FinalizeOperations : BeginFinalize(r, v, op)
  \/ BeginOverride(r, v)
  \/ BeginUpload(r, v)

Next ==
  \/ \E r \in Requests : Continue(r)
  \/ \E r \in Requests, v \in Ids : Receive(r, v)
  \/ \E r \in Requests, a \in Accounts : BeginUpdateAccount(r, a)
  \/ \E a \in Accounts : RemoveAccount(a)
  \/ \E p \in Providers : AssignProvider(p)
  \/ Crash

Spec == Init /\ [][Next]_vars

\* The event loop runs every handler to its end: each await settles, with a
\* result or an error.
FairSpec == Spec /\ \A r \in Requests : WF_vars(Continue(r))

-----------------------------------------------------------------------------
(***************************************************************************)
(* What the program counters imply, the strengthening that makes the       *)
(* invariants below inductive.                                             *)
(***************************************************************************)

\* A handler knows its verification, one saving an image knows which, one
\* calling the provider for an image step records an image or its absence, one
\* about to link or to save knows the account, and one past the finalize call
\* has seen the provider answer 'verified', as had whoever credited the account
\* that an update read.
HandlersInOrder ==
  \A r \in Requests :
    /\ reqs[r].at \notin {"idle", "update"} => reqs[r].id \in Ids
    /\ reqs[r].at \in {"save", "write"} => reqs[r].step \in ImageSteps /\ reqs[r].image \in Images
    /\ reqs[r].at = "call" /\ reqs[r].step \in ImageSteps => reqs[r].image # None
    /\ reqs[r].at \in {"link", "update"} => reqs[r].target \in Accounts
    /\ reqs[r].at \in {"reload", "find", "credit", "link"} =>
         "verified" \in decisions[reqs[r].id]
    /\ reqs[r].at = "update" => reqs[r].last \in Ids /\ "verified" \in decisions[reqs[r].last]

-----------------------------------------------------------------------------
(***************************************************************************)
(* Safety.                                                                 *)
(***************************************************************************)

\* A row says 'verified' or 'approved' only if IDmeta, asked to finalize, the
\* single-step provider or a member of staff decided so for this verification:
\* no step and no stale write of a concurrent handler makes one up.  The documents
\* promise 'approved' of a government step and of a webhook that succeed; the code,
\* whose normalizeProviderStatus waits for the finalization, never stores it for them.
PositiveStatusIsDecided ==
  \A v \in Ids : rows[v].status \in {"approved", "verified"} => rows[v].status \in decisions[v]

\* An account is verified only on the strength of a verification that IDmeta
\* finalized as verified: neither an override nor a single-step approval nor
\* the reload between finalization and saveAccountFromVerification credits one.
AccountsAreEarned ==
  \A a \in Accounts : AccountExists(a) =>
    /\ accounts[a].last \in Ids
    /\ "verified" \in decisions[accounts[a].last]

\* saveAccountFromVerification adds an account only for a verification that is
\* not linked to a live one, or for one linked after it was reloaded.
NewAccountOnlyWhenUnlinked ==
  [][\A r \in Requests, a \in Accounts :
       /\ reqs[r].at = "credit" /\ reqs'[r] # reqs[r]
       /\ accounts[a].status = "absent" /\ accounts'[a].status = "verified"
       /\ rows[reqs[r].id].account # None
       => rows[reqs[r].id].account # reqs[r].account]_vars

\* An account changes hands, is taken back to an older verification or comes back
\* after its deletion only by a finalization that credits it anew, or by an
\* update of its personal data that had read it before the last credit or the
\* deletion: AccountsService.update saves the columns it never meant to touch.
CreditsLostOnlyByStaleUpdate ==
  [][\A a \in Accounts :
       accounts'[a] # accounts[a] /\ accounts'[a].status = "verified" =>
         \E r \in Requests :
           \/ reqs[r].at = "credit" /\ reqs[r].id = accounts'[a].last
           \/ /\ reqs[r].at = "update" /\ reqs[r].target = a
              /\ reqs[r].last = accounts'[a].last
              /\ reqs[r].last # accounts[a].last]_vars

\* The URL of a recorded image never dangles: the file was there before
\* verification_steps named it, through whatever stale write, and no later
\* handler takes it away.  That the file is the recorded image is more than the
\* code keeps: a later upload for the step replaces it before the provider is
\* called, and truncates it if the write fails.
RecordedImagesAreStored ==
  \A v \in Ids, s \in ImageSteps : rows[v].steps[s] \in Images => files[v][s] # None

\* A recorded step disappears only when a handler writes back steps it read
\* before another handler's write, or when a government step rebuilds the
\* metadata of a verification created with user_metadata.
StepsLostOnlyByStaleWrite ==
  [][\A v \in Ids, s \in ImageSteps :
       rows[v].steps[s] # None /\ rows'[v].steps[s] = None =>
         \E r \in Requests :
           /\ reqs[r].id = v /\ reqs[r].at = "call" /\ reqs'[r].at = "idle"
           /\ reqs[r].steps # rows[v].steps \/ (reqs[r].step = None /\ rows[v].userMeta)]_vars

\* The accounts and their links behave as AccountLedger promises.
Ledger == INSTANCE AccountLedger WITH
            finalized <- {v \in Ids : "verified" \in decisions[v]},
            account   <- accounts,
            link      <- [v \in Ids |-> rows[v].account]
ImplementsLedger == Ledger!Spec

(***************************************************************************)
(* Liveness.                                                               *)
(***************************************************************************)

\* Without database errors or crashes, a verification that an upload has put
\* into 'processing' leaves it, even if the provider or an event fails and
\* whatever other handlers store in between.
SingleStepSettles ==
  \A r \in Requests, v \in Ids :
    reqs[r].at = "assess" /\ reqs[r].id = v ~> rows[v].status # "processing"

(***************************************************************************)
(* What the comments and documents say, and the code does not do.          *)
(***************************************************************************)

\* "Create new account if not already linked": one verification creates at most
\* one account.
OneAccountPerVerification ==
  \A v \in Ids :
    Cardinality({a \in Accounts : AccountExists(a) /\ accounts[a].last = v}) <= 1

\* "all images are preserved": a recorded image is not dropped by another step.
ImagesPreserved ==
  [][\A v \in Ids, s \in ImageSteps :
       rows[v].steps[s] \in Images => rows'[v].steps[s] # None]_vars
=============================================================================
