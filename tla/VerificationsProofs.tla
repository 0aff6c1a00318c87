------------------------ MODULE VerificationsProofs ------------------------
(***************************************************************************)
(* Type correctness of Verifications, and the two invariants that say who  *)
(* may decide: for any number of verifications, accounts and requests, and *)
(* any number of crashes.                                                  *)
(***************************************************************************)
EXTENDS Verifications, TLAPS

Positive == {"approved", "verified"}

-----------------------------------------------------------------------------
(***************************************************************************)
(* The status algebra.                                                     *)
(***************************************************************************)

\* Every raw status carries a flag, so the boolean case is decided.
LEMMA RawFlag ==
  ASSUME NEW raw \in RawStatuses
  PROVE  raw.flag \in BOOLEAN
<1>1. \A n : Numeric(n).flag = FALSE
  BY DEF Numeric
<1>2. \A b : Boolean(b).flag = b
  BY DEF Boolean
<1>3. \A w : Text(w).flag = FALSE
  BY DEF Text
<1>4. Missing.flag = FALSE
  BY DEF Missing
<1>5. CASE raw \in {Numeric(n) : n \in {0, 200, 400, 404} \union Codes}
  BY <1>1, <1>5
<1>6. CASE raw \in {Boolean(b) : b \in BOOLEAN}
  BY <1>2, <1>6
<1>7. CASE raw \in {Text(w) : w \in Words \union {Unrecognised}}
  BY <1>3, <1>7
<1>8. CASE raw = Missing
  BY <1>4, <1>8
<1> QED
  BY <1>5, <1>6, <1>7, <1>8 DEF RawStatuses

\* normalizeProviderStatus answers one of the seven codes.
LEMMA NormalizedIsCode ==
  ASSUME NEW raw, raw.flag \in BOOLEAN, NEW msg, NEW f \in BOOLEAN
  PROVE  NormalizeProviderStatus(raw, msg, f, "IDmeta") \in Codes
<1>1. Success(f) \in Codes
  BY DEF Success, Codes, REJECTED, VERIFIED, IN_PROGRESS, PURGED
<1>2. NormalizeNumber(raw.number, f) \in Codes
  BY <1>1 DEF NormalizeNumber, Codes, REJECTED, REVIEW_NEEDED, INCOMPLETE, IN_PROGRESS, FAILED, PURGED
<1>3. NormalizeBoolean(raw.flag, "IDmeta") \in Codes
  BY DEF NormalizeBoolean, Codes, REJECTED, VERIFIED, IN_PROGRESS, PURGED
<1>4. NormalizeMessage(msg, f) \in Codes
  BY <1>1 DEF NormalizeMessage, Codes, REJECTED, REVIEW_NEEDED, IN_PROGRESS, PURGED
<1>5. NormalizeText(raw.text, msg, f) \in Codes
  BY <1>1, <1>4 DEF NormalizeText, Codes, REJECTED, REVIEW_NEEDED, INCOMPLETE, IN_PROGRESS, PURGED
<1> QED
  BY <1>2, <1>3, <1>4, <1>5 DEF NormalizeProviderStatus

\* Before finalization no answer of IDmeta counts as verified, whatever number,
\* boolean or text it carries.
THEOREM NotVerifiedBeforeFinalized ==
  ASSUME NEW raw, raw.flag \in BOOLEAN, NEW msg, NEW f \in BOOLEAN, ~f
  PROVE  NormalizeProviderStatus(raw, msg, f, "IDmeta") # VERIFIED
<1>1. Success(f) = IN_PROGRESS
  BY DEF Success
<1>2. NormalizeNumber(raw.number, f) # VERIFIED
  BY <1>1 DEF NormalizeNumber, VERIFIED, REJECTED, REVIEW_NEEDED, INCOMPLETE, IN_PROGRESS, FAILED, PURGED
<1>3. NormalizeBoolean(raw.flag, "IDmeta") # VERIFIED
  BY DEF NormalizeBoolean, REJECTED, VERIFIED, IN_PROGRESS
<1>4. NormalizeMessage(msg, f) # VERIFIED
  BY <1>1 DEF NormalizeMessage, VERIFIED, REJECTED, REVIEW_NEEDED, IN_PROGRESS
<1>5. NormalizeText(raw.text, msg, f) # VERIFIED
  BY <1>1, <1>4 DEF NormalizeText, VERIFIED, REJECTED, REVIEW_NEEDED, INCOMPLETE, IN_PROGRESS, PURGED
<1> QED
  BY <1>2, <1>3, <1>4, <1>5 DEF NormalizeProviderStatus

\* A code is stored as a known string, and as 'verified' only if it is VERIFIED.
LEMMA StoredString ==
  ASSUME NEW code \in Codes
  PROVE  /\ NumericToLegacy(code) \in StoredStatuses
         /\ NumericToLegacy(code) = "verified" => code = VERIFIED
  BY DEF NumericToLegacy, StoredStatuses, Codes, REJECTED, REVIEW_NEEDED, VERIFIED, FAILED, PURGED

\* The raw status that verifyDocument hands to the mapping has a flag too.
LEMMA DocumentRawFlag ==
  ASSUME NEW raw \in RawStatuses, NEW err \in BOOLEAN
  PROVE  DocumentRaw(raw, err).flag \in BOOLEAN
<1>1. raw.flag \in BOOLEAN
  BY RawFlag
<1>2. Text("REJECTED").flag \in BOOLEAN /\ Text(Unrecognised).flag \in BOOLEAN
        /\ Text("PROCESSING").flag \in BOOLEAN
  BY DEF Text
<1> QED
  BY <1>1, <1>2 DEF DocumentRaw

\* What IDmetaProvider stores for an answer.
LEMMA IDmetaStatusStored ==
  ASSUME NEW raw, raw.flag \in BOOLEAN, NEW msg, NEW f \in BOOLEAN
  PROVE  /\ IDmetaStatus(raw, msg, f) \in StoredStatuses
         /\ ~f => IDmetaStatus(raw, msg, f) # "verified"
<1> DEFINE code == NormalizeProviderStatus(raw, msg, f, "IDmeta")
<1>1. code \in Codes
  BY NormalizedIsCode
<1>2. ~f => code # VERIFIED
  BY NotVerifiedBeforeFinalized
<1>3. IDmetaStatus(raw, msg, f) = NumericToLegacy(code)
  BY DEF IDmetaStatus
<1> HIDE DEF code
<1> QED
  BY <1>1, <1>2, <1>3, StoredString

\* What a step can leave in verifications.status: never a positive decision.
LEMMA StepStatusesStored == StepStatuses \subseteq StoredStatuses \ {"verified"}
<1>0. Unfinalized \in BOOLEAN /\ ~Unfinalized
  BY DEF Unfinalized
<1>1. ASSUME NEW raw, raw.flag \in BOOLEAN, NEW msg
      PROVE  IDmetaStatus(raw, msg, Unfinalized) \in StoredStatuses \ {"verified"}
  BY <1>0, <1>1, IDmetaStatusStored
<1>2. \A raw \in RawStatuses, msg \in Messages :
        IDmetaStatus(raw, msg, Unfinalized) \in StoredStatuses \ {"verified"}
  BY <1>1, RawFlag
<1>3. ASSUME NEW raw \in RawStatuses, NEW err \in BOOLEAN
      PROVE  DocumentStatus(raw, err) \in StoredStatuses \ {"verified"}
  BY <1>1, DocumentRawFlag DEF DocumentStatus
<1> QED
  BY <1>2, <1>3 DEF StepStatuses, DocumentStatuses

LEMMA FinalStatusesStored == FinalStatuses \subseteq StoredStatuses
<1>0. Finalized \in BOOLEAN
  BY DEF Finalized
<1>1. ASSUME NEW raw \in RawStatuses, NEW msg \in Messages
      PROVE  IDmetaStatus(raw, msg, Finalized) \in StoredStatuses
  BY <1>0, RawFlag, IDmetaStatusStored
<1> QED
  BY <1>1 DEF FinalStatuses

-----------------------------------------------------------------------------
(***************************************************************************)
(* Type correctness.                                                       *)
(***************************************************************************)

LEMMA NoStepsType == NoSteps \in StepEntries /\ NoSteps \in [ImageSteps -> Images \union {None}]
  BY DEF NoSteps, StepEntries

LEMMA NoRowType == NoRow \in Row
  BY NoStepsType DEF NoRow, Row, Providers, LegacyStatuses

LEMMA IdleType == Idle \in Request
  BY NoStepsType DEF Idle, Request, Awaits

\* The fields of a row that the handlers write.
LEMMA StatusField ==
  ASSUME NEW row \in Row, NEW status \in LegacyStatuses
  PROVE  [row EXCEPT !.status = status] \in Row
  BY DEF Row

LEMMA ExtField ==
  ASSUME NEW row \in Row, NEW ext \in Providers \union {None}, NEW status \in LegacyStatuses
  PROVE  [row EXCEPT !.status = status, !.ext = ext] \in Row
  BY DEF Row

LEMMA StepsField ==
  ASSUME NEW row \in Row, NEW steps \in StepEntries, NEW status \in LegacyStatuses
  PROVE  [row EXCEPT !.status = status, !.steps = steps] \in Row
  BY DEF Row

LEMMA OverriddenField ==
  ASSUME NEW row \in Row, NEW status \in LegacyStatuses
  PROVE  [row EXCEPT !.status = status, !.overridden = TRUE] \in Row
  BY DEF Row

LEMMA AccountField ==
  ASSUME NEW row \in Row, NEW a \in Accounts \union {None}
  PROVE  [row EXCEPT !.account = a] \in Row
  BY DEF Row

LEMMA StepAnswers == StepStatuses \subseteq LegacyStatuses \ Positive
  BY StepStatusesStored DEF StoredStatuses, LegacyStatuses, Positive

LEMMA FinalAnswers == FinalStatuses \subseteq LegacyStatuses
  BY FinalStatusesStored DEF StoredStatuses, LegacyStatuses

LEMMA InitType == Init => TypeOK /\ HandlersInOrder
<1> SUFFICES ASSUME Init PROVE TypeOK /\ HandlersInOrder
  OBVIOUS
<1>1. TypeOK
  BY NoRowType, NoStepsType, IdleType, FaultsAssumption DEF Init, TypeOK, Account
<1>2. HandlersInOrder
  BY DEF Init, HandlersInOrder, Idle
<1> QED
  BY <1>1, <1>2

\* A request that moves on, or ends, stays a request.
LEMMA MovedType ==
  ASSUME NEW q \in Request, NEW at \in Awaits
  PROVE  [q EXCEPT !.at = at] \in Request
  BY DEF Request

LEMMA MoveType ==
  ASSUME TypeOK, NEW r \in Requests, NEW at \in Awaits, Move(r, at)
  PROVE  reqs' \in [Requests -> Request]
<1>1. reqs \in [Requests -> Request] /\ reqs[r] \in Request
  BY DEF TypeOK
<1> DEFINE moved == [reqs[r] EXCEPT !.at = at]
<1>2. moved \in Request
  BY <1>1, MovedType
<1>3. reqs' = [reqs EXCEPT ![r] = moved]
  BY DEF Move
<1> HIDE DEF moved
<1> QED
  BY <1>1, <1>2, <1>3

LEMMA FinishType ==
  ASSUME TypeOK, NEW r \in Requests, Finish(r)
  PROVE  reqs' \in [Requests -> Request]
  BY IdleType DEF TypeOK, Finish

LEMMA ReloadedType ==
  ASSUME NEW q \in Request, NEW at \in Awaits, NEW a \in Accounts \union {None}
  PROVE  [q EXCEPT !.at = at, !.account = a] \in Request
  BY DEF Request

LEMMA TargetType ==
  ASSUME NEW q \in Request, NEW at \in Awaits, NEW a \in Accounts \union {None}
  PROVE  [q EXCEPT !.at = at, !.target = a] \in Request
  BY DEF Request

LEMMA EnterType ==
  ASSUME TypeOK, NEW r \in Requests, NEW op, NEW v \in Ids, NEW at \in Awaits, Enter(r, op, v, at)
  PROVE  reqs' \in [Requests -> Request]
  BY IdleType DEF TypeOK, Enter, Request, Idle

LEMMA RecordType ==
  ASSUME TypeOK, NEW v \in Ids, NEW status, Record(v, status)
  PROVE  /\ decisions' \in [Ids -> SUBSET Positive]
         /\ decisions'[v] = decisions[v] \union ({status} \intersect Positive)
         /\ \A w \in Ids : w # v => decisions'[w] = decisions[w]
  BY DEF TypeOK, Record, Positive

-----------------------------------------------------------------------------
(***************************************************************************)
(* The steps.                                                              *)
(***************************************************************************)
Typed == TypeOK /\ HandlersInOrder

LEMMA CreateVerificationType ==
  ASSUME Typed, NEW r \in Requests, NEW v \in Ids, NEW a \in Accounts \union {None},
         NEW m \in BOOLEAN, CreateVerification(r, v, a, m)
  PROVE  Typed'
<1>1. reqs' \in [Requests -> Request]
  BY EnterType DEF CreateVerification, Typed, Awaits
<1> DEFINE row == [NoRow EXCEPT !.status = "pending", !.provider = primary,
                                 !.account = a, !.userMeta = m]
<1>a. row \in Row
  BY NoRowType DEF Typed, TypeOK, Row, LegacyStatuses
<1>b. rows' = [rows EXCEPT ![v] = row]
  BY DEF CreateVerification
<1> HIDE DEF row
<1>2. rows' \in [Ids -> Row]
  BY <1>a, <1>b DEF Typed, TypeOK
<1>3. TypeOK'
  BY <1>1, <1>2 DEF CreateVerification, Typed, TypeOK
<1>4. HandlersInOrder'
  BY DEF CreateVerification, Typed, TypeOK, HandlersInOrder, Enter, Idle, Request
<1> QED
  BY <1>3, <1>4 DEF Typed

LEMMA StoreSessionType ==
  ASSUME Typed, NEW r \in Requests, StoreSession(r)
  PROVE  Typed'
<1> DEFINE v == reqs[r].id
<1>0. v \in Ids
  BY DEF StoreSession, Typed, HandlersInOrder
<1>1. PICK status \in SessionStatuses(rows[v].provider) :
        /\ rows' = [rows EXCEPT ![v] =
                      [rows[v] EXCEPT !.status = status, !.ext = rows[v].provider]]
        /\ Record(v, status)
  BY DEF StoreSession
<1>2. status \in LegacyStatuses
  BY DEF SessionStatuses, LegacyStatuses
<1> DEFINE row == [rows[v] EXCEPT !.status = status, !.ext = rows[v].provider]
<1>a. row \in Row
  <2>1. rows[v] \in Row /\ rows[v].provider \in Providers \union {None}
    BY <1>0 DEF Typed, TypeOK, Row
  <2> QED
    BY <1>2, <2>1, ExtField
<1>b. rows' = [rows EXCEPT ![v] = row]
  BY <1>1
<1> HIDE DEF row
<1>3. rows' \in [Ids -> Row]
  BY <1>0, <1>a, <1>b DEF Typed, TypeOK
<1>4. /\ reqs' \in [Requests -> Request]
      /\ decisions' \in [Ids -> SUBSET Positive]
      /\ \A w \in Ids : decisions[w] \subseteq decisions'[w]
  BY <1>0, <1>1, FinishType, RecordType DEF StoreSession, Typed
<1>5. TypeOK'
  BY <1>3, <1>4 DEF StoreSession, Typed, TypeOK, Positive
<1>6. HandlersInOrder'
  BY <1>4 DEF StoreSession, Typed, TypeOK, HandlersInOrder, Finish, Idle, Request
<1> QED
  BY <1>5, <1>6 DEF Typed

LEMMA ImageStepType ==
  ASSUME Typed, NEW r \in Requests,
         \/ \E v \in Ids, s \in ImageSteps, i \in Images \union {NoImage} : BeginImageStep(r, v, s, i)
         \/ OpenImage(r) \/ WriteImage(r)
         \/ StoreImageStep(r)
  PROVE  Typed'
<1>1. CASE \E v \in Ids, s \in ImageSteps, i \in Images \union {NoImage} : BeginImageStep(r, v, s, i)
  <2> PICK v \in Ids, s \in ImageSteps, i \in Images \union {NoImage} : BeginImageStep(r, v, s, i)
    BY <1>1
  <2> DEFINE q == [Idle EXCEPT !.id = v, !.step = s, !.image = i, !.steps = rows[v].steps,
                               !.at = FirstAwait(i)]
  <2>1. reqs' = [reqs EXCEPT ![r] = q]
    BY DEF BeginImageStep
  <2>2. /\ q \in Request /\ q.id = v /\ q.step = s /\ q.image = i
        /\ q.at = FirstAwait(i)
    BY IdleType DEF Request, Awaits, FirstAwait, Typed, TypeOK, Row
  <2>3. q.at \in {"save", "call"} /\ (q.at = "save" => i \in Images) /\ i # None
    BY <2>2, NoneAssumption, NoImageAssumption DEF FirstAwait
  <2> HIDE DEF q
  <2>4. TypeOK'
    BY <2>1, <2>2 DEF BeginImageStep, Typed, TypeOK
  <2>5. HandlersInOrder'
    BY <2>1, <2>2, <2>3 DEF BeginImageStep, Typed, TypeOK, HandlersInOrder
  <2> QED
    BY <2>4, <2>5 DEF Typed
<1>2. CASE OpenImage(r)
  <2>1. reqs' \in [Requests -> Request]
    BY <1>2, MoveType DEF OpenImage, Typed, Awaits
  <2>2. reqs[r].id \in Ids /\ reqs[r].step \in ImageSteps /\ reqs[r].image \in Images
    BY <1>2 DEF OpenImage, Typed, HandlersInOrder
  <2>3. files' \in [Ids -> [ImageSteps -> Images \union {None, Truncated}]]
    BY <1>2, <2>2 DEF OpenImage, Typed, TypeOK
  <2>4. TypeOK'
    BY <1>2, <2>1, <2>3 DEF OpenImage, Typed, TypeOK
  <2>5. HandlersInOrder'
    BY <1>2 DEF OpenImage, Move, Typed, TypeOK, HandlersInOrder, Request
  <2> QED
    BY <2>4, <2>5 DEF Typed
<1>3. CASE WriteImage(r)
  <2>1. reqs' \in [Requests -> Request]
    BY <1>3, MoveType DEF WriteImage, Typed, Awaits
  <2>2. reqs[r].id \in Ids /\ reqs[r].step \in ImageSteps /\ reqs[r].image \in Images
    BY <1>3 DEF WriteImage, Typed, HandlersInOrder
  <2>3. files' \in [Ids -> [ImageSteps -> Images \union {None, Truncated}]]
    BY <1>3, <2>2 DEF WriteImage, Typed, TypeOK
  <2>4. TypeOK'
    BY <1>3, <2>1, <2>3 DEF WriteImage, Typed, TypeOK
  <2>5. HandlersInOrder'
    BY <1>3, <2>2, NoneAssumption DEF WriteImage, Move, Typed, TypeOK, HandlersInOrder, Request
  <2> QED
    BY <2>4, <2>5 DEF Typed
<1>4. CASE StoreImageStep(r)
  <2> DEFINE v == reqs[r].id
             steps == WithStep(reqs[r].steps, reqs[r].step, reqs[r].image)
  <2>1. v \in Ids /\ steps \in StepEntries
    BY <1>4 DEF StoreImageStep, Typed, TypeOK, HandlersInOrder, Request, WithStep, StepEntries
  <2>2. PICK status \in StepStatuses : rows' = [rows EXCEPT ![v] = [@ EXCEPT !.status = status, !.steps = steps]]
    BY <1>4 DEF StoreImageStep
  <2> HIDE DEF steps
  <2> DEFINE row == [rows[v] EXCEPT !.status = status, !.steps = steps]
  <2>a. row \in Row
    <3>1. rows[v] \in Row /\ status \in LegacyStatuses
      BY <2>1, StepAnswers DEF Typed, TypeOK
    <3> QED
      BY <2>1, <3>1, StepsField
  <2>b. rows' = [rows EXCEPT ![v] = row]
    BY <2>2
  <2> HIDE DEF row
  <2>3. rows' \in [Ids -> Row]
    BY <2>1, <2>a, <2>b DEF Typed, TypeOK
  <2>4. TypeOK'
    BY <1>4, <2>3, FinishType DEF StoreImageStep, Typed, TypeOK
  <2>5. HandlersInOrder'
    BY <1>4 DEF StoreImageStep, Typed, TypeOK, HandlersInOrder, Finish, Idle, Request
  <2> QED
    BY <2>4, <2>5 DEF Typed
<1> QED
  BY <1>1, <1>2, <1>3, <1>4

LEMMA GovernmentStepType ==
  ASSUME Typed, NEW r \in Requests,
         \/ \E v \in Ids : BeginGovernmentStep(r, v)
         \/ StoreGovernmentStep(r)
  PROVE  Typed'
<1>1. CASE \E v \in Ids : BeginGovernmentStep(r, v)
  <2> PICK v \in Ids : BeginGovernmentStep(r, v)
    BY <1>1
  <2> DEFINE q == [Idle EXCEPT !.id = v, !.steps = rows[v].steps, !.at = "call"]
  <2>1. reqs' = [reqs EXCEPT ![r] = q]
    BY DEF BeginGovernmentStep
  <2>2. q \in Request /\ q.id = v /\ q.at = "call" /\ q.step \notin ImageSteps
    BY IdleType, NoneAssumption DEF Idle, Request, Awaits, Typed, TypeOK, Row
  <2> HIDE DEF q
  <2>3. TypeOK'
    BY <2>1, <2>2 DEF BeginGovernmentStep, Typed, TypeOK
  <2>4. HandlersInOrder'
    BY <2>1, <2>2 DEF BeginGovernmentStep, Typed, TypeOK, HandlersInOrder
  <2> QED
    BY <2>3, <2>4 DEF Typed
<1>2. CASE StoreGovernmentStep(r)
  <2> DEFINE v == reqs[r].id
             steps == IF rows[v].userMeta THEN NoSteps ELSE reqs[r].steps
  <2>1. v \in Ids /\ steps \in StepEntries
    BY <1>2, NoStepsType DEF StoreGovernmentStep, Typed, TypeOK, HandlersInOrder, Request
  <2>2. PICK status \in StepStatuses : rows' = [rows EXCEPT ![v] = [@ EXCEPT !.status = status, !.steps = steps]]
    BY <1>2 DEF StoreGovernmentStep
  <2> HIDE DEF steps
  <2> DEFINE row == [rows[v] EXCEPT !.status = status, !.steps = steps]
  <2>a. row \in Row
    <3>1. rows[v] \in Row /\ status \in LegacyStatuses
      BY <2>1, StepAnswers DEF Typed, TypeOK
    <3> QED
      BY <2>1, <3>1, StepsField
  <2>b. rows' = [rows EXCEPT ![v] = row]
    BY <2>2
  <2> HIDE DEF row
  <2>3. rows' \in [Ids -> Row]
    BY <2>1, <2>a, <2>b DEF Typed, TypeOK
  <2>4. TypeOK'
    BY <1>2, <2>3, FinishType DEF StoreGovernmentStep, Typed, TypeOK
  <2>5. HandlersInOrder'
    BY <1>2 DEF StoreGovernmentStep, Typed, TypeOK, HandlersInOrder, Finish, Idle, Request
  <2> QED
    BY <2>4, <2>5 DEF Typed
<1> QED
  BY <1>1, <1>2

LEMMA FinalizationType ==
  ASSUME Typed, NEW r \in Requests,
         \/ \E v \in Ids, op \in FinalizeOperations : BeginFinalize(r, v, op)
         \/ StoreFinalize(r)
         \/ ReloadFinalized(r)
         \/ FindAccount(r)
         \/ CreditAccount(r)
         \/ LinkAccount(r)
  PROVE  Typed'
<1>1. CASE \E v \in Ids, op \in FinalizeOperations : BeginFinalize(r, v, op)
  <2> PICK v \in Ids, op \in FinalizeOperations : BeginFinalize(r, v, op)
    BY <1>1
  <2>1. TypeOK'
    BY EnterType DEF BeginFinalize, Typed, TypeOK, Awaits
  <2>2. HandlersInOrder'
    BY DEF BeginFinalize, Enter, Idle, Typed, TypeOK, HandlersInOrder, Request
  <2> QED
    BY <2>1, <2>2 DEF Typed
<1>2. CASE StoreFinalize(r)
  <2> DEFINE v == reqs[r].id
  <2>1. v \in Ids
    BY <1>2 DEF StoreFinalize, Typed, HandlersInOrder
  <2>2. PICK status \in FinalStatuses :
          /\ rows' = [rows EXCEPT ![v].status = status]
          /\ Record(v, status)
          /\ IF status = "verified" THEN Move(r, "reload") ELSE Finish(r)
    BY <1>2 DEF StoreFinalize
  <2>3. rows' \in [Ids -> Row]
    BY <2>1, <2>2, FinalAnswers, StatusField DEF Typed, TypeOK
  <2>4. /\ reqs' \in [Requests -> Request]
        /\ decisions' \in [Ids -> SUBSET Positive]
        /\ decisions'[v] = decisions[v] \union ({status} \intersect Positive)
        /\ \A w \in Ids : decisions[w] \subseteq decisions'[w]
    BY <2>1, <2>2, MoveType, FinishType, RecordType DEF Typed, Awaits
  <2>5. TypeOK'
    BY <1>2, <2>3, <2>4 DEF StoreFinalize, Typed, TypeOK, Positive
  <2>6. ASSUME status = "verified" PROVE HandlersInOrder'
    BY <2>1, <2>2, <2>4, <2>6 DEF Typed, TypeOK, HandlersInOrder, Move, Request, Positive
  <2>7. ASSUME status # "verified" PROVE HandlersInOrder'
    BY <2>2, <2>4, <2>7 DEF Typed, TypeOK, HandlersInOrder, Finish, Idle, Request
  <2> QED
    BY <2>5, <2>6, <2>7 DEF Typed
<1>3. CASE ReloadFinalized(r)
  <2>1. reqs[r].id \in Ids
    BY <1>3 DEF ReloadFinalized, Typed, HandlersInOrder
  <2>2. CASE rows[reqs[r].id].status = "verified"
    <3> DEFINE a == rows[reqs[r].id].account
    <3>1. a \in Accounts \union {None}
      BY <2>1 DEF Typed, TypeOK, Row
    <3>2. reqs' = [reqs EXCEPT ![r] = [reqs[r] EXCEPT !.at = "find", !.account = a]]
      BY <1>3, <2>2 DEF ReloadFinalized
    <3> HIDE DEF a
    <3>3. reqs' \in [Requests -> Request]
      BY <3>1, <3>2, ReloadedType DEF Typed, TypeOK, Awaits
    <3>4. TypeOK'
      BY <1>3, <3>3 DEF ReloadFinalized, Typed, TypeOK
    <3>5. HandlersInOrder'
      BY <1>3, <3>2 DEF ReloadFinalized, Typed, TypeOK, HandlersInOrder, Request
    <3> QED
      BY <3>4, <3>5 DEF Typed
  <2>3. CASE rows[reqs[r].id].status # "verified"
    <3>1. TypeOK'
      BY <1>3, <2>3, FinishType DEF ReloadFinalized, Typed, TypeOK
    <3>2. HandlersInOrder'
      BY <1>3, <2>3 DEF ReloadFinalized, Typed, TypeOK, HandlersInOrder, Finish, Idle, Request
    <3> QED
      BY <3>1, <3>2 DEF Typed
  <2> QED
    BY <2>2, <2>3
<1>4. CASE FindAccount(r)
  <2> DEFINE a == Reused(reqs[r].account)
  <2>1. a \in Accounts \union {None}
    BY DEF Typed, TypeOK, Request, Reused
  <2>2. reqs' = [reqs EXCEPT ![r] = [reqs[r] EXCEPT !.at = "credit", !.target = a]]
    BY <1>4 DEF FindAccount
  <2> HIDE DEF a
  <2>3. reqs' \in [Requests -> Request]
    BY <2>1, <2>2, TargetType DEF Typed, TypeOK, Awaits
  <2>4. TypeOK'
    BY <1>4, <2>3 DEF FindAccount, Typed, TypeOK
  <2>5. HandlersInOrder'
    BY <1>4, <2>2 DEF FindAccount, Typed, TypeOK, HandlersInOrder, Request
  <2> QED
    BY <2>4, <2>5 DEF Typed
<1>5. CASE CreditAccount(r)
  <2>1. reqs[r].at = "credit" /\ reqs[r].id \in Ids /\ UNCHANGED decisions
    BY <1>5 DEF CreditAccount, Typed, HandlersInOrder
  <2>2. PICK a \in Accounts :
          /\ accounts' = [accounts EXCEPT ![a] = [status |-> "verified", last |-> reqs[r].id]]
          /\ IF reqs[r].account = a
               THEN Finish(r)
               ELSE reqs' = [reqs EXCEPT ![r] = [reqs[r] EXCEPT !.at = "link", !.target = a]]
    BY <1>5 DEF CreditAccount
  <2>3. accounts' \in [Accounts -> Account]
    BY <2>1, <2>2 DEF Typed, TypeOK, Account
  <2>4. CASE reqs[r].account = a
    <3>1. TypeOK'
      BY <1>5, <2>2, <2>3, <2>4, FinishType DEF CreditAccount, Typed, TypeOK
    <3>2. HandlersInOrder'
      BY <2>1, <2>2, <2>4 DEF Typed, TypeOK, HandlersInOrder, Finish, Idle, Request
    <3> QED
      BY <3>1, <3>2 DEF Typed
  <2>5. CASE reqs[r].account # a
    <3>0. reqs' = [reqs EXCEPT ![r] = [reqs[r] EXCEPT !.at = "link", !.target = a]]
      BY <2>2, <2>5
    <3>1. reqs' \in [Requests -> Request]
      BY <3>0, TargetType DEF Typed, TypeOK, Awaits
    <3>2. TypeOK'
      BY <1>5, <2>3, <3>1 DEF CreditAccount, Typed, TypeOK
    <3>3. HandlersInOrder'
      BY <2>1, <3>0 DEF Typed, TypeOK, HandlersInOrder, Request
    <3> QED
      BY <3>2, <3>3 DEF Typed
  <2> QED
    BY <2>4, <2>5
<1>6. CASE LinkAccount(r)
  <2>1. reqs[r].id \in Ids /\ reqs[r].target \in Accounts
    BY <1>6 DEF LinkAccount, Typed, HandlersInOrder
  <2>2. rows' \in [Ids -> Row]
    BY <1>6, <2>1, AccountField DEF LinkAccount, Typed, TypeOK
  <2>3. TypeOK'
    BY <1>6, <2>2, FinishType DEF LinkAccount, Typed, TypeOK
  <2>4. HandlersInOrder'
    BY <1>6 DEF LinkAccount, Typed, TypeOK, HandlersInOrder, Finish, Idle, Request
  <2> QED
    BY <2>3, <2>4 DEF Typed
<1> QED
  BY <1>1, <1>2, <1>3, <1>4, <1>5, <1>6

LEMMA OverrideType ==
  ASSUME Typed, NEW r \in Requests,
         (\E v \in Ids : BeginOverride(r, v)) \/ StoreOverride(r)
  PROVE  Typed'
<1>1. CASE \E v \in Ids : BeginOverride(r, v)
  <2> PICK v \in Ids : BeginOverride(r, v)
    BY <1>1
  <2>1. TypeOK'
    BY EnterType DEF BeginOverride, Typed, TypeOK, Awaits
  <2>2. HandlersInOrder'
    BY DEF BeginOverride, Enter, Idle, Typed, TypeOK, HandlersInOrder, Request
  <2> QED
    BY <2>1, <2>2 DEF Typed
<1>2. CASE StoreOverride(r)
  <2> DEFINE v == reqs[r].id
  <2>1. v \in Ids
    BY <1>2 DEF StoreOverride, Typed, HandlersInOrder
  <2>2. PICK status \in {"approved", "rejected"} :
          /\ rows' = [rows EXCEPT ![v] = [@ EXCEPT !.status = status, !.overridden = TRUE]]
          /\ Record(v, status)
    BY <1>2 DEF StoreOverride
  <2>3. rows' \in [Ids -> Row]
    <3>1. status \in LegacyStatuses
      BY DEF LegacyStatuses
    <3> QED
      BY <2>1, <2>2, <3>1, OverriddenField DEF Typed, TypeOK
  <2>4. /\ reqs' \in [Requests -> Request]
        /\ decisions' \in [Ids -> SUBSET Positive]
        /\ \A w \in Ids : decisions[w] \subseteq decisions'[w]
    BY <1>2, <2>1, <2>2, FinishType, RecordType DEF StoreOverride, Typed
  <2>5. TypeOK'
    BY <1>2, <2>3, <2>4 DEF StoreOverride, Typed, TypeOK, Positive
  <2>6. HandlersInOrder'
    BY <1>2, <2>4 DEF StoreOverride, Typed, TypeOK, HandlersInOrder, Finish, Idle, Request
  <2> QED
    BY <2>5, <2>6 DEF Typed
<1> QED
  BY <1>1, <1>2

LEMMA UploadType ==
  ASSUME Typed, NEW r \in Requests,
         \/ \E v \in Ids : BeginUpload(r, v)
         \/ MarkProcessing(r)
         \/ StoreAssessment(r)
         \/ AnnounceAssessment(r)
         \/ AssessmentFails(r)
         \/ RejectUpload(r)
  PROVE  Typed'
<1>1. CASE \E v \in Ids : BeginUpload(r, v)
  <2> PICK v \in Ids : BeginUpload(r, v)
    BY <1>1
  <2>1. TypeOK'
    BY EnterType DEF BeginUpload, Typed, TypeOK, Awaits
  <2>2. HandlersInOrder'
    BY DEF BeginUpload, Enter, Idle, Typed, TypeOK, HandlersInOrder, Request
  <2> QED
    BY <2>1, <2>2 DEF Typed
<1>2. CASE MarkProcessing(r)
  <2>1. reqs[r].id \in Ids /\ "processing" \in LegacyStatuses
    BY <1>2 DEF MarkProcessing, Typed, HandlersInOrder, LegacyStatuses
  <2>2. rows' \in [Ids -> Row]
    BY <1>2, <2>1, StatusField DEF MarkProcessing, Typed, TypeOK
  <2>3. TypeOK'
    BY <1>2, <2>2, MoveType DEF MarkProcessing, Typed, TypeOK, Awaits
  <2>4. HandlersInOrder'
    BY <1>2 DEF MarkProcessing, Typed, TypeOK, HandlersInOrder, Move, Request
  <2> QED
    BY <2>3, <2>4 DEF Typed
<1>3. CASE StoreAssessment(r)
  <2> DEFINE v == reqs[r].id
  <2>1. v \in Ids
    BY <1>3 DEF StoreAssessment, Typed, HandlersInOrder
  <2>2. PICK status \in SessionStatuses("Mock") :
          rows' = [rows EXCEPT ![v].status = status] /\ Record(v, status)
    BY <1>3 DEF StoreAssessment
  <2>3. status \in LegacyStatuses
    BY DEF SessionStatuses, LegacyStatuses
  <2>4. rows' \in [Ids -> Row]
    BY <2>1, <2>2, <2>3, StatusField DEF Typed, TypeOK
  <2>5. /\ reqs' \in [Requests -> Request]
        /\ decisions' \in [Ids -> SUBSET Positive]
        /\ \A w \in Ids : decisions[w] \subseteq decisions'[w]
    BY <1>3, <2>1, <2>2, MoveType, RecordType DEF StoreAssessment, Typed, Awaits
  <2>6. TypeOK'
    BY <1>3, <2>4, <2>5 DEF StoreAssessment, Typed, TypeOK, Positive
  <2>7. HandlersInOrder'
    BY <1>3, <2>5 DEF StoreAssessment, Typed, TypeOK, HandlersInOrder, Move, Request
  <2> QED
    BY <2>6, <2>7 DEF Typed
<1>4. CASE AnnounceAssessment(r)
  <2>1. TypeOK'
    BY <1>4, FinishType DEF AnnounceAssessment, Typed, TypeOK
  <2>2. HandlersInOrder'
    BY <1>4 DEF AnnounceAssessment, Typed, TypeOK, HandlersInOrder, Finish, Idle, Request
  <2> QED
    BY <2>1, <2>2 DEF Typed
<1>5. CASE AssessmentFails(r)
  <2>1. TypeOK'
    BY <1>5, MoveType DEF AssessmentFails, Typed, TypeOK, Awaits
  <2>2. HandlersInOrder'
    BY <1>5 DEF AssessmentFails, Typed, TypeOK, HandlersInOrder, Move, Request
  <2> QED
    BY <2>1, <2>2 DEF Typed
<1>6. CASE RejectUpload(r)
  <2>1. reqs[r].id \in Ids /\ "rejected" \in LegacyStatuses
    BY <1>6 DEF RejectUpload, Typed, HandlersInOrder, LegacyStatuses
  <2>2. rows' \in [Ids -> Row]
    BY <1>6, <2>1, StatusField DEF RejectUpload, Typed, TypeOK
  <2>3. TypeOK'
    BY <1>6, <2>2, FinishType DEF RejectUpload, Typed, TypeOK
  <2>4. HandlersInOrder'
    BY <1>6 DEF RejectUpload, Typed, TypeOK, HandlersInOrder, Finish, Idle, Request
  <2> QED
    BY <2>3, <2>4 DEF Typed
<1> QED
  BY <1>1, <1>2, <1>3, <1>4, <1>5, <1>6

\* What an update reads is earned, as long as the accounts are.
LEMMA UpdateAccountType ==
  ASSUME Typed, AccountsAreEarned, NEW r \in Requests,
         (\E a \in Accounts : BeginUpdateAccount(r, a)) \/ StoreUpdatedAccount(r)
  PROVE  Typed'
<1>1. CASE \E a \in Accounts : BeginUpdateAccount(r, a)
  <2> PICK a \in Accounts : BeginUpdateAccount(r, a)
    BY <1>1
  <2> DEFINE q == [Idle EXCEPT !.target = a, !.last = accounts[a].last, !.at = "update"]
  <2>1. reqs' = [reqs EXCEPT ![r] = q]
    BY DEF BeginUpdateAccount
  <2>2. accounts[a].last \in Ids /\ "verified" \in decisions[accounts[a].last]
    BY DEF BeginUpdateAccount, AccountsAreEarned
  <2>3. /\ q \in Request /\ q.at = "update" /\ q.target = a /\ q.last = accounts[a].last
    BY <2>2, IdleType DEF Idle, Request, Awaits
  <2> HIDE DEF q
  <2>4. TypeOK'
    BY <2>1, <2>3 DEF BeginUpdateAccount, Typed, TypeOK
  <2>5. HandlersInOrder'
    BY <2>1, <2>2, <2>3 DEF BeginUpdateAccount, Typed, TypeOK, HandlersInOrder
  <2> QED
    BY <2>4, <2>5 DEF Typed
<1>2. CASE StoreUpdatedAccount(r)
  <2>1. reqs[r].target \in Accounts /\ reqs[r].last \in Ids
    BY <1>2 DEF StoreUpdatedAccount, Typed, HandlersInOrder
  <2>2. accounts' \in [Accounts -> Account]
    BY <1>2, <2>1 DEF StoreUpdatedAccount, Typed, TypeOK, Account
  <2>3. TypeOK'
    BY <1>2, <2>2, FinishType DEF StoreUpdatedAccount, Typed, TypeOK
  <2>4. HandlersInOrder'
    BY <1>2 DEF StoreUpdatedAccount, Typed, TypeOK, HandlersInOrder, Finish, Idle, Request
  <2> QED
    BY <2>3, <2>4 DEF Typed
<1> QED
  BY <1>1, <1>2

LEMMA FailureType ==
  ASSUME Typed, NEW r \in Requests, CallFails(r) \/ DatabaseError(r)
  PROVE  Typed'
<1>1. CASE CallFails(r)
  <2>1. TypeOK'
    BY <1>1, FinishType DEF CallFails, Typed, TypeOK
  <2>2. HandlersInOrder'
    BY <1>1 DEF CallFails, Typed, TypeOK, HandlersInOrder, Finish, Idle, Request
  <2> QED
    BY <2>1, <2>2 DEF Typed
<1>2. CASE DatabaseError(r)
  <2>1. faults' \in 0 .. MaxFaults
    BY <1>2, FaultsAssumption DEF DatabaseError, Typed, TypeOK
  <2>2. /\ \/ Finish(r)
           \/ reqs[r].at \in {"processing", "assess"} /\ Move(r, "reject")
        /\ UNCHANGED <<rows, accounts, files, primary, decisions>>
    BY <1>2 DEF DatabaseError
  <2>3. reqs' \in [Requests -> Request]
    BY <2>2, FinishType, MoveType DEF Typed, Awaits
  <2>4. TypeOK'
    BY <2>1, <2>2, <2>3 DEF Typed, TypeOK
  <2>5. CASE Finish(r)
    BY <2>2, <2>4, <2>5 DEF Typed, TypeOK, HandlersInOrder, Finish, Idle, Request
  <2>6. CASE reqs[r].at \in {"processing", "assess"} /\ Move(r, "reject")
    BY <2>2, <2>4, <2>6 DEF Typed, TypeOK, HandlersInOrder, Move, Request
  <2> QED
    BY <2>2, <2>5, <2>6
<1> QED
  BY <1>1, <1>2

LEMMA EnvironmentType ==
  ASSUME Typed,
         \/ \E a \in Accounts : RemoveAccount(a)
         \/ \E p \in Providers : AssignProvider(p)
         \/ Crash
  PROVE  Typed'
<1>1. CASE \E a \in Accounts : RemoveAccount(a)
  <2> PICK a \in Accounts : RemoveAccount(a)
    BY <1>1
  <2>1. accounts' \in [Accounts -> Account]
    BY DEF RemoveAccount, Typed, TypeOK, Account
  <2>2. ASSUME NEW v \in Ids PROVE [rows[v] EXCEPT !.account = Unlink(v, a)] \in Row
    <3>1. rows[v] \in Row /\ Unlink(v, a) \in Accounts \union {None}
      BY DEF Typed, TypeOK, Row, Unlink
    <3> QED
      BY <3>1, AccountField
  <2>3. rows' \in [Ids -> Row]
    BY <2>2 DEF RemoveAccount
  <2>4. TypeOK'
    BY <2>1, <2>3 DEF RemoveAccount, Typed, TypeOK
  <2>5. HandlersInOrder'
    BY DEF RemoveAccount, Typed, HandlersInOrder
  <2> QED
    BY <2>4, <2>5 DEF Typed
<1>2. CASE \E p \in Providers : AssignProvider(p)
  BY <1>2 DEF AssignProvider, Typed, TypeOK, HandlersInOrder
<1>3. CASE Crash
  <2>1. faults' \in 0 .. MaxFaults
    BY <1>3, FaultsAssumption DEF Crash, Typed, TypeOK
  <2>2. TypeOK'
    BY <1>3, <2>1, IdleType DEF Crash, Typed, TypeOK
  <2>3. HandlersInOrder'
    BY <1>3 DEF Crash, Typed, HandlersInOrder, Idle
  <2> QED
    BY <2>2, <2>3 DEF Typed
<1> QED
  BY <1>1, <1>2, <1>3

LEMMA TypeStep == Typed /\ AccountsAreEarned /\ [Next]_vars => Typed'
<1> SUFFICES ASSUME Typed, AccountsAreEarned, [Next]_vars PROVE Typed'
  OBVIOUS
<1>1. CASE UNCHANGED vars
  BY <1>1 DEF vars, Typed, TypeOK, HandlersInOrder
<1>2. ASSUME NEW r \in Requests, Continue(r) PROVE Typed'
  BY <1>2, StoreSessionType, ImageStepType, GovernmentStepType, FinalizationType, OverrideType,
     UpdateAccountType, UploadType, FailureType DEF Continue
<1>3. ASSUME NEW r \in Requests, NEW v \in Ids, Receive(r, v) PROVE Typed'
  BY <1>3, CreateVerificationType, ImageStepType, GovernmentStepType, FinalizationType,
     OverrideType, UploadType, MetadataAssumption DEF Receive
<1> QED
  BY <1>1, <1>2, <1>3, UpdateAccountType, EnvironmentType DEF Next

-----------------------------------------------------------------------------
(***************************************************************************)
(* Who decides.                                                            *)
(***************************************************************************)

\* The actions that leave the statuses, accounts and decisions alone.
LEMMA QuietStep ==
  ASSUME Typed, PositiveStatusIsDecided, AccountsAreEarned,
         UNCHANGED <<accounts, decisions>>,
         \A v \in Ids : rows'[v].status = rows[v].status
  PROVE  PositiveStatusIsDecided' /\ AccountsAreEarned'
  BY DEF PositiveStatusIsDecided, AccountsAreEarned, AccountExists

\* Decisions are never forgotten, so a step that leaves the accounts alone keeps
\* them earned.
LEMMA EarnedFrame ==
  ASSUME Typed, AccountsAreEarned, UNCHANGED accounts,
         \A w \in Ids : decisions[w] \subseteq decisions'[w]
  PROVE  AccountsAreEarned'
  BY DEF AccountsAreEarned, AccountExists

Decided == PositiveStatusIsDecided /\ AccountsAreEarned

LEMMA DecidedBegin ==
  ASSUME Typed, Decided, NEW r \in Requests, NEW v \in Ids, Receive(r, v)
  PROVE  Decided'
<1>1. CASE \E a \in Accounts \union {None}, m \in UserMetadata : CreateVerification(r, v, a, m)
  <2> PICK a \in Accounts \union {None}, m \in UserMetadata : CreateVerification(r, v, a, m)
    BY <1>1
  <2> DEFINE row == [NoRow EXCEPT !.status = "pending", !.provider = primary,
                                   !.account = a, !.userMeta = m]
  <2>1. rows' = [rows EXCEPT ![v] = row] /\ row.status = "pending"
    BY DEF CreateVerification, NoRow
  <2> HIDE DEF row
  <2>2. PositiveStatusIsDecided'
    BY <2>1 DEF CreateVerification, Decided, PositiveStatusIsDecided, Typed, TypeOK
  <2>3. AccountsAreEarned'
    BY DEF CreateVerification, Decided, AccountsAreEarned, AccountExists
  <2> QED
    BY <2>2, <2>3 DEF Decided
<1>2. CASE UNCHANGED <<rows, accounts, decisions>>
  BY <1>2, QuietStep DEF Decided
<1> QED
  BY <1>1, <1>2 DEF Receive, BeginImageStep, BeginGovernmentStep, BeginFinalize, BeginOverride, BeginUpload

\* The writes of a status: those that may be positive are recorded.
LEMMA DecidedStore ==
  ASSUME Typed, Decided, NEW r \in Requests,
         \/ StoreSession(r) \/ StoreImageStep(r) \/ StoreGovernmentStep(r)
         \/ StoreFinalize(r) \/ StoreOverride(r) \/ MarkProcessing(r)
         \/ StoreAssessment(r) \/ RejectUpload(r)
  PROVE  Decided'
<1> DEFINE v == reqs[r].id
<1>1. v \in Ids
  BY DEF Typed, HandlersInOrder, StoreSession, StoreImageStep, StoreGovernmentStep, StoreFinalize,
         StoreOverride, MarkProcessing, StoreAssessment, RejectUpload
<1>2. UNCHANGED accounts
  BY DEF StoreSession, StoreImageStep, StoreGovernmentStep, StoreFinalize,
         StoreOverride, MarkProcessing, StoreAssessment, RejectUpload
<1>3. PICK status : /\ rows'[v].status = status
                    /\ \A w \in Ids : w # v => rows'[w].status = rows[w].status
                    /\ \/ status \notin Positive /\ UNCHANGED decisions
                       \/ Record(v, status)
  <2>1. CASE StoreSession(r)
    <3>1. PICK status : /\ rows' = [rows EXCEPT ![v] =
                                     [rows[v] EXCEPT !.status = status, !.ext = rows[v].provider]]
                        /\ Record(v, status)
      BY <2>1 DEF StoreSession
    <3> DEFINE row == [rows[v] EXCEPT !.status = status, !.ext = rows[v].provider]
    <3>2. row.status = status
      BY <1>1 DEF Typed, TypeOK, Row
    <3>3. rows' = [rows EXCEPT ![v] = row]
      BY <3>1
    <3> HIDE DEF row
    <3> QED
      BY <1>1, <3>1, <3>2, <3>3 DEF Typed, TypeOK
  <2>2. CASE StoreImageStep(r)
    <3> DEFINE steps == WithStep(reqs[r].steps, reqs[r].step, reqs[r].image)
    <3>1. PICK status \in StepStatuses :
            rows' = [rows EXCEPT ![v] = [rows[v] EXCEPT !.status = status, !.steps = steps]]
      BY <2>2 DEF StoreImageStep
    <3> DEFINE row == [rows[v] EXCEPT !.status = status, !.steps = steps]
    <3>2. row.status = status
      BY <1>1 DEF Typed, TypeOK, Row
    <3>3. rows' = [rows EXCEPT ![v] = row]
      BY <3>1
    <3> HIDE DEF row
    <3> QED
      BY <1>1, <2>2, <3>2, <3>3, StepAnswers DEF StoreImageStep, Typed, TypeOK
  <2>3. CASE StoreGovernmentStep(r)
    <3> DEFINE steps == IF rows[v].userMeta THEN NoSteps ELSE reqs[r].steps
    <3>1. PICK status \in StepStatuses :
            rows' = [rows EXCEPT ![v] = [rows[v] EXCEPT !.status = status, !.steps = steps]]
      BY <2>3 DEF StoreGovernmentStep
    <3> DEFINE row == [rows[v] EXCEPT !.status = status, !.steps = steps]
    <3>2. row.status = status
      BY <1>1 DEF Typed, TypeOK, Row
    <3>3. rows' = [rows EXCEPT ![v] = row]
      BY <3>1
    <3> HIDE DEF row
    <3> QED
      BY <1>1, <2>3, <3>2, <3>3, StepAnswers DEF StoreGovernmentStep, Typed, TypeOK
  <2>4. CASE StoreFinalize(r)
    BY <1>1, <2>4 DEF StoreFinalize, Typed, TypeOK, Row
  <2>5. CASE StoreOverride(r)
    BY <1>1, <2>5 DEF StoreOverride, Typed, TypeOK, Row
  <2>6. CASE MarkProcessing(r)
    BY <1>1, <2>6 DEF MarkProcessing, Typed, TypeOK, Row, Positive
  <2>7. CASE StoreAssessment(r)
    BY <1>1, <2>7 DEF StoreAssessment, Typed, TypeOK, Row
  <2>8. CASE RejectUpload(r)
    BY <1>1, <2>8 DEF RejectUpload, Typed, TypeOK, Row, Positive
  <2> QED
    BY <2>1, <2>2, <2>3, <2>4, <2>5, <2>6, <2>7, <2>8
<1>4. /\ \A w \in Ids : decisions[w] \subseteq decisions'[w]
      /\ status \in Positive => status \in decisions'[v]
  BY <1>1, <1>3, RecordType DEF Typed
<1>5. PositiveStatusIsDecided'
  BY <1>1, <1>3, <1>4 DEF Decided, PositiveStatusIsDecided, Positive
<1>6. AccountsAreEarned'
  BY <1>2, <1>4, EarnedFrame DEF Decided
<1> QED
  BY <1>5, <1>6 DEF Decided

LEMMA DecidedCredit ==
  ASSUME Typed, Decided, NEW r \in Requests, CreditAccount(r)
  PROVE  Decided'
<1>1. reqs[r].id \in Ids /\ "verified" \in decisions[reqs[r].id]
  BY DEF CreditAccount, Typed, HandlersInOrder
<1>2. UNCHANGED <<rows, decisions>>
  BY DEF CreditAccount
<1>3. PICK a \in Accounts : accounts' = [accounts EXCEPT ![a] = [status |-> "verified", last |-> reqs[r].id]]
  BY DEF CreditAccount
<1>4. PositiveStatusIsDecided'
  BY <1>2 DEF Decided, PositiveStatusIsDecided
<1>5. AccountsAreEarned'
  BY <1>1, <1>2, <1>3 DEF Decided, AccountsAreEarned, AccountExists, Typed, TypeOK
<1> QED
  BY <1>4, <1>5 DEF Decided

LEMMA DecidedUpdate ==
  ASSUME Typed, Decided, NEW r \in Requests, StoreUpdatedAccount(r)
  PROVE  Decided'
<1>1. /\ reqs[r].target \in Accounts /\ reqs[r].last \in Ids
      /\ "verified" \in decisions[reqs[r].last]
  BY DEF StoreUpdatedAccount, Typed, HandlersInOrder
<1>2. UNCHANGED <<rows, decisions>>
  BY DEF StoreUpdatedAccount
<1>3. PositiveStatusIsDecided'
  BY <1>2 DEF Decided, PositiveStatusIsDecided
<1>4. AccountsAreEarned'
  BY <1>1, <1>2 DEF StoreUpdatedAccount, Decided, AccountsAreEarned, AccountExists, Typed, TypeOK
<1> QED
  BY <1>3, <1>4 DEF Decided

LEMMA DecidedQuiet ==
  ASSUME Typed, Decided, NEW r \in Requests,
         \/ OpenImage(r) \/ WriteImage(r) \/ ReloadFinalized(r) \/ FindAccount(r) \/ LinkAccount(r)
         \/ AnnounceAssessment(r) \/ AssessmentFails(r) \/ CallFails(r) \/ DatabaseError(r)
  PROVE  Decided'
<1>1. CASE LinkAccount(r)
  BY <1>1, QuietStep DEF LinkAccount, Decided, Typed, TypeOK, Row
<1>2. CASE UNCHANGED <<rows, accounts, decisions>>
  BY <1>2, QuietStep DEF Decided
<1> QED
  BY <1>1, <1>2 DEF OpenImage, WriteImage, ReloadFinalized, FindAccount, AnnounceAssessment, AssessmentFails,
                    CallFails, DatabaseError

LEMMA DecidedEnvironment ==
  ASSUME Typed, Decided,
         \/ \E r \in Requests, a \in Accounts : BeginUpdateAccount(r, a)
         \/ \E a \in Accounts : RemoveAccount(a)
         \/ \E p \in Providers : AssignProvider(p)
         \/ Crash
  PROVE  Decided'
<1>1. CASE \E a \in Accounts : RemoveAccount(a)
  <2> PICK a \in Accounts : RemoveAccount(a)
    BY <1>1
  <2>3. \A v \in Ids : rows'[v] = [rows[v] EXCEPT !.account = Unlink(v, a)] /\ rows[v] \in Row
    BY DEF RemoveAccount, Typed, TypeOK
  <2>4. \A v \in Ids : rows'[v].status = rows[v].status
    BY <2>3 DEF Row
  <2>1. PositiveStatusIsDecided'
    BY <2>4 DEF RemoveAccount, Decided, PositiveStatusIsDecided
  <2>2. AccountsAreEarned'
    BY DEF RemoveAccount, Decided, AccountsAreEarned, AccountExists, Typed, TypeOK
  <2> QED
    BY <2>1, <2>2 DEF Decided
<1>2. CASE UNCHANGED <<rows, accounts, decisions>>
  BY <1>2, QuietStep DEF Decided
<1> QED
  BY <1>1, <1>2 DEF BeginUpdateAccount, AssignProvider, Crash

LEMMA DecidedStep == Typed /\ Decided /\ [Next]_vars => Decided'
<1> SUFFICES ASSUME Typed, Decided, [Next]_vars PROVE Decided'
  OBVIOUS
<1>1. CASE UNCHANGED vars
  BY <1>1, QuietStep DEF vars, Decided
<1>2. ASSUME NEW r \in Requests, Continue(r) PROVE Decided'
  BY <1>2, DecidedStore, DecidedCredit, DecidedUpdate, DecidedQuiet DEF Continue
<1> QED
  BY <1>1, <1>2, DecidedBegin, DecidedEnvironment DEF Next

LEMMA DecidedInit == Init => Decided
  BY DEF Init, Decided, PositiveStatusIsDecided, AccountsAreEarned, AccountExists, NoRow

LEMMA Invariance == Spec => [](Typed /\ Decided)
<1>1. Init => Typed /\ Decided
  BY InitType, DecidedInit DEF Typed
<1>2. Typed /\ Decided /\ [Next]_vars => (Typed /\ Decided)'
  BY TypeStep, DecidedStep DEF Decided
<1> QED
  BY <1>1, <1>2, PTL DEF Spec

\* Every table, file and handler of VerificationsService stays well formed.
THEOREM TypeCorrect == Spec => []TypeOK
<1>1. Typed /\ Decided => TypeOK
  BY DEF Typed
<1> QED
  BY <1>1, Invariance, PTL

\* Every handler stands at an await with what it needs to go on, and none is past
\* the finalize call, or about to save an account as it read it, on the strength
\* of a verification that was not finalized as verified.
THEOREM HandlersStayInOrder == Spec => []HandlersInOrder
<1>1. Typed /\ Decided => HandlersInOrder
  BY DEF Typed
<1> QED
  BY <1>1, Invariance, PTL

\* No step and no stale write makes a positive status up, whatever the number of
\* verifications and of requests in flight.
THEOREM OnlyDecidedPositives == Spec => []PositiveStatusIsDecided
<1>1. Typed /\ Decided => PositiveStatusIsDecided
  BY DEF Decided
<1> QED
  BY <1>1, Invariance, PTL

\* No account is verified but on the strength of a verification that IDmeta
\* finalized as verified.
THEOREM EveryAccountEarned == Spec => []AccountsAreEarned
<1>1. Typed /\ Decided => AccountsAreEarned
  BY DEF Decided
<1> QED
  BY <1>1, Invariance, PTL
=============================================================================
