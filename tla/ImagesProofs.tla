---------------------------- MODULE ImagesProofs ----------------------------
(***************************************************************************)
(* What the steps record of themselves: a recorded image has a file, and a *)
(* record is lost to a stale write only, for any number of concurrent      *)
(* steps and any failures.                                                 *)
(***************************************************************************)
EXTENDS LedgerProofs

\* The strengthening of RecordedImagesAreStored: a handler may write back the
\* steps it read and the image it wrote at any later time, so their files must
\* be there too.
StepsReadAreStored ==
  \A r \in Requests : reqs[r].at \notin {"idle", "update"} =>
    \A s \in ImageSteps : reqs[r].steps[s] \in Images => files[reqs[r].id][s] # None

ImagesWrittenAreStored ==
  \A r \in Requests :
    reqs[r].at \in {"write", "call"} /\ reqs[r].step \in ImageSteps /\ reqs[r].image \in Images =>
      files[reqs[r].id][reqs[r].step] # None

ImagesBacked == RecordedImagesAreStored /\ StepsReadAreStored /\ ImagesWrittenAreStored

\* Files are replaced, never removed.
FilesStay == \A v \in Ids, s \in ImageSteps : files[v][s] # None => files'[v][s] # None

LEMMA NoStepsRecordNothing ==
  ASSUME NEW s \in ImageSteps
  PROVE  NoSteps[s] = None /\ NoSteps[s] \notin Images
  BY NoneAssumption DEF NoSteps

LEMMA ImagesInit == Init => ImagesBacked
<1> SUFFICES ASSUME Init PROVE ImagesBacked
  OBVIOUS
<1>1. NoRow.steps = NoSteps /\ Idle.at = "idle"
  BY DEF NoRow, Idle
<1> QED
  BY <1>1, NoStepsRecordNothing
     DEF Init, ImagesBacked, RecordedImagesAreStored, StepsReadAreStored, ImagesWrittenAreStored

-----------------------------------------------------------------------------
(***************************************************************************)
(* Frames.                                                                 *)
(***************************************************************************)

\* An action of request r keeps the invariant if what r leaves behind has files.
LEMMA ImagesFrame ==
  ASSUME Typed, ImagesBacked, NEW r \in Requests, FilesStay,
         \A q \in Requests : q # r => reqs'[q] = reqs[q],
         \A v \in Ids, s \in ImageSteps :
           rows'[v].steps = rows[v].steps \/ (rows'[v].steps[s] \in Images => files'[v][s] # None),
         reqs'[r].at \notin {"idle", "update"} =>
           \A s \in ImageSteps : reqs'[r].steps[s] \in Images => files'[reqs'[r].id][s] # None,
         reqs'[r].at \in {"write", "call"} /\ reqs'[r].step \in ImageSteps /\ reqs'[r].image \in Images =>
           files'[reqs'[r].id][reqs'[r].step] # None
  PROVE  ImagesBacked'
<1>1. RecordedImagesAreStored'
  BY DEF ImagesBacked, RecordedImagesAreStored, FilesStay
<1>2. ASSUME NEW q \in Requests, q # r, reqs[q].at \notin {"idle", "update"} PROVE reqs[q].id \in Ids
  BY <1>2 DEF Typed, HandlersInOrder
<1>3. StepsReadAreStored'
  BY <1>2 DEF ImagesBacked, StepsReadAreStored, FilesStay
<1>4. ImagesWrittenAreStored'
  BY <1>2 DEF ImagesBacked, ImagesWrittenAreStored, FilesStay
<1> QED
  BY <1>1, <1>3, <1>4 DEF ImagesBacked

\* The actions between two awaits that neither a step takes to its next one.
LEMMA ImagesQuiet ==
  ASSUME Typed, ImagesBacked, NEW r \in Requests, UNCHANGED files,
         \A q \in Requests : q # r => reqs'[q] = reqs[q],
         \A v \in Ids : rows'[v].steps = rows[v].steps,
         \/ reqs'[r].at = "idle"
         \/ /\ reqs[r].at \notin {"idle", "update"}
            /\ reqs'[r].at \notin {"write", "call"}
            /\ reqs'[r].id = reqs[r].id /\ reqs'[r].steps = reqs[r].steps
  PROVE  ImagesBacked'
<1>1. FilesStay
  BY DEF FilesStay
<1>2. reqs'[r].at \notin {"idle", "update"} =>
        \A s \in ImageSteps : reqs'[r].steps[s] \in Images => files'[reqs'[r].id][s] # None
  BY DEF ImagesBacked, StepsReadAreStored
<1> QED
  BY <1>1, <1>2, ImagesFrame

\* Handlers that are no steps read no steps.
LEMMA ImagesEnter ==
  ASSUME Typed, ImagesBacked, NEW r \in Requests, NEW op, NEW v \in Ids, NEW at,
         Enter(r, op, v, at), at \notin {"write", "call"}, UNCHANGED files,
         \A w \in Ids : rows'[w].steps = rows[w].steps \/ rows'[w].steps = NoSteps
  PROVE  ImagesBacked'
<1> DEFINE q == [Idle EXCEPT !.id = v, !.at = at]
<1>1. reqs' = [reqs EXCEPT ![r] = q] /\ q.at = at /\ q.steps = NoSteps
  BY DEF Enter, Idle
<1> HIDE DEF q
<1>2. reqs'[r] = q /\ \A p \in Requests : p # r => reqs'[p] = reqs[p]
  BY <1>1 DEF Typed, TypeOK
<1>3. FilesStay
  BY DEF FilesStay
<1>4. \A w \in Ids, s \in ImageSteps :
        rows'[w].steps = rows[w].steps \/ (rows'[w].steps[s] \in Images => files'[w][s] # None)
  BY NoStepsRecordNothing
<1> QED
  BY <1>1, <1>2, <1>3, <1>4, NoStepsRecordNothing, ImagesFrame

-----------------------------------------------------------------------------
(***************************************************************************)
(* The steps.                                                              *)
(***************************************************************************)
LEMMA BeginImages ==
  ASSUME Typed, ImagesBacked, NEW r \in Requests, NEW v \in Ids,
         \/ BeginGovernmentStep(r, v)
         \/ \E s \in ImageSteps, image \in Images \union {NoImage} : BeginImageStep(r, v, s, image)
  PROVE  ImagesBacked'
<1>1. PICK q : /\ reqs' = [reqs EXCEPT ![r] = q]
               /\ q.id = v /\ q.steps = rows[v].steps
               /\ q.at = "save" \/ (q.at = "call" /\ q.image \notin Images)
  <2>1. CASE BeginGovernmentStep(r, v)
    <3> DEFINE q == [Idle EXCEPT !.id = v, !.steps = rows[v].steps, !.at = "call"]
    <3>1. q.id = v /\ q.steps = rows[v].steps /\ q.at = "call" /\ q.image = None
      BY DEF Idle
    <3>2. reqs' = [reqs EXCEPT ![r] = q]
      BY <2>1 DEF BeginGovernmentStep
    <3> HIDE DEF q
    <3> QED
      BY <3>1, <3>2, NoneAssumption
  <2>2. CASE \E s \in ImageSteps, image \in Images \union {NoImage} : BeginImageStep(r, v, s, image)
    <3> PICK s \in ImageSteps, image \in Images \union {NoImage} : BeginImageStep(r, v, s, image)
      BY <2>2
    <3> DEFINE q == [Idle EXCEPT !.id = v, !.step = s, !.image = image, !.steps = rows[v].steps,
                                 !.at = FirstAwait(image)]
    <3>1. q.id = v /\ q.steps = rows[v].steps /\ q.at = FirstAwait(image) /\ q.image = image
      BY DEF Idle
    <3>2. reqs' = [reqs EXCEPT ![r] = q]
      BY DEF BeginImageStep
    <3> HIDE DEF q
    <3> QED
      BY <3>1, <3>2, NoImageAssumption DEF FirstAwait
  <2> QED
    BY <2>1, <2>2
<1>2. reqs'[r] = q /\ \A p \in Requests : p # r => reqs'[p] = reqs[p]
  BY <1>1 DEF Typed, TypeOK
<1>3. UNCHANGED <<files, rows>>
  BY DEF BeginGovernmentStep, BeginImageStep
<1>4. FilesStay
  BY <1>3 DEF FilesStay
<1>5. \A s \in ImageSteps : q.steps[s] \in Images => files'[v][s] # None
  BY <1>1, <1>3 DEF ImagesBacked, RecordedImagesAreStored
<1> QED
  BY <1>1, <1>2, <1>3, <1>4, <1>5, ImagesFrame

LEMMA SaveImages ==
  ASSUME Typed, ImagesBacked, NEW r \in Requests, OpenImage(r) \/ WriteImage(r)
  PROVE  ImagesBacked'
<1>1. reqs[r].id \in Ids /\ reqs[r].step \in ImageSteps /\ reqs[r].image \in Images
        /\ reqs[r].at \notin {"idle", "update"}
  BY DEF OpenImage, WriteImage, Typed, HandlersInOrder
<1>2. PICK content \in Images \union {Truncated} :
        files' = [files EXCEPT ![reqs[r].id][reqs[r].step] = content]
  BY <1>1 DEF OpenImage, WriteImage
<1>3. content # None
  BY NoneAssumption, TruncatedAssumption
<1>4. FilesStay /\ files'[reqs[r].id][reqs[r].step] # None
  BY <1>1, <1>2, <1>3 DEF FilesStay, Typed, TypeOK
<1>5. PICK at : Move(r, at)
  BY DEF OpenImage, WriteImage
<1>6. /\ reqs'[r].id = reqs[r].id /\ reqs'[r].steps = reqs[r].steps
      /\ reqs'[r].step = reqs[r].step /\ reqs'[r].image = reqs[r].image
      /\ \A q \in Requests : q # r => reqs'[q] = reqs[q]
  BY <1>5 DEF Move, Typed, TypeOK, Request
<1>7. \A s \in ImageSteps : reqs[r].steps[s] \in Images => files'[reqs[r].id][s] # None
  BY <1>1, <1>4 DEF ImagesBacked, StepsReadAreStored, FilesStay
<1>8. UNCHANGED rows
  BY DEF OpenImage, WriteImage
<1> QED
  BY <1>4, <1>6, <1>7, <1>8, ImagesFrame

\* The steps that a step writes back are those it read, and its own.
LEMMA StepsWritten ==
  ASSUME Typed, NEW r \in Requests, StoreImageStep(r) \/ StoreGovernmentStep(r)
  PROVE  \E steps : /\ rows'[reqs[r].id].steps = steps
                    /\ \A w \in Ids : w # reqs[r].id => rows'[w] = rows[w]
                    /\ \/ /\ StoreImageStep(r)
                          /\ steps = WithStep(reqs[r].steps, reqs[r].step, reqs[r].image)
                       \/ /\ StoreGovernmentStep(r)
                          /\ \/ steps = NoSteps /\ rows[reqs[r].id].userMeta
                             \/ steps = reqs[r].steps
<1> DEFINE v == reqs[r].id
<1>1. v \in Ids
  BY DEF StoreImageStep, StoreGovernmentStep, Typed, HandlersInOrder
<1>2. PICK status, steps :
         /\ rows' = [rows EXCEPT ![v] = [rows[v] EXCEPT !.status = status, !.steps = steps]]
         /\ \/ /\ StoreImageStep(r)
               /\ steps = WithStep(reqs[r].steps, reqs[r].step, reqs[r].image)
            \/ /\ StoreGovernmentStep(r)
               /\ \/ steps = NoSteps /\ rows[v].userMeta
                  \/ steps = reqs[r].steps
  BY DEF StoreImageStep, StoreGovernmentStep
<1> DEFINE row == [rows[v] EXCEPT !.status = status, !.steps = steps]
<1>3. row.steps = steps /\ rows' = [rows EXCEPT ![v] = row]
  BY <1>1, <1>2 DEF Typed, TypeOK, Row
<1> HIDE DEF row
<1>4. rows'[v] = row /\ \A w \in Ids : w # v => rows'[w] = rows[w]
  BY <1>1, <1>3 DEF Typed, TypeOK
<1> QED
  BY <1>2, <1>3, <1>4

LEMMA StoreImages ==
  ASSUME Typed, ImagesBacked, NEW r \in Requests, StoreImageStep(r) \/ StoreGovernmentStep(r)
  PROVE  ImagesBacked'
<1> DEFINE v == reqs[r].id
<1>1. v \in Ids /\ reqs[r].at = "call" /\ UNCHANGED files /\ Finish(r)
  BY DEF StoreImageStep, StoreGovernmentStep, Typed, HandlersInOrder
<1>2. PICK steps : /\ rows'[v].steps = steps
                   /\ \A w \in Ids : w # v => rows'[w] = rows[w]
                   /\ \/ /\ StoreImageStep(r)
                         /\ steps = WithStep(reqs[r].steps, reqs[r].step, reqs[r].image)
                      \/ steps = NoSteps
                      \/ steps = reqs[r].steps
  BY StepsWritten
<1>3. ASSUME NEW s \in ImageSteps, steps[s] \in Images PROVE files[v][s] # None
  <2>1. \A x \in ImageSteps : reqs[r].steps[x] \in Images => files[v][x] # None
    BY <1>1 DEF ImagesBacked, StepsReadAreStored
  <2>2. CASE StoreImageStep(r) /\ steps = WithStep(reqs[r].steps, reqs[r].step, reqs[r].image)
    <3>1. reqs[r].step \in ImageSteps /\ reqs[r].steps \in [ImageSteps -> Images \union {None, NoImage}]
      BY <2>2 DEF StoreImageStep, Typed, TypeOK, Request, StepEntries
    <3>2. steps[s] = IF s = reqs[r].step THEN reqs[r].image ELSE reqs[r].steps[s]
      BY <2>2, <3>1 DEF WithStep
    <3>3. reqs[r].image \in Images => files[v][reqs[r].step] # None
      BY <1>1, <3>1 DEF ImagesBacked, ImagesWrittenAreStored
    <3> QED
      BY <1>3, <2>1, <3>2, <3>3
  <2>3. CASE steps = NoSteps
    BY <1>3, <2>3, NoStepsRecordNothing
  <2> QED
    BY <1>2, <1>3, <2>1, <2>2, <2>3
<1>4. reqs'[r].at = "idle" /\ \A q \in Requests : q # r => reqs'[q] = reqs[q]
  BY <1>1 DEF Finish, Idle, Typed, TypeOK
<1>5. FilesStay
  BY <1>1 DEF FilesStay
<1>6. \A w \in Ids, s \in ImageSteps :
        rows'[w].steps = rows[w].steps \/ (rows'[w].steps[s] \in Images => files'[w][s] # None)
  BY <1>1, <1>2, <1>3
<1> QED
  BY <1>4, <1>5, <1>6, ImagesFrame

-----------------------------------------------------------------------------
(***************************************************************************)
(* Everything else leaves the steps of existing rows alone.                *)
(***************************************************************************)

\* A handler that is at none of a step's awaits, and goes on to none.
LEMMA QuietMove ==
  ASSUME Typed, NEW r \in Requests, NEW at, at \notin {"write", "call"},
         Finish(r) \/ (reqs[r].at \notin {"idle", "update"} /\ Move(r, at))
  PROVE  /\ \A q \in Requests : q # r => reqs'[q] = reqs[q]
         /\ \/ reqs'[r].at = "idle"
            \/ /\ reqs[r].at \notin {"idle", "update"}
               /\ reqs'[r].at \notin {"write", "call"}
               /\ reqs'[r].id = reqs[r].id /\ reqs'[r].steps = reqs[r].steps
  BY DEF Finish, Move, Idle, Typed, TypeOK, Request

\* The actions of a handler other than the steps' own.
Others(r) ==
  \/ StoreSession(r) \/ StoreFinalize(r) \/ ReloadFinalized(r) \/ FindAccount(r)
  \/ CreditAccount(r) \/ LinkAccount(r) \/ StoreOverride(r) \/ MarkProcessing(r)
  \/ StoreAssessment(r) \/ AnnounceAssessment(r) \/ AssessmentFails(r) \/ RejectUpload(r)
  \/ StoreUpdatedAccount(r) \/ CallFails(r) \/ DatabaseError(r)

LEMMA OthersKeepSteps ==
  ASSUME Typed, NEW r \in Requests, Others(r)
  PROVE  /\ \A v \in Ids : rows'[v].steps = rows[v].steps
         /\ UNCHANGED files
<1>1. UNCHANGED files
  BY DEF Others, StoreSession, StoreFinalize, ReloadFinalized, FindAccount, CreditAccount, LinkAccount,
         StoreOverride, MarkProcessing, StoreAssessment, AnnounceAssessment, AssessmentFails,
         RejectUpload, StoreUpdatedAccount, CallFails, DatabaseError
<1>2. \/ UNCHANGED rows
      \/ reqs[r].id \in Ids
  BY DEF Others, StoreSession, StoreFinalize, ReloadFinalized, FindAccount, CreditAccount, LinkAccount,
         StoreOverride, MarkProcessing, StoreAssessment, AnnounceAssessment, AssessmentFails,
         RejectUpload, StoreUpdatedAccount, CallFails, DatabaseError, Typed, HandlersInOrder
<1> DEFINE v == reqs[r].id
<1>3. CASE UNCHANGED rows
  BY <1>1, <1>3
<1>4. ASSUME NEW row, row.steps = rows[v].steps, rows' = [rows EXCEPT ![v] = row]
      PROVE  \A w \in Ids : rows'[w].steps = rows[w].steps
  BY <1>2, <1>4 DEF Typed, TypeOK
<1>5. CASE StoreSession(r)
  <2>1. PICK status \in SessionStatuses(rows[v].provider) :
          rows' = [rows EXCEPT ![v] = [rows[v] EXCEPT !.status = status, !.ext = rows[v].provider]]
    BY <1>5 DEF StoreSession
  <2>2. [rows[v] EXCEPT !.status = status, !.ext = rows[v].provider].steps = rows[v].steps
    BY <1>2 DEF Typed, TypeOK, Row
  <2> QED
    BY <1>1, <1>4, <2>1, <2>2
<1>6. CASE StoreOverride(r)
  <2>1. PICK status \in {"approved", "rejected"} :
          rows' = [rows EXCEPT ![v] = [rows[v] EXCEPT !.status = status, !.overridden = TRUE]]
    BY <1>6 DEF StoreOverride
  <2>2. [rows[v] EXCEPT !.status = status, !.overridden = TRUE].steps = rows[v].steps
    BY <1>2 DEF Typed, TypeOK, Row
  <2> QED
    BY <1>1, <1>4, <2>1, <2>2
<1>7. CASE StoreFinalize(r) \/ MarkProcessing(r) \/ StoreAssessment(r) \/ RejectUpload(r)
  <2>1. PICK status : rows' = [rows EXCEPT ![v].status = status]
    BY <1>7 DEF StoreFinalize, MarkProcessing, StoreAssessment, RejectUpload
  <2> QED
    BY <1>1, <1>2, <2>1 DEF Typed, TypeOK, Row
<1>8. CASE LinkAccount(r)
  BY <1>1, <1>2, <1>8 DEF LinkAccount, Typed, TypeOK, Row
<1> QED
  BY <1>3, <1>5, <1>6, <1>7, <1>8
     DEF Others, ReloadFinalized, FindAccount, CreditAccount, AnnounceAssessment, AssessmentFails,
         StoreUpdatedAccount, CallFails, DatabaseError

LEMMA OthersMove ==
  ASSUME Typed, NEW r \in Requests, Others(r)
  PROVE  /\ \A q \in Requests : q # r => reqs'[q] = reqs[q]
         /\ \/ reqs'[r].at = "idle"
            \/ /\ reqs[r].at \notin {"idle", "update"}
               /\ reqs'[r].at \notin {"write", "call"}
               /\ reqs'[r].id = reqs[r].id /\ reqs'[r].steps = reqs[r].steps
<1>1. CASE Finish(r) \/ \E at : /\ at \notin {"write", "call"}
                                /\ reqs[r].at \notin {"idle", "update"} /\ Move(r, at)
  BY <1>1, QuietMove
<1>2. CASE /\ reqs[r].at \notin {"idle", "update"}
           /\ \E at \in {"find", "credit", "link"}, a \in Accounts \union {None} :
                \/ reqs' = [reqs EXCEPT ![r] = [@ EXCEPT !.at = at, !.account = a]]
                \/ reqs' = [reqs EXCEPT ![r] = [@ EXCEPT !.at = at, !.target = a]]
  <2>1. PICK at \in {"find", "credit", "link"}, a \in Accounts \union {None} :
             \/ reqs' = [reqs EXCEPT ![r] = [@ EXCEPT !.at = at, !.account = a]]
             \/ reqs' = [reqs EXCEPT ![r] = [@ EXCEPT !.at = at, !.target = a]]
    BY <1>2
  <2>2. PICK q : reqs' = [reqs EXCEPT ![r] = q] /\ q.at = at /\ q.id = reqs[r].id /\ q.steps = reqs[r].steps
    <3>1. CASE reqs' = [reqs EXCEPT ![r] = [@ EXCEPT !.at = at, !.account = a]]
      <4> DEFINE q == [reqs[r] EXCEPT !.at = at, !.account = a]
      <4>1. reqs' = [reqs EXCEPT ![r] = q] /\ q.at = at /\ q.id = reqs[r].id /\ q.steps = reqs[r].steps
        BY <3>1 DEF Typed, TypeOK, Request
      <4> QED
        BY <4>1
    <3>2. CASE reqs' = [reqs EXCEPT ![r] = [@ EXCEPT !.at = at, !.target = a]]
      <4> DEFINE q == [reqs[r] EXCEPT !.at = at, !.target = a]
      <4>1. reqs' = [reqs EXCEPT ![r] = q] /\ q.at = at /\ q.id = reqs[r].id /\ q.steps = reqs[r].steps
        BY <3>2 DEF Typed, TypeOK, Request
      <4> QED
        BY <4>1
    <3> QED
      BY <2>1, <3>1, <3>2
  <2> QED
    BY <1>2, <2>2 DEF Typed, TypeOK
<1>3. CASE ReloadFinalized(r) \/ FindAccount(r) \/ CreditAccount(r)
  <2>1. reqs[r].at \notin {"idle", "update"} => rows[reqs[r].id].account \in Accounts \union {None}
    BY DEF Typed, TypeOK, Row, HandlersInOrder
  <2>2. Reused(reqs[r].account) \in Accounts \union {None}
    BY DEF Typed, TypeOK, Request, Reused
  <2> QED
    BY <1>1, <1>2, <1>3, <2>1, <2>2 DEF ReloadFinalized, FindAccount, CreditAccount
<1>4. CASE \/ StoreSession(r) \/ StoreFinalize(r) \/ LinkAccount(r) \/ StoreOverride(r) \/ MarkProcessing(r)
           \/ StoreAssessment(r) \/ AnnounceAssessment(r) \/ AssessmentFails(r) \/ RejectUpload(r)
           \/ StoreUpdatedAccount(r) \/ CallFails(r) \/ DatabaseError(r)
  BY <1>1, <1>4
     DEF StoreSession, StoreFinalize, LinkAccount, StoreOverride, MarkProcessing, StoreAssessment,
         AnnounceAssessment, AssessmentFails, RejectUpload, StoreUpdatedAccount, CallFails, DatabaseError
<1> QED
  BY <1>3, <1>4 DEF Others

\* A created row starts without steps; entering a handler writes none.
LEMMA ReceiveImages ==
  ASSUME Typed, ImagesBacked, NEW r \in Requests, NEW v \in Ids, Receive(r, v)
  PROVE  ImagesBacked'
<1>1. CASE \E a \in Accounts \union {None}, m \in UserMetadata : CreateVerification(r, v, a, m)
  <2> PICK a \in Accounts \union {None}, m \in UserMetadata : CreateVerification(r, v, a, m)
    BY <1>1
  <2> DEFINE row == [NoRow EXCEPT !.status = "pending", !.provider = primary,
                                   !.account = a, !.userMeta = m]
  <2>1. rows' = [rows EXCEPT ![v] = row] /\ row.steps = NoSteps
    BY DEF CreateVerification, NoRow
  <2> HIDE DEF row
  <2>2. \A w \in Ids : rows'[w].steps = rows[w].steps \/ rows'[w].steps = NoSteps
    BY <2>1 DEF Typed, TypeOK
  <2>3. Enter(r, "createVerification", v, "session") /\ UNCHANGED files
    BY DEF CreateVerification
  <2> QED
    BY <2>2, <2>3, ImagesEnter
<1>2. CASE (\E op \in FinalizeOperations : BeginFinalize(r, v, op)) \/ BeginOverride(r, v) \/ BeginUpload(r, v)
  <2>1. PICK op, at : Enter(r, op, v, at) /\ at \notin {"write", "call"}
    BY <1>2 DEF BeginFinalize, BeginOverride, BeginUpload
  <2>2. UNCHANGED <<rows, files>>
    BY <1>2 DEF BeginFinalize, BeginOverride, BeginUpload
  <2> QED
    BY <2>1, <2>2, ImagesEnter
<1> QED
  BY <1>1, <1>2, BeginImages DEF Receive

LEMMA RemoveKeepsSteps ==
  ASSUME Typed, NEW a \in Accounts, RemoveAccount(a)
  PROVE  \A v \in Ids : rows'[v].steps = rows[v].steps
  BY DEF RemoveAccount, Typed, TypeOK, Row

LEMMA ImagesStep == Typed /\ ImagesBacked /\ [Next]_vars => ImagesBacked'
<1> SUFFICES ASSUME Typed, ImagesBacked, [Next]_vars PROVE ImagesBacked'
  OBVIOUS
<1>1. CASE UNCHANGED vars
  BY <1>1 DEF vars, ImagesBacked, RecordedImagesAreStored, StepsReadAreStored, ImagesWrittenAreStored
<1>2. ASSUME NEW r \in Requests, Others(r) PROVE ImagesBacked'
  BY <1>2, OthersKeepSteps, OthersMove, ImagesQuiet
<1>3. ASSUME NEW r \in Requests, OpenImage(r) \/ WriteImage(r) \/ StoreImageStep(r) \/ StoreGovernmentStep(r)
      PROVE  ImagesBacked'
  BY <1>3, SaveImages, StoreImages
<1>4. ASSUME NEW r \in Requests, NEW v \in Ids, Receive(r, v) PROVE ImagesBacked'
  BY <1>4, ReceiveImages
<1>5. ASSUME NEW a \in Accounts, RemoveAccount(a) PROVE ImagesBacked'
  <2>1. UNCHANGED <<files, reqs>>
    BY <1>5 DEF RemoveAccount
  <2> QED
    BY <1>5, <2>1, RemoveKeepsSteps
       DEF ImagesBacked, RecordedImagesAreStored, StepsReadAreStored, ImagesWrittenAreStored
<1>6. ASSUME NEW r \in Requests, NEW a \in Accounts, BeginUpdateAccount(r, a) PROVE ImagesBacked'
  <2>1. reqs'[r].at = "update" /\ \A q \in Requests : q # r => reqs'[q] = reqs[q]
    BY <1>6 DEF BeginUpdateAccount, Idle, Typed, TypeOK
  <2>2. UNCHANGED <<rows, files>> /\ FilesStay
    BY <1>6 DEF BeginUpdateAccount, FilesStay
  <2> QED
    BY <2>1, <2>2, ImagesFrame
<1>7. CASE \E p \in Providers : AssignProvider(p)
  BY <1>7 DEF AssignProvider, ImagesBacked, RecordedImagesAreStored, StepsReadAreStored,
              ImagesWrittenAreStored
<1>8. CASE Crash
  <2>1. \A r \in Requests : reqs'[r].at = "idle"
    BY <1>8 DEF Crash, Idle
  <2> QED
    BY <1>8, <2>1 DEF Crash, ImagesBacked, RecordedImagesAreStored, StepsReadAreStored,
                      ImagesWrittenAreStored
<1> QED
  BY <1>1, <1>2, <1>3, <1>4, <1>5, <1>6, <1>7, <1>8 DEF Next, Continue, Others

\* The URL of a recorded image never dangles, whatever steps run at once, write
\* back what they read long ago, fail or are cut off by a crash.
THEOREM RecordedImagesHaveFiles == Spec => []RecordedImagesAreStored
<1>1. Init => ImagesBacked
  BY ImagesInit
<1>2. Typed /\ Decided /\ ImagesBacked /\ [Next]_vars => ImagesBacked'
  BY ImagesStep
<1>3. ImagesBacked => RecordedImagesAreStored
  BY DEF ImagesBacked
<1> QED
  BY <1>1, <1>2, <1>3, Invariance, PTL DEF Spec

-----------------------------------------------------------------------------
(***************************************************************************)
(* What a step can lose.                                                   *)
(***************************************************************************)
LEMMA LossStep ==
  ASSUME Typed, Present, Next, NEW v \in Ids, NEW s \in ImageSteps,
         rows[v].steps[s] # None, rows'[v].steps[s] = None
  PROVE  \E r \in Requests :
           /\ reqs[r].id = v /\ reqs[r].at = "call" /\ reqs'[r].at = "idle"
           /\ reqs[r].steps # rows[v].steps \/ (reqs[r].step = None /\ rows[v].userMeta)
<1>1. rows'[v].steps # rows[v].steps
  OBVIOUS
<1>2. Exists(v)
  <2>1. NoRow.steps = NoSteps
    BY DEF NoRow
  <2> QED
    BY <2>1, NoStepsRecordNothing DEF Present
<1>3. ASSUME NEW r \in Requests, OpenImage(r) \/ WriteImage(r) PROVE FALSE
  BY <1>1, <1>3 DEF OpenImage, WriteImage
<1>4. ASSUME NEW r \in Requests, NEW w \in Ids, Receive(r, w) PROVE FALSE
  BY <1>1, <1>2, <1>4, ReceiveEffect
<1>5. PICK r \in Requests : StoreImageStep(r) \/ StoreGovernmentStep(r)
  BY <1>1, <1>3, <1>4, OthersKeepSteps, RemoveKeepsSteps
     DEF Next, Continue, Others, BeginUpdateAccount, AssignProvider, Crash
<1>6. PICK steps : /\ rows'[reqs[r].id].steps = steps
                   /\ \A w \in Ids : w # reqs[r].id => rows'[w] = rows[w]
                   /\ \/ /\ StoreImageStep(r)
                         /\ steps = WithStep(reqs[r].steps, reqs[r].step, reqs[r].image)
                      \/ /\ StoreGovernmentStep(r)
                         /\ \/ steps = NoSteps /\ rows[reqs[r].id].userMeta
                            \/ steps = reqs[r].steps
  BY <1>5, StepsWritten
<1>7. reqs[r].id = v /\ steps[s] = None
  BY <1>1, <1>6
<1>8. reqs[r].at = "call" /\ reqs'[r].at = "idle"
  <2>1. reqs[r].at = "call" /\ Finish(r)
    BY <1>5 DEF StoreImageStep, StoreGovernmentStep
  <2> QED
    BY <2>1 DEF Finish, Idle, Typed, TypeOK
<1>9. CASE StoreImageStep(r) /\ steps = WithStep(reqs[r].steps, reqs[r].step, reqs[r].image)
  <2>1. reqs[r].step \in ImageSteps /\ reqs[r].steps \in [ImageSteps -> Images \union {None, NoImage}]
    BY <1>9 DEF StoreImageStep, Typed, TypeOK, Request, StepEntries
  <2>2. steps[s] = IF s = reqs[r].step THEN reqs[r].image ELSE reqs[r].steps[s]
    BY <1>9, <2>1 DEF WithStep
  <2>3. reqs[r].image # None
    BY <1>8, <2>1, NoneAssumption DEF Typed, HandlersInOrder
  <2> QED
    BY <1>7, <1>8, <2>2, <2>3
<1>10. CASE StoreGovernmentStep(r) /\ steps = NoSteps /\ rows[reqs[r].id].userMeta
  BY <1>7, <1>8, <1>10 DEF StoreGovernmentStep
<1>11. CASE steps = reqs[r].steps
  BY <1>7, <1>8, <1>11
<1> QED
  BY <1>6, <1>9, <1>10, <1>11

\* Concurrent steps overwrite each other's records, but nothing else loses one:
\* no finalization, override, upload or removal of an account, and no step that
\* read the steps the row still holds.
THEOREM StepsAreLostOnlyToStaleWrites == Spec => StepsLostOnlyByStaleWrite
<1> DEFINE Lost ==
      \A v \in Ids, s \in ImageSteps :
        rows[v].steps[s] # None /\ rows'[v].steps[s] = None =>
          \E r \in Requests :
            /\ reqs[r].id = v /\ reqs[r].at = "call" /\ reqs'[r].at = "idle"
            /\ reqs[r].steps # rows[v].steps \/ (reqs[r].step = None /\ rows[v].userMeta)
<1>1. Init => Present
  BY PresentInit
<1>2. Typed /\ Decided /\ Present /\ [Next]_vars => Present'
  BY PresentStep
<1>3. Typed /\ Present /\ [Next]_vars => [Lost]_vars
  BY LossStep
<1> QED
  BY <1>1, <1>2, <1>3, Invariance, PTL DEF Spec, StepsLostOnlyByStaleWrite
=============================================================================
