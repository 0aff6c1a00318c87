------------------------- MODULE VerificationStatus -------------------------
(***************************************************************************)
(* The status algebra of src/common/verification-status.enum.ts: the       *)
(* provider-neutral numeric code that a provider's raw status is           *)
(* normalised to, the "legacy" string that is stored in the verifications  *)
(* table, and the map between them.  IDmetaProvider maps every answer      *)
(* through it, see IDmetaStatus.                                           *)
(*                                                                         *)
(* A raw status is a number, a boolean or a text, or is missing.  Texts    *)
(* are compared by the code after toUpperCase, so one capitalised word     *)
(* stands for all its spellings, and Unrecognised for any other text.      *)
(***************************************************************************)
EXTENDS Integers

REJECTED      == 1
REVIEW_NEEDED == 2
VERIFIED      == 3
INCOMPLETE    == 4
IN_PROGRESS   == 5
FAILED        == 6
PURGED        == 7

\* The values of enum VerificationStatus.
Codes == REJECTED .. PURGED

\* The strings of LegacyVerificationStatus, the domain of verifications.status.
LegacyStatuses == {"pending", "processing", "needs_review", "approved",
                   "verified", "rejected", "expired", "cancelled"}

\* What numericStatusToLegacy can answer: the statuses a provider answer can
\* leave in the database.
StoredStatuses == {"rejected", "needs_review", "verified", "processing", "cancelled"}

(***************************************************************************)
(* Raw provider statuses.                                                  *)
(***************************************************************************)
Unrecognised == "any other text"

\* The groups of words the string branch of normalizeProviderStatus tells apart.
SuccessWords    == {"VERIFIED", "APPROVED", "SUCCESS"}
RejectionWords  == {"REJECTED", "FAILED", "INVALID"}
ReviewWords     == {"REVIEW_NEEDED", "NEEDS_REVIEW", "PENDING_REVIEW"}
IncompleteWords == {"INCOMPLETE", "MISSING_DATA"}
ProgressWords   == {"PROCESSING", "IN_PROGRESS", "PENDING"}
PurgedWords     == {"PURGED", "DELETED", "CANCELLED"}

Words == SuccessWords \union RejectionWords \union ReviewWords
           \union IncompleteWords \union ProgressWords \union PurgedWords

\* A raw status as the JSON answer carries it.
Numeric(n)  == [kind |-> "number", number |-> n, flag |-> FALSE, text |-> Unrecognised]
Boolean(b)  == [kind |-> "boolean", number |-> 0, flag |-> b, text |-> Unrecognised]
Text(w)     == [kind |-> "string", number |-> 0, flag |-> FALSE, text |-> w]
Missing     == [kind |-> "undefined", number |-> 0, flag |-> FALSE, text |-> Unrecognised]

\* One raw status per case of the code; 0 is any number without a case.
RawStatuses == {Numeric(n) : n \in {0, 200, 400, 404} \union Codes}
                 \union {Boolean(b) : b \in BOOLEAN}
                 \union {Text(w) : w \in Words \union {Unrecognised}}
                 \union {Missing}
Messages    == Words \union {Unrecognised}

-----------------------------------------------------------------------------
(***************************************************************************)
(* normalizeProviderStatus                                                 *)
(***************************************************************************)

\* The option isFinalized, as the steps and the finalize calls pass it.
Unfinalized == FALSE
Finalized   == TRUE

\* Variant: without the isFinalized condition any success counts as verified.
EagerSuccess(isFinalized) == VERIFIED

\* A success is only a verification once the provider was asked to finalize.
Success(isFinalized) == IF isFinalized THEN VERIFIED ELSE IN_PROGRESS

NormalizeNumber(n, isFinalized) ==
  CASE n \in {1, 400, 404} -> REJECTED
    [] n = 2               -> REVIEW_NEEDED
    [] n \in {3, 200}      -> Success(isFinalized)
    [] n = 4               -> INCOMPLETE
    [] n = 5               -> IN_PROGRESS
    [] n = 6               -> FAILED
    [] n = 7               -> PURGED
    [] OTHER               -> IN_PROGRESS

\* Only IDmeta's true is asynchronous ("processing, wait for webhook").
NormalizeBoolean(b, provider) ==
  CASE ~b                     -> REJECTED
    [] b /\ provider = "IDmeta" -> IN_PROGRESS
    [] OTHER                  -> VERIFIED

\* The statusMessage is consulted when the status itself decides nothing.
NormalizeMessage(msg, isFinalized) ==
  CASE msg \in {"VERIFIED", "APPROVED"}           -> Success(isFinalized)
    [] msg \in {"REJECTED", "FAILED"}             -> REJECTED
    [] msg \in {"REVIEW_NEEDED", "NEEDS_REVIEW"}  -> REVIEW_NEEDED
    [] OTHER                                      -> IN_PROGRESS

\* The second comparison with FAILED in the code is shadowed by the first.
NormalizeText(w, msg, isFinalized) ==
  CASE w \in SuccessWords    -> Success(isFinalized)
    [] w \in RejectionWords  -> REJECTED
    [] w \in ReviewWords     -> REVIEW_NEEDED
    [] w \in IncompleteWords -> INCOMPLETE
    [] w \in ProgressWords   -> IN_PROGRESS
    [] w \in PurgedWords     -> PURGED
    [] OTHER                 -> NormalizeMessage(msg, isFinalized)

NormalizeProviderStatus(raw, msg, isFinalized, provider) ==
  CASE raw.kind = "number"  -> NormalizeNumber(raw.number, isFinalized)
    [] raw.kind = "boolean" -> NormalizeBoolean(raw.flag, provider)
    [] raw.kind = "string"  -> NormalizeText(raw.text, msg, isFinalized)
    [] OTHER                -> NormalizeMessage(msg, isFinalized)

\* numericStatusToLegacy
NumericToLegacy(code) ==
  CASE code \in {REJECTED, FAILED}        -> "rejected"
    [] code = REVIEW_NEEDED               -> "needs_review"
    [] code = VERIFIED                    -> "verified"
    [] code = PURGED                      -> "cancelled"
    [] OTHER                              -> "processing"

\* What IDmetaProvider stores for an answer: mapStatus, mapPhilsysStatus,
\* mapGovernmentDataStatus, mapBiometricsStatus, and, with isFinalized, the
\* two finalize calls.
IDmetaStatus(raw, msg, isFinalized) ==
  NumericToLegacy(NormalizeProviderStatus(raw, msg, isFinalized, "IDmeta"))

\* verifyDocument rewrites the raw status first: an extraction error or false
\* becomes "rejected", true becomes "completed" and anything that is not a
\* text "processing".
DocumentRaw(raw, extractionError) ==
  CASE extractionError \/ (raw.kind = "boolean" /\ ~raw.flag) -> Text("REJECTED")
    [] raw.kind = "string"                                    -> raw
    [] raw.kind = "boolean" /\ raw.flag                       -> Text(Unrecognised)
    [] OTHER                                                  -> Text("PROCESSING")

DocumentStatus(raw, extractionError) ==
  IDmetaStatus(DocumentRaw(raw, extractionError), Unrecognised, Unfinalized)

(***************************************************************************)
(* What the provider's answers become in the database.                     *)
(***************************************************************************)
DocumentStatuses == {DocumentStatus(raw, err) : raw \in RawStatuses, err \in BOOLEAN}
StepStatuses     == {IDmetaStatus(raw, msg, Unfinalized) : raw \in RawStatuses, msg \in Messages}
                      \union DocumentStatuses
FinalStatuses    == {IDmetaStatus(raw, msg, Finalized) : raw \in RawStatuses, msg \in Messages}
=============================================================================
