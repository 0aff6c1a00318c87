--------------------------- MODULE AccountLedger ---------------------------
(***************************************************************************)
(* What the rest of the system may rely on about accounts, whatever the    *)
(* handlers of VerificationsService do concurrently: an account is         *)
(* verified only on the strength of a verification that its provider       *)
(* finalized as verified, stays so until it is deleted, and is linked only *)
(* to verifications opened for it or finalized.  Deleting an account       *)
(* unlinks it everywhere.                                                  *)
(***************************************************************************)
CONSTANTS Ids, Accounts, None

VARIABLES
  finalized,   \* verifications the provider finalized as verified
  account,     \* status of each account, and the verification it rests on
  link         \* the account of each verification

ledgerVars == <<finalized, account, link>>

Init ==
  /\ finalized = {}
  /\ account = [a \in Accounts |-> [status |-> "absent", last |-> None]]
  /\ link = [v \in Ids |-> None]

Finalize(v) ==
  /\ finalized' = finalized \union {v}
  /\ UNCHANGED <<account, link>>

Credit(v, a) ==
  /\ v \in finalized
  /\ account' = [account EXCEPT ![a] = [status |-> "verified", last |-> v]]
  /\ UNCHANGED <<finalized, link>>

\* A verification is opened for a known account.
Open(v, a) ==
  /\ account[a].status = "verified"
  /\ link[v] = None
  /\ v \notin finalized
  /\ link' = [link EXCEPT ![v] = a]
  /\ UNCHANGED <<finalized, account>>

Link(v, a) ==
  /\ account[a].status = "verified"
  /\ v \in finalized
  /\ link' = [link EXCEPT ![v] = a]
  /\ UNCHANGED <<finalized, account>>

Delete(a) ==
  /\ account[a].status = "verified"
  /\ account' = [account EXCEPT ![a] = [status |-> "deleted", last |-> None]]
  /\ link' = [v \in Ids |-> IF link[v] = a THEN None ELSE link[v]]
  /\ UNCHANGED finalized

Next ==
  \/ \E v \in Ids : Finalize(v)
  \/ \E v \in Ids, a \in Accounts : Credit(v, a) \/ Open(v, a) \/ Link(v, a)
  \/ \E a \in Accounts : Delete(a)

Spec == Init /\ [][Next]_ledgerVars
=============================================================================
