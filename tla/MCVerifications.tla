-------------------------- MODULE MCVerifications --------------------------
(***************************************************************************)
(* Model checking of Verifications.  Requests, accounts, verifications and *)
(* images are interchangeable; the step types are not, because only some   *)
(* of them may leave the image out.                                        *)
(***************************************************************************)
EXTENDS Verifications, TLC

Symmetry     == Permutations(Requests) \union Permutations(Accounts) \union Permutations(Ids)
StepSymmetry == Permutations(Requests) \union Permutations(Images)
=============================================================================
