----------------------------- MODULE MCWebhooks -----------------------------
(***************************************************************************)
(* Model checking of Webhooks: calls, log rows and secrets are             *)
(* interchangeable.                                                        *)
(***************************************************************************)
EXTENDS Webhooks, TLC

Symmetry == Permutations(Hooks) \union Permutations(Logs) \union Permutations(Secrets)
=============================================================================
